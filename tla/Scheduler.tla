------------------------------ MODULE Scheduler ------------------------------
(***************************************************************************)
(* The job runner (scheduler/scheduler.go) on several replicas, with the   *)
(* Postgres leader lock (internal/platform/db/locker.go): ticks and manual *)
(* RunOnce calls, single flight within a replica, one run of a singleton   *)
(* across replicas, and the drain at shutdown. On SQLite the lock is a     *)
(* NoopLocker, which always grants: a singleton runs as any other job.     *)
(*                                                                         *)
(* A call is one invocation of runEntry. What a job does while it runs,    *)
(* its fan-out over tenants included, is one stretch that ends with nil,   *)
(* an error or a recovered panic; the runner tells these apart only in     *)
(* logs and metrics.                                                       *)
(***************************************************************************)
EXTENDS Integers, FiniteSets

CONSTANTS
  Replicas,    \* processes with a Runner
  Jobs,        \* registered jobs
  Singletons,  \* those with Job.Singleton
  Manual,      \* concurrent callers of RunOnce in one process
  Tick,        \* the caller that is the job's own loop
  NoHolder     \* a lock nobody holds

ASSUME SchedulerAssumption ==
  /\ Singletons \subseteq Jobs
  /\ Tick \notin Manual
  /\ IsFiniteSet(Jobs) /\ IsFiniteSet(Manual)
  /\ NoHolder \notin Replicas

Callers == Manual \cup {Tick}
Calls == Replicas \X Jobs \X Callers

VARIABLES
  locked,    \* the jobs under a lock: the singletons, if the database is Postgres
  pc,        \* pc[c]: where call c is in runEntry
  inFlight,  \* inFlight[r][j]: the jobEntry's flag
  wg,        \* wg[r]: the WaitGroup of the calls Shutdown waits for
  holder,    \* holder[j]: the replica whose session has j's advisory lock
  pooled,    \* the jobs whose lock is on a session that went back to the pool
  looping,   \* looping[r]: the jobs whose loop goroutine has not returned
  phase,     \* phase[r]: where Run is
  lost       \* history: the calls whose lock Postgres has taken away

vars == <<locked, pc, inFlight, wg, holder, pooled, looping, phase, lost>>

\* "reserved": counted in the WaitGroup; "flying": has the inFlight flag;
\* "running": inside Job.Run; "ran": Run has returned; "landing": the lock is
\* released, the flag not yet; "landed": the flag is cleared, wg.Done is next.
Steps == {"idle", "reserved", "flying", "running", "ran", "landing", "landed"}

\* "waiting": ctx is cancelled and Run is in loops.Wait; "draining": Shutdown
\* is in wg.Wait; "drained" and "gave_up": what Shutdown has returned.
Phases == {"up", "waiting", "draining", "drained", "gave_up"}

Replica(c) == c[1]
Job(c) == c[2]
CallsOf(r) == {c \in Calls : Replica(c) = r}

Init ==
  /\ locked \in {Singletons, {}}
  /\ pc = [c \in Calls |-> "idle"]
  /\ inFlight = [r \in Replicas |-> [j \in Jobs |-> FALSE]]
  /\ wg = [r \in Replicas |-> 0]
  /\ holder = [j \in Jobs |-> NoHolder]
  /\ pooled = {}
  /\ looping = [r \in Replicas |-> Jobs]
  /\ phase = [r \in Replicas |-> "up"]
  /\ lost = {}

Goes(c, step) == pc' = [pc EXCEPT ![c] = step]

\* r.draining.
Draining(r) == phase[r] \notin {"up", "waiting"}

-----------------------------------------------------------------------------
(* A call *)

\* Mutant: the reservation does not look at draining.
ReserveAlways(c) ==
  /\ pc[c] = "idle"
  /\ c[3] = Tick => Job(c) \in looping[Replica(c)]
  /\ Goes(c, "reserved")
  /\ wg' = [wg EXCEPT ![Replica(c)] = @ + 1]
  /\ UNCHANGED <<locked, inFlight, holder, pooled, looping, phase, lost>>

\* A tick of the job's loop, or RunOnce: refused once the runner drains. A
\* timer that has fired may win the select against a cancelled ctx.
Reserve(c) ==
  /\ pc[c] = "idle"
  /\ c[3] = Tick => Job(c) \in looping[Replica(c)]
  /\ ~Draining(Replica(c))
  /\ Goes(c, "reserved")
  /\ wg' = [wg EXCEPT ![Replica(c)] = @ + 1]
  /\ UNCHANGED <<locked, inFlight, holder, pooled, looping, phase, lost>>

\* Mutant: the flag is set, and not compared.
FlyOver(c) ==
  /\ pc[c] = "reserved"
  /\ Goes(c, "flying")
  /\ inFlight' = [inFlight EXCEPT ![Replica(c)][Job(c)] = TRUE]
  /\ UNCHANGED <<locked, wg, holder, pooled, looping, phase, lost>>

\* inFlight.CompareAndSwap; a call that overlaps another ends.
Fly(c) ==
  /\ pc[c] = "reserved"
  /\ IF inFlight[Replica(c)][Job(c)]
     THEN Goes(c, "landed") /\ UNCHANGED inFlight
     ELSE Goes(c, "flying") /\ inFlight' = [inFlight EXCEPT ![Replica(c)][Job(c)] = TRUE]
  /\ UNCHANGED <<locked, wg, holder, pooled, looping, phase, lost>>

\* Mutant: a busy lock is taken for a granted one.
LockGrantedAnyway(c) == UNCHANGED holder

\* pg_try_advisory_lock on a session of its own. A session that has the lock
\* already gets it once more, if the pool gives it out again.
LockGranted(c) ==
  /\ \/ holder[Job(c)] = NoHolder
     \/ holder[Job(c)] = Replica(c) /\ Job(c) \in pooled
  /\ holder' = [holder EXCEPT ![Job(c)] = Replica(c)]

\* A job that is no singleton runs at once; a singleton runs with the lock.
\* The lock may be taken, or taking it may fail: the call then ends. It may
\* fail after the grant, when ctx, the caller's or the loop's, ends before the
\* answer is scanned: TryLock then closes the conn, which gives the session
\* and its lock to the pool.
Lead(c) ==
  /\ pc[c] = "flying"
  /\ \/ Job(c) \notin locked /\ Goes(c, "running") /\ UNCHANGED <<holder, pooled>>
     \/ Job(c) \in locked /\ Goes(c, "running") /\ LockGranted(c) /\ UNCHANGED pooled
     \/ Job(c) \in locked /\ Goes(c, "landing") /\ UNCHANGED <<holder, pooled>>
     \/ /\ Job(c) \in locked /\ Goes(c, "landing") /\ LockGranted(c)
        /\ c[3] = Tick => phase[Replica(c)] # "up"
        /\ pooled' = pooled \cup {Job(c)}
  /\ UNCHANGED <<locked, inFlight, wg, looping, phase, lost>>

\* Run returns or panics; callGuarded recovers.
Return(c) ==
  /\ pc[c] = "running"
  /\ Goes(c, "ran")
  /\ UNCHANGED <<locked, inFlight, wg, holder, pooled, looping, phase, lost>>

\* Mutant: the unlock runs on the job's ctx. When that has ended it fails, and
\* the session goes back to the pool with the lock.
UnlockedWithCtx(c) ==
  holder' \in {holder, [holder EXCEPT ![Job(c)] = NoHolder]} /\ UNCHANGED pooled

\* release: unlocks on a detached ctx, or discards the session and with it
\* the lock. A session that had the lock before keeps it after one unlock.
Unlocked(c) ==
  IF holder[Job(c)] # Replica(c) THEN UNCHANGED <<holder, pooled>>
  ELSE \/ holder' = [holder EXCEPT ![Job(c)] = NoHolder] /\ pooled' = pooled \ {Job(c)}
       \/ Job(c) \in pooled /\ UNCHANGED <<holder, pooled>>

Release(c) ==
  /\ pc[c] = "ran"
  /\ Goes(c, "landing")
  /\ IF Job(c) \in locked THEN Unlocked(c) ELSE UNCHANGED <<holder, pooled>>
  /\ lost' = lost \ {c}
  /\ UNCHANGED <<locked, inFlight, wg, looping, phase>>

Land(c) ==
  /\ pc[c] = "landing"
  /\ Goes(c, "landed")
  /\ inFlight' = [inFlight EXCEPT ![Replica(c)][Job(c)] = FALSE]
  /\ UNCHANGED <<locked, wg, holder, pooled, looping, phase, lost>>

\* wg.Done.
Done(c) ==
  /\ pc[c] = "landed"
  /\ Goes(c, "idle")
  /\ wg' = [wg EXCEPT ![Replica(c)] = @ - 1]
  /\ UNCHANGED <<locked, inFlight, holder, pooled, looping, phase, lost>>

-----------------------------------------------------------------------------
(* Run and Shutdown *)

Cancel(r) ==
  /\ phase[r] = "up"
  /\ phase' = [phase EXCEPT ![r] = "waiting"]
  /\ UNCHANGED <<locked, pc, inFlight, wg, holder, pooled, looping, lost>>

\* Mutant: the loop watches nothing but its timer.
LoopReturnsNever(r, j) == FALSE /\ j \in looping[r] /\ UNCHANGED vars

\* A loop sees the cancelled ctx between two runs.
LoopReturns(r, j) ==
  /\ phase[r] = "waiting"
  /\ j \in looping[r]
  /\ pc[<<r, j, Tick>>] = "idle"
  /\ looping' = [looping EXCEPT ![r] = @ \ {j}]
  /\ UNCHANGED <<locked, pc, inFlight, wg, holder, pooled, phase, lost>>

\* loops.Wait returns and Shutdown sets draining.
Drain(r) ==
  /\ phase[r] = "waiting"
  /\ looping[r] = {}
  /\ phase' = [phase EXCEPT ![r] = "draining"]
  /\ UNCHANGED <<locked, pc, inFlight, wg, holder, pooled, looping, lost>>

\* wg.Wait returns.
Drained(r) ==
  /\ phase[r] = "draining"
  /\ wg[r] = 0
  /\ phase' = [phase EXCEPT ![r] = "drained"]
  /\ UNCHANGED <<locked, pc, inFlight, wg, holder, pooled, looping, lost>>

\* ShutdownGrace ends first; calls in flight go on until the process exits.
GiveUp(r) ==
  /\ phase[r] = "draining"
  /\ phase' = [phase EXCEPT ![r] = "gave_up"]
  /\ UNCHANGED <<locked, pc, inFlight, wg, holder, pooled, looping, lost>>

\* The process ends, its sessions with it, and a new one starts.
Restart(r) ==
  /\ pc' = [c \in Calls |-> IF c \in CallsOf(r) THEN "idle" ELSE pc[c]]
  /\ inFlight' = [inFlight EXCEPT ![r] = [j \in Jobs |-> FALSE]]
  /\ wg' = [wg EXCEPT ![r] = 0]
  /\ holder' = [j \in Jobs |-> IF holder[j] = r THEN NoHolder ELSE holder[j]]
  /\ pooled' = {j \in pooled : holder[j] # r}
  /\ looping' = [looping EXCEPT ![r] = Jobs]
  /\ phase' = [phase EXCEPT ![r] = "up"]
  /\ lost' = lost \ CallsOf(r)
  /\ UNCHANGED locked

InBody(c) == pc[c] \in {"running", "ran"}

\* Postgres, or the pool's limits, end the session of a lock; nothing watches
\* it, so the call that took the lock does not notice.
LoseSession(j) ==
  /\ holder[j] # NoHolder
  /\ holder' = [holder EXCEPT ![j] = NoHolder]
  /\ pooled' = pooled \ {j}
  /\ lost' = lost \cup {c \in CallsOf(holder[j]) : Job(c) = j /\ InBody(c)}
  /\ UNCHANGED <<locked, pc, inFlight, wg, looping, phase>>

-----------------------------------------------------------------------------

Ends(c) == Fly(c) \/ Lead(c) \/ Release(c) \/ Land(c) \/ Done(c)

Shutdown(r) ==
  \/ \E j \in Jobs : LoopReturns(r, j)
  \/ Drain(r)
  \/ Drained(r)
  \/ GiveUp(r)

Next ==
  \/ \E c \in Calls : Reserve(c) \/ Ends(c) \/ Return(c)
  \/ \E r \in Replicas : Cancel(r) \/ Shutdown(r) \/ Restart(r)
  \/ \E j \in Jobs : LoseSession(j)

Safety == Init /\ [][Next]_vars

(***************************************************************************)
(* The runner takes its own steps; a job returns once its ctx has ended,   *)
(* by its Timeout or by the shutdown; and a cancelled loop does not find   *)
(* its timer fired first every time.                                       *)
(***************************************************************************)
Fairness ==
  /\ \A c \in Calls : WF_vars(Ends(c)) /\ WF_vars(Return(c))
  /\ \A r \in Replicas :
       /\ \A j \in Jobs : SF_vars(LoopReturns(r, j))
       /\ WF_vars(Drain(r)) /\ WF_vars(Drained(r) \/ GiveUp(r))

Spec == Safety /\ Fairness

-----------------------------------------------------------------------------
(* Properties *)

\* Every variable keeps the shape the runner's fields have; the WaitGroup,
\* which panics below zero, counts at most every call.
TypeOK ==
  /\ locked \subseteq Jobs
  /\ pc \in [Calls -> Steps]
  /\ inFlight \in [Replicas -> [Jobs -> BOOLEAN]]
  /\ wg \in [Replicas -> 0..Cardinality(Jobs \X Callers)]
  /\ holder \in [Jobs -> Replicas \cup {NoHolder}]
  /\ pooled \subseteq Jobs
  /\ looping \in [Replicas -> SUBSET Jobs]
  /\ phase \in [Replicas -> Phases]
  /\ lost \subseteq Calls

\* No two calls of a job are inside it at once in one process, whatever mix
\* of ticks and manual runs and whether or not its lock still holds
\* (scheduler.go runEntry).
SingleFlight ==
  \A c, d \in Calls :
    (c # d /\ Replica(c) = Replica(d) /\ Job(c) = Job(d)) => ~(InBody(c) /\ InBody(d))

\* Two calls are inside a locked job at once only if Postgres has taken the
\* lock of one of them away (provider.go Locker: "serializes a Singleton Job
\* across processes"). Shutdowns, restarts and failed unlocks never do it.
SingletonRunsOnce ==
  \A c, d \in Calls :
    (c # d /\ Job(c) = Job(d) /\ Job(c) \in locked /\ InBody(c) /\ InBody(d))
      => c \in lost \/ d \in lost

\* A lock is held only for a call that is inside the job: no call that ran,
\* however it ended, leaves the lock behind to keep the job from every replica
\* for ever (locker.go release). The one way to leave it is a TryLock whose ctx
\* ended between the grant and the scan of it.
NoLockLeftBehind ==
  \A j \in Jobs : holder[j] # NoHolder =>
    j \in pooled \/ \E c \in CallsOf(holder[j]) : Job(c) = j /\ InBody(c)

\* Once Shutdown has returned nil, nothing runs in the process: no call slips
\* in behind the drain (scheduler.go reserve).
DrainedIsQuiet == \A r \in Replicas : phase[r] = "drained" => \A c \in CallsOf(r) : pc[c] = "idle"

\* After its ctx is cancelled, Run returns (scheduler.go Run: "blocks until ctx
\* is canceled, then drains within ShutdownGrace"), unless the process is
\* restarted first. The grace bounds manual runs only: loops.Wait comes before
\* it, so this needs ticked jobs that return once their ctx has ended.
RunReturns ==
  \A r \in Replicas : phase[r] = "waiting" ~> phase[r] \in {"drained", "gave_up", "up"}
=============================================================================
