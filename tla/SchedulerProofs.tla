--------------------------- MODULE SchedulerProofs ---------------------------
(***************************************************************************)
(* Proofs about Scheduler for every number of replicas, jobs and callers.  *)
(* A call between its CompareAndSwap and its deferred Store has the flag    *)
(* (Flagged), so it is alone (Alone); a call inside a locked job whose      *)
(* session lives is the lock's holder (LockHeld), and the lock has such a   *)
(* call as its reason, or is on a pooled session (HolderRuns); the          *)
(* WaitGroup counts the calls that are under way (Counted).                 *)
(***************************************************************************)
EXTENDS Scheduler, FiniteSetTheorems, TLAPS

\* The variables' shapes; the bound on wg follows from Counted.
Shapes ==
  /\ locked \subseteq Jobs
  /\ pc \in [Calls -> Steps]
  /\ inFlight \in [Replicas -> [Jobs -> BOOLEAN]]
  /\ wg \in [Replicas -> Int]
  /\ holder \in [Jobs -> Replicas \cup {NoHolder}]
  /\ pooled \subseteq Jobs
  /\ looping \in [Replicas -> SUBSET Jobs]
  /\ phase \in [Replicas -> Phases]
  /\ lost \subseteq Calls

Aloft(c) == pc[c] \in {"flying", "running", "ran", "landing"}

Flagged == \A c \in Calls : Aloft(c) => inFlight[Replica(c)][Job(c)]

Alone ==
  \A c, d \in Calls :
    (c # d /\ Replica(c) = Replica(d) /\ Job(c) = Job(d)) => ~(Aloft(c) /\ Aloft(d))

LockHeld ==
  \A c \in Calls : (InBody(c) /\ Job(c) \in locked /\ c \notin lost) => holder[Job(c)] = Replica(c)

HolderRuns ==
  \A j \in Jobs : holder[j] # NoHolder =>
    j \in locked /\ (j \in pooled \/ \E c \in CallsOf(holder[j]) : Job(c) = j /\ InBody(c))

FlightInv == Shapes /\ Flagged /\ Alone /\ LockHeld /\ HolderRuns

\* A call names a replica and a job.
LEMMA CallShape ==
  ASSUME NEW c \in Calls
  PROVE  Replica(c) \in Replicas /\ Job(c) \in Jobs
  BY DEF Calls, Replica, Job

\* The initial state satisfies the invariant of flights and locks.
LEMMA FlightInit == Init => FlightInv
  <1> SUFFICES ASSUME Init PROVE FlightInv
    OBVIOUS
  <1>1. Shapes
    BY SchedulerAssumption DEF Init, Shapes, Steps, Phases
  <1>2. Flagged /\ Alone /\ LockHeld /\ HolderRuns
    BY DEF Init, Flagged, Alone, LockHeld, HolderRuns, Aloft, InBody
  <1> QED BY <1>1, <1>2 DEF FlightInv

\* A call that takes the flag found nobody in flight.
LEMMA FlightCall ==
  ASSUME FlightInv, NEW c \in Calls, Reserve(c) \/ Ends(c) \/ Return(c)
  PROVE  FlightInv'
  <1> USE CallShape DEF FlightInv
  <1>1. CASE Reserve(c) \/ Done(c)
    <2>1. /\ \E s \in {"reserved", "idle"} : pc' = [pc EXCEPT ![c] = s]
          /\ wg' \in [Replicas -> Int]
          /\ UNCHANGED <<locked, inFlight, holder, pooled, looping, phase, lost>>
          /\ ~InBody(c)
      BY <1>1 DEF Reserve, Done, Goes, Shapes, InBody
    <2>2. /\ \A d \in Calls : Aloft(d)' => Aloft(d)
          /\ \A d \in Calls : InBody(d)' <=> InBody(d)
      BY <2>1 DEF Aloft, InBody, Shapes
    <2> QED BY <2>1, <2>2 DEF Shapes, Steps, Flagged, Alone, LockHeld, HolderRuns, CallsOf
  <1>2. CASE Fly(c)
    <2>1. /\ pc' = [pc EXCEPT ![c] = IF inFlight[Replica(c)][Job(c)] THEN "landed" ELSE "flying"]
          /\ pc[c] = "reserved"
          /\ UNCHANGED <<locked, wg, holder, pooled, looping, phase, lost>>
          /\ inFlight' \in {inFlight, [inFlight EXCEPT ![Replica(c)][Job(c)] = TRUE]}
      BY <1>2 DEF Fly, Goes
    <2>2. \A d \in Calls : InBody(d)' <=> InBody(d)
      BY <2>1 DEF InBody, Shapes
    <2>3. Shapes'
      <3>1. [inFlight EXCEPT ![Replica(c)][Job(c)] = TRUE] \in [Replicas -> [Jobs -> BOOLEAN]]
        BY DEF Shapes
      <3>2. inFlight' \in [Replicas -> [Jobs -> BOOLEAN]]
        BY <2>1, <3>1 DEF Shapes
      <3> QED BY <2>1, <3>2 DEF Shapes, Steps
    <2>4. LockHeld' /\ HolderRuns'
      BY <2>1, <2>2 DEF LockHeld, HolderRuns, CallsOf
    <2>5. CASE inFlight[Replica(c)][Job(c)]
      <3>1. UNCHANGED inFlight /\ \A d \in Calls : Aloft(d)' => Aloft(d)
        BY <1>2, <2>1, <2>5 DEF Fly, Aloft, Shapes
      <3> QED BY <2>3, <2>4, <3>1 DEF Flagged, Alone
    <2>6. CASE ~inFlight[Replica(c)][Job(c)]
      <3>1. inFlight' = [inFlight EXCEPT ![Replica(c)][Job(c)] = TRUE]
        BY <1>2, <2>6 DEF Fly
      <3>2. \A d \in Calls : (d # c /\ Aloft(d)') => Aloft(d)
        BY <2>1 DEF Aloft, Shapes
      <3>3. \A d \in Calls : (Replica(d) = Replica(c) /\ Job(d) = Job(c)) => ~Aloft(d)
        BY <2>6 DEF Flagged
      <3>4. Flagged'
        <4> SUFFICES ASSUME NEW d \in Calls, Aloft(d)' PROVE inFlight'[Replica(d)][Job(d)]
          BY DEF Flagged
        <4>1. d = c \/ inFlight[Replica(d)][Job(d)]
          BY <3>2 DEF Flagged
        <4> QED BY <3>1, <4>1 DEF Shapes
      <3>5. Alone'
        BY <3>2, <3>3 DEF Alone
      <3> QED BY <2>3, <2>4, <3>4, <3>5
    <2> QED BY <2>5, <2>6
  <1>3. CASE Lead(c)
    <2>1. /\ pc[c] = "flying"
          /\ \E s \in {"running", "landing"} : pc' = [pc EXCEPT ![c] = s]
          /\ UNCHANGED <<locked, inFlight, wg, looping, phase, lost>>
          /\ holder' \in [Jobs -> Replicas \cup {NoHolder}]
          /\ pooled' \subseteq Jobs
      BY <1>3 DEF Lead, Goes, LockGranted, Shapes
    <2>2. Shapes'
      BY <2>1 DEF Shapes, Steps
    <2>3. \A d \in Calls : Aloft(d)' <=> Aloft(d)
      BY <2>1 DEF Aloft, Shapes
    <2>4. Flagged' /\ Alone'
      BY <2>1, <2>3 DEF Flagged, Alone
    <2>5. CASE UNCHANGED <<holder, pooled>> /\ (Job(c) \notin locked \/ pc' = [pc EXCEPT ![c] = "landing"])
      <3>1. /\ \A d \in Calls : d # c => (InBody(d)' <=> InBody(d))
            /\ ~InBody(c)
            /\ InBody(c)' => Job(c) \notin locked
        BY <2>1, <2>5 DEF InBody, Shapes
      <3>2. LockHeld'
        BY <2>1, <2>5, <3>1 DEF LockHeld
      <3>3. HolderRuns'
        BY <2>1, <2>5, <3>1 DEF HolderRuns, CallsOf
      <3> QED BY <2>2, <2>4, <3>2, <3>3
    <2>6. CASE /\ Job(c) \in locked /\ LockGranted(c)
               /\ \/ pc' = [pc EXCEPT ![c] = "running"] /\ UNCHANGED pooled
                  \/ pc' = [pc EXCEPT ![c] = "landing"] /\ pooled' = pooled \cup {Job(c)}
      <3>1. /\ \A d \in Calls : d # c => (InBody(d)' <=> InBody(d))
            /\ InBody(c)' \/ Job(c) \in pooled'
            /\ pooled \subseteq pooled' /\ ~InBody(c) /\ Aloft(c)
        BY <2>1, <2>6 DEF InBody, Aloft, Shapes
      <3>2. /\ holder[Job(c)] \in {NoHolder, Replica(c)}
            /\ holder' = [holder EXCEPT ![Job(c)] = Replica(c)]
        BY <2>6 DEF LockGranted
      <3>3. LockHeld'
        <4> SUFFICES ASSUME NEW d \in Calls, InBody(d)', Job(d) \in locked, d \notin lost
                     PROVE  holder'[Job(d)] = Replica(d)
          BY <2>1 DEF LockHeld
        <4>1. CASE d = c
          BY <4>1, <3>2 DEF Shapes
        <4>2. CASE d # c
          <5>1. holder[Job(d)] = Replica(d)
            BY <4>2, <3>1 DEF LockHeld
          <5>2. Job(d) # Job(c)
            <6>1. Aloft(d)
              BY <4>2, <3>1 DEF InBody, Aloft
            <6> QED BY <4>2, <5>1, <3>1, <3>2, <6>1, SchedulerAssumption DEF Alone
          <5> QED BY <5>1, <5>2, <3>2 DEF Shapes
        <4> QED BY <4>1, <4>2
      <3>4. HolderRuns'
        <4> SUFFICES ASSUME NEW j \in Jobs, holder'[j] # NoHolder
                     PROVE  j \in locked /\ (j \in pooled' \/ \E d \in CallsOf(holder'[j]) : Job(d) = j /\ InBody(d)')
          BY <2>1 DEF HolderRuns, CallsOf
        <4>1. CASE j = Job(c)
          BY <4>1, <2>6, <3>1, <3>2 DEF Shapes, CallsOf
        <4>2. CASE j # Job(c)
          <5>1. holder'[j] = holder[j]
            BY <4>2, <3>2 DEF Shapes
          <5>2. j \in locked /\ (j \in pooled \/ \E d \in CallsOf(holder[j]) : Job(d) = j /\ InBody(d))
            BY <5>1 DEF HolderRuns
          <5> QED BY <4>2, <3>1, <5>1, <5>2 DEF CallsOf
        <4> QED BY <4>1, <4>2
      <3> QED BY <2>2, <2>4, <3>3, <3>4
    <2> QED BY <1>3, <2>5, <2>6 DEF Lead, Goes
  <1>4. CASE Return(c)
    <2>1. /\ pc' = [pc EXCEPT ![c] = "ran"] /\ pc[c] = "running"
          /\ UNCHANGED <<locked, inFlight, wg, holder, pooled, looping, phase, lost>>
      BY <1>4 DEF Return, Goes
    <2>2. \A d \in Calls : (Aloft(d)' <=> Aloft(d)) /\ (InBody(d)' <=> InBody(d))
      BY <2>1 DEF Aloft, InBody, Shapes
    <2> QED BY <2>1, <2>2 DEF Shapes, Steps, Flagged, Alone, LockHeld, HolderRuns, CallsOf
  <1>5. CASE Release(c)
    <2>1. /\ pc' = [pc EXCEPT ![c] = "landing"] /\ pc[c] = "ran"
          /\ UNCHANGED <<locked, inFlight, wg, looping, phase>>
          /\ lost' = lost \ {c}
          /\ \/ /\ Job(c) \in locked => holder[Job(c)] # Replica(c) \/ Job(c) \in pooled
                /\ UNCHANGED <<holder, pooled>>
             \/ /\ holder[Job(c)] = Replica(c)
                /\ holder' = [holder EXCEPT ![Job(c)] = NoHolder] /\ pooled' = pooled \ {Job(c)}
      BY <1>5 DEF Release, Goes, Unlocked
    <2>2. /\ \A d \in Calls : Aloft(d)' <=> Aloft(d)
          /\ \A d \in Calls : InBody(d)' <=> (InBody(d) /\ d # c)
          /\ InBody(c) /\ Aloft(c)
      BY <2>1 DEF Aloft, InBody, Shapes
    <2>3. Shapes' /\ Flagged' /\ Alone'
      BY <2>1, <2>2 DEF Shapes, Steps, Flagged, Alone
    <2>4. \A d \in Calls : (d # c /\ InBody(d) /\ Job(d) = Job(c)) => Replica(d) # Replica(c)
      BY <2>2 DEF Alone, Aloft, InBody
    <2>5. LockHeld'
      BY <2>1, <2>2, <2>4 DEF LockHeld, Shapes
    <2>6. HolderRuns'
      <3> SUFFICES ASSUME NEW j \in Jobs, holder'[j] # NoHolder
                   PROVE  j \in locked /\ (j \in pooled' \/ \E d \in CallsOf(holder'[j]) : Job(d) = j /\ InBody(d)')
        BY <2>1 DEF HolderRuns, CallsOf
      <3>1. holder'[j] = holder[j] /\ (j \in pooled => j \in pooled')
        BY <2>1 DEF Shapes
      <3>2. j \in locked
        BY <3>1 DEF HolderRuns
      <3>3. CASE j \notin pooled
        <4>1. PICK d \in CallsOf(holder[j]) : Job(d) = j /\ InBody(d)
          BY <3>1, <3>3 DEF HolderRuns
        <4>2. d # c
          BY <2>1, <3>1, <3>2, <3>3, <4>1 DEF CallsOf, Shapes
        <4> QED BY <2>2, <3>1, <3>2, <4>1, <4>2 DEF CallsOf
      <3> QED BY <3>1, <3>2, <3>3
    <2> QED BY <2>3, <2>5, <2>6
  <1>6. CASE Land(c)
    <2>1. /\ pc' = [pc EXCEPT ![c] = "landed"] /\ pc[c] = "landing"
          /\ UNCHANGED <<locked, wg, holder, pooled, looping, phase, lost>>
          /\ inFlight' = [inFlight EXCEPT ![Replica(c)][Job(c)] = FALSE]
      BY <1>6 DEF Land, Goes
    <2>2. /\ \A d \in Calls : Aloft(d)' <=> (Aloft(d) /\ d # c)
          /\ \A d \in Calls : InBody(d)' <=> InBody(d)
          /\ Aloft(c)
      BY <2>1 DEF Aloft, InBody, Shapes
    <2>3. Shapes' /\ Alone' /\ LockHeld' /\ HolderRuns'
      BY <2>1, <2>2 DEF Shapes, Steps, Alone, LockHeld, HolderRuns, CallsOf
    <2>4. Flagged'
      <3> SUFFICES ASSUME NEW d \in Calls, Aloft(d)' PROVE inFlight'[Replica(d)][Job(d)]
        BY DEF Flagged
      <3>1. Aloft(d) /\ d # c
        BY <2>2
      <3>2. inFlight[Replica(d)][Job(d)]
        BY <3>1 DEF Flagged
      <3>3. Replica(d) # Replica(c) \/ Job(d) # Job(c)
        BY <2>2, <3>1 DEF Alone
      <3> QED BY <2>1, <3>2, <3>3 DEF Shapes
    <2> QED BY <2>3, <2>4
  <1> QED BY <1>1, <1>2, <1>3, <1>4, <1>5, <1>6 DEF Ends

\* Cancelling, draining, restarting and losing sessions set no flag and take
\* no lock; a restart clears what its process had.
LEMMA FlightProcess ==
  ASSUME FlightInv, NEW r \in Replicas, Cancel(r) \/ Shutdown(r) \/ Restart(r)
  PROVE  FlightInv'
  <1> USE CallShape DEF FlightInv
  <1>1. CASE Cancel(r) \/ Shutdown(r)
    <2>1. /\ UNCHANGED <<locked, pc, inFlight, wg, holder, pooled, lost>>
          /\ looping' \in [Replicas -> SUBSET Jobs]
          /\ phase' \in [Replicas -> Phases]
      BY <1>1 DEF Cancel, Shutdown, LoopReturns, Drain, Drained, GiveUp, Shapes, Phases
    <2> QED BY <2>1 DEF Shapes, Flagged, Alone, LockHeld, HolderRuns, Aloft, InBody, CallsOf
  <1>2. CASE Restart(r)
    <2>1. /\ \A c \in Calls : pc'[c] = IF Replica(c) = r THEN "idle" ELSE pc[c]
          /\ \A c \in Calls : c \in lost' <=> (c \in lost /\ Replica(c) # r)
          /\ \A j \in Jobs : holder'[j] = IF holder[j] = r THEN NoHolder ELSE holder[j]
          /\ \A j \in Jobs : j \in pooled' <=> (j \in pooled /\ holder[j] # r)
          /\ \A q \in Replicas \ {r} : inFlight'[q] = inFlight[q]
          /\ UNCHANGED locked
      BY <1>2 DEF Restart, CallsOf, Shapes
    <2>2. Shapes'
      BY <1>2 DEF Restart, Shapes, Steps, Phases
    <2>3. \A c \in Calls : /\ Aloft(c)' <=> (Aloft(c) /\ Replica(c) # r)
                           /\ InBody(c)' <=> (InBody(c) /\ Replica(c) # r)
      BY <2>1 DEF Aloft, InBody
    <2>4. Flagged' /\ Alone'
      BY <2>1, <2>3 DEF Flagged, Alone
    <2>5. LockHeld'
      BY <2>1, <2>3 DEF LockHeld
    <2>6. HolderRuns'
      BY <2>1, <2>3, SchedulerAssumption DEF HolderRuns, CallsOf
    <2> QED BY <2>2, <2>4, <2>5, <2>6
  <1> QED BY <1>1, <1>2

\* Every call inside the job of a lost session is recorded as such.
LEMMA FlightSession ==
  ASSUME FlightInv, NEW j \in Jobs, LoseSession(j)
  PROVE  FlightInv'
  <1> USE CallShape DEF FlightInv
  <1>1. /\ holder[j] # NoHolder
        /\ holder' = [holder EXCEPT ![j] = NoHolder]
        /\ pooled' = pooled \ {j}
        /\ lost' = lost \cup {c \in CallsOf(holder[j]) : Job(c) = j /\ InBody(c)}
        /\ UNCHANGED <<locked, pc, inFlight, wg, looping, phase>>
    BY DEF LoseSession
  <1>2. Shapes'
    BY <1>1 DEF Shapes, CallsOf
  <1>3. Flagged' /\ Alone'
    BY <1>1 DEF Flagged, Alone, Aloft
  <1>4. LockHeld'
    <2> SUFFICES ASSUME NEW c \in Calls, InBody(c), Job(c) \in locked, c \notin lost'
                 PROVE  holder'[Job(c)] = Replica(c)
      BY <1>1 DEF LockHeld, InBody
    <2>1. holder[Job(c)] = Replica(c)
      BY <1>1 DEF LockHeld
    <2>2. Job(c) # j
      BY <1>1, <2>1 DEF CallsOf
    <2> QED BY <1>1, <2>1, <2>2 DEF Shapes
  <1>5. HolderRuns'
    BY <1>1 DEF HolderRuns, Shapes, InBody, CallsOf
  <1> QED BY <1>2, <1>3, <1>4, <1>5

\* Flights and locks stay in order in every behaviour.
THEOREM FlightInvariance == Safety => []FlightInv
  <1>1. FlightInv /\ [Next]_vars => FlightInv'
    <2> SUFFICES ASSUME FlightInv, [Next]_vars PROVE FlightInv'
      OBVIOUS
    <2>1. CASE UNCHANGED vars
      BY <2>1 DEF vars, FlightInv, Shapes, Flagged, Alone, LockHeld, HolderRuns, Aloft, InBody, CallsOf
    <2> QED BY <2>1, FlightCall, FlightProcess, FlightSession DEF Next
  <1> QED BY <1>1, FlightInit, PTL DEF Safety

\* No two calls of a job are inside it at once in one process (scheduler.go
\* runEntry).
THEOREM OneFlight == Safety => []SingleFlight
  <1>1. FlightInv => SingleFlight
    BY DEF FlightInv, Alone, SingleFlight, Aloft, InBody
  <1> QED BY <1>1, FlightInvariance, PTL

\* Two calls are inside a locked job at once only if Postgres took the lock of
\* one of them away: both would be the holder, and alone in that process
\* (locker.go TryLock).
THEOREM OneSingleton == Safety => []SingletonRunsOnce
  <1>1. FlightInv => SingletonRunsOnce
    BY DEF FlightInv, Alone, LockHeld, SingletonRunsOnce, Aloft, InBody
  <1> QED BY <1>1, FlightInvariance, PTL

\* A held lock has a call inside its job, or is on a session that a TryLock
\* whose ctx ended gave back: no other is left behind (locker.go release).
THEOREM NoStrayLock == Safety => []NoLockLeftBehind
  <1>1. FlightInv => NoLockLeftBehind
    BY DEF FlightInv, HolderRuns, NoLockLeftBehind
  <1> QED BY <1>1, FlightInvariance, PTL
-----------------------------------------------------------------------------
(* The WaitGroup *)

\* The calls of r under way, as pairs of a job and a caller.
Busy(r) == {x \in Jobs \X Callers : pc[<<r, x[1], x[2]>>] # "idle"}

Counted == \A r \in Replicas : wg[r] = Cardinality(Busy(r))

CountInv == Shapes /\ Counted /\ DrainedIsQuiet

\* There are finitely many calls in a process, so Busy can be counted.
LEMMA BusyFinite ==
  ASSUME NEW r
  PROVE  /\ IsFiniteSet(Busy(r))
         /\ Cardinality(Busy(r)) \in 0..Cardinality(Jobs \X Callers)
  <1>1. IsFiniteSet(Callers)
    BY SchedulerAssumption, FS_AddElement DEF Callers
  <1>2. IsFiniteSet(Jobs \X Callers)
    BY <1>1, SchedulerAssumption, FS_Product
  <1>3. Busy(r) \in SUBSET (Jobs \X Callers)
    BY DEF Busy
  <1>4. IsFiniteSet(Busy(r)) /\ Cardinality(Busy(r)) <= Cardinality(Jobs \X Callers)
    BY <1>2, <1>3, FS_Subset
  <1> QED BY <1>2, <1>4, FS_CardinalityType

\* The initial state satisfies the invariant of the WaitGroup.
LEMMA CountInit == Init => CountInv
  <1> SUFFICES ASSUME Init PROVE CountInv
    OBVIOUS
  <1>1. Shapes
    BY FlightInit DEF FlightInv
  <1>2. ASSUME NEW r \in Replicas PROVE Busy(r) = {}
    BY <1>2 DEF Init, Busy, Calls
  <1>3. Counted
    BY <1>2, FS_EmptySet DEF Init, Counted
  <1>4. DrainedIsQuiet
    BY DEF Init, DrainedIsQuiet
  <1> QED BY <1>1, <1>3, <1>4 DEF CountInv

\* A reservation adds one to the calls under way and to the WaitGroup, a Done
\* takes one from both, and nothing in between changes either.
LEMMA CountCall ==
  ASSUME CountInv, Shapes', NEW c \in Calls, Reserve(c) \/ Ends(c) \/ Return(c)
  PROVE  CountInv'
  <1> USE DEF CountInv
  <1>0. \A d \in Calls \ {c} : pc'[d] = pc[d]
    BY DEF Reserve, Ends, Fly, Lead, Release, Land, Done, Return, Goes, Shapes
  <1>1. PICK r \in Replicas, j \in Jobs, k \in Callers : c = <<r, j, k>>
    BY DEF Calls
  <1>2. Replica(c) = r /\ <<j, k>> \in Jobs \X Callers
    BY <1>1 DEF Replica
  <1>3. \A q \in Replicas, x \in Jobs \X Callers :
          pc'[<<q, x[1], x[2]>>] = IF q = r /\ x = <<j, k>> THEN pc'[c] ELSE pc[<<q, x[1], x[2]>>]
    <2> TAKE q \in Replicas, x \in Jobs \X Callers
    <2>1. PICK a \in Jobs, b \in Callers : x = <<a, b>>
      OBVIOUS
    <2>2. <<q, a, b>> \in Calls
      BY DEF Calls
    <2> QED BY <1>0, <1>1, <2>1, <2>2
  <1>4. CASE Reserve(c)
    <2>1. /\ pc'[c] = "reserved" /\ pc[c] = "idle"
          /\ wg' = [wg EXCEPT ![r] = @ + 1]
          /\ ~Draining(r) /\ UNCHANGED phase
      BY <1>2, <1>4 DEF Reserve, Goes, Shapes
    <2>2. Busy(r)' = Busy(r) \cup {<<j, k>>} /\ <<j, k>> \notin Busy(r)
      <3>1. \A x \in Jobs \X Callers :
              pc'[<<r, x[1], x[2]>>] = IF x = <<j, k>> THEN "reserved" ELSE pc[<<r, x[1], x[2]>>]
        BY <1>3, <2>1
      <3>2. pc[<<r, <<j, k>>[1], <<j, k>>[2]>>] = "idle"
        BY <1>1, <2>1
      <3> QED BY <1>2, <3>1, <3>2 DEF Busy
    <2>3. ASSUME NEW q \in Replicas \ {r} PROVE Busy(q)' = Busy(q)
      <3>1. \A x \in Jobs \X Callers : pc'[<<q, x[1], x[2]>>] = pc[<<q, x[1], x[2]>>]
        BY <1>3, <2>1
      <3> QED BY <3>1 DEF Busy
    <2>4. Cardinality(Busy(r)') = Cardinality(Busy(r)) + 1
      BY <2>2, BusyFinite, FS_AddElement
    <2>5. Counted'
      BY <2>1, <2>3, <2>4 DEF Counted, Shapes
    <2>6. DrainedIsQuiet'
      BY <1>0, <1>2, <2>1 DEF DrainedIsQuiet, Draining, CallsOf
    <2> QED BY <2>5, <2>6
  <1>5. CASE Done(c)
    <2>1. /\ pc'[c] = "idle" /\ pc[c] = "landed"
          /\ wg' = [wg EXCEPT ![r] = @ - 1]
          /\ UNCHANGED phase
      BY <1>2, <1>5 DEF Done, Goes, Shapes
    <2>2. Busy(r)' = Busy(r) \ {<<j, k>>} /\ <<j, k>> \in Busy(r)
      <3>1. \A x \in Jobs \X Callers :
              pc'[<<r, x[1], x[2]>>] = IF x = <<j, k>> THEN "idle" ELSE pc[<<r, x[1], x[2]>>]
        BY <1>3, <2>1
      <3>2. pc[<<r, <<j, k>>[1], <<j, k>>[2]>>] # "idle"
        BY <1>1, <2>1
      <3> QED BY <1>2, <3>1, <3>2 DEF Busy
    <2>3. ASSUME NEW q \in Replicas \ {r} PROVE Busy(q)' = Busy(q)
      <3>1. \A x \in Jobs \X Callers : pc'[<<q, x[1], x[2]>>] = pc[<<q, x[1], x[2]>>]
        BY <1>3, <2>1
      <3> QED BY <3>1 DEF Busy
    <2>4. Cardinality(Busy(r)') = Cardinality(Busy(r)) - 1
      BY <2>2, BusyFinite, FS_RemoveElement
    <2>5. Counted'
      BY <2>1, <2>3, <2>4 DEF Counted, Shapes
    <2>6. DrainedIsQuiet'
      BY <1>0, <2>1 DEF DrainedIsQuiet, CallsOf
    <2> QED BY <2>5, <2>6
  <1>6. CASE Fly(c) \/ Lead(c) \/ Return(c) \/ Release(c) \/ Land(c)
    <2>1. /\ pc'[c] # "idle" /\ pc[c] # "idle"
          /\ UNCHANGED <<wg, phase>>
      BY <1>6 DEF Fly, Lead, Return, Release, Land, Goes, Shapes
    <2>2. \A q \in Replicas : Busy(q)' = Busy(q)
      BY <1>1, <1>3, <2>1 DEF Busy
    <2>3. Counted'
      BY <2>1, <2>2 DEF Counted
    <2>4. DrainedIsQuiet'
      BY <1>0, <2>1 DEF DrainedIsQuiet, CallsOf
    <2> QED BY <2>3, <2>4
  <1> QED BY <1>4, <1>5, <1>6 DEF Ends

\* wg.Wait returns only when no call is under way.
LEMMA CountProcess ==
  ASSUME CountInv, Shapes', NEW r \in Replicas, Cancel(r) \/ Shutdown(r) \/ Restart(r)
  PROVE  CountInv'
  <1> USE DEF CountInv
  <1>1. CASE Cancel(r) \/ Drain(r) \/ GiveUp(r) \/ \E j \in Jobs : LoopReturns(r, j)
    <2>1. /\ UNCHANGED <<pc, wg>>
          /\ \A q \in Replicas : phase'[q] = "drained" => phase[q] = "drained"
      BY <1>1 DEF Cancel, Drain, GiveUp, LoopReturns, Shapes
    <2> QED BY <2>1 DEF Counted, Busy, DrainedIsQuiet, CallsOf
  <1>2. CASE Drained(r)
    <2>1. /\ wg[r] = 0
          /\ UNCHANGED <<pc, wg>>
          /\ \A q \in Replicas : phase'[q] = "drained" => (phase[q] = "drained" \/ q = r)
      BY <1>2 DEF Drained, Shapes
    <2>2. Busy(r) = {}
      BY <2>1, BusyFinite, FS_EmptySet DEF Counted
    <2>3. \A c \in CallsOf(r) : pc[c] = "idle"
      <3> TAKE c \in CallsOf(r)
      <3>1. PICK j \in Jobs, k \in Callers : c = <<r, j, k>>
        BY DEF CallsOf, Calls, Replica
      <3>2. <<j, k>> \in Jobs \X Callers /\ <<j, k>> \notin Busy(r)
        BY <2>2
      <3> QED BY <3>1, <3>2 DEF Busy
    <2> QED BY <2>1, <2>3 DEF Counted, Busy, DrainedIsQuiet, CallsOf
  <1>3. CASE Restart(r)
    <2>1. /\ \A c \in Calls : pc'[c] = IF Replica(c) = r THEN "idle" ELSE pc[c]
          /\ wg' = [wg EXCEPT ![r] = 0]
          /\ \A q \in Replicas : phase'[q] = "drained" => phase[q] = "drained" /\ q # r
      BY <1>3 DEF Restart, CallsOf, Shapes
    <2>2. \A q \in Replicas, x \in Jobs \X Callers :
            pc'[<<q, x[1], x[2]>>] = IF q = r THEN "idle" ELSE pc[<<q, x[1], x[2]>>]
      BY <2>1 DEF Calls, Replica
    <2>3. Busy(r)' = {} /\ \A q \in Replicas \ {r} : Busy(q)' = Busy(q)
      BY <2>2 DEF Busy
    <2>4. Counted'
      BY <2>1, <2>3, FS_EmptySet DEF Counted, Shapes
    <2>5. DrainedIsQuiet'
      BY <2>1 DEF DrainedIsQuiet, CallsOf
    <2> QED BY <2>4, <2>5
  <1> QED BY <1>1, <1>2, <1>3 DEF Shutdown

\* The WaitGroup counts the calls under way in every behaviour.
THEOREM CountInvariance == Safety => []CountInv
  <1>1. CountInv /\ FlightInv' /\ [Next]_vars => CountInv'
    <2> SUFFICES ASSUME CountInv, FlightInv', [Next]_vars PROVE CountInv'
      OBVIOUS
    <2>1. Shapes'
      BY DEF FlightInv
    <2>2. CASE UNCHANGED vars
      BY <2>1, <2>2 DEF vars, CountInv, Counted, Busy, DrainedIsQuiet, CallsOf
    <2>3. ASSUME NEW j \in Jobs, LoseSession(j) PROVE CountInv'
      BY <2>1, <2>3 DEF LoseSession, CountInv, Counted, Busy, DrainedIsQuiet, CallsOf
    <2> QED BY <2>1, <2>2, <2>3, CountCall, CountProcess DEF Next
  <1> QED BY <1>1, CountInit, FlightInvariance, PTL DEF Safety

\* The runner's fields keep their types; the WaitGroup never goes below zero,
\* where it would panic (scheduler.go reserve, runEntry).
THEOREM TypeCorrect == Safety => []TypeOK
  <1>1. CountInv => TypeOK
    <2> SUFFICES ASSUME CountInv PROVE TypeOK
      OBVIOUS
    <2>1. wg \in [Replicas -> 0..Cardinality(Jobs \X Callers)]
      BY BusyFinite DEF CountInv, Counted, Shapes
    <2> QED BY <2>1 DEF CountInv, Shapes, TypeOK
  <1> QED BY <1>1, CountInvariance, PTL

\* Once Shutdown has returned nil nothing runs in the process (scheduler.go
\* Shutdown, reserve).
THEOREM QuietAfterDrain == Safety => []DrainedIsQuiet
  <1>1. CountInv => DrainedIsQuiet
    BY DEF CountInv
  <1> QED BY <1>1, CountInvariance, PTL
=============================================================================
