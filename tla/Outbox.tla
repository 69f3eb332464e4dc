------------------------------- MODULE Outbox -------------------------------
(***************************************************************************)
(* The transactional outbox (internal/platform/outbox) of one tenant: the  *)
(* durable entries of the store and the dispatch workers of the replicas   *)
(* that claim, deliver and settle them.                                    *)
(*                                                                         *)
(* Time is abstracted to `due`: next_attempt_at has passed or it has not.  *)
(* Claiming leases an entry by pushing next_attempt_at ClaimLease ahead,   *)
(* and nothing stops that lease running out while the claim's dispatcher   *)
(* is still delivering.                                                    *)
(***************************************************************************)
EXTENDS Integers, FiniteSets

CONSTANTS
  Entries,      \* outbox rows, one per (org, event, target)
  Dispatchers,  \* worker processes, one per replica
  MaxAttempts,  \* outbox.MaxAttempts (8 in the code)
  Batch,        \* WorkerOpts.Batch: entries claimed per sweep
  Concurrency,  \* WorkerOpts.Concurrency: deliveries in flight per sweep
  MaxRequeues   \* bound of the model: manual retries of one entry

ASSUME OutboxAssumption ==
  /\ MaxAttempts \in Nat \ {0}
  /\ Batch \in Nat \ {0}
  /\ Concurrency \in Nat \ {0}
  /\ MaxRequeues \in Nat

VARIABLES
  status,    \* status[e]: "absent" until enqueued, then the row's status
  attempt,   \* attempt[e]: the row's attempt column
  due,       \* due[e]: next_attempt_at <= now
  claims,    \* claims[d]: what the sweep of dispatcher d holds in memory
  round,     \* history: round[e] counts the manual retries of e
  accepted   \* history: the entries a Deliverer has answered nil for

vars == <<status, attempt, due, claims, round, accepted>>

Statuses == {"absent", "pending", "delivered", "failed"}

\* "claimed": waiting for a slot of the errgroup; "sending": inside Deliver;
\* "ok" and "failed": Deliver has returned and the outcome is not yet recorded.
Phases == {"claimed", "sending", "ok", "failed"}

Claim == [entry : Entries, attempt : 1..MaxAttempts, round : 0..MaxRequeues,
          phase : Phases]

Init ==
  /\ status = [e \in Entries |-> "absent"]
  /\ attempt = [e \in Entries |-> 0]
  /\ due = [e \in Entries |-> FALSE]
  /\ claims = [d \in Dispatchers |-> {}]
  /\ round = [e \in Entries |-> 0]
  /\ accepted = {}

-----------------------------------------------------------------------------
(* The store *)

\* A second Enqueue of the same (org, event, target) does nothing.
Enqueue(e) ==
  /\ status[e] = "absent"
  /\ status' = [status EXCEPT ![e] = "pending"]
  /\ attempt' = [attempt EXCEPT ![e] = 0]
  /\ due' = [due EXCEPT ![e] = TRUE]
  /\ UNCHANGED <<claims, round, accepted>>

\* Mutants: a reaper off by one attempt, one that ignores the lease, none.
ExhaustedEarly == {e \in Entries : status[e] = "pending" /\ attempt[e] >= MaxAttempts - 1 /\ due[e]}
ExhaustedWhileLeased == {e \in Entries : status[e] = "pending" /\ attempt[e] >= MaxAttempts}
ExhaustedNever == {}

\* What reapExhausted moves to failed: out of attempts, and past the lease of
\* the last one.
Exhausted == {e \in Entries : status[e] = "pending" /\ attempt[e] >= MaxAttempts /\ due[e]}

Claimable == {e \in Entries : status[e] = "pending" /\ attempt[e] < MaxAttempts /\ due[e]}

\* Mutants: a settle fenced by the status alone, and by the attempt alone.
ClaimedRowAnyAttempt(c) == status[c.entry] = "pending"
ClaimedRowAnyStatus(c) == attempt[c.entry] = c.attempt

\* The fence of Succeed and Fail.
ClaimedRow(c) == status[c.entry] = "pending" /\ attempt[c.entry] = c.attempt

Reclaim(e) == [entry |-> e, attempt |-> attempt[e] + 1, round |-> round[e], phase |-> "claimed"]

\* Mutant: the claim leases the row without counting the try.
AttemptAfterClaimSame(S) == attempt

AttemptAfterClaim(S) == [e \in Entries |-> IF e \in S THEN attempt[e] + 1 ELSE attempt[e]]

\* ClaimDue reaps the exhausted rows, then claims a batch. Which due rows make
\* the batch depends on their order and on the rows another replica has locked.
ClaimDue(d, S) ==
  /\ claims[d] = {}
  /\ S \subseteq Claimable
  /\ Cardinality(S) <= Batch
  /\ S \cup Exhausted # {}
  /\ status' = [e \in Entries |-> IF e \in Exhausted THEN "failed" ELSE status[e]]
  /\ attempt' = AttemptAfterClaim(S)
  /\ due' = [e \in Entries |-> due[e] /\ e \notin S]
  /\ claims' = [claims EXCEPT ![d] = {Reclaim(e) : e \in S}]
  /\ UNCHANGED <<round, accepted>>

Succeed(c) ==
  /\ status' = IF ClaimedRow(c) THEN [status EXCEPT ![c.entry] = "delivered"] ELSE status
  /\ UNCHANGED due

Fail(c) ==
  /\ status' = IF ClaimedRow(c) /\ attempt[c.entry] >= MaxAttempts
               THEN [status EXCEPT ![c.entry] = "failed"] ELSE status
  /\ due' = IF ClaimedRow(c) THEN [due EXCEPT ![c.entry] = FALSE] ELSE due

RequeueAll(S) ==
  /\ S # {}
  /\ \A e \in S : status[e] = "failed" /\ round[e] < MaxRequeues
  /\ status' = [e \in Entries |-> IF e \in S THEN "pending" ELSE status[e]]
  /\ attempt' = [e \in Entries |-> IF e \in S THEN 0 ELSE attempt[e]]
  /\ due' = [e \in Entries |-> due[e] \/ e \in S]
  /\ round' = [e \in Entries |-> IF e \in S THEN round[e] + 1 ELSE round[e]]
  /\ UNCHANGED <<claims, accepted>>

Requeue(e) == RequeueAll({e})

\* Every failed row of the target.
RequeueFailed == RequeueAll({e \in Entries : status[e] = "failed"})

\* next_attempt_at passes: a lease or a backoff runs out.
Elapse(e) ==
  /\ status[e] = "pending"
  /\ ~due[e]
  /\ due' = [due EXCEPT ![e] = TRUE]
  /\ UNCHANGED <<status, attempt, claims, round, accepted>>

-----------------------------------------------------------------------------
(* The dispatch worker *)

InPhase(c, p) == [c EXCEPT !.phase = p]

Move(d, c, p) == claims' = [claims EXCEPT ![d] = (@ \ {c}) \cup {InPhase(c, p)}]

Begin(d, c) ==
  /\ c \in claims[d]
  /\ c.phase = "claimed"
  /\ Cardinality({k \in claims[d] : k.phase # "claimed"}) < Concurrency
  /\ Move(d, c, "sending")
  /\ UNCHANGED <<status, attempt, due, round, accepted>>

\* Deliver returns nil or an error.
Deliver(d, c, outcome) ==
  /\ c \in claims[d]
  /\ c.phase = "sending"
  /\ outcome \in {"ok", "failed"}
  /\ Move(d, c, outcome)
  /\ accepted' = IF outcome = "ok" THEN accepted \cup {c.entry} ELSE accepted
  /\ UNCHANGED <<status, attempt, due, round>>

\* Mutant: the error of Deliver is dropped.
SettleIgnoringError(d, c) ==
  /\ c \in claims[d]
  /\ c.phase \in {"ok", "failed"}
  /\ Succeed(c)
  /\ claims' = [claims EXCEPT ![d] = @ \ {c}]
  /\ UNCHANGED <<attempt, round, accepted>>

\* The outcome is recorded with a context detached from the worker's.
Settle(d, c) ==
  /\ c \in claims[d]
  /\ \/ c.phase = "ok" /\ Succeed(c)
     \/ c.phase = "failed" /\ Fail(c)
  /\ claims' = [claims EXCEPT ![d] = @ \ {c}]
  /\ UNCHANGED <<attempt, round, accepted>>

\* The store does not answer within SettleGrace: the error is logged, the
\* claim is forgotten and only its lease releases the entry.
SettleLost(d, c) ==
  /\ c \in claims[d]
  /\ c.phase \in {"ok", "failed"}
  /\ claims' = [claims EXCEPT ![d] = @ \ {c}]
  /\ UNCHANGED <<status, attempt, due, round, accepted>>

\* The worker's context is cancelled: claims not yet started are dropped,
\* deliveries in flight still return and settle.
Cancel(d) ==
  /\ \E c \in claims[d] : c.phase = "claimed"
  /\ claims' = [claims EXCEPT ![d] = {c \in @ : c.phase # "claimed"}]
  /\ UNCHANGED <<status, attempt, due, round, accepted>>

\* The process dies; whatever it held is lost and it may start again.
Crash(d) ==
  /\ claims[d] # {}
  /\ claims' = [claims EXCEPT ![d] = {}]
  /\ UNCHANGED <<status, attempt, due, round, accepted>>

-----------------------------------------------------------------------------

Sweep(d) == \E S \in SUBSET Entries : ClaimDue(d, S)

Work(d) ==
  \E c \in claims[d] :
    \/ Begin(d, c)
    \/ \E outcome \in {"ok", "failed"} : Deliver(d, c, outcome)
    \/ Settle(d, c)
    \/ SettleLost(d, c)

Store == \E e \in Entries : Enqueue(e) \/ Requeue(e) \/ Elapse(e)

Next ==
  \/ Store
  \/ RequeueFailed
  \/ \E d \in Dispatchers : Sweep(d) \/ Work(d) \/ Cancel(d) \/ Crash(d)

Safety == Init /\ [][Next]_vars

(***************************************************************************)
(* Time passes; a delivery ends (the HTTP client has a timeout) and so does *)
(* its settle; and rows are claimed in the order they became due, so no    *)
(* row is passed over for ever while sweeps go on. Nothing is assumed of   *)
(* crashes, cancellations, delivery outcomes or lost settles.              *)
(***************************************************************************)
TakesUp(e) ==
  \E d \in Dispatchers, S \in SUBSET Entries : (e \in S \/ e \in Exhausted) /\ ClaimDue(d, S)

Fairness ==
  /\ \A e \in Entries : WF_vars(Elapse(e)) /\ SF_vars(TakesUp(e))
  /\ \A d \in Dispatchers : WF_vars(Work(d))

Spec == Safety /\ Fairness

-----------------------------------------------------------------------------
(* Properties *)

\* Every variable keeps the shape the rows and the claims have in the code.
TypeOK ==
  /\ status \in [Entries -> Statuses]
  /\ attempt \in [Entries -> 0..MaxAttempts]
  /\ due \in [Entries -> BOOLEAN]
  /\ claims \in [Dispatchers -> SUBSET Claim]
  /\ round \in [Entries -> 0..MaxRequeues]
  /\ accepted \subseteq Entries

\* Two claims held anywhere in the fleet are never the same try of the same
\* round of an entry: ClaimDue gives each attempt number out once, whatever
\* leases run out and whatever dispatchers die (postgres.go claimDue).
ClaimsAreUnique ==
  \A d1, d2 \in Dispatchers : \A c1 \in claims[d1], c2 \in claims[d2] :
    (c1.entry = c2.entry /\ c1.attempt = c2.attempt /\ c1.round = c2.round)
      => (d1 = d2 /\ c1 = c2)

\* An entry is failed only once its round has used up MaxAttempts: neither a
\* Fail of an earlier attempt nor the reaper gives up early.
GivesUpOnlyWhenExhausted ==
  \A e \in Entries : status[e] = "failed" => attempt[e] = MaxAttempts

\* An entry is delivered only if some Deliver of it returned nil, across lost
\* settles, expired leases and retries (worker.go deliverOne).
DeliveredWasAccepted ==
  \A e \in Entries : status[e] = "delivered" => e \in accepted

\* What an operator reads off an entry that has ended is true: failed means
\* every attempt was used, delivered means a deliverer accepted it.
OutcomesAreHonest == GivesUpOnlyWhenExhausted /\ DeliveredWasAccepted

\* The reaper stays off an entry whose final attempt still has its lease: an
\* entry turns failed while leased only because a dispatcher holding that
\* final attempt reported the failure (postgres.go reapExhausted).
ReaperSparesLiveLease ==
  [][\A e \in Entries :
       (status[e] = "pending" /\ status'[e] = "failed" /\ ~due[e])
         => \E d \in Dispatchers : \E c \in claims[d] \ claims'[d] :
              c.entry = e /\ c.phase = "failed" /\ c.attempt = attempt[e]]_vars

\* Within one round the attempt fences the settle: a dispatcher whose entry
\* has been claimed again since records nothing (postgres.go claimedRow).
StaleClaimSettlesNothing ==
  [][\A d \in Dispatchers : \A c \in claims[d] \ claims'[d] :
       (c.phase \in {"ok", "failed"} /\ c.round = round[c.entry]
          /\ c.attempt < attempt[c.entry])
         => UNCHANGED <<status, attempt, due>>]_vars

\* Whatever dies or stalls, an entry does not stay pending: each claim burns
\* an attempt and the reaper ends an exhausted entry.
EventuallySettled ==
  \A e \in Entries : status[e] = "pending" ~> status[e] \in {"delivered", "failed"}

Promise == INSTANCE DeliveryPromise WITH state <- status, reached <- accepted

\* The outbox implements its promise to the caller.
KeepsPromise == Promise!Safety
=============================================================================
