---------------------------- MODULE OutboxProofs ----------------------------
(***************************************************************************)
(* Proofs about Outbox for every number of entries, dispatchers, attempts  *)
(* and retries. Claims are unique because every claim in hand lies behind  *)
(* the row it was taken from (ClaimsBehindRows): in an earlier round, or   *)
(* at an attempt the row has already counted. A new claim takes the next   *)
(* attempt of the current round, which no claim in hand can have.          *)
(***************************************************************************)
EXTENDS Outbox, TLAPS

\* Every claim in hand was handed out by its row: the row has counted it.
ClaimsBehindRows ==
  \A d \in Dispatchers : \A c \in claims[d] :
    /\ status[c.entry] # "absent"
    /\ c.round <= round[c.entry]
    /\ c.round = round[c.entry] => c.attempt <= attempt[c.entry]

\* A claim whose delivery succeeded is of an entry a deliverer accepted.
OkClaimsWereAccepted ==
  \A d \in Dispatchers : \A c \in claims[d] : c.phase = "ok" => c.entry \in accepted

\* Only rows that exist are accepted.
AcceptedExist == \A e \in accepted : status[e] # "absent"

\* A dispatcher works on at most one claim of an entry: the claims of a sweep
\* are of distinct entries.
OneClaimPerEntry ==
  \A d \in Dispatchers : \A c1, c2 \in claims[d] : c1.entry = c2.entry => c1 = c2

\* Two dispatchers never hold the same try of the same round.
NoSharedTry ==
  \A d1, d2 \in Dispatchers : \A c1 \in claims[d1], c2 \in claims[d2] :
    (d1 # d2 /\ c1.entry = c2.entry) => (c1.attempt # c2.attempt \/ c1.round # c2.round)

IInv ==
  /\ TypeOK
  /\ ClaimsBehindRows
  /\ OneClaimPerEntry
  /\ NoSharedTry
  /\ GivesUpOnlyWhenExhausted
  /\ OkClaimsWereAccepted
  /\ AcceptedExist
  /\ DeliveredWasAccepted

\* One sweep, delivery step or settle replaces the claims of one dispatcher.
LEMMA OthersKeepClaims ==
  ASSUME NEW d \in Dispatchers, NEW X, TypeOK, claims' = [claims EXCEPT ![d] = X]
  PROVE  /\ claims'[d] = X
         /\ \A k \in Dispatchers : k # d => claims'[k] = claims[k]
  BY DEF TypeOK

\* The initial state satisfies the inductive invariant.
LEMMA InitEstablishes == Init => IInv
  BY OutboxAssumption DEF Init, IInv, TypeOK, Statuses, Claim, ClaimsBehindRows,
     OneClaimPerEntry, NoSharedTry, GivesUpOnlyWhenExhausted, OkClaimsWereAccepted,
     AcceptedExist, DeliveredWasAccepted

\* A new row, a retry of a failed one and the passing of time leave every
\* claim behind its row: a retry starts a round no claim in hand is in.
LEMMA StoreStep ==
  ASSUME IInv, Store \/ RequeueFailed
  PROVE  IInv'
  <1> USE OutboxAssumption
  <1>1. ASSUME NEW e \in Entries, Enqueue(e) PROVE IInv'
    BY <1>1 DEF Enqueue, IInv, TypeOK, Statuses, Claim, ClaimsBehindRows,
       OneClaimPerEntry, NoSharedTry, GivesUpOnlyWhenExhausted, OkClaimsWereAccepted,
       AcceptedExist, DeliveredWasAccepted
  <1>2. ASSUME NEW S \in SUBSET Entries, RequeueAll(S) PROVE IInv'
    <2>1. TypeOK'
      BY <1>2 DEF RequeueAll, IInv, TypeOK, Statuses, Claim
    <2>2. ClaimsBehindRows'
      BY <1>2 DEF RequeueAll, IInv, TypeOK, Claim, ClaimsBehindRows
    <2>3. OneClaimPerEntry' /\ NoSharedTry' /\ OkClaimsWereAccepted'
      BY <1>2 DEF RequeueAll, IInv, OneClaimPerEntry, NoSharedTry, OkClaimsWereAccepted
    <2>4. GivesUpOnlyWhenExhausted' /\ AcceptedExist' /\ DeliveredWasAccepted'
      BY <1>2 DEF RequeueAll, IInv, TypeOK, GivesUpOnlyWhenExhausted, AcceptedExist,
         DeliveredWasAccepted
    <2> QED BY <2>1, <2>2, <2>3, <2>4 DEF IInv
  <1>3. ASSUME NEW e \in Entries, Elapse(e) PROVE IInv'
    BY <1>3 DEF Elapse, IInv, TypeOK, Statuses, Claim, ClaimsBehindRows,
       OneClaimPerEntry, NoSharedTry, GivesUpOnlyWhenExhausted, OkClaimsWereAccepted,
       AcceptedExist, DeliveredWasAccepted
  <1> QED BY <1>1, <1>2, <1>3 DEF Store, Requeue, RequeueFailed

\* A sweep hands out tries that nobody holds.
LEMMA SweepStep ==
  ASSUME IInv, NEW d \in Dispatchers, NEW S \in SUBSET Entries, ClaimDue(d, S)
  PROVE  IInv'
  <1> USE OutboxAssumption
  <1>1. /\ claims'[d] = {Reclaim(e) : e \in S}
        /\ \A k \in Dispatchers : k # d => claims'[k] = claims[k]
    BY OthersKeepClaims DEF ClaimDue, IInv
  <1>2. \A e \in S : status[e] = "pending" /\ attempt[e] < MaxAttempts
    BY DEF ClaimDue, Claimable
  <1>3. \A e \in Entries : status'[e] # "absent" <=> status[e] # "absent"
    BY DEF ClaimDue, Exhausted, IInv, TypeOK
  <1>4. \A e \in Entries : attempt'[e] = IF e \in S THEN attempt[e] + 1 ELSE attempt[e]
    BY DEF ClaimDue, AttemptAfterClaim
  <1>5. TypeOK'
    <2>1. \A e \in S : Reclaim(e) \in Claim
      BY <1>2 DEF Reclaim, Claim, Phases, IInv, TypeOK
    <2>2. claims' \in [Dispatchers -> SUBSET Claim]
      BY <2>1, <1>1 DEF ClaimDue, IInv, TypeOK
    <2> QED
      BY <2>2, <1>2 DEF ClaimDue, AttemptAfterClaim, IInv, TypeOK, Statuses
  <1>6. ClaimsBehindRows'
    <2>1. ASSUME NEW c \in claims'[d]
          PROVE  status'[c.entry] # "absent" /\ c.round <= round'[c.entry]
                 /\ (c.round = round'[c.entry] => c.attempt <= attempt'[c.entry])
      BY <2>1, <1>1, <1>2, <1>3, <1>4 DEF Reclaim, ClaimDue, IInv, TypeOK
    <2>2. ASSUME NEW k \in Dispatchers, k # d, NEW c \in claims'[k]
          PROVE  status'[c.entry] # "absent" /\ c.round <= round'[c.entry]
                 /\ (c.round = round'[c.entry] => c.attempt <= attempt'[c.entry])
      BY <2>2, <1>1, <1>3, <1>4 DEF ClaimDue, IInv, TypeOK, Claim, ClaimsBehindRows
    <2> QED BY <2>1, <2>2 DEF ClaimsBehindRows
  <1>7. OneClaimPerEntry'
    BY <1>1 DEF IInv, OneClaimPerEntry, Reclaim
  <1>8. NoSharedTry'
    <2>1. ASSUME NEW k \in Dispatchers, k # d, NEW c1 \in claims'[d], NEW c2 \in claims'[k],
                 c1.entry = c2.entry
          PROVE  c1.attempt # c2.attempt \/ c1.round # c2.round
      <3>1. PICK e \in S : c1 = Reclaim(e)
        BY <2>1, <1>1
      <3>2. c2 \in claims[k] /\ c2 \in Claim
        BY <2>1, <1>1 DEF IInv, TypeOK
      <3>3. c2.round = round[e] => c2.attempt <= attempt[e]
        BY <2>1, <3>1, <3>2 DEF IInv, ClaimsBehindRows, Reclaim
      <3> QED
        BY <3>1, <3>2, <3>3 DEF Reclaim, Claim, IInv, TypeOK
    <2> QED BY <2>1, <1>1 DEF IInv, NoSharedTry
  <1>9. GivesUpOnlyWhenExhausted'
    BY <1>2, <1>4 DEF ClaimDue, Exhausted, IInv, TypeOK, GivesUpOnlyWhenExhausted
  <1>10. OkClaimsWereAccepted'
    BY <1>1 DEF ClaimDue, IInv, OkClaimsWereAccepted, Reclaim
  <1>11. AcceptedExist' /\ DeliveredWasAccepted'
    BY <1>3 DEF ClaimDue, IInv, TypeOK, AcceptedExist, DeliveredWasAccepted
  <1> QED BY <1>5, <1>6, <1>7, <1>8, <1>9, <1>10, <1>11 DEF IInv

\* A claim that moves on keeps its identity.
LEMMA MoveStep ==
  ASSUME IInv, NEW d \in Dispatchers, NEW c \in claims[d], NEW p \in Phases,
         Move(d, c, p), UNCHANGED <<status, attempt, due, round>>,
         accepted \subseteq accepted', accepted' \subseteq accepted \cup {c.entry},
         p = "ok" => c.entry \in accepted'
  PROVE  IInv'
  <1> USE OutboxAssumption
  <1> DEFINE n == InPhase(c, p)
  <1>1. /\ claims'[d] = (claims[d] \ {c}) \cup {n}
        /\ \A k \in Dispatchers : k # d => claims'[k] = claims[k]
    BY OthersKeepClaims DEF Move, IInv
  <1>2. c \in Claim /\ n \in Claim /\ n.phase = p
        /\ n.entry = c.entry /\ n.attempt = c.attempt /\ n.round = c.round
    BY DEF IInv, TypeOK, Claim, InPhase
  <1> HIDE DEF n
  <1>3. TypeOK'
    BY <1>1, <1>2 DEF Move, IInv, TypeOK, Claim
  <1>4. ClaimsBehindRows'
    BY <1>1, <1>2 DEF IInv, ClaimsBehindRows
  <1>5. OneClaimPerEntry'
    BY <1>1, <1>2 DEF IInv, OneClaimPerEntry
  <1>6. NoSharedTry'
    BY <1>1, <1>2 DEF IInv, NoSharedTry
  <1>7. OkClaimsWereAccepted'
    BY <1>1, <1>2 DEF IInv, OkClaimsWereAccepted
  <1>8. GivesUpOnlyWhenExhausted' /\ DeliveredWasAccepted'
    BY DEF IInv, GivesUpOnlyWhenExhausted, DeliveredWasAccepted
  <1>9. AcceptedExist'
    BY <1>2 DEF IInv, AcceptedExist, ClaimsBehindRows
  <1> QED BY <1>3, <1>4, <1>5, <1>6, <1>7, <1>8, <1>9 DEF IInv

\* Dropping claims, by a crash, a cancel or a lost settle, changes no row.
LEMMA DropStep ==
  ASSUME IInv, NEW d \in Dispatchers, NEW X \in SUBSET claims[d],
         claims' = [claims EXCEPT ![d] = X],
         UNCHANGED <<attempt, round, accepted>>,
         status' \in [Entries -> Statuses], due' \in [Entries -> BOOLEAN],
         \A e \in Entries : status'[e] = "absent" <=> status[e] = "absent",
         GivesUpOnlyWhenExhausted', DeliveredWasAccepted'
  PROVE  IInv'
  <1>1. /\ claims'[d] = X
        /\ \A k \in Dispatchers : k # d => claims'[k] = claims[k]
    BY OthersKeepClaims DEF IInv
  <1>2. \A k \in Dispatchers : claims'[k] \subseteq claims[k]
    BY <1>1
  <1>3. TypeOK'
    BY <1>2 DEF IInv, TypeOK
  <1>4. ClaimsBehindRows'
    BY <1>2 DEF IInv, ClaimsBehindRows, TypeOK, Claim
  <1>5. OneClaimPerEntry' /\ NoSharedTry' /\ OkClaimsWereAccepted'
    BY <1>2 DEF IInv, OneClaimPerEntry, NoSharedTry, OkClaimsWereAccepted
  <1>6. AcceptedExist'
    BY DEF IInv, AcceptedExist, TypeOK
  <1> QED BY <1>3, <1>4, <1>5, <1>6 DEF IInv

\* A settle moves its row only from pending, to delivered if the delivery was
\* accepted and to failed if the attempts are used up.
LEMMA SettleStep ==
  ASSUME IInv, NEW d \in Dispatchers, NEW c \in claims[d], Settle(d, c)
  PROVE  IInv'
  <1> USE OutboxAssumption
  <1>1. c \in Claim /\ c.entry \in Entries
    BY DEF IInv, TypeOK, Claim
  <1>2. status' \in [Entries -> Statuses] /\ due' \in [Entries -> BOOLEAN]
    BY DEF Settle, Succeed, Fail, IInv, TypeOK, Statuses
  <1>3. \A e \in Entries : status'[e] = "absent" <=> status[e] = "absent"
    BY <1>1 DEF Settle, Succeed, Fail, ClaimedRow, IInv, TypeOK
  <1>4. GivesUpOnlyWhenExhausted'
    BY <1>1 DEF Settle, Succeed, Fail, ClaimedRow, IInv, TypeOK, GivesUpOnlyWhenExhausted
  <1>5. DeliveredWasAccepted'
    BY DEF Settle, Succeed, Fail, IInv, TypeOK, DeliveredWasAccepted, OkClaimsWereAccepted
  <1>6. claims' = [claims EXCEPT ![d] = claims[d] \ {c}] /\ UNCHANGED <<attempt, round, accepted>>
    BY DEF Settle
  <1> QED BY <1>2, <1>3, <1>4, <1>5, <1>6, DropStep

\* Every step of the store, of a worker or of its death keeps the invariant.
LEMMA NextPreserves == IInv /\ [Next]_vars => IInv'
  <1> SUFFICES ASSUME IInv, [Next]_vars PROVE IInv'
    OBVIOUS
  <1>1. CASE Store \/ RequeueFailed
    BY <1>1, StoreStep
  <1>2. ASSUME NEW d \in Dispatchers, Sweep(d) PROVE IInv'
    BY <1>2, SweepStep DEF Sweep
  <1>3. ASSUME NEW d \in Dispatchers, Work(d) PROVE IInv'
    <2> PICK c \in claims[d] : \/ Begin(d, c)
                               \/ \E o \in {"ok", "failed"} : Deliver(d, c, o)
                               \/ Settle(d, c)
                               \/ SettleLost(d, c)
      BY <1>3 DEF Work
    <2>1. CASE Begin(d, c)
      <3>1. Move(d, c, "sending") /\ UNCHANGED <<status, attempt, due, round>> /\ accepted' = accepted
        BY <2>1 DEF Begin
      <3> QED BY <3>1, MoveStep DEF Phases
    <2>2. ASSUME NEW o \in {"ok", "failed"}, Deliver(d, c, o) PROVE IInv'
      <3>1. Move(d, c, o) /\ UNCHANGED <<status, attempt, due, round>>
            /\ accepted' = IF o = "ok" THEN accepted \cup {c.entry} ELSE accepted
        BY <2>2 DEF Deliver
      <3>2. accepted \subseteq accepted' /\ accepted' \subseteq accepted \cup {c.entry}
            /\ (o = "ok" => c.entry \in accepted')
        BY <3>1
      <3>3. o \in Phases
        BY DEF Phases
      <3> QED BY <3>1, <3>2, <3>3, MoveStep
    <2>3. CASE Settle(d, c)
      BY <2>3, SettleStep
    <2>4. CASE SettleLost(d, c)
      <3>1. claims' = [claims EXCEPT ![d] = claims[d] \ {c}]
            /\ UNCHANGED <<status, attempt, due, round, accepted>>
        BY <2>4 DEF SettleLost
      <3> QED BY <3>1, DropStep DEF IInv, TypeOK, GivesUpOnlyWhenExhausted, DeliveredWasAccepted
    <2> QED BY <2>1, <2>2, <2>3, <2>4
  <1>4. ASSUME NEW d \in Dispatchers, Cancel(d) \/ Crash(d) PROVE IInv'
    <2>1. PICK X \in SUBSET claims[d] : claims' = [claims EXCEPT ![d] = X]
      BY <1>4 DEF Cancel, Crash
    <2>2. UNCHANGED <<status, attempt, due, round, accepted>>
      BY <1>4 DEF Cancel, Crash
    <2> QED BY <2>1, <2>2, DropStep DEF IInv, TypeOK, GivesUpOnlyWhenExhausted, DeliveredWasAccepted
  <1>5. CASE UNCHANGED vars
    BY <1>5 DEF vars, IInv, TypeOK, ClaimsBehindRows, OneClaimPerEntry, NoSharedTry,
       GivesUpOnlyWhenExhausted, OkClaimsWereAccepted, AcceptedExist, DeliveredWasAccepted
  <1> QED BY <1>1, <1>2, <1>3, <1>4, <1>5 DEF Next

\* The inductive invariant holds in every reachable state.
THEOREM Invariance == Safety => []IInv
  BY InitEstablishes, NextPreserves, PTL DEF Safety

\* Rows and claims keep their types: in particular no attempt is counted past
\* MaxAttempts, whatever the fleet does (postgres.go claimDue).
THEOREM TypeCorrect == Safety => []TypeOK
  <1>1. IInv => TypeOK
    BY DEF IInv
  <1> QED BY <1>1, Invariance, PTL

\* No two claims anywhere are the same try of an entry (postgres.go claimDue).
THEOREM UniqueClaims == Safety => []ClaimsAreUnique
  <1>1. IInv => ClaimsAreUnique
    BY DEF IInv, OneClaimPerEntry, NoSharedTry, ClaimsAreUnique
  <1> QED BY <1>1, Invariance, PTL

\* Nothing gives up on an entry before its attempts are used up, and nothing
\* is called delivered that no deliverer accepted (worker.go deliverOne).
THEOREM HonestOutcomes == Safety => []OutcomesAreHonest
  <1>1. IInv => OutcomesAreHonest
    BY DEF IInv, OutcomesAreHonest
  <1> QED BY <1>1, Invariance, PTL

\* The reaper does not touch a leased entry: what fails while leased was
\* reported by the holder of that attempt (postgres.go reapExhausted).
THEOREM ReaperSparesLease == Safety => ReaperSparesLiveLease
  <1> DEFINE Spared == \A e \in Entries :
        (status[e] = "pending" /\ status'[e] = "failed" /\ ~due[e])
          => \E d \in Dispatchers : \E c \in claims[d] \ claims'[d] :
               c.entry = e /\ c.phase = "failed" /\ c.attempt = attempt[e]
  <1>1. IInv /\ Next => Spared
    <2> SUFFICES ASSUME IInv, Next, NEW e \in Entries, status[e] = "pending", status'[e] = "failed", ~due[e]
                 PROVE  \E d \in Dispatchers : \E c \in claims[d] \ claims'[d] :
                          c.entry = e /\ c.phase = "failed" /\ c.attempt = attempt[e]
      OBVIOUS
    <2>1. ~(Store \/ RequeueFailed)
      BY DEF Store, Enqueue, Requeue, RequeueFailed, RequeueAll, Elapse, IInv, TypeOK
    <2>2. \A d \in Dispatchers : ~(Sweep(d) \/ Cancel(d) \/ Crash(d))
      BY DEF Sweep, ClaimDue, Exhausted, Cancel, Crash, IInv, TypeOK
    <2>3. PICK d \in Dispatchers : \E c \in claims[d] : Settle(d, c)
      BY <2>1, <2>2 DEF Next, Work, Begin, Deliver, SettleLost
    <2> PICK c \in claims[d] : Settle(d, c)
      BY <2>3
    <2>4. c \notin claims'[d]
      BY DEF Settle, IInv, TypeOK
    <2>5. c.phase = "failed" /\ ClaimedRow(c) /\ c.entry = e
      BY DEF Settle, Succeed, Fail, IInv, TypeOK, Claim
    <2> QED BY <2>4, <2>5 DEF ClaimedRow
  <1>2. IInv /\ [Next]_vars => [Spared]_vars
    BY <1>1
  <1> QED BY <1>2, Invariance, PTL DEF Safety, ReaperSparesLiveLease

\* Within a round, a settle by a dispatcher whose entry was claimed again
\* records nothing (postgres.go claimedRow).
THEOREM StaleClaims == Safety => StaleClaimSettlesNothing
  <1> DEFINE Fenced == \A d \in Dispatchers : \A c \in claims[d] \ claims'[d] :
        (c.phase \in {"ok", "failed"} /\ c.round = round[c.entry] /\ c.attempt < attempt[c.entry])
          => UNCHANGED <<status, attempt, due>>
  <1>1. IInv /\ Next => Fenced
    <2> SUFFICES ASSUME IInv, Next, NEW d \in Dispatchers, NEW c \in claims[d], c \notin claims'[d],
                        c.phase \in {"ok", "failed"}, c.attempt < attempt[c.entry]
                 PROVE  UNCHANGED <<status, attempt, due>>
      OBVIOUS
    <2>1. ~(Store \/ RequeueFailed)
      BY DEF Store, Enqueue, Requeue, RequeueFailed, RequeueAll, Elapse
    <2>2. \A k \in Dispatchers : ~Sweep(k)
      BY OthersKeepClaims DEF Sweep, ClaimDue, IInv
    <2>3. ASSUME NEW k \in Dispatchers, NEW b \in claims[k], Settle(k, b)
          PROVE  UNCHANGED <<status, attempt, due>>
      <3>1. k = d /\ b = c
        BY <2>3 DEF Settle, IInv, TypeOK
      <3>2. ~ClaimedRow(c)
        BY DEF ClaimedRow, IInv, TypeOK, Claim
      <3> QED BY <2>3, <3>1, <3>2 DEF Settle, Succeed, Fail
    <2> QED BY <2>1, <2>2, <2>3 DEF Next, Work, Begin, Deliver, SettleLost, Cancel, Crash
  <1>2. IInv /\ [Next]_vars => [Fenced]_vars
    BY <1>1
  <1> QED BY <1>2, Invariance, PTL DEF Safety, StaleClaimSettlesNothing

\* The outbox implements DeliveryPromise: every step of a dispatcher or of
\* the store is a step of the promise or invisible to the caller.
THEOREM Implementation == Safety => KeepsPromise
  <1>1. Init => Promise!Init
    BY DEF Init, Promise!Init
  <1>2. IInv /\ [Next]_vars => [Promise!Next]_(Promise!vars)
    <2> SUFFICES ASSUME IInv, [Next]_vars PROVE [Promise!Next]_(Promise!vars)
      OBVIOUS
    <2> USE DEF IInv, TypeOK
    <2>1. ASSUME NEW e \in Entries, Enqueue(e) PROVE Promise!Next
      BY <2>1 DEF Enqueue, Promise!Next, Promise!Accept
    <2>2. ASSUME NEW S \in SUBSET Entries, RequeueAll(S) PROVE Promise!Next
      BY <2>2 DEF RequeueAll, Promise!Next, Promise!Retry
    <2>3. ASSUME NEW d \in Dispatchers, NEW S \in SUBSET Entries, ClaimDue(d, S) PROVE Promise!Next
      <3>1. Exhausted \in SUBSET {e \in Entries : status[e] = "pending"}
        BY DEF Exhausted
      <3>2. Promise!GiveUp
        BY <2>3, <3>1 DEF ClaimDue, Promise!GiveUp
      <3> QED BY <3>2 DEF Promise!Next
    <2>4. ASSUME NEW d \in Dispatchers, NEW c \in claims[d], NEW o \in {"ok", "failed"}, Deliver(d, c, o)
          PROVE  [Promise!Next]_(Promise!vars)
      <3>1. c.entry \in Entries /\ status[c.entry] # "absent"
        BY DEF Claim, ClaimsBehindRows
      <3> QED BY <2>4, <3>1 DEF Deliver, Promise!Next, Promise!Reach, Promise!vars
    <2>5. ASSUME NEW d \in Dispatchers, NEW c \in claims[d], Settle(d, c)
          PROVE  [Promise!Next]_(Promise!vars)
      <3>1. c.entry \in Entries
        BY DEF Claim
      <3>2. CASE c.phase = "ok" /\ ClaimedRow(c)
        <4>1. Promise!Complete(c.entry)
          BY <2>5, <3>1, <3>2 DEF Settle, Succeed, ClaimedRow, OkClaimsWereAccepted, Promise!Complete
        <4> QED BY <3>1, <4>1 DEF Promise!Next
      <3>3. CASE c.phase = "failed" /\ ClaimedRow(c) /\ attempt[c.entry] >= MaxAttempts
        <4>1. {c.entry} \in SUBSET {e \in Entries : status[e] = "pending"}
          BY <3>1, <3>3 DEF ClaimedRow
        <4>2. status' = [e \in Entries |-> IF e \in {c.entry} THEN "failed" ELSE status[e]]
          BY <2>5, <3>1, <3>3 DEF Settle, Fail
        <4>3. Promise!GiveUp
          BY <2>5, <4>1, <4>2 DEF Settle, Promise!GiveUp
        <4> QED BY <4>3 DEF Promise!Next
      <3>4. CASE ~(c.phase = "ok" /\ ClaimedRow(c))
                 /\ ~(c.phase = "failed" /\ ClaimedRow(c) /\ attempt[c.entry] >= MaxAttempts)
        BY <2>5, <3>4 DEF Settle, Succeed, Fail, Promise!vars
      <3> QED BY <3>2, <3>3, <3>4
    <2>6. ASSUME NEW d \in Dispatchers, NEW c \in claims[d], Begin(d, c) \/ SettleLost(d, c)
          PROVE  UNCHANGED Promise!vars
      BY <2>6 DEF Begin, SettleLost, Promise!vars
    <2>7. ASSUME NEW d \in Dispatchers, Cancel(d) \/ Crash(d) PROVE UNCHANGED Promise!vars
      BY <2>7 DEF Cancel, Crash, Promise!vars
    <2>8. ASSUME NEW e \in Entries, Elapse(e) PROVE UNCHANGED Promise!vars
      BY <2>8 DEF Elapse, Promise!vars
    <2>9. CASE UNCHANGED vars
      BY <2>9 DEF vars, Promise!vars
    <2> QED
      BY <2>1, <2>2, <2>3, <2>4, <2>5, <2>6, <2>7, <2>8, <2>9
         DEF Next, Store, Requeue, RequeueFailed, Sweep, Work
  <1> QED BY <1>1, <1>2, Invariance, PTL DEF Safety, KeepsPromise, Promise!Safety
=============================================================================
