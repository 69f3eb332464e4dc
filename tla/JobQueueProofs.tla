--------------------------- MODULE JobQueueProofs ---------------------------
(***************************************************************************)
(* Proofs about JobQueue for every number of messages, consumers and       *)
(* attempts. What a loop is about to tell the stream is already true       *)
(* (HandsAreHonest): a loop that acknowledges saw its handler return nil,  *)
(* one that terminates saw the DLQ accept, and one that buries has the     *)
(* cause it will write. Handler runs lag the deliveries the server counts  *)
(* (RunsWithinDeliveries), which is what bounds them.                      *)
(***************************************************************************)
EXTENDS JobQueue, TLAPS

\* A loop at work holds a message of the stream and knows what it settles.
HandsAreHonest ==
  \A k \in Consumers :
    /\ loop[k].pc # "idle" =>
         /\ loop[k].msg \in Messages
         /\ work[loop[k].msg] # "none"
         /\ loop[k].n <= delivered[loop[k].msg]
    /\ loop[k].pc = "ack" => loop[k].msg \in handled
    /\ loop[k].pc = "term" => loop[k].msg \in Buried
    /\ loop[k].pc = "bury" =>
         \/ loop[k].reason = "exhausted" /\ delivered[loop[k].msg] >= MaxAttempts
         \/ loop[k].reason = "permanent" /\ loop[k].msg \in condemned \cup Malformed

RunsWithinDeliveries ==
  \A m \in Messages : runs[m] <= delivered[m] /\ runs[m] <= MaxAttempts

IInv == TypeOK /\ HandsAreHonest /\ RunsWithinDeliveries /\ NeverLost /\ DeadLetterHasCause

\* The initial state satisfies the inductive invariant.
LEMMA InitEstablishes == Init => IInv
  BY QueueAssumption DEF Init, IInv, TypeOK, HandsAreHonest, RunsWithinDeliveries, NeverLost,
     DeadLetterHasCause, Places, Stored, Hand, Idle, Buried

\* The stream's own steps move messages between ready, pending and delayed,
\* take a new one in or age one out; none claims that a message is done.
LEMMA StreamStep ==
  ASSUME IInv, Stream
  PROVE  IInv'
  <1>1. PICK m \in Messages : Submit(m) \/ AckWaitPasses(m) \/ DelayPasses(m) \/ Expire(m)
    BY DEF Stream
  <1>2. /\ UNCHANGED <<delivered, dlq, loop, handled, condemned, runs>>
        /\ \E p \in {"ready", "aged"} : work' = [work EXCEPT ![m] = p]
    BY <1>1 DEF Submit, AckWaitPasses, DelayPasses, Expire
  <1> QED
    BY <1>2 DEF IInv, TypeOK, HandsAreHonest, RunsWithinDeliveries, NeverLost,
       DeadLetterHasCause, Places, Stored, Buried

\* The delivery count moves on by one until it stands above MaxAttempts.
LEMMA CountedMovesOn ==
  ASSUME TypeOK, NEW m \in Messages
  PROVE  /\ Counted(m) \in 1..MaxAttempts + 1
         /\ Counted(m) >= delivered[m]
         /\ Counted(m) <= MaxAttempts => Counted(m) = delivered[m] + 1
  <1>1. delivered[m] \in 0..MaxAttempts + 1
    BY DEF TypeOK
  <1> QED BY <1>1, QueueAssumption DEF Counted

\* A delivery either runs the handler within its attempts or goes to the
\* dead letter with a cause.
LEMMA DeliverStep ==
  ASSUME IInv, NEW k \in Consumers, NEW m \in Messages, Deliver(k, m) \/ Unreadable(k, m)
  PROVE  IInv'
  <1> USE QueueAssumption
  <1> DEFINE n == Counted(m)
  <1>1. /\ n \in 1..MaxAttempts + 1 /\ n >= delivered[m]
        /\ n <= MaxAttempts => n = delivered[m] + 1
    BY CountedMovesOn DEF IInv
  <1>2. /\ delivered' = [delivered EXCEPT ![m] = n]
        /\ \E p \in {"pending", "delayed"} : work' = [work EXCEPT ![m] = p]
        /\ work[m] = "ready"
        /\ UNCHANGED <<dlq, handled, condemned>>
    BY DEF Deliver, Unreadable
  <1> HIDE DEF n
  <1>3. DeadLetterHasCause' /\ NeverLost'
    BY <1>1, <1>2 DEF IInv, TypeOK, DeadLetterHasCause, NeverLost, Buried
  <1>4. CASE Unreadable(k, m)
    <2>1. UNCHANGED <<loop, runs>>
      BY <1>4 DEF Unreadable
    <2>2. TypeOK'
      BY <1>1, <1>2, <2>1 DEF IInv, TypeOK, Places, Stored
    <2>3. HandsAreHonest'
      BY <1>1, <1>2, <2>1 DEF IInv, TypeOK, HandsAreHonest, Hand, Buried
    <2>4. RunsWithinDeliveries'
      BY <1>1, <1>2, <2>1 DEF IInv, TypeOK, RunsWithinDeliveries
    <2> QED BY <1>3, <2>2, <2>3, <2>4 DEF IInv
  <1>5. CASE Deliver(k, m)
    <2> DEFINE v == Verdict(m, n)
    <2>1. /\ loop' = [loop EXCEPT ![k] = [pc |-> IF v = "none" THEN "handling" ELSE "bury",
                                          msg |-> m, n |-> n, reason |-> v]]
          /\ runs' = IF v = "none" THEN [runs EXCEPT ![m] = @ + 1] ELSE runs
      BY <1>5 DEF Deliver, n
    <2>2. /\ v = "none" => n <= MaxAttempts
          /\ v \in {"none", "exhausted", "permanent"}
          /\ v = "exhausted" => n > MaxAttempts
          /\ v = "permanent" => m \in Malformed
      BY <1>1 DEF Verdict
    <2> HIDE DEF v
    <2>3. TypeOK'
      BY <1>1, <1>2, <2>1, <2>2 DEF IInv, TypeOK, Places, Stored, Hand, Reasons
    <2>4. HandsAreHonest'
      BY <1>1, <1>2, <2>1, <2>2 DEF IInv, TypeOK, HandsAreHonest, Hand, Buried
    <2>5. RunsWithinDeliveries'
      BY <1>1, <1>2, <2>1, <2>2 DEF IInv, TypeOK, RunsWithinDeliveries
    <2> QED BY <1>3, <2>3, <2>4, <2>5 DEF IInv
  <1> QED BY <1>4, <1>5

\* What a handler returns decides what the loop may then claim.
LEMMA ReturnStep ==
  ASSUME IInv, NEW k \in Consumers, NEW result \in {"ok", "error", "permanent"}, Return(k, result)
  PROVE  IInv'
  <1> USE QueueAssumption
  <1>1. loop[k].msg \in Messages /\ loop[k].n <= delivered[loop[k].msg]
    BY DEF Return, IInv, HandsAreHonest
  <1>2. TypeOK'
    BY <1>1 DEF Return, Becomes, IInv, TypeOK, Hand, Reasons
  <1>3. HandsAreHonest'
    BY <1>1 DEF Return, Becomes, IInv, TypeOK, Hand, HandsAreHonest, Buried
  <1>4. RunsWithinDeliveries' /\ NeverLost' /\ DeadLetterHasCause'
    BY DEF Return, IInv, RunsWithinDeliveries, NeverLost, DeadLetterHasCause, Buried
  <1> QED BY <1>2, <1>3, <1>4 DEF IInv

\* A dead letter is written with the cause the loop holds, and only an
\* accepted one leads to a termination.
LEMMA BuryStep ==
  ASSUME IInv, NEW k \in Consumers, NEW lands \in BOOLEAN, NEW answered \in BOOLEAN,
         Bury(k, lands, answered)
  PROVE  IInv'
  <1> USE QueueAssumption
  <1>1. /\ loop[k].msg \in Messages
        /\ loop[k].reason \in Reasons
        /\ IF loop[k].reason = "exhausted" THEN delivered[loop[k].msg] >= MaxAttempts
           ELSE loop[k].msg \in condemned \cup Malformed
    BY DEF Bury, IInv, HandsAreHonest, Reasons
  <1>2. /\ dlq' \in {dlq, dlq \cup {<<loop[k].msg, loop[k].reason>>}}
        /\ UNCHANGED <<work, delivered, handled, condemned, runs>>
    BY DEF Bury
  <1>3. Buried \subseteq Buried' /\ (answered => loop[k].msg \in Buried')
    <2>1. answered => <<loop[k].msg, loop[k].reason>> \in dlq'
      BY DEF Bury
    <2>2. dlq \subseteq dlq'
      BY <1>2
    <2> QED BY <2>1, <2>2 DEF Buried
  <1>4. TypeOK'
    BY <1>1, <1>2 DEF Bury, Becomes, IInv, TypeOK, Hand
  <1>5. HandsAreHonest'
    BY <1>1, <1>2, <1>3 DEF Bury, Becomes, IInv, TypeOK, Hand, HandsAreHonest
  <1>6. RunsWithinDeliveries' /\ NeverLost' /\ DeadLetterHasCause'
    BY <1>1, <1>2, <1>3 DEF IInv, RunsWithinDeliveries, NeverLost, DeadLetterHasCause
  <1> QED BY <1>4, <1>5, <1>6 DEF IInv

\* A settlement says what its loop knows to be true, and frees the loop.
LEMMA SettleStep ==
  ASSUME IInv, NEW k \in Consumers, Ack(k) \/ Nak(k) \/ Term(k) \/ Crash(k)
  PROVE  IInv'
  <1> USE QueueAssumption
  <1> DEFINE m == loop[k].msg
  <1>1. m \in Messages /\ work[m] # "none"
    BY DEF IInv, HandsAreHonest, Ack, Nak, Term, Crash
  <1>2. /\ loop' = [loop EXCEPT ![k] = Idle]
        /\ UNCHANGED <<delivered, dlq, handled, condemned, runs>>
        /\ \/ work' = work
           \/ work' = [work EXCEPT ![m] = "delayed"]
           \/ work' = [work EXCEPT ![m] = "acked"] /\ m \in handled
           \/ work' = [work EXCEPT ![m] = "termed"] /\ m \in Buried
    BY DEF Ack, Nak, Term, Crash, Drop, Leaves, IInv, HandsAreHonest
  <1> HIDE DEF m
  <1>3. TypeOK'
    BY <1>1, <1>2 DEF IInv, TypeOK, Places, Stored, Hand, Idle
  <1>4. HandsAreHonest'
    BY <1>1, <1>2 DEF IInv, TypeOK, HandsAreHonest, Hand, Idle, Buried
  <1>5. NeverLost'
    BY <1>1, <1>2 DEF IInv, TypeOK, NeverLost, Buried
  <1>6. RunsWithinDeliveries' /\ DeadLetterHasCause'
    BY <1>2 DEF IInv, RunsWithinDeliveries, DeadLetterHasCause
  <1> QED BY <1>3, <1>4, <1>5, <1>6 DEF IInv

\* The inductive invariant holds in every reachable state.
THEOREM Invariance == Safety => []IInv
  <1>1. IInv /\ [Next]_vars => IInv'
    <2> SUFFICES ASSUME IInv, [Next]_vars PROVE IInv'
      OBVIOUS
    <2>1. CASE UNCHANGED vars
      BY <2>1 DEF vars, IInv, TypeOK, HandsAreHonest, RunsWithinDeliveries, NeverLost,
         DeadLetterHasCause, Buried
    <2>2. CASE Stream
      BY <2>2, StreamStep
    <2>3. ASSUME NEW k \in Consumers, NEW m \in Messages, Deliver(k, m) \/ Unreadable(k, m)
          PROVE  IInv'
      BY <2>3, DeliverStep
    <2>4. ASSUME NEW k \in Consumers, Consume(k) PROVE IInv'
      BY <2>4, ReturnStep, BuryStep, SettleStep DEF Consume
    <2>5. ASSUME NEW k \in Consumers, Crash(k) PROVE IInv'
      BY <2>5, SettleStep
    <2> QED BY <2>1, <2>2, <2>3, <2>4, <2>5 DEF Next
  <1> QED BY <1>1, InitEstablishes, PTL DEF Safety

\* The variables keep their types.
THEOREM TypeCorrect == Safety => []TypeOK
  <1>1. IInv => TypeOK
    BY DEF IInv
  <1> QED BY <1>1, Invariance, PTL

\* No message leaves the stream before its age limit unless it was handled or
\* dead-lettered (consumer.go handle, deadLetter).
THEOREM NothingIsLost == Safety => []NeverLost
  <1>1. IInv => NeverLost
    BY DEF IInv
  <1> QED BY <1>1, Invariance, PTL

\* No message is handled more than MaxAttempts times, without a server-side
\* limit (consumer.go handle).
THEOREM RunsAreBounded == Safety => []HandlerRunsBounded
  <1>1. IInv => HandlerRunsBounded
    BY DEF IInv, RunsWithinDeliveries, HandlerRunsBounded
  <1> QED BY <1>1, Invariance, PTL

\* Dead letters carry a true reason (consumer.go handle, deadLetter).
THEOREM CausesAreTrue == Safety => []DeadLetterHasCause
  <1>1. IInv => DeadLetterHasCause
    BY DEF IInv
  <1> QED BY <1>1, Invariance, PTL
-----------------------------------------------------------------------------
(* A message that is not in Slow is, in hand, in nobody else's: it is pending, *)
(* or gone from the stream, until its loop lets go of it.                   *)

HandsAreApart ==
  /\ OneInstanceAtATime
  /\ \A k \in Consumers : loop[k].pc = "idle" => loop[k].msg = NoMessage
  /\ \A k \in Consumers, m \in Messages \ Slow :
       loop[k].msg = m => work[m] \notin {"none", "ready", "delayed"}

\* A handler that keeps to HandlerTimeout is the only one at work on its
\* message: AckWait does not pass before its loop is done (consumer.go
\* AckWait, HandlerTimeout, DLQPublishTimeout).
THEOREM OneInstance == Safety => []OneInstanceAtATime
  <1> USE QueueAssumption
  <1>1. Init => HandsAreApart
    BY DEF Init, HandsAreApart, OneInstanceAtATime, Idle
  <1>2. IInv /\ HandsAreApart /\ [Next]_vars => HandsAreApart'
    <2> SUFFICES ASSUME IInv, HandsAreApart, [Next]_vars PROVE HandsAreApart'
      OBVIOUS
    <2> USE DEF IInv, TypeOK
    <2>1. CASE UNCHANGED vars
      BY <2>1 DEF vars, HandsAreApart, OneInstanceAtATime
    <2>2. ASSUME NEW m \in Messages, Submit(m) \/ AckWaitPasses(m) \/ DelayPasses(m) \/ Expire(m)
          PROVE  HandsAreApart'
      <3>1. /\ UNCHANGED loop
            /\ \/ work' = [work EXCEPT ![m] = "aged"]
               \/ work' = [work EXCEPT ![m] = "ready"] /\ (m \in Slow \/ \A k \in Consumers : loop[k].msg # m)
        BY <2>2 DEF Submit, AckWaitPasses, DelayPasses, Expire, Outlived, HandsAreApart
      <3> QED BY <3>1 DEF HandsAreApart, OneInstanceAtATime
    <2>3. ASSUME NEW k \in Consumers, NEW m \in Messages, Deliver(k, m) PROVE HandsAreApart'
      <3>1. /\ loop'[k].msg = m /\ loop'[k].pc # "idle"
            /\ \A i \in Consumers \ {k} : loop'[i] = loop[i]
        BY <2>3 DEF Deliver, Verdict
      <3>2. work' = [work EXCEPT ![m] = "pending"] /\ work[m] = "ready"
        BY <2>3 DEF Deliver
      <3> QED BY <3>1, <3>2 DEF HandsAreApart, OneInstanceAtATime
    <2>4. ASSUME NEW k \in Consumers, NEW m \in Messages, Unreadable(k, m) PROVE HandsAreApart'
      BY <2>4 DEF Unreadable, HandsAreApart, OneInstanceAtATime
    <2>5. ASSUME NEW k \in Consumers, NEW pc \in {"ack", "nak", "bury", "term"}, NEW reason,
                 loop[k].pc # "idle", Becomes(k, pc, reason), UNCHANGED work
          PROVE  HandsAreApart'
      <3>1. /\ loop'[k].msg = loop[k].msg /\ loop'[k].pc = pc
            /\ \A i \in Consumers \ {k} : loop'[i] = loop[i]
        BY <2>5 DEF Becomes
      <3> QED BY <2>5, <3>1 DEF HandsAreApart, OneInstanceAtATime
    <2>6. ASSUME NEW k \in Consumers, Ack(k) \/ Nak(k) \/ Term(k) \/ Crash(k) PROVE HandsAreApart'
      <3>1. /\ loop[k].msg \in Messages
            /\ loop'[k].msg = NoMessage /\ loop'[k].pc = "idle"
            /\ \A i \in Consumers \ {k} : loop'[i] = loop[i]
        BY <2>6 DEF Ack, Nak, Term, Crash, Drop, Idle, HandsAreHonest
      <3>2. work' = work \/ \E p \in Places : work' = [work EXCEPT ![loop[k].msg] = p]
        BY <2>6 DEF Ack, Nak, Term, Crash, Leaves, Places, Stored
      <3> QED BY <3>1, <3>2 DEF HandsAreApart, OneInstanceAtATime
    <2>7. ASSUME NEW k \in Consumers, NEW result \in {"ok", "error", "permanent"}, Return(k, result)
          PROVE  HandsAreApart'
      BY <2>5, <2>7 DEF Return
    <2>8. ASSUME NEW k \in Consumers, NEW lands \in BOOLEAN, NEW answered \in BOOLEAN,
                 Bury(k, lands, answered)
          PROVE  HandsAreApart'
      BY <2>5, <2>8 DEF Bury
    <2> QED BY <2>1, <2>2, <2>3, <2>4, <2>6, <2>7, <2>8 DEF Next, Stream, Consume
  <1>3. HandsAreApart => OneInstanceAtATime
    BY DEF HandsAreApart
  <1> QED BY <1>1, <1>2, <1>3, Invariance, PTL DEF Safety

-----------------------------------------------------------------------------

\* The queue implements the delivery promise: the steps of the stream and of
\* the loops accept, reach, complete or give up a message, or change nothing
\* the caller can see.
THEOREM Implementation == Safety => KeepsPromise
  <1>1. Init => Promise!Init
    BY DEF Init, Promise!Init, Outcome, Stored
  <1>2. IInv /\ [Next]_vars => [Promise!Next]_(Promise!vars)
    <2> SUFFICES ASSUME IInv, [Next]_vars PROVE [Promise!Next]_(Promise!vars)
      OBVIOUS
    <2> USE DEF IInv, TypeOK
    <2>1. ASSUME UNCHANGED <<work, handled>> PROVE UNCHANGED Promise!vars
      BY <2>1 DEF Promise!vars, Outcome
    <2>2. ASSUME NEW m \in Messages, NEW p \in Stored,
                 work[m] \in Stored, work' = [work EXCEPT ![m] = p], UNCHANGED handled
          PROVE  UNCHANGED Promise!vars
      <3>1. \A x \in Messages : Outcome'[x] = Outcome[x]
        BY <2>2 DEF Outcome, Stored
      <3> QED BY <2>2, <3>1 DEF Promise!vars, Outcome
    <2>3. ASSUME NEW m \in Messages, Submit(m) PROVE Promise!Next
      <3>1. Promise!Accept(m)
        BY <2>3 DEF Submit, Promise!Accept, Outcome, Stored
      <3> QED BY <3>1 DEF Promise!Next
    <2>4. ASSUME NEW m \in Messages, NEW p \in {"termed", "aged"},
                 work[m] \in Stored, work' = [work EXCEPT ![m] = p], UNCHANGED handled
          PROVE  Promise!Next
      <3>1. {m} \in SUBSET {e \in Messages : Outcome[e] = "pending"}
        BY <2>4 DEF Outcome, Stored
      <3>2. Outcome' = [e \in Messages |-> IF e \in {m} THEN "failed" ELSE Outcome[e]]
        BY <2>4 DEF Outcome, Stored
      <3>3. Promise!GiveUp
        BY <2>4, <3>1, <3>2 DEF Promise!GiveUp
      <3> QED BY <3>3 DEF Promise!Next
    <2>5. ASSUME NEW m \in Messages, m \in handled,
                 work[m] \in Stored, work' = [work EXCEPT ![m] = "acked"], UNCHANGED handled
          PROVE  Promise!Next
      <3>1. Promise!Complete(m)
        BY <2>5 DEF Promise!Complete, Outcome, Stored
      <3> QED BY <3>1 DEF Promise!Next
    <2>6. ASSUME NEW k \in Consumers, NEW result \in {"ok", "error", "permanent"}, Return(k, result)
          PROVE  [Promise!Next]_(Promise!vars)
      <3>1. loop[k].msg \in Messages /\ work[loop[k].msg] # "none"
        BY <2>6 DEF Return, HandsAreHonest
      <3>2. CASE result = "ok"
        <4>1. Promise!Reach(loop[k].msg)
          BY <2>6, <3>1, <3>2 DEF Return, Promise!Reach, Outcome, Stored
        <4> QED BY <3>1, <4>1 DEF Promise!Next
      <3>3. CASE result # "ok"
        BY <2>1, <2>6, <3>3 DEF Return
      <3> QED BY <3>2, <3>3
    <2>7. ASSUME NEW m \in Messages, AckWaitPasses(m) \/ DelayPasses(m)
          PROVE  UNCHANGED Promise!vars
      BY <2>2, <2>7 DEF AckWaitPasses, DelayPasses, Stored
    <2>8. ASSUME NEW m \in Messages, Expire(m) PROVE Promise!Next
      BY <2>4, <2>8 DEF Expire
    <2>9. ASSUME NEW k \in Consumers, NEW m \in Messages, Deliver(k, m) \/ Unreadable(k, m)
          PROVE  UNCHANGED Promise!vars
      BY <2>2, <2>9 DEF Deliver, Unreadable, Stored
    <2>10. ASSUME NEW k \in Consumers, Ack(k) \/ Nak(k) \/ Term(k)
           PROVE  [Promise!Next]_(Promise!vars)
      <3>1. /\ loop[k].msg \in Messages
            /\ loop[k].pc = "ack" => loop[k].msg \in handled
        BY <2>10 DEF Ack, Nak, Term, HandsAreHonest
      <3>2. CASE Ack(k)
        BY <2>1, <2>5, <3>1, <3>2 DEF Ack, Leaves
      <3>3. CASE Nak(k)
        BY <2>1, <2>2, <3>1, <3>3 DEF Nak, Stored
      <3>4. CASE Term(k)
        BY <2>1, <2>4, <3>1, <3>4 DEF Term, Leaves
      <3> QED BY <2>10, <3>2, <3>3, <3>4
    <2>11. ASSUME NEW k \in Consumers, Crash(k) PROVE UNCHANGED Promise!vars
      BY <2>1, <2>11 DEF Crash
    <2>12. ASSUME NEW k \in Consumers, NEW lands \in BOOLEAN, NEW answered \in BOOLEAN,
                  Bury(k, lands, answered)
           PROVE  UNCHANGED Promise!vars
      BY <2>1, <2>12 DEF Bury
    <2>13. CASE UNCHANGED vars
      BY <2>1, <2>13 DEF vars
    <2> QED BY <2>3, <2>6, <2>7, <2>8, <2>9, <2>10, <2>11, <2>12, <2>13
               DEF Next, Stream, Consume
  <1> QED BY <1>1, <1>2, Invariance, PTL DEF Safety, KeepsPromise, Promise!Safety
=============================================================================
