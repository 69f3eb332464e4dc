------------------------------ MODULE JobQueue ------------------------------
(***************************************************************************)
(* The job queue (internal/platform/queue): one declared job's messages in *)
(* the JetStream stream WORK, the consumer loops of the instances that run *)
(* its handler, and the DLQ.                                               *)
(*                                                                         *)
(* JetStream is external and modelled by what consumer.go relies on: it    *)
(* counts deliveries, redelivers what nobody acknowledged within AckWait   *)
(* or was refused with a delay, and drops what is acknowledged, terminated *)
(* or older than MaxAge. A call to it may be lost on the way there, and    *)
(* its answer on the way back.                                             *)
(***************************************************************************)
EXTENDS Integers, FiniteSets

CONSTANTS
  Messages,       \* messages submitted
  Malformed,      \* those whose headers decodeMessage refuses
  Consumers,      \* consume loops, one per instance
  NoMessage,      \* a loop with nothing in hand
  MaxAttempts,    \* MaxAttempts (5)
  MaxAckPending,  \* consumerMaxAckPending (16)
  Slow            \* the messages whose handling may outlast HandlerTimeout

ASSUME QueueAssumption ==
  /\ Malformed \subseteq Messages
  /\ MaxAttempts \in Nat \ {0}
  /\ MaxAckPending \in Nat \ {0}
  /\ Slow \subseteq Messages
  /\ NoMessage \notin Messages

VARIABLES
  work,       \* work[m]: what the WORK stream does with m
  delivered,  \* delivered[m]: NumDelivered, as far as the consumer counts
  dlq,        \* <<m, reason>> accepted by the DLQ stream
  loop,       \* loop[k]: the message a consume loop has in hand
  handled,    \* history: the messages a handler has returned nil for
  condemned,  \* history: the messages a handler has called permanent
  runs        \* history: runs[m] counts the handler runs of m

vars == <<work, delivered, dlq, loop, handled, condemned, runs>>

\* "ready": free to be delivered; "pending": delivered and not acknowledged;
\* "delayed": refused with a delay; then how m left the stream.
Stored == {"ready", "pending", "delayed"}
Places == {"none", "acked", "termed", "aged"} \cup Stored

Reasons == {"exhausted", "permanent"}

Idle == [pc |-> "idle", msg |-> NoMessage, n |-> 0, reason |-> "none"]

Hand == [pc : {"idle", "handling", "ack", "nak", "bury", "term"}, msg : Messages \cup {NoMessage},
         n : 0..MaxAttempts + 1, reason : Reasons \cup {"none"}]

Init ==
  /\ work = [m \in Messages |-> "none"]
  /\ delivered = [m \in Messages |-> 0]
  /\ dlq = {}
  /\ loop = [k \in Consumers |-> Idle]
  /\ handled = {}
  /\ condemned = {}
  /\ runs = [m \in Messages |-> 0]

-----------------------------------------------------------------------------
(* The stream *)

\* A Submit the stream takes. The caller may still see an error: an attempt
\* whose answer was lost is retried under the same id and stored once.
Submit(m) ==
  /\ work[m] = "none"
  /\ work' = [work EXCEPT ![m] = "ready"]
  /\ UNCHANGED <<delivered, dlq, loop, handled, condemned, runs>>

\* Mutant: AckWait covers the handler, and not the DLQ publish after it.
OutlivedHandlerOnly(m) == m \in Slow \/ \A k \in Consumers : loop[k].msg = m => loop[k].pc # "handling"

\* AckWait (30s) is longer than HandlerTimeout (25s) and DLQPublishTimeout
\* (4s) together, so it passes on a live loop only if the handler overruns.
Outlived(m) == m \in Slow \/ \A k \in Consumers : loop[k].msg # m

\* Mutant: the consumer asks for no acknowledgement, so nothing unacknowledged
\* comes back.
AckWaitPassesNever(m) == FALSE /\ work[m] = "pending" /\ UNCHANGED vars

AckWaitPasses(m) ==
  /\ work[m] = "pending"
  /\ Outlived(m)
  /\ work' = [work EXCEPT ![m] = "ready"]
  /\ UNCHANGED <<delivered, dlq, loop, handled, condemned, runs>>

DelayPasses(m) ==
  /\ work[m] = "delayed"
  /\ work' = [work EXCEPT ![m] = "ready"]
  /\ UNCHANGED <<delivered, dlq, loop, handled, condemned, runs>>

\* WORK's MaxAge.
Expire(m) ==
  /\ work[m] \in Stored
  /\ work' = [work EXCEPT ![m] = "aged"]
  /\ UNCHANGED <<delivered, dlq, loop, handled, condemned, runs>>

\* The consumer's MaxAckPending holds back first deliveries only.
HasRoom(m) ==
  delivered[m] > 0
    \/ Cardinality({x \in Messages : work[x] \in Stored /\ delivered[x] > 0}) < MaxAckPending

-----------------------------------------------------------------------------
(* The consume loop *)

\* n: handle caps the server's NumDelivered at MaxAttempts + 1.
Counted(m) == IF delivered[m] <= MaxAttempts THEN delivered[m] + 1 ELSE delivered[m]

\* Mutant: one handler run too many.
VerdictLate(m, n) ==
  IF m \in Malformed THEN "permanent" ELSE IF n > MaxAttempts + 1 THEN "exhausted" ELSE "none"

\* Whether handle dead-letters a delivery without running the handler.
Verdict(m, n) ==
  IF m \in Malformed THEN "permanent" ELSE IF n > MaxAttempts THEN "exhausted" ELSE "none"

\* One message per pull: an idle loop takes a delivery and starts its handler,
\* or goes straight to the dead letter.
Deliver(k, m) ==
  /\ loop[k].pc = "idle"
  /\ work[m] = "ready"
  /\ HasRoom(m)
  /\ work' = [work EXCEPT ![m] = "pending"]
  /\ delivered' = [delivered EXCEPT ![m] = Counted(m)]
  /\ LET n == Counted(m)
         verdict == Verdict(m, n) IN
     /\ loop' = [loop EXCEPT ![k] =
          [pc |-> IF verdict = "none" THEN "handling" ELSE "bury", msg |-> m, n |-> n, reason |-> verdict]]
     /\ runs' = IF verdict = "none" THEN [runs EXCEPT ![m] = @ + 1] ELSE runs
  /\ UNCHANGED <<dlq, handled, condemned>>

\* A delivery whose metadata cannot be read is refused with a delay.
Unreadable(k, m) ==
  /\ loop[k].pc = "idle"
  /\ work[m] = "ready"
  /\ HasRoom(m)
  /\ \E place \in {"delayed", "pending"} : work' = [work EXCEPT ![m] = place]
  /\ delivered' = [delivered EXCEPT ![m] = Counted(m)]
  /\ UNCHANGED <<dlq, loop, handled, condemned, runs>>

Becomes(k, pc, reason) ==
  loop' = [loop EXCEPT ![k] = [pc |-> pc, msg |-> loop[k].msg, n |-> loop[k].n, reason |-> reason]]

\* Mutant: a permanent error is acknowledged away.
ReturnDropping(k, result) ==
  /\ loop[k].pc = "handling"
  /\ Becomes(k, IF result = "error" THEN "nak" ELSE "ack", "none")
  /\ handled' = IF result = "ok" THEN handled \cup {loop[k].msg} ELSE handled
  /\ UNCHANGED <<work, delivered, dlq, condemned, runs>>

\* Mutant: the last attempt's error is dead-lettered one attempt early.
ReturnEarly(k, result) ==
  /\ loop[k].pc = "handling"
  /\ result = "error"
  /\ Becomes(k, "bury", "exhausted")
  /\ UNCHANGED <<work, delivered, dlq, handled, condemned, runs>>

\* The handler returns nil, an error worth a retry (a panic is one), or a
\* permanent one.
Return(k, result) ==
  /\ loop[k].pc = "handling"
  /\ \/ result = "ok" /\ Becomes(k, "ack", "none")
     \/ result = "permanent" /\ Becomes(k, "bury", "permanent")
     \/ result = "error" /\ loop[k].n < MaxAttempts /\ Becomes(k, "nak", "none")
     \/ result = "error" /\ loop[k].n >= MaxAttempts /\ Becomes(k, "bury", "exhausted")
  /\ handled' = IF result = "ok" THEN handled \cup {loop[k].msg} ELSE handled
  /\ condemned' = IF result = "permanent" THEN condemned \cup {loop[k].msg} ELSE condemned
  /\ UNCHANGED <<work, delivered, dlq, runs>>

Drop(k) == loop' = [loop EXCEPT ![k] = Idle]

\* A settlement call reaches the stream, which then drops the message, or is
\* lost with a warning.
Leaves(k, place) ==
  \/ work[loop[k].msg] \in Stored /\ work' = [work EXCEPT ![loop[k].msg] = place]
  \/ UNCHANGED work

Ack(k) ==
  /\ loop[k].pc = "ack"
  /\ Leaves(k, "acked")
  /\ Drop(k)
  /\ UNCHANGED <<delivered, dlq, handled, condemned, runs>>

\* A refusal, with nakDelay after a failed handler and dlqRetryDelay after a
\* failed DLQ publish. A message already free again is not delayed.
Nak(k) ==
  /\ loop[k].pc = "nak"
  /\ \/ work[loop[k].msg] = "pending" /\ work' = [work EXCEPT ![loop[k].msg] = "delayed"]
     \/ UNCHANGED work
  /\ Drop(k)
  /\ UNCHANGED <<delivered, dlq, handled, condemned, runs>>

\* Mutant: the message is terminated though the DLQ refused it.
BuryBlindly(k, lands, answered) ==
  /\ loop[k].pc = "bury"
  /\ dlq' = IF lands THEN dlq \cup {<<loop[k].msg, loop[k].reason>>} ELSE dlq
  /\ Becomes(k, "term", "none")
  /\ UNCHANGED <<work, delivered, handled, condemned, runs>>

\* deadLetter's publish: accepted, refused, or accepted with the answer lost.
Bury(k, lands, answered) ==
  /\ loop[k].pc = "bury"
  /\ answered => lands
  /\ dlq' = IF lands THEN dlq \cup {<<loop[k].msg, loop[k].reason>>} ELSE dlq
  /\ Becomes(k, IF answered THEN "term" ELSE "nak", "none")
  /\ UNCHANGED <<work, delivered, handled, condemned, runs>>

Term(k) ==
  /\ loop[k].pc = "term"
  /\ Leaves(k, "termed")
  /\ Drop(k)
  /\ UNCHANGED <<delivered, dlq, handled, condemned, runs>>

\* The instance dies, or its drainWait ends before its handler does.
Crash(k) ==
  /\ loop[k].pc # "idle"
  /\ Drop(k)
  /\ UNCHANGED <<work, delivered, dlq, handled, condemned, runs>>

-----------------------------------------------------------------------------

Stream == \E m \in Messages : Submit(m) \/ AckWaitPasses(m) \/ DelayPasses(m) \/ Expire(m)

Consume(k) ==
  \/ \E result \in {"ok", "error", "permanent"} : Return(k, result)
  \/ \E lands, answered \in BOOLEAN : Bury(k, lands, answered)
  \/ Ack(k)
  \/ Nak(k)
  \/ Term(k)

Next ==
  \/ Stream
  \/ \E k \in Consumers :
       \/ \E m \in Messages : Deliver(k, m) \/ Unreadable(k, m)
       \/ Consume(k)
       \/ Crash(k)

Safety == Init /\ [][Next]_vars

(***************************************************************************)
(* Time passes, the stream hands out what is ready, and a handler returns  *)
(* (it is given a context with a timeout). A message that keeps coming     *)
(* back is not met by a dying instance, a lost settlement or a refusing    *)
(* DLQ every single time. Nothing is assumed of what handlers return.      *)
(***************************************************************************)
Has(k, m, pc) == loop[k].msg = m /\ loop[k].pc = pc

Fairness ==
  \A m \in Messages :
    /\ WF_vars(AckWaitPasses(m)) /\ WF_vars(DelayPasses(m))
    /\ SF_vars(\E k \in Consumers : Deliver(k, m))
    /\ \A k \in Consumers : WF_vars(loop[k].msg = m /\ Consume(k))
    /\ SF_vars(\E k \in Consumers : Has(k, m, "ack") /\ Ack(k) /\ work'[m] = "acked")
    /\ SF_vars(\E k \in Consumers : Has(k, m, "bury") /\ Bury(k, TRUE, TRUE))
    /\ SF_vars(\E k \in Consumers : Has(k, m, "term") /\ Term(k) /\ work'[m] = "termed")

Spec == Safety /\ Fairness

-----------------------------------------------------------------------------
(* Properties *)

\* Every variable keeps the shape the stream and the loops have; in
\* particular the delivery count stays within what handle tells apart.
TypeOK ==
  /\ work \in [Messages -> Places]
  /\ delivered \in [Messages -> 0..MaxAttempts + 1]
  /\ dlq \subseteq Messages \X Reasons
  /\ loop \in [Consumers -> Hand]
  /\ handled \subseteq Messages
  /\ condemned \subseteq Messages
  /\ runs \in [Messages -> Nat]

Buried == {d[1] : d \in dlq}

\* A message leaves the stream before MaxAge only once a handler has returned
\* nil for it or the DLQ holds it, whatever is lost or dies in between
\* (docs/queue/README.md: "A failed DLQ publish never loses the message").
NeverLost ==
  \A m \in Messages :
    /\ work[m] = "acked" => m \in handled
    /\ work[m] = "termed" => m \in Buried

\* No message is handed to the handler more than MaxAttempts times, though
\* the server redelivers without limit (consumer.go handle).
HandlerRunsBounded == \A m \in Messages : runs[m] <= MaxAttempts

\* The reason a dead letter carries is true: an exhausted one used up its
\* deliveries, a permanent one was condemned by a handler or unreadable.
DeadLetterHasCause ==
  \A d \in dlq : IF d[2] = "exhausted" THEN delivered[d[1]] >= MaxAttempts
                 ELSE d[1] \in condemned \cup Malformed

\* No two loops ever have one message in hand if its handler keeps to its
\* timeout, whatever becomes of the others (docs/queue/README.md: "exactly one
\* instance").
OneInstanceAtATime ==
  \A i, k \in Consumers :
    (i # k /\ loop[i].msg \notin Slow \cup {NoMessage}) => loop[i].msg # loop[k].msg

\* A submitted message does not stay in the stream for ever, even if every
\* handler run fails and instances die.
EventuallySettled ==
  \A m \in Messages : work[m] \in Stored ~> work[m] \in {"acked", "termed", "aged"}

Outcome ==
  [m \in Messages |-> IF work[m] = "none" THEN "absent" ELSE IF work[m] \in Stored THEN "pending"
                      ELSE IF work[m] = "acked" THEN "delivered" ELSE "failed"]

Promise == INSTANCE DeliveryPromise WITH Entries <- Messages, state <- Outcome, reached <- handled

\* The queue keeps the promise the outbox keeps: a settled message stays
\* settled, and one that is done was accepted by a handler.
KeepsPromise == Promise!Safety
=============================================================================
