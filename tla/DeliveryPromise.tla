--------------------------- MODULE DeliveryPromise ---------------------------
(***************************************************************************)
(* What the outbox promises its caller, without leases, attempts or        *)
(* dispatchers: an accepted entry ends delivered or failed, it is only     *)
(* called delivered after a deliverer accepted it, a delivered entry stays *)
(* delivered, and only an explicit retry takes an entry out of failed.     *)
(***************************************************************************)
CONSTANT Entries

VARIABLES
  state,      \* state[e]: "absent", "pending", "delivered" or "failed"
  reached     \* the entries a deliverer has accepted at least once

vars == <<state, reached>>

Init ==
  /\ state = [e \in Entries |-> "absent"]
  /\ reached = {}

Accept(e) ==
  /\ state[e] = "absent"
  /\ state' = [state EXCEPT ![e] = "pending"]
  /\ UNCHANGED reached

\* A deliverer may accept an entry that has meanwhile been settled: delivery
\* is at least once, and an attempt that outlives its lease is not recalled.
Reach(e) ==
  /\ state[e] # "absent"
  /\ reached' = reached \cup {e}
  /\ UNCHANGED state

Complete(e) ==
  /\ state[e] = "pending"
  /\ e \in reached
  /\ state' = [state EXCEPT ![e] = "delivered"]
  /\ UNCHANGED reached

\* One sweep may give up on several entries at once.
GiveUp ==
  \E S \in SUBSET {e \in Entries : state[e] = "pending"} :
    /\ state' = [e \in Entries |-> IF e \in S THEN "failed" ELSE state[e]]
    /\ UNCHANGED reached

\* One retry request may take several entries out of failed.
Retry ==
  \E S \in SUBSET {e \in Entries : state[e] = "failed"} :
    /\ state' = [e \in Entries |-> IF e \in S THEN "pending" ELSE state[e]]
    /\ UNCHANGED reached

Next ==
  \/ \E e \in Entries : Accept(e) \/ Reach(e) \/ Complete(e)
  \/ GiveUp
  \/ Retry

Safety == Init /\ [][Next]_vars

\* Every pending entry is settled one way or the other.
Settles == \A e \in Entries : state[e] = "pending" ~> state[e] \in {"delivered", "failed"}

Spec == Safety /\ Settles
=============================================================================
