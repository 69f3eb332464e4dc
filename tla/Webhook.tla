------------------------------- MODULE Webhook -------------------------------
(***************************************************************************)
(* The webhook endpoints of one project (internal/webhook): their rows,    *)
(* their signing secrets, the fan-out of events into the outbox and the    *)
(* deliverer that signs and posts each delivery.                           *)
(*                                                                         *)
(* A service call that decides on what it read is two steps, the read and  *)
(* the write; every store call is a transaction of its own. Delete, Retry, *)
(* SendTest and Enqueue are one step: their write depends on nothing that  *)
(* another call can change after their read. The outbox is what            *)
(* DeliveryPromise says of it. The attempt log, which no operation decides *)
(* on, is left out.                                                        *)
(*                                                                         *)
(* A secret is a number and its sealed form a number with the key that     *)
(* sealed it; while the key is being changed, some processes have the old  *)
(* one and some the new one. URLs, descriptions and event types are left   *)
(* out: which active endpoints subscribe to an event is an open choice.    *)
(***************************************************************************)
EXTENDS Integers, FiniteSets

CONSTANTS
  Callers,       \* requests of the control plane and the console
  Senders,       \* deliveries in flight in the workers
  Ids,           \* endpoint ids
  Events,        \* event ids, pings included
  MaxEndpoints,  \* MaxEndpointsPerProject (10 in the code)
  MaxSecrets,    \* bound of the model: secrets ever made
  Rekeyed,       \* the callers and senders whose process has the new encryption key
  None           \* no row, no secret, no request

ASSUME WebhookAssumption ==
  /\ IsFiniteSet(Callers)
  /\ Callers # {}
  /\ MaxEndpoints \in Nat \ {0}
  /\ MaxSecrets \in Nat

VARIABLES
  endpoints,  \* endpoints[i]: the row of endpoint i, or None
  request,    \* request[c]: what caller c has read and not yet written
  minted,     \* how many secrets have been made
  delivery,   \* delivery[<<e, i>>]: the outbox entry of event e for endpoint i
  sending,    \* sending[s]: the delivery sender s is posting
  received,   \* history: the deliveries a receiver answered with a 2xx
  valid,      \* history: valid[i] is what tenants may verify i's signatures with
  gone        \* history: the endpoints ever deleted

rows == <<endpoints, valid, gone>>
posting == <<sending, received>>
vars == <<rows, request, minted, delivery, posting>>

Secrets == 1..MaxSecrets
Sealed == [secret : Secrets, rekeyed : BOOLEAN]
Endpoint == [active : BOOLEAN, primary : Sealed, secondary : Sealed \cup {None}]
Ops == {"create", "update", "rotate", "retire"}
Request == [op : Ops, id : Ids, loaded : Endpoint]
Deliveries == Events \X Ids

\* A row is told from no row, and a secret from no secret.
ASSUME RowAssumption == None \notin Endpoint \cup Sealed

Init ==
  /\ endpoints = [i \in Ids |-> None]
  /\ request = [c \in Callers |-> None]
  /\ minted = 0
  /\ delivery = [d \in Deliveries |-> "absent"]
  /\ sending = [s \in Senders |-> None]
  /\ received = {}
  /\ valid = [i \in Ids |-> {}]
  /\ gone = {}

-----------------------------------------------------------------------------
(* Reading *)

Existing == {i \in Ids : endpoints[i] # None}

\* sealSecret and openSecret: a secret opens under the key that sealed it.
Seal(p, n) == [secret |-> n, rekeyed |-> p \in Rekeyed]
Opens(p, sealed) == sealed.rekeyed = (p \in Rekeyed)

Idle(c) == request[c] = None

Hold(c, op, i, loaded) ==
  /\ Idle(c)
  /\ request' = [request EXCEPT ![c] = [op |-> op, id |-> i, loaded |-> loaded]]

\* Mutant: the limit is compared the wrong way round.
BelowLimitOrAt == Cardinality(Existing) <= MaxEndpoints

\* The limit, as Create reads it.
BelowLimit == Cardinality(Existing) < MaxEndpoints

\* Create draws a fresh id, counts the project's endpoints and seals a secret.
CreateRead(c, i) ==
  /\ BelowLimit
  /\ endpoints[i] = None /\ i \notin gone
  /\ \A r \in Callers : ~Idle(r) => request[r].id # i
  /\ minted < MaxSecrets
  /\ minted' = minted + 1
  /\ Hold(c, "create", i, [active |-> TRUE, primary |-> Seal(c, minted + 1), secondary |-> None])
  /\ UNCHANGED <<rows, delivery, posting>>

\* Update, with the active flag the caller asks for.
UpdateRead(c, i, active) ==
  /\ endpoints[i] # None
  /\ Hold(c, "update", i, [endpoints[i] EXCEPT !.active = active])
  /\ UNCHANGED <<rows, minted, delivery, posting>>

RotateRead(c, i) ==
  /\ endpoints[i] # None
  /\ minted < MaxSecrets
  /\ Hold(c, "rotate", i, endpoints[i])
  /\ UNCHANGED <<rows, minted, delivery, posting>>

\* RetireSecondary returns at once when there is no secondary.
RetireRead(c, i) ==
  /\ endpoints[i] # None
  /\ endpoints[i].secondary # None
  /\ Hold(c, "retire", i, endpoints[i])
  /\ UNCHANGED <<rows, minted, delivery, posting>>

-----------------------------------------------------------------------------
(* Writing *)

\* What Save leaves in the row: an insert takes the whole copy, a conflict
\* keeps the secrets that are there.
Upserted(row, copy) == IF row = None THEN copy ELSE [row EXCEPT !.active = copy.active]

\* The write of Create and of Update. The copy of an endpoint deleted since it
\* was read is inserted again.
Save(c) ==
  LET r == request[c] IN
  /\ ~Idle(c) /\ r.op \in {"create", "update"}
  /\ endpoints' = [endpoints EXCEPT ![r.id] = Upserted(@, r.loaded)]
  /\ valid' = IF r.op = "create" THEN [valid EXCEPT ![r.id] = {r.loaded.primary.secret}] ELSE valid
  /\ request' = [request EXCEPT ![c] = None]
  /\ UNCHANGED <<minted, gone, delivery, posting>>

\* Mutant: the secrets are written over whatever is there.
SecretsUnchecked(c) == endpoints[request[c].id] # None

\* SaveSecrets writes only over the pair that was read.
SecretsUnchanged(c) ==
  LET row == endpoints[request[c].id]
      read == request[c].loaded
  IN row # None /\ row.primary = read.primary /\ row.secondary = read.secondary

\* Mutant: a primary that does not open leaves the old secondary in place.
RotatedKeeping(c, read) ==
  [primary |-> Seal(c, minted + 1),
   secondary |-> IF Opens(c, read.primary) THEN Seal(c, read.primary.secret) ELSE read.secondary]

\* The old primary becomes the secondary when it can still be opened.
Rotated(c, read) ==
  [primary |-> Seal(c, minted + 1),
   secondary |-> IF Opens(c, read.primary) THEN Seal(c, read.primary.secret) ELSE None]

\* The secrets a rotation or a retirement ends: the old secondary, and a
\* primary that could not be opened.
Ended(c, read) ==
  {read.secondary.secret : x \in {read.secondary} \ {None}}
    \cup {x \in {read.primary.secret} : request[c].op = "rotate" /\ ~Opens(c, read.primary)}

SaveSecrets(c, pair, ended, begun) ==
  LET i == request[c].id IN
  /\ endpoints' = [endpoints EXCEPT ![i] =
       [active |-> @.active, primary |-> pair.primary, secondary |-> pair.secondary]]
  /\ valid' = [valid EXCEPT ![i] = (@ \ ended) \cup begun]

RotateSave(c) ==
  LET r == request[c] IN
  /\ ~Idle(c) /\ r.op = "rotate"
  /\ minted < MaxSecrets
  /\ minted' = minted + 1
  /\ \/ SecretsUnchanged(c)
          /\ SaveSecrets(c, Rotated(c, r.loaded), Ended(c, r.loaded), {minted + 1})
     \/ ~SecretsUnchanged(c) /\ UNCHANGED <<endpoints, valid>>
  /\ request' = [request EXCEPT ![c] = None]
  /\ UNCHANGED <<gone, delivery, posting>>

RetireSave(c) ==
  LET r == request[c] IN
  /\ ~Idle(c) /\ r.op = "retire"
  /\ \/ SecretsUnchanged(c)
          /\ SaveSecrets(c, [primary |-> r.loaded.primary, secondary |-> None], Ended(c, r.loaded), {})
     \/ ~SecretsUnchanged(c) /\ UNCHANGED <<endpoints, valid>>
  /\ request' = [request EXCEPT ![c] = None]
  /\ UNCHANGED <<minted, gone, delivery, posting>>

Delete(c, i) ==
  /\ Idle(c)
  /\ endpoints[i] # None
  /\ endpoints' = [endpoints EXCEPT ![i] = None]
  /\ valid' = [valid EXCEPT ![i] = {}]
  /\ gone' = gone \cup {i}
  /\ UNCHANGED <<request, minted, delivery, posting>>

-----------------------------------------------------------------------------
(* The fan-out and the outbox *)

FanOut(e, targets) ==
  /\ \A i \in Ids : delivery[<<e, i>>] = "absent"
  /\ delivery' = [d \in Deliveries |-> IF d[1] = e /\ d[2] \in targets THEN "pending" ELSE delivery[d]]
  /\ UNCHANGED <<rows, request, minted, posting>>

Active == {i \in Existing : endpoints[i].active}

\* In the unit of work of the domain write that the event is about.
Enqueue(e) == \E targets \in SUBSET Active \ {{}} : FanOut(e, targets)

\* One ping, whatever the endpoint subscribes to.
SendTest(e, i) == i \in Active /\ FanOut(e, {i})

\* A Deliver has returned nil: the outbox settles the entry if it is still
\* pending, unless the settle is fenced off or lost.
Settle(d) ==
  delivery' \in {delivery} \cup
    {[delivery EXCEPT ![x] = "delivered"] : x \in {y \in {d} : delivery[y] = "pending"}}

GiveUp(d) ==
  /\ delivery[d] = "pending"
  /\ delivery' = [delivery EXCEPT ![d] = "failed"]
  /\ UNCHANGED <<rows, request, minted, posting>>

\* Retry of one delivery and RetryFailed of all, refused for a deleted endpoint.
Retry(i) ==
  \E S \in SUBSET {d \in Deliveries : d[2] = i /\ delivery[d] = "failed"} \ {{}} :
    /\ endpoints[i] # None
    /\ delivery' = [d \in Deliveries |-> IF d \in S THEN "pending" ELSE delivery[d]]
    /\ UNCHANGED <<rows, request, minted, posting>>

-----------------------------------------------------------------------------
(* The deliverer *)

OpensAll(s, row) == Opens(s, row.primary) /\ (row.secondary # None => Opens(s, row.secondary))

\* Mutant: an inactive endpoint is skipped like a deleted one.
FindsSkippingInactive(s, row) ==
  IF row = None \/ ~row.active THEN "nothing" ELSE IF OpensAll(s, row) THEN "endpoint" ELSE "error"

\* What deliver makes of the row it loads.
Finds(s, row) ==
  IF row = None THEN "nothing" ELSE IF row.active /\ OpensAll(s, row) THEN "endpoint" ELSE "error"

\* A deleted endpoint settles the delivery without a post. An error leaves
\* everything to the outbox.
Load(s, d) ==
  /\ sending[s] = None
  /\ delivery[d] = "pending"
  /\ \/ Finds(s, endpoints[d[2]]) = "nothing" /\ Settle(d) /\ UNCHANGED sending
     \/ /\ Finds(s, endpoints[d[2]]) = "endpoint"
        /\ sending' = [sending EXCEPT ![s] = d]
        /\ UNCHANGED delivery
  /\ UNCHANGED <<rows, request, minted, received>>

\* The receiver answers with a 2xx and Deliver returns nil, or with anything
\* else or not at all. The attempt is logged in between; a failure to log it,
\* as for an endpoint deleted meanwhile, changes nothing.
Post(s, ok) ==
  /\ sending[s] # None
  /\ IF ok
     THEN received' = received \cup {sending[s]} /\ Settle(sending[s])
     ELSE UNCHANGED <<received, delivery>>
  /\ sending' = [sending EXCEPT ![s] = None]
  /\ UNCHANGED <<rows, request, minted>>

-----------------------------------------------------------------------------

\* The process dies, or the call fails before its write.
Abandon(c) ==
  /\ ~Idle(c)
  /\ request' = [request EXCEPT ![c] = None]
  /\ UNCHANGED <<rows, minted, delivery, posting>>

Manage(c) ==
  \/ \E i \in Ids :
       \/ CreateRead(c, i)
       \/ \E active \in BOOLEAN : UpdateRead(c, i, active)
       \/ RotateRead(c, i)
       \/ RetireRead(c, i)
       \/ Delete(c, i)
  \/ Save(c)
  \/ RotateSave(c)
  \/ RetireSave(c)
  \/ Abandon(c)

Dispatch ==
  \/ \E e \in Events : Enqueue(e) \/ \E i \in Ids : SendTest(e, i)
  \/ \E d \in Deliveries : GiveUp(d)
  \/ \E i \in Ids : Retry(i)

Send(s) ==
  \/ \E d \in Deliveries : Load(s, d)
  \/ \E ok \in BOOLEAN : Post(s, ok)

Next ==
  \/ \E c \in Callers : Manage(c)
  \/ Dispatch
  \/ \E s \in Senders : Send(s)

Spec == Init /\ [][Next]_vars

-----------------------------------------------------------------------------
(* Properties *)

\* Every variable keeps the shape the rows, the requests and the deliveries
\* have in the code.
TypeOK ==
  /\ endpoints \in [Ids -> Endpoint \cup {None}]
  /\ request \in [Callers -> Request \cup {None}]
  /\ minted \in 0..MaxSecrets
  /\ delivery \in [Deliveries -> {"absent", "pending", "delivered", "failed"}]
  /\ sending \in [Senders -> Deliveries \cup {None}]
  /\ received \subseteq Deliveries
  /\ valid \in [Ids -> SUBSET Secrets]
  /\ gone \subseteq Ids

\* No secret a tenant was given stops signing before the rotation that ends it:
\* two rotations, or a rotation and the end of one, never overwrite each other,
\* and an update brings no older secrets back (postgres.go saveSecrets, save).
HeldSecretsSign ==
  \A i \in Existing :
    valid[i] \subseteq {x.secret : x \in {endpoints[i].primary, endpoints[i].secondary} \ {None}}

\* The two secrets of an endpoint always open together, whichever replica with
\* whichever key rotated them: openSecrets (deliverer.go), which needs both, is
\* not blocked by a secondary left from another key.
SecretsOpenTogether ==
  \A i \in Existing :
    endpoints[i].secondary # None => endpoints[i].secondary.rekeyed = endpoints[i].primary.rekeyed

\* A delivery counts as delivered only if its receiver answered a 2xx or its
\* endpoint was deleted at some time: neither an inactive endpoint nor secrets
\* that do not open settle it (deliverer.go deliver).
DeliveredOrGone ==
  \A d \in Deliveries : delivery[d] = "delivered" => d \in received \/ d[2] \in gone

\* What Create and Update may have put in the project by the time the calls
\* under way have written.
Claimed == Existing \cup {request[c].id : c \in {r \in Callers : ~Idle(r)}}

\* Creates that counted before any of them wrote pass the limit of endpoints by
\* one for every other call under way and by no more, deleted endpoints that an
\* update brings back included (service.go Create, Update).
LimitOvershootBounded ==
  Cardinality(Claimed) <= MaxEndpoints + Cardinality(Callers) - 1
=============================================================================
