---------------------------- MODULE WebhookProofs ----------------------------
(***************************************************************************)
(* Theorems about Webhook, for any number of callers, senders, endpoints,  *)
(* events and secrets: its types, that the secrets tenants hold sign and   *)
(* open together, what a delivered delivery means, and how far concurrent  *)
(* creates can pass the limit of endpoints.                                *)
(***************************************************************************)
EXTENDS Webhook, FiniteSetTheorems, TLAPS

\* The fan-out, the outbox and the senders leave the endpoints and the requests
\* alone.
LEMMA DispatchKeepsRows ==
  ASSUME Dispatch \/ \E s \in Senders : Send(s)
  PROVE  UNCHANGED <<endpoints, valid, gone, request, minted>>
  BY DEF Dispatch, Send, Enqueue, SendTest, FanOut, GiveUp, Retry, Load, Post, rows

\* The callers leave the deliveries alone.
LEMMA ManageKeepsDeliveries ==
  ASSUME NEW c \in Callers, Manage(c)
  PROVE  UNCHANGED <<delivery, sending, received>>
  BY DEF Manage, CreateRead, UpdateRead, RotateRead, RetireRead, Delete, Save, RotateSave, RetireSave,
         Abandon, posting

\* What a caller holds after its read is a request on a row of an endpoint.
LEMMA HoldType ==
  ASSUME TypeOK, NEW c \in Callers, NEW op \in Ops, NEW i \in Ids, NEW row \in Endpoint, Hold(c, op, i, row)
  PROVE  request' \in [Callers -> Request \cup {None}]
<1>1. [op |-> op, id |-> i, loaded |-> row] \in Request
  BY DEF Request
<1> QED
  BY <1>1 DEF Hold, TypeOK

LEMMA RowTypes ==
  ASSUME NEW row \in Endpoint
  PROVE  /\ row.active \in BOOLEAN /\ row.primary \in Sealed
         /\ row.secondary # None => row.secondary \in Sealed
         /\ \A a \in BOOLEAN : [row EXCEPT !.active = a] \in Endpoint
  BY DEF Endpoint

\* A request in hand names an endpoint and holds a row.
LEMMA RequestTypes ==
  ASSUME TypeOK, NEW c \in Callers, ~Idle(c)
  PROVE  request[c] \in Request /\ request[c].id \in Ids /\ request[c].loaded \in Endpoint
  BY DEF TypeOK, Idle, Request

LEMMA SealType ==
  ASSUME NEW p, NEW n \in Secrets
  PROVE  Seal(p, n) \in Sealed
  BY DEF Seal, Sealed

\* The pairs a rotation and a retirement write are pairs of sealed secrets.
LEMMA SecretsType ==
  ASSUME TypeOK, NEW c \in Callers, ~Idle(c),
         NEW pair \in [primary : Sealed, secondary : Sealed \cup {None}],
         NEW ended, NEW begun \in SUBSET Secrets,
         SecretsUnchanged(c), SaveSecrets(c, pair, ended, begun)
  PROVE  endpoints' \in [Ids -> Endpoint \cup {None}] /\ valid' \in [Ids -> SUBSET Secrets]
<1> DEFINE i == request[c].id
           row == [active |-> endpoints[i].active, primary |-> pair.primary, secondary |-> pair.secondary]
<1>1. i \in Ids
  BY RequestTypes
<1>2. endpoints[i] \in Endpoint
  BY <1>1 DEF SecretsUnchanged, TypeOK
<1>3. row \in Endpoint
  BY <1>2, RowTypes DEF Endpoint
<1>4. (valid[i] \ ended) \cup begun \in SUBSET Secrets
  BY <1>1 DEF TypeOK
<1> QED
  BY <1>1, <1>3, <1>4 DEF SaveSecrets, TypeOK

LEMMA RotatedType ==
  ASSUME TypeOK, NEW c \in Callers, ~Idle(c), minted < MaxSecrets
  PROVE  /\ Rotated(c, request[c].loaded) \in [primary : Sealed, secondary : Sealed \cup {None}]
         /\ minted + 1 \in Secrets
<1>1. minted + 1 \in Secrets
  BY WebhookAssumption DEF TypeOK, Secrets
<1>2. request[c].loaded.primary.secret \in Secrets
  BY RequestTypes, RowTypes DEF Sealed
<1> QED
  BY <1>1, <1>2, SealType DEF Rotated

\* The type invariant is inductive.
LEMMA TypeStep ==
  ASSUME TypeOK, [Next]_vars
  PROVE  TypeOK'
<1> USE DEF rows, posting
<1>1. ASSUME NEW c \in Callers, NEW i \in Ids, CreateRead(c, i) PROVE TypeOK'
  <2>1. minted + 1 \in Secrets
    BY <1>1, WebhookAssumption DEF CreateRead, TypeOK, Secrets
  <2>2. [active |-> TRUE, primary |-> Seal(c, minted + 1), secondary |-> None] \in Endpoint
    BY <2>1, SealType DEF Endpoint
  <2>3. request' \in [Callers -> Request \cup {None}]
    BY <1>1, <2>2, HoldType DEF CreateRead, Ops
  <2> QED
    BY <1>1, <2>1, <2>3 DEF CreateRead, TypeOK, Secrets
<1>2. ASSUME NEW c \in Callers, NEW i \in Ids, NEW a \in BOOLEAN, UpdateRead(c, i, a) PROVE TypeOK'
  <2>1. [endpoints[i] EXCEPT !.active = a] \in Endpoint
    BY <1>2, RowTypes DEF UpdateRead, TypeOK
  <2>2. request' \in [Callers -> Request \cup {None}]
    BY <1>2, <2>1, HoldType DEF UpdateRead, Ops
  <2> QED
    BY <1>2, <2>2 DEF UpdateRead, TypeOK
<1>3. ASSUME NEW c \in Callers, NEW i \in Ids, RotateRead(c, i) \/ RetireRead(c, i) PROVE TypeOK'
  <2>1. endpoints[i] \in Endpoint
    BY <1>3 DEF RotateRead, RetireRead, TypeOK
  <2>2. request' \in [Callers -> Request \cup {None}]
    BY <1>3, <2>1, HoldType DEF RotateRead, RetireRead, Ops
  <2> QED
    BY <1>3, <2>2 DEF RotateRead, RetireRead, TypeOK
<1>4. ASSUME NEW c \in Callers, Save(c) PROVE TypeOK'
  <2>1. ~Idle(c) /\ request[c].id \in Ids /\ request[c].loaded \in Endpoint
    BY <1>4, RequestTypes DEF Save
  <2>2. request[c].loaded.primary.secret \in Secrets /\ request[c].loaded.active \in BOOLEAN
    BY <2>1, RowTypes DEF Sealed
  <2>3. Upserted(endpoints[request[c].id], request[c].loaded) \in Endpoint
    BY <2>1, <2>2, RowTypes DEF Upserted, TypeOK
  <2>4. endpoints' \in [Ids -> Endpoint \cup {None}]
    BY <1>4, <2>1, <2>3 DEF Save, TypeOK
  <2>5. valid' \in [Ids -> SUBSET Secrets]
    BY <1>4, <2>1, <2>2 DEF Save, TypeOK
  <2> QED
    BY <1>4, <2>4, <2>5 DEF Save, TypeOK
<1>5. ASSUME NEW c \in Callers, RotateSave(c) PROVE TypeOK'
  <2>1. ~Idle(c) /\ minted + 1 \in Secrets
    BY <1>5, RotatedType DEF RotateSave
  <2>2. endpoints' \in [Ids -> Endpoint \cup {None}] /\ valid' \in [Ids -> SUBSET Secrets]
    <3>1. CASE SecretsUnchanged(c)
      BY <1>5, <2>1, <3>1, RotatedType, SecretsType DEF RotateSave
    <3> QED
      BY <1>5, <3>1 DEF RotateSave, TypeOK
  <2> QED
    BY <1>5, <2>1, <2>2 DEF RotateSave, TypeOK, Secrets
<1>6. ASSUME NEW c \in Callers, RetireSave(c) PROVE TypeOK'
  <2>1. ~Idle(c)
    BY <1>6 DEF RetireSave
  <2>2. [primary |-> request[c].loaded.primary, secondary |-> None]
           \in [primary : Sealed, secondary : Sealed \cup {None}]
    BY <2>1, RequestTypes, RowTypes
  <2>3. endpoints' \in [Ids -> Endpoint \cup {None}] /\ valid' \in [Ids -> SUBSET Secrets]
    <3>1. CASE SecretsUnchanged(c)
      BY <1>6, <2>1, <2>2, <3>1, SecretsType DEF RetireSave
    <3> QED
      BY <1>6, <3>1 DEF RetireSave, TypeOK
  <2> QED
    BY <1>6, <2>3 DEF RetireSave, TypeOK
<1>7. ASSUME NEW c \in Callers, NEW i \in Ids, Delete(c, i) PROVE TypeOK'
  BY <1>7 DEF Delete, TypeOK
<1>8. ASSUME NEW c \in Callers, Abandon(c) PROVE TypeOK'
  BY <1>8 DEF Abandon, TypeOK
<1>9. ASSUME NEW c \in Callers, Manage(c) PROVE TypeOK'
  BY <1>9, <1>1, <1>2, <1>3, <1>4, <1>5, <1>6, <1>7, <1>8 DEF Manage
<1>10. ASSUME Dispatch PROVE TypeOK'
  BY <1>10 DEF Dispatch, Enqueue, SendTest, FanOut, GiveUp, Retry, TypeOK
<1>11. ASSUME NEW s \in Senders, Send(s) PROVE TypeOK'
  BY <1>11 DEF Send, Load, Post, Settle, TypeOK
<1>12. CASE UNCHANGED vars
  BY <1>12 DEF vars, TypeOK
<1> QED
  BY <1>9, <1>10, <1>11, <1>12 DEF Next

\* The rows, the requests and the deliveries of Webhook keep their types.
THEOREM TypeCorrect == Spec => []TypeOK
<1>1. Init => TypeOK
  BY WebhookAssumption DEF Init, TypeOK
<1>2. TypeOK /\ [Next]_vars => TypeOK'
  BY TypeStep
<1> QED
  BY <1>1, <1>2, PTL DEF Spec

-----------------------------------------------------------------------------
(* Secrets *)

\* The secrets a row signs with, and whether they open together.
SignsWith(row) == {x.secret : x \in {row.primary, row.secondary} \ {None}}
Together(row) == row.secondary # None => row.secondary.rekeyed = row.primary.rekeyed

\* Strengthens HeldSecretsSign and SecretsOpenTogether. Nobody holds a secret of
\* an endpoint that is not there, so one an update brings back owes nothing; an
\* id under creation is nobody else's, so a create finds no row whose secrets it
\* would have to keep; and what the requests hold, which Save may insert, opens
\* together as well.
SecretInv ==
  /\ \A i \in Ids : endpoints[i] = None => valid[i] = {}
  /\ \A i \in Ids : endpoints[i] # None => valid[i] \subseteq SignsWith(endpoints[i])
  /\ \A i \in Ids : endpoints[i] # None => Together(endpoints[i])
  /\ \A c \in Callers : ~Idle(c) => Together(request[c].loaded)
  /\ \A c \in Callers : (~Idle(c) /\ request[c].op = "create") => endpoints[request[c].id] = None
  /\ \A c, d \in Callers : (c # d /\ ~Idle(c) /\ ~Idle(d) /\ request[c].op = "create")
                             => request[d].id # request[c].id

\* A read that holds a row of an existing endpoint keeps the invariant.
LEMMA HoldSecrets ==
  ASSUME TypeOK, SecretInv, NEW c \in Callers, NEW op \in Ops \ {"create"}, NEW i \in Ids, NEW row \in Endpoint,
         endpoints[i] # None, Together(row), Hold(c, op, i, row), UNCHANGED <<endpoints, valid>>
  PROVE  SecretInv'
<1>1. request[c] = None
  BY DEF Hold, Idle
<1>2. request' = [request EXCEPT ![c] = [op |-> op, id |-> i, loaded |-> row]]
  BY DEF Hold
<1>3. request'[c] = [op |-> op, id |-> i, loaded |-> row] /\ \A d \in Callers \ {c} : request'[d] = request[d]
  BY <1>2 DEF TypeOK
<1>4. \A d \in Callers \ {c} : (request[d] # None /\ request[d].op = "create") => request[d].id # i
  BY DEF SecretInv, Idle
<1> QED
  BY <1>1, <1>3, <1>4 DEF SecretInv, Idle

\* A call that has ended keeps the invariant as far as the requests go.
LEMMA EndedRequest ==
  ASSUME TypeOK, SecretInv, NEW c \in Callers, request' = [request EXCEPT ![c] = None]
  PROVE  /\ \A d \in Callers : ~Idle(d)' => d # c /\ ~Idle(d) /\ request'[d] = request[d]
         /\ \A d \in Callers : ~Idle(d)' => Together(request'[d].loaded)
         /\ \A d, e \in Callers : (d # e /\ ~Idle(d)' /\ ~Idle(e)' /\ request'[d].op = "create")
                                   => request'[e].id # request'[d].id
<1>1. request'[c] = None /\ \A d \in Callers \ {c} : request'[d] = request[d]
  BY DEF TypeOK
<1> QED
  BY <1>1 DEF SecretInv, Idle

\* Whoever writes over the pair of secrets that is there keeps the invariant, if
\* the new pair opens together and signs with what is still valid.
LEMMA SaveKeepsSecrets ==
  ASSUME TypeOK, SecretInv, NEW c \in Callers, ~Idle(c), SecretsUnchanged(c),
         NEW pair \in [primary : Sealed, secondary : Sealed \cup {None}],
         NEW ended, NEW begun,
         Together(pair), (valid[request[c].id] \ ended) \cup begun \subseteq SignsWith(pair),
         SaveSecrets(c, pair, ended, begun),
         request' = [request EXCEPT ![c] = None]
  PROVE  SecretInv'
<1> DEFINE i == request[c].id
           row == [active |-> endpoints[i].active, primary |-> pair.primary, secondary |-> pair.secondary]
<1>1. i \in Ids /\ endpoints[i] # None
  BY RequestTypes DEF SecretsUnchanged
<1>2. endpoints[i] \in Endpoint
  BY <1>1 DEF TypeOK
<1>3. row \in Endpoint
  BY <1>2, RowTypes DEF Endpoint
<1>4. row # None
  BY <1>3, RowAssumption
<1>5. endpoints'[i] = row /\ \A j \in Ids \ {i} : endpoints'[j] = endpoints[j]
  BY <1>1 DEF SaveSecrets, TypeOK
<1>6. valid'[i] = (valid[i] \ ended) \cup begun /\ \A j \in Ids \ {i} : valid'[j] = valid[j]
  BY <1>1 DEF SaveSecrets, TypeOK
<1>7. SignsWith(row) = SignsWith(pair) /\ Together(row)
  BY DEF SignsWith, Together
<1>8. \A j \in Ids : /\ endpoints'[j] = None => valid'[j] = {}
                     /\ endpoints'[j] # None => valid'[j] \subseteq SignsWith(endpoints'[j])
                     /\ endpoints'[j] # None => Together(endpoints'[j])
  <2>1. valid'[i] \subseteq SignsWith(endpoints'[i]) /\ Together(endpoints'[i]) /\ endpoints'[i] # None
    BY <1>4, <1>5, <1>6, <1>7
  <2> QED
    BY <1>5, <1>6, <2>1 DEF SecretInv
<1>9. \A d \in Callers : (~Idle(d)' /\ request'[d].op = "create") => endpoints'[request'[d].id] = None
  <2> SUFFICES ASSUME NEW d \in Callers, ~Idle(d)', request'[d].op = "create"
               PROVE  endpoints'[request'[d].id] = None
    OBVIOUS
  <2>1. d # c /\ ~Idle(d) /\ request'[d] = request[d]
    BY EndedRequest
  <2>2. endpoints[request[d].id] = None /\ request[d].id \in Ids
    BY <2>1, RequestTypes DEF SecretInv
  <2> QED
    BY <1>1, <1>5, <2>1, <2>2
<1> QED
  BY <1>8, <1>9, EndedRequest DEF SecretInv

LEMMA SecretStep ==
  ASSUME TypeOK, SecretInv, [Next]_vars
  PROVE  SecretInv'
<1> USE DEF rows
<1>1. ASSUME NEW c \in Callers, NEW i \in Ids, CreateRead(c, i) PROVE SecretInv'
  <2> DEFINE row == [active |-> TRUE, primary |-> Seal(c, minted + 1), secondary |-> None]
  <2>1. request[c] = None /\ request' = [request EXCEPT ![c] = [op |-> "create", id |-> i, loaded |-> row]]
    BY <1>1 DEF CreateRead, Hold, Idle
  <2>2. request'[c] = [op |-> "create", id |-> i, loaded |-> row]
          /\ \A d \in Callers \ {c} : request'[d] = request[d]
    BY <2>1 DEF TypeOK
  <2>3. \A d \in Callers : request[d] # None => request[d].id # i
    BY <1>1 DEF CreateRead, Idle
  <2>4. Together(row)
    BY DEF Together
  <2>5. UNCHANGED <<endpoints, valid>> /\ endpoints[i] = None
    BY <1>1 DEF CreateRead
  <2>6. \A d \in Callers : request'[d] # None =>
          Together(request'[d].loaded) /\ (request'[d].op = "create" => endpoints'[request'[d].id] = None)
    <3>1. request'[c].loaded = row /\ request'[c].id = i
      BY <2>2
    <3>2. Together(request'[c].loaded) /\ endpoints'[request'[c].id] = None
      BY <2>4, <2>5, <3>1
    <3> QED
      BY <2>2, <2>5, <3>2 DEF SecretInv, Idle
  <2>7. \A d, e \in Callers : (d # e /\ request'[d] # None /\ request'[e] # None /\ request'[d].op = "create")
                              => request'[e].id # request'[d].id
    <3> SUFFICES ASSUME NEW d \in Callers, NEW e \in Callers, d # e, request'[d] # None, request'[e] # None,
                        request'[d].op = "create"
                 PROVE  request'[e].id # request'[d].id
      OBVIOUS
    <3>1. CASE d = c
      BY <2>2, <2>3, <3>1
    <3>2. CASE e = c
      BY <2>2, <2>3, <3>2
    <3>3. CASE d # c /\ e # c
      BY <2>2, <3>3 DEF SecretInv, Idle
    <3> QED
      BY <3>1, <3>2, <3>3
  <2> QED
    BY <2>5, <2>6, <2>7 DEF SecretInv, Idle
<1>2. ASSUME NEW c \in Callers, NEW i \in Ids, NEW a \in BOOLEAN, UpdateRead(c, i, a) PROVE SecretInv'
  <2>1. endpoints[i] \in Endpoint /\ Together(endpoints[i])
    BY <1>2 DEF UpdateRead, TypeOK, SecretInv
  <2>2. [endpoints[i] EXCEPT !.active = a] \in Endpoint /\ Together([endpoints[i] EXCEPT !.active = a])
    BY <2>1, RowTypes DEF Together, Endpoint
  <2> QED
    BY <1>2, <2>2, HoldSecrets DEF UpdateRead, Ops
<1>3. ASSUME NEW c \in Callers, NEW i \in Ids, RotateRead(c, i) \/ RetireRead(c, i) PROVE SecretInv'
  <2>1. endpoints[i] \in Endpoint /\ Together(endpoints[i])
    BY <1>3 DEF RotateRead, RetireRead, TypeOK, SecretInv
  <2> QED
    BY <1>3, <2>1, HoldSecrets DEF RotateRead, RetireRead, Ops
<1>4. ASSUME NEW c \in Callers, Save(c) PROVE SecretInv'
  <2> DEFINE r == request[c]
             i == r.id
             row == Upserted(endpoints[i], r.loaded)
  <2>1. ~Idle(c) /\ i \in Ids /\ r.loaded \in Endpoint
    BY <1>4, RequestTypes DEF Save
  <2>2. endpoints'[i] = row /\ \A j \in Ids \ {i} : endpoints'[j] = endpoints[j]
    BY <1>4, <2>1 DEF Save, TypeOK
  <2>3. request' = [request EXCEPT ![c] = None]
    BY <1>4 DEF Save
  <2>4. row \in Endpoint /\ Together(row)
    <3>1. CASE endpoints[i] = None
      BY <2>1, <3>1 DEF Upserted, SecretInv
    <3>2. CASE endpoints[i] # None
      <4>1. endpoints[i] \in Endpoint /\ Together(endpoints[i])
        BY <2>1, <3>2 DEF TypeOK, SecretInv
      <4> QED
        BY <2>1, <3>2, <4>1, RowTypes DEF Upserted, Together, Endpoint
    <3> QED
      BY <3>1, <3>2
  <2>5. row # None
    BY <2>4, RowAssumption
  <2>6. valid'[i] \subseteq SignsWith(row) /\ \A j \in Ids \ {i} : valid'[j] = valid[j]
    <3>1. CASE r.op = "create"
      <4>1. endpoints[i] = None
        BY <2>1, <3>1 DEF SecretInv
      <4>2. valid'[i] = {r.loaded.primary.secret} /\ \A j \in Ids \ {i} : valid'[j] = valid[j]
        BY <1>4, <2>1, <3>1 DEF Save, TypeOK
      <4>3. r.loaded.primary # None
        BY <2>1, RowTypes, RowAssumption
      <4> QED
        BY <4>1, <4>2, <4>3 DEF Upserted, SignsWith
    <3>2. CASE r.op # "create"
      <4>1. valid' = valid
        BY <1>4, <3>2 DEF Save
      <4>2. CASE endpoints[i] = None
        BY <2>1, <4>1, <4>2 DEF SecretInv
      <4>3. CASE endpoints[i] # None
        <5>1. endpoints[i] \in Endpoint /\ valid[i] \subseteq SignsWith(endpoints[i])
          BY <2>1, <4>3 DEF TypeOK, SecretInv
        <5>2. SignsWith(row) = SignsWith(endpoints[i])
          BY <4>3, <5>1 DEF Upserted, SignsWith, Endpoint
        <5> QED
          BY <4>1, <5>1, <5>2
      <4> QED
        BY <4>1, <4>2, <4>3
    <3> QED
      BY <3>1, <3>2
  <2>7. \A j \in Ids : /\ endpoints'[j] = None => valid'[j] = {}
                       /\ endpoints'[j] # None => valid'[j] \subseteq SignsWith(endpoints'[j])
                       /\ endpoints'[j] # None => Together(endpoints'[j])
    BY <2>2, <2>4, <2>5, <2>6 DEF SecretInv
  <2>8. \A d \in Callers : (~Idle(d)' /\ request'[d].op = "create") => endpoints'[request'[d].id] = None
    <3> SUFFICES ASSUME NEW d \in Callers, ~Idle(d)', request'[d].op = "create"
                 PROVE  endpoints'[request'[d].id] = None
      OBVIOUS
    <3>1. d # c /\ ~Idle(d) /\ request'[d] = request[d]
      BY <2>3, EndedRequest
    <3>2. endpoints[request[d].id] = None /\ request[d].id \in Ids /\ request[d].id # i
      BY <2>1, <3>1, RequestTypes DEF SecretInv
    <3> QED
      BY <2>2, <3>1, <3>2
  <2> QED
    BY <2>3, <2>7, <2>8, EndedRequest DEF SecretInv
<1>5. ASSUME NEW c \in Callers, RotateSave(c) PROVE SecretInv'
  <2> DEFINE read == request[c].loaded
             pair == Rotated(c, read)
  <2>1. ~Idle(c) /\ request[c].op = "rotate" /\ read \in Endpoint /\ request[c].id \in Ids
    BY <1>5, RequestTypes DEF RotateSave
  <2>2. pair \in [primary : Sealed, secondary : Sealed \cup {None}]
    BY <1>5, <2>1, RotatedType DEF RotateSave
  <2>3. request' = [request EXCEPT ![c] = None]
    BY <1>5 DEF RotateSave
  <2>4. CASE SecretsUnchanged(c)
    <3> DEFINE row == endpoints[request[c].id]
    <3>1. SaveSecrets(c, pair, Ended(c, read), {minted + 1})
      BY <1>5, <2>4 DEF RotateSave
    <3>2. row # None /\ row.primary = read.primary /\ row.secondary = read.secondary
      BY <2>4 DEF SecretsUnchanged
    <3>3. valid[request[c].id] \subseteq SignsWith(read)
      BY <2>1, <3>2 DEF SecretInv, SignsWith
    <3>4. Together(pair)
      BY DEF Together, Rotated, Seal
    <3>5. pair.primary.secret = minted + 1 /\ pair.primary # None
      BY <2>2, RowAssumption DEF Rotated, Seal
    <3>6. \A x \in SignsWith(read) \ Ended(c, read) : x = read.primary.secret /\ Opens(c, read.primary)
      BY <2>1 DEF SignsWith, Ended
    <3>7. Opens(c, read.primary) => pair.secondary # None /\ pair.secondary.secret = read.primary.secret
      <4>1. read.primary.secret \in Secrets
        BY <2>1, RowTypes DEF Sealed
      <4>2. Seal(c, read.primary.secret) # None
        BY <4>1, SealType, RowAssumption
      <4> QED
        BY <4>2 DEF Rotated, Seal
    <3>8. (valid[request[c].id] \ Ended(c, read)) \cup {minted + 1} \subseteq SignsWith(pair)
      BY <3>3, <3>5, <3>6, <3>7 DEF SignsWith
    <3> QED
      BY <2>1, <2>2, <2>3, <2>4, <3>1, <3>4, <3>8, SaveKeepsSecrets
  <2>5. CASE ~SecretsUnchanged(c)
    <3>1. UNCHANGED <<endpoints, valid>>
      BY <1>5, <2>5 DEF RotateSave
    <3> QED
      BY <2>3, <3>1, EndedRequest DEF SecretInv
  <2> QED
    BY <2>4, <2>5
<1>6. ASSUME NEW c \in Callers, RetireSave(c) PROVE SecretInv'
  <2> DEFINE read == request[c].loaded
             pair == [primary |-> read.primary, secondary |-> None]
  <2>1. ~Idle(c) /\ request[c].op = "retire" /\ read \in Endpoint /\ request[c].id \in Ids
    BY <1>6, RequestTypes DEF RetireSave
  <2>2. pair \in [primary : Sealed, secondary : Sealed \cup {None}]
    BY <2>1, RowTypes
  <2>3. request' = [request EXCEPT ![c] = None]
    BY <1>6 DEF RetireSave
  <2>4. CASE SecretsUnchanged(c)
    <3> DEFINE row == endpoints[request[c].id]
    <3>1. SaveSecrets(c, pair, Ended(c, read), {})
      BY <1>6, <2>4 DEF RetireSave
    <3>2. row # None /\ row.primary = read.primary /\ row.secondary = read.secondary
      BY <2>4 DEF SecretsUnchanged
    <3>3. valid[request[c].id] \subseteq SignsWith(read)
      BY <2>1, <3>2 DEF SecretInv, SignsWith
    <3>4. Together(pair)
      BY DEF Together
    <3>5. \A x \in SignsWith(read) \ Ended(c, read) : x = read.primary.secret
      BY <2>1 DEF SignsWith, Ended
    <3>6. read.primary # None
      BY <2>1, RowTypes, RowAssumption
    <3>7. (valid[request[c].id] \ Ended(c, read)) \cup {} \subseteq SignsWith(pair)
      BY <3>3, <3>5, <3>6 DEF SignsWith
    <3> QED
      BY <2>1, <2>2, <2>3, <2>4, <3>1, <3>4, <3>7, SaveKeepsSecrets
  <2>5. CASE ~SecretsUnchanged(c)
    <3>1. UNCHANGED <<endpoints, valid>>
      BY <1>6, <2>5 DEF RetireSave
    <3> QED
      BY <2>3, <3>1, EndedRequest DEF SecretInv
  <2> QED
    BY <2>4, <2>5
<1>7. ASSUME NEW c \in Callers, NEW i \in Ids, Delete(c, i) PROVE SecretInv'
  <2>1. endpoints'[i] = None /\ \A j \in Ids \ {i} : endpoints'[j] = endpoints[j]
    BY <1>7 DEF Delete, TypeOK
  <2>2. valid'[i] = {} /\ \A j \in Ids \ {i} : valid'[j] = valid[j]
    BY <1>7 DEF Delete, TypeOK
  <2>3. request' = request
    BY <1>7 DEF Delete
  <2>4. \A d \in Callers : ~Idle(d) => request[d].id \in Ids
    BY RequestTypes
  <2> QED
    BY <2>1, <2>2, <2>3, <2>4 DEF SecretInv, Idle
<1>8. ASSUME NEW c \in Callers, Abandon(c) PROVE SecretInv'
  <2>1. request' = [request EXCEPT ![c] = None] /\ UNCHANGED <<endpoints, valid>>
    BY <1>8 DEF Abandon
  <2> QED
    BY <2>1, EndedRequest DEF SecretInv
<1>9. ASSUME NEW c \in Callers, Manage(c) PROVE SecretInv'
  BY <1>9, <1>1, <1>2, <1>3, <1>4, <1>5, <1>6, <1>7, <1>8 DEF Manage
<1>10. ASSUME UNCHANGED <<endpoints, valid, request>> PROVE SecretInv'
  BY <1>10 DEF SecretInv, Idle
<1>11. CASE UNCHANGED vars
  BY <1>10, <1>11 DEF vars
<1> QED
  BY <1>9, <1>10, <1>11, DispatchKeepsRows DEF Next

\* The secrets of a project without endpoints are in order.
LEMMA SecretInit ==
  ASSUME Init
  PROVE  SecretInv
  BY DEF Init, SecretInv, Idle

\* No secret a tenant holds stops signing before the rotation that ends it,
\* whatever rotations, retirements, updates and deletions overlap
\* (postgres.go saveSecrets, save).
THEOREM SecretsKeepSigning == Spec => []HeldSecretsSign
<1>1. Init => SecretInv
  BY SecretInit
<1>2. TypeOK /\ SecretInv /\ [Next]_vars => SecretInv'
  BY SecretStep
<1>3. SecretInv => HeldSecretsSign
  BY DEF SecretInv, HeldSecretsSign, SignsWith, Existing
<1> QED
  BY <1>1, <1>2, <1>3, TypeCorrect, PTL DEF Spec

\* The two secrets of an endpoint open under the same key, whichever processes
\* rotated them (deliverer.go openSecrets).
THEOREM PairsOpenTogether == Spec => []SecretsOpenTogether
<1>1. Init => SecretInv
  BY SecretInit
<1>2. TypeOK /\ SecretInv /\ [Next]_vars => SecretInv'
  BY SecretStep
<1>3. SecretInv => SecretsOpenTogether
  BY DEF SecretInv, SecretsOpenTogether, Together, Existing
<1> QED
  BY <1>1, <1>2, <1>3, TypeCorrect, PTL DEF Spec

-----------------------------------------------------------------------------
(* Deliveries *)

\* Strengthens DeliveredOrGone: a delivery is for an endpoint that is there or
\* was deleted, so a sender that finds none finds one deleted.
DeliveryInv ==
  /\ DeliveredOrGone
  /\ \A d \in Deliveries : delivery[d] # "absent" => endpoints[d[2]] # None \/ d[2] \in gone

\* Callers take no row away without noting it.
LEMMA RowsStayOrGo ==
  ASSUME TypeOK, NEW c \in Callers, Manage(c)
  PROVE  gone \subseteq gone' /\ \A i \in Ids : endpoints[i] # None => endpoints'[i] # None \/ i \in gone'
<1> USE DEF rows
<1>2. ASSUME NEW i \in Ids, Delete(c, i)
      PROVE  gone \subseteq gone' /\ \A j \in Ids : endpoints[j] # None => endpoints'[j] # None \/ j \in gone'
  BY <1>2 DEF Delete, TypeOK
<1>3. ASSUME Save(c)
      PROVE  gone \subseteq gone' /\ \A j \in Ids : endpoints[j] # None => endpoints'[j] # None
  <2>1. request[c].id \in Ids /\ request[c].loaded \in Endpoint
    BY <1>3, RequestTypes DEF Save
  <2>2. Upserted(endpoints[request[c].id], request[c].loaded) \in Endpoint
    BY <2>1, RowTypes DEF Upserted, TypeOK
  <2> QED
    BY <1>3, <2>1, <2>2, RowAssumption DEF Save, TypeOK
<1>4. ASSUME NEW pair \in [primary : Sealed, secondary : Sealed \cup {None}], NEW ended, NEW begun,
             ~Idle(c), SecretsUnchanged(c), SaveSecrets(c, pair, ended, begun)
      PROVE  \A j \in Ids : endpoints[j] # None => endpoints'[j] # None
  <2> DEFINE i == request[c].id
             row == [active |-> endpoints[i].active, primary |-> pair.primary, secondary |-> pair.secondary]
  <2>1. i \in Ids /\ endpoints[i] # None
    BY <1>4, RequestTypes DEF SecretsUnchanged
  <2>2. endpoints[i] \in Endpoint
    BY <2>1 DEF TypeOK
  <2>3. row \in Endpoint
    BY <2>2, RowTypes DEF Endpoint
  <2> QED
    BY <1>4, <2>1, <2>3, RowAssumption DEF SaveSecrets, TypeOK
<1>5. ASSUME RotateSave(c)
      PROVE  gone \subseteq gone' /\ \A j \in Ids : endpoints[j] # None => endpoints'[j] # None
  BY <1>4, <1>5, RotatedType DEF RotateSave
<1>6. ASSUME RetireSave(c)
      PROVE  gone \subseteq gone' /\ \A j \in Ids : endpoints[j] # None => endpoints'[j] # None
  <2>1. [primary |-> request[c].loaded.primary, secondary |-> None]
           \in [primary : Sealed, secondary : Sealed \cup {None}]
    BY <1>6, RequestTypes, RowTypes DEF RetireSave
  <2> QED
    BY <1>4, <1>6, <2>1 DEF RetireSave
<1> QED
  BY <1>2, <1>3, <1>5, <1>6 DEF Manage, CreateRead, UpdateRead, RotateRead, RetireRead, Abandon

LEMMA DeliveryStep ==
  ASSUME TypeOK, DeliveryInv, [Next]_vars
  PROVE  DeliveryInv'
<1> USE DEF rows, posting
<1>1. ASSUME NEW c \in Callers, Manage(c) PROVE DeliveryInv'
  BY <1>1, RowsStayOrGo, ManageKeepsDeliveries DEF DeliveryInv, DeliveredOrGone, Deliveries
<1>2. ASSUME NEW e \in Events, NEW targets \in SUBSET Active, FanOut(e, targets) PROVE DeliveryInv'
  <2>1. \A i \in targets : endpoints[i] # None
    BY <1>2 DEF Active, Existing
  <2>2. UNCHANGED <<endpoints, gone, received>>
    BY <1>2 DEF FanOut
  <2>3. \A d \in Deliveries : delivery'[d] = IF d[1] = e /\ d[2] \in targets THEN "pending" ELSE delivery[d]
    BY <1>2 DEF FanOut
  <2> QED
    BY <2>1, <2>2, <2>3 DEF DeliveryInv, DeliveredOrGone
<1>3. ASSUME NEW d \in Deliveries, GiveUp(d) PROVE DeliveryInv'
  BY <1>3 DEF GiveUp, DeliveryInv, DeliveredOrGone, TypeOK
<1>4. ASSUME NEW i \in Ids, Retry(i) PROVE DeliveryInv'
  <2>1. PICK S \in SUBSET {d \in Deliveries : d[2] = i /\ delivery[d] = "failed"} :
          /\ delivery' = [d \in Deliveries |-> IF d \in S THEN "pending" ELSE delivery[d]]
          /\ UNCHANGED <<rows, request, minted, posting>>
    BY <1>4 DEF Retry
  <2> QED
    BY <2>1 DEF DeliveryInv, DeliveredOrGone
<1>5. ASSUME NEW d \in Deliveries, delivery[d] # "absent", Settle(d), UNCHANGED <<endpoints, gone>>,
             received \subseteq received', d \in received' \/ d[2] \in gone
      PROVE  DeliveryInv'
  <2>1. delivery' = delivery \/ delivery' = [delivery EXCEPT ![d] = "delivered"]
    BY <1>5 DEF Settle
  <2> QED
    BY <1>5, <2>1 DEF DeliveryInv, DeliveredOrGone, TypeOK
<1>6. ASSUME NEW s \in Senders, NEW d \in Deliveries, Load(s, d) PROVE DeliveryInv'
  <2>1. CASE Finds(s, endpoints[d[2]]) = "nothing"
    <3>1. endpoints[d[2]] = None /\ d[2] \in gone
      BY <1>6, <2>1 DEF Finds, Load, DeliveryInv
    <3> QED
      BY <1>6, <2>1, <3>1, <1>5 DEF Load
  <2>2. CASE Finds(s, endpoints[d[2]]) # "nothing"
    BY <1>6, <2>2 DEF Load, DeliveryInv, DeliveredOrGone
  <2> QED
    BY <2>1, <2>2
<1>7. ASSUME NEW s \in Senders, NEW ok \in BOOLEAN, Post(s, ok) PROVE DeliveryInv'
  <2>1. CASE ~ok
    BY <1>7, <2>1 DEF Post, DeliveryInv, DeliveredOrGone
  <2>2. CASE ok
    <3> DEFINE d == sending[s]
    <3>1. d \in Deliveries
      BY <1>7 DEF Post, TypeOK
    <3>2. received' = received \cup {d} /\ Settle(d) /\ UNCHANGED <<endpoints, gone>>
      BY <1>7, <2>2 DEF Post
    <3>3. delivery' = delivery \/ (delivery[d] = "pending" /\ delivery' = [delivery EXCEPT ![d] = "delivered"])
      BY <3>2 DEF Settle
    <3> QED
      BY <3>1, <3>2, <3>3 DEF DeliveryInv, DeliveredOrGone, TypeOK
  <2> QED
    BY <2>1, <2>2
<1>8. ASSUME Dispatch PROVE DeliveryInv'
  BY <1>8, <1>2, <1>3, <1>4 DEF Dispatch, Enqueue, SendTest
<1>9. ASSUME NEW s \in Senders, Send(s) PROVE DeliveryInv'
  BY <1>9, <1>6, <1>7 DEF Send
<1>10. CASE UNCHANGED vars
  BY <1>10 DEF vars, DeliveryInv, DeliveredOrGone
<1> QED
  BY <1>1, <1>8, <1>9, <1>10 DEF Next

\* A delivery counts as delivered only if its receiver answered a 2xx or its
\* endpoint was deleted (deliverer.go deliver).
THEOREM DeliveredMeansReceivedOrGone == Spec => []DeliveredOrGone
<1>1. Init => DeliveryInv
  BY DEF Init, DeliveryInv, DeliveredOrGone
<1>2. TypeOK /\ DeliveryInv /\ [Next]_vars => DeliveryInv'
  BY DeliveryStep
<1>3. DeliveryInv => DeliveredOrGone
  BY DEF DeliveryInv
<1> QED
  BY <1>1, <1>2, <1>3, TypeCorrect, PTL DEF Spec

-----------------------------------------------------------------------------
(* The limit of endpoints *)

\* Strengthens LimitOvershootBounded for projects whose ids are not bounded.
LimitInv == IsFiniteSet(Claimed) /\ LimitOvershootBounded

\* The ids the calls under way may write to are no more than the calls.
LEMMA RequestedIds ==
  ASSUME NEW req
  PROVE  /\ IsFiniteSet({req[c].id : c \in {r \in Callers : req[r] # None}})
         /\ Cardinality({req[c].id : c \in {r \in Callers : req[r] # None}}) <= Cardinality(Callers)
<1> DEFINE busy == {r \in Callers : req[r] # None}
           ids == {req[c].id : c \in busy}
           f == [c \in busy |-> req[c].id]
<1>1. IsFiniteSet(busy) /\ Cardinality(busy) <= Cardinality(Callers)
  BY WebhookAssumption, FS_Subset
<1>2. f \in Surjection(busy, ids)
  BY DEF Surjection
<1>3. IsFiniteSet(ids) /\ Cardinality(ids) <= Cardinality(busy)
  BY <1>1, <1>2, FS_Surjection
<1>4. Cardinality(ids) \in Nat /\ Cardinality(busy) \in Nat /\ Cardinality(Callers) \in Nat
  BY <1>1, <1>3, WebhookAssumption, FS_CardinalityType
<1> QED
  BY <1>1, <1>3, <1>4

\* A step that adds nothing to what is claimed keeps the bound.
LEMMA NothingNewClaimed ==
  ASSUME LimitInv, Claimed' \subseteq Claimed
  PROVE  LimitInv'
<1>1. IsFiniteSet(Claimed') /\ Cardinality(Claimed') <= Cardinality(Claimed)
  BY FS_Subset DEF LimitInv
<1>2. Cardinality(Claimed) \in Nat /\ Cardinality(Claimed') \in Nat /\ Cardinality(Callers) \in Nat
  BY <1>1, WebhookAssumption, FS_CardinalityType DEF LimitInv
<1> QED
  BY <1>1, <1>2, WebhookAssumption DEF LimitInv, LimitOvershootBounded

\* A create claims one id more, and only while the project is below its limit.
LEMMA CreateWithinLimit ==
  ASSUME TypeOK, LimitInv, NEW c \in Callers, NEW i \in Ids, CreateRead(c, i)
  PROVE  LimitInv'
<1> DEFINE ids == {request'[d].id : d \in {r \in Callers : request'[r] # None}}
<1>1. Existing' = Existing
  BY DEF CreateRead, rows, Existing
<1>2. Claimed' = Existing \cup ids
  BY <1>1 DEF Claimed, Idle
<1>3. IsFiniteSet(ids) /\ Cardinality(ids) <= Cardinality(Callers)
  BY RequestedIds
<1>4. IsFiniteSet(Existing) /\ Cardinality(Existing) < MaxEndpoints
  <2>1. Existing \subseteq Claimed
    BY DEF Claimed
  <2> QED
    BY <2>1, FS_Subset DEF LimitInv, CreateRead, BelowLimit
<1>5. /\ IsFiniteSet(Claimed')
      /\ Cardinality(Claimed') = Cardinality(Existing) + Cardinality(ids) - Cardinality(Existing \cap ids)
  BY <1>2, <1>3, <1>4, FS_Union
<1>6. IsFiniteSet(Existing \cap ids)
  BY <1>4, FS_Subset
<1>7. /\ Cardinality(Existing) \in Nat /\ Cardinality(ids) \in Nat /\ Cardinality(Callers) \in Nat
      /\ Cardinality(Existing \cap ids) \in Nat
  BY <1>3, <1>4, <1>6, WebhookAssumption, FS_CardinalityType
<1> QED
  BY <1>3, <1>4, <1>5, <1>7, WebhookAssumption DEF LimitInv, LimitOvershootBounded

LEMMA LimitStep ==
  ASSUME TypeOK, LimitInv, [Next]_vars
  PROVE  LimitInv'
<1> USE DEF rows
<1>1. ASSUME NEW c \in Callers, NEW i \in Ids, NEW op, NEW row, endpoints[i] # None, Hold(c, op, i, row),
             UNCHANGED endpoints
      PROVE  Claimed' \subseteq Claimed
  <2>1. i \in Existing /\ Existing' = Existing
    BY <1>1 DEF Existing
  <2>2. request'[c].id = i /\ \A d \in Callers \ {c} : request'[d] = request[d]
    BY <1>1 DEF Hold, TypeOK
  <2> QED
    BY <2>1, <2>2 DEF Claimed, Idle
<1>2. ASSUME NEW c \in Callers, request' = [request EXCEPT ![c] = None], ~Idle(c),
             \A i \in Ids : (endpoints'[i] # None /\ endpoints[i] = None) => i = request[c].id
      PROVE  Claimed' \subseteq Claimed
  <2>1. \A d \in Callers : ~Idle(d)' => d # c /\ request'[d] = request[d]
    BY <1>2 DEF TypeOK, Idle
  <2>2. Existing' \subseteq Existing \cup {request[c].id}
    BY <1>2 DEF Existing
  <2>3. {request'[d].id : d \in {r \in Callers : ~Idle(r)'}} \subseteq {request[d].id : d \in {r \in Callers : ~Idle(r)}}
    BY <2>1 DEF Idle
  <2> QED
    BY <1>2, <2>2, <2>3 DEF Claimed
<1>3. ASSUME NEW c \in Callers, NEW i \in Ids, Delete(c, i) PROVE Claimed' \subseteq Claimed
  <2>1. Existing' \subseteq Existing /\ request' = request
    BY <1>3 DEF Delete, Existing, TypeOK
  <2> QED
    BY <2>1 DEF Claimed, Idle
<1>4. ASSUME NEW c \in Callers, Save(c) \/ RotateSave(c) \/ RetireSave(c) \/ Abandon(c)
      PROVE  Claimed' \subseteq Claimed
  <2>1. ~Idle(c) /\ request[c].id \in Ids /\ request' = [request EXCEPT ![c] = None]
    BY <1>4, RequestTypes DEF Save, RotateSave, RetireSave, Abandon
  <2>2. \A i \in Ids \ {request[c].id} : endpoints'[i] = endpoints[i]
    BY <1>4, <2>1 DEF Save, RotateSave, RetireSave, Abandon, SaveSecrets, TypeOK
  <2> QED
    BY <2>1, <2>2, <1>2
<1>5. ASSUME NEW c \in Callers, NEW i \in Ids,
             (\E active \in BOOLEAN : UpdateRead(c, i, active)) \/ RotateRead(c, i) \/ RetireRead(c, i)
      PROVE  Claimed' \subseteq Claimed
  BY <1>5, <1>1 DEF UpdateRead, RotateRead, RetireRead
<1>6. ASSUME NEW c \in Callers, Manage(c) PROVE LimitInv'
  BY <1>6, <1>3, <1>4, <1>5, CreateWithinLimit, NothingNewClaimed DEF Manage
<1>7. ASSUME UNCHANGED <<endpoints, request>> PROVE LimitInv'
  <2>1. Claimed' = Claimed
    BY <1>7 DEF Claimed, Existing, Idle
  <2> QED
    BY <2>1, NothingNewClaimed
<1>8. CASE UNCHANGED vars
  BY <1>7, <1>8 DEF vars
<1> QED
  BY <1>6, <1>7, <1>8, DispatchKeepsRows DEF Next

\* Concurrent creates pass the limit of endpoints by one for every other call
\* under way and by no more, for any limit and any number of callers
\* (service.go Create, Update).
THEOREM LimitPassedByCallersOnly == Spec => []LimitOvershootBounded
<1>1. Init => LimitInv
  <2> SUFFICES ASSUME Init PROVE LimitInv
    OBVIOUS
  <2>1. Claimed = {}
    BY DEF Init, Claimed, Existing, Idle
  <2>2. Cardinality(Callers) \in Nat \ {0}
    BY WebhookAssumption, FS_EmptySet, FS_CardinalityType
  <2>3. IsFiniteSet(Claimed) /\ Cardinality(Claimed) = 0
    BY <2>1, FS_EmptySet
  <2> QED
    BY <2>2, <2>3, WebhookAssumption DEF LimitInv, LimitOvershootBounded
<1>2. TypeOK /\ LimitInv /\ [Next]_vars => LimitInv'
  BY LimitStep
<1>3. LimitInv => LimitOvershootBounded
  BY DEF LimitInv
<1> QED
  BY <1>1, <1>2, <1>3, TypeCorrect, PTL DEF Spec
=============================================================================
