---------------------------- MODULE MembersProofs ----------------------------
(***************************************************************************)
(* Theorems about Members: its types, that a used invite has enrolled its  *)
(* user unless a login marked it, and that who has left holds no live      *)
(* personal token but one saved late.                                      *)
(***************************************************************************)
EXTENDS Members, TLAPS

\* A call that has passed At(c, pc) is of the kind its pc says.
LEMMA CallKinds ==
  ASSUME TypeOK, NEW c \in Callers, call[c] # None
  PROVE  /\ call[c].pc \in {"accept", "enrolled", "login", "reloaded", "claimed"} => call[c] \in Accepting
         /\ call[c].pc \in {"remove", "hooked"} => call[c] \in Removing
         /\ call[c].pc = "save" => call[c] \in Saving
<1>1. call[c] \in Accepting \cup Removing \cup Saving
  BY DEF TypeOK
<1>2. ASSUME call[c] \in Accepting PROVE call[c].pc \notin {"remove", "hooked", "save"}
  BY <1>2 DEF Accepting
<1>3. ASSUME call[c] \in Removing
      PROVE call[c].pc \notin {"accept", "enrolled", "login", "reloaded", "claimed", "save"}
  BY <1>3 DEF Removing
<1>4. ASSUME call[c] \in Saving
      PROVE call[c].pc \notin {"accept", "enrolled", "login", "reloaded", "claimed", "remove", "hooked"}
  BY <1>4 DEF Saving
<1> QED
  BY <1>1, <1>2, <1>3, <1>4

\* The type invariant is inductive.
LEMMA TypeStep ==
  ASSUME TypeOK, [Next]_vars
  PROVE  TypeOK'
<1> USE DEF inviting, holding
<1>1. ASSUME NEW i \in InviteIds, RevokeInvite(i) PROVE TypeOK'
  BY <1>1 DEF RevokeInvite, TypeOK
<1>2. ASSUME NEW i \in InviteIds, NEW u \in Users, NEW role \in Roles, Send(i, u, role) PROVE TypeOK'
  <2>1. [user |-> u, role |-> role, used |-> FALSE] \in Invite
    BY DEF Invite
  <2> QED
    BY <1>2, <2>1 DEF Send, TypeOK
<1>3. ASSUME NEW c \in Callers, NEW i \in InviteIds, NEW pc \in {"accept", "login"}, Redeems(c, i, pc)
      PROVE  TypeOK'
  <2>1. [pc |-> pc, invite |-> i, copy |-> [invites[i] EXCEPT !.used = TRUE]] \in Accepting
    BY <1>3 DEF Redeems, TypeOK, Invite, Accepting
  <2> QED
    BY <1>3, <2>1 DEF Redeems, Begins, Goes, TypeOK
<1>4. ASSUME NEW c \in Callers, NEW u \in Users, NEW k \in KeyIds, NEW b \in BOOLEAN, MintRead(c, u, k, b)
      PROVE  TypeOK'
  <2>1. [pc |-> "save", key |-> k, copy |-> [personal |-> b, owner |-> u, revoked |-> FALSE]] \in Saving
    BY DEF Saving, Key
  <2> QED
    BY <1>4, <2>1 DEF MintRead, Begins, Goes, TypeOK
<1>5. ASSUME NEW c \in Callers, NEW u \in Users, NEW k \in KeyIds, NEW b \in BOOLEAN, ChangeRead(c, u, k, b)
      PROVE  TypeOK'
  <2>1. keys[k] \in Key
    BY <1>5 DEF ChangeRead, TypeOK
  <2>2. (keys[k].revoked \/ b) \in BOOLEAN
    OBVIOUS
  <2>3. [keys[k] EXCEPT !.revoked = @ \/ b] \in Key
    BY <2>1, <2>2 DEF Key
  <2>4. [pc |-> "save", key |-> k, copy |-> [keys[k] EXCEPT !.revoked = @ \/ b]] \in Saving
    BY <2>3 DEF Saving
  <2> QED
    BY <1>5, <2>4 DEF ChangeRead, Begins, Goes, TypeOK
<1>6. ASSUME NEW c \in Callers, NEW actor \in Users, NEW target \in Users, RemoveRead(c, actor, target)
      PROVE  TypeOK'
  <2>1. members[actor] \in Membership /\ members[target] \in Membership
    BY <1>6 DEF RemoveRead, Removable, CanManage, IsMember, TypeOK
  <2>2. [pc |-> "remove", actor |-> actor, target |-> target,
         actorRow |-> members[actor], targetRow |-> members[target]] \in Removing
    BY <2>1 DEF Removing
  <2> QED
    BY <1>6, <2>2 DEF RemoveRead, Begins, Goes, TypeOK
<1>7. ASSUME NEW c \in Callers, Enrol(c) \/ Consume(c) \/ LoginReload(c) \/ LoginClaim(c) \/ LoginEnrol(c)
      PROVE  TypeOK'
  <2>1. call[c] \in Accepting
    BY <1>7, CallKinds DEF Enrol, Consume, LoginReload, LoginClaim, LoginEnrol, At
  <2>2. /\ call[c].invite \in InviteIds /\ call[c].copy \in Invite
        /\ call[c].copy.user \in Users /\ call[c].copy.role \in Roles
    BY <2>1 DEF Accepting, Invite
  <2>3. [role |-> call[c].copy.role, system |-> FALSE] \in Membership
    BY <2>2 DEF Membership
  <2>4. \A pc \in {"enrolled", "reloaded", "claimed"} : [call[c] EXCEPT !.pc = pc] \in Accepting
    BY <2>1 DEF Accepting
  <2>5. CASE Enrol(c)
    BY <2>5, <2>2, <2>3, <2>4 DEF Enrol, SaveMembership, Goes, TypeOK
  <2>6. CASE Consume(c)
    BY <2>6, <2>2 DEF Consume, SaveInvite, Goes, TypeOK
  <2>7. CASE LoginReload(c)
    BY <2>7, <2>4 DEF LoginReload, Goes, TypeOK
  <2>8. CASE LoginClaim(c)
    BY <2>8, <2>2, <2>4 DEF LoginClaim, SaveInvite, Goes, TypeOK
  <2>9. CASE LoginEnrol(c)
    BY <2>9, <2>2, <2>3 DEF LoginEnrol, SaveMembership, Goes, TypeOK
  <2> QED
    BY <1>7, <2>5, <2>6, <2>7, <2>8, <2>9
<1>8. ASSUME NEW c \in Callers, KeySave(c) PROVE TypeOK'
  <2>1. call[c] \in Saving
    BY <1>8, CallKinds DEF KeySave, At
  <2> QED
    BY <1>8, <2>1 DEF KeySave, Saving, Goes, TypeOK
<1>9. ASSUME NEW c \in Callers, Hook(c) PROVE TypeOK'
  <2>1. [call[c] EXCEPT !.pc = "hooked"] \in Removing
    BY <1>9, CallKinds DEF Hook, At, Removing
  <2>2. ASSUME NEW k \in OwnedBy(call[c].target) PROVE [keys[k] EXCEPT !.revoked = TRUE] \in Key
    BY DEF OwnedBy, TypeOK, Key
  <2>3. keys' \in [KeyIds -> Key \cup {None}]
    BY <1>9, <2>2 DEF Hook, TypeOK
  <2> QED
    BY <1>9, <2>1, <2>3 DEF Hook, Goes, TypeOK
<1>10. ASSUME NEW c \in Callers, Remove(c) PROVE TypeOK'
  BY <1>10 DEF Remove, Goes, TypeOK
<1>11. ASSUME NEW c \in Callers, Abandon(c) PROVE TypeOK'
  BY <1>11 DEF Abandon, Goes, TypeOK
<1>12. CASE UNCHANGED vars
  BY <1>12 DEF vars, TypeOK
<1>13. ASSUME NEW c \in Callers, Read(c) PROVE TypeOK'
  BY <1>13, <1>3, <1>4, <1>5, <1>6 DEF Read, AcceptRead, LoginRead
<1>14. ASSUME NEW c \in Callers, Write(c) PROVE TypeOK'
  BY <1>14, <1>7, <1>8, <1>9, <1>10, <1>11 DEF Write
<1> QED
  BY <1>1, <1>2, <1>12, <1>13, <1>14 DEF Next

LEMMA TypeInit ==
  ASSUME Init
  PROVE  TypeOK
<1>1. PICK system \in BOOLEAN :
        members = [u \in Users |-> IF u = Founder THEN [role |-> "owner", system |-> system] ELSE None]
  BY DEF Init
<1>2. [role |-> "owner", system |-> system] \in Membership
  BY DEF Membership, Roles
<1> QED
  BY <1>1, <1>2 DEF Init, TypeOK

\* The rows and the calls of Members keep their types, for any number of
\* users, invites, keys and calls.
THEOREM TypeCorrect == Spec => []TypeOK
<1>1. Init => TypeOK
  BY TypeInit
<1>2. TypeOK /\ [Next]_vars => TypeOK'
  BY TypeStep
<1> QED
  BY <1>1, <1>2, PTL DEF Spec

-----------------------------------------------------------------------------
(* Used invites *)

\* Strengthens ConsumedHasJoined: an accept that is about to save its invite
\* has enrolled the user.
InviteInv ==
  /\ ConsumedHasJoined
  /\ \A c \in Callers : At(c, "enrolled") => call[c].invite \in joined

LEMMA InviteStep ==
  ASSUME TypeOK, InviteInv, [Next]_vars
  PROVE  InviteInv'
<1> USE DEF inviting, holding
<1>1. ASSUME NEW i \in InviteIds, RevokeInvite(i) PROVE InviteInv'
  BY <1>1 DEF RevokeInvite, InviteInv, ConsumedHasJoined, At, TypeOK
<1>2. ASSUME NEW i \in InviteIds, NEW u \in Users, NEW role \in Roles, Send(i, u, role) PROVE InviteInv'
  BY <1>2 DEF Send, InviteInv, ConsumedHasJoined, At, TypeOK
<1>3. ASSUME NEW c \in Callers, NEW next, next # None => next.pc # "enrolled", Goes(c, next),
             UNCHANGED inviting
      PROVE  InviteInv'
  BY <1>3 DEF Goes, InviteInv, ConsumedHasJoined, At, TypeOK
<1>4. ASSUME NEW c \in Callers, Read(c) PROVE InviteInv'
  BY <1>4, <1>3 DEF Read, AcceptRead, LoginRead, Redeems, MintRead, ChangeRead, RemoveRead, Begins
<1>5. ASSUME NEW c \in Callers, KeySave(c) \/ Remove(c) \/ Abandon(c) PROVE InviteInv'
  BY <1>5, <1>3 DEF KeySave, Remove, Abandon
<1>6. ASSUME NEW c \in Callers, Hook(c) \/ LoginReload(c) PROVE InviteInv'
  <2>1. call[c] \in Accepting \cup Removing
    BY <1>6, CallKinds DEF Hook, LoginReload, At
  <2>2. \A pc \in {"hooked", "reloaded"} : [call[c] EXCEPT !.pc = pc].pc = pc
    BY <2>1 DEF Accepting, Removing
  <2> QED
    BY <1>6, <1>3, <2>2 DEF Hook, LoginReload
<1>7. ASSUME NEW c \in Callers, Enrol(c) \/ Consume(c) \/ LoginClaim(c) \/ LoginEnrol(c) PROVE InviteInv'
  <2>1. call[c] \in Accepting /\ call[c].invite \in InviteIds
    BY <1>7, CallKinds DEF Enrol, Consume, LoginClaim, LoginEnrol, At, Accepting
  <2>2. \A pc \in {"enrolled", "claimed"} :
          [call[c] EXCEPT !.pc = pc].pc = pc /\ [call[c] EXCEPT !.pc = pc].invite = call[c].invite
    BY <2>1 DEF Accepting
  <2>3. CASE Enrol(c)
    BY <2>3, <2>1, <2>2 DEF Enrol, SaveMembership, Goes, At, InviteInv, ConsumedHasJoined, TypeOK
  <2>4. CASE Consume(c)
    BY <2>4, <2>1 DEF Consume, SaveInvite, Goes, At, InviteInv, ConsumedHasJoined, TypeOK
  <2>5. CASE LoginClaim(c)
    BY <2>5, <2>1, <2>2 DEF LoginClaim, SaveInvite, Goes, At, InviteInv, ConsumedHasJoined, TypeOK
  <2>6. CASE LoginEnrol(c)
    BY <2>6, <2>1 DEF LoginEnrol, SaveMembership, Goes, At, InviteInv, ConsumedHasJoined, TypeOK
  <2> QED
    BY <1>7, <2>3, <2>4, <2>5, <2>6
<1>8. CASE UNCHANGED vars
  BY <1>8 DEF vars, InviteInv, ConsumedHasJoined, At
<1>9. ASSUME NEW c \in Callers, Write(c) PROVE InviteInv'
  BY <1>9, <1>5, <1>6, <1>7 DEF Write
<1> QED
  BY <1>1, <1>2, <1>4, <1>8, <1>9 DEF Next

\* A used invite has enrolled its user unless a login marked it, whatever
\* accepts, logins and revocations overlap or die (invite/accept.go).
THEOREM UsedHaveJoined == Spec => []ConsumedHasJoined
<1>1. Init => InviteInv
  BY DEF Init, InviteInv, ConsumedHasJoined, At
<1>2. TypeOK /\ InviteInv /\ [Next]_vars => InviteInv'
  BY InviteStep
<1>3. InviteInv => ConsumedHasJoined
  BY DEF InviteInv
<1> QED
  BY <1>1, <1>2, <1>3, TypeCorrect, PTL DEF Spec

-----------------------------------------------------------------------------
(* Tokens of people who leave *)

\* Strengthens LeaversHoldNoTokens: from the hook on, before the membership is
\* gone, the owner's live tokens are late ones.
TokenInv ==
  \A k \in KeyIds, u \in Users :
    (keys[k] # None /\ keys[k].personal /\ keys[k].owner = u /\ ~keys[k].revoked /\ Leaving(u)) => k \in late

\* Only the hook of a removal makes its target one who leaves.
LEMMA LeavingStep ==
  ASSUME TypeOK, [Next]_vars, NEW u \in Users, Leaving(u)'
  PROVE  Leaving(u) \/ \E c \in Callers : Hook(c) /\ call[c].target = u
<1> USE DEF inviting, holding
<1> SUFFICES ASSUME ~Leaving(u) PROVE \E c \in Callers : Hook(c) /\ call[c].target = u
  OBVIOUS
<1>1. IsMember(u) /\ \A d \in Callers : ~(At(d, "hooked") /\ call[d].target = u)
  BY DEF Leaving
<1>2. ASSUME NEW c \in Callers, NEW next, next # None => next.pc # "hooked", Goes(c, next),
             \A v \in Users : members'[v] = members[v] \/ members'[v] # None
      PROVE  FALSE
  BY <1>1, <1>2 DEF Goes, Leaving, At, IsMember, TypeOK
<1>3. ASSUME UNCHANGED <<members, call>> PROVE FALSE
  BY <1>1, <1>3 DEF Leaving, At, IsMember
<1>4. ASSUME NEW c \in Callers, Read(c) PROVE FALSE
  BY <1>4, <1>2 DEF Read, AcceptRead, LoginRead, Redeems, MintRead, ChangeRead, RemoveRead, Begins
<1>5. ASSUME NEW c \in Callers, KeySave(c) \/ Abandon(c) PROVE FALSE
  BY <1>5, <1>2 DEF KeySave, Abandon
<1>6. ASSUME NEW c \in Callers, Enrol(c) \/ Consume(c) \/ LoginReload(c) \/ LoginClaim(c) \/ LoginEnrol(c)
      PROVE  FALSE
  <2>1. call[c] \in Accepting
    BY <1>6, CallKinds DEF Enrol, Consume, LoginReload, LoginClaim, LoginEnrol, At
  <2>2. \A pc \in {"enrolled", "reloaded", "claimed"} : [call[c] EXCEPT !.pc = pc].pc = pc
    BY <2>1 DEF Accepting
  <2>3. ASSUME SaveMembership(c) PROVE \A v \in Users : members'[v] = members[v] \/ members'[v] # None
    <3>1. [role |-> call[c].copy.role, system |-> FALSE] \in Membership
      BY <2>1 DEF Accepting, Invite, Membership
    <3> QED
      BY <2>3, <3>1, MembersAssumption DEF SaveMembership, TypeOK
  <2> QED
    BY <1>6, <1>2, <2>2, <2>3 DEF Enrol, Consume, LoginReload, LoginClaim, LoginEnrol
<1>7. ASSUME NEW c \in Callers, Remove(c) PROVE FALSE
  <2>1. call[c] \in Removing /\ call[c].target # u
    BY <1>7, <1>1, CallKinds DEF Remove, At
  <2>2. members'[u] # None
    BY <1>7, <1>1, <2>1 DEF Remove, IsMember, TypeOK, Removing
  <2>3. \A d \in Callers : ~(At(d, "hooked")' /\ call'[d].target = u)
    BY <1>7, <1>1 DEF Remove, Goes, At, TypeOK
  <2> QED
    BY <2>2, <2>3 DEF Leaving, IsMember
<1>8. ASSUME NEW c \in Callers, Hook(c) PROVE call[c].target = u
  <2>1. call[c] \in Removing
    BY <1>8, CallKinds DEF Hook, At
  <2>2. [call[c] EXCEPT !.pc = "hooked"].target = call[c].target
    BY <2>1 DEF Removing
  <2> QED
    BY <1>8, <1>1, <2>2 DEF Hook, Goes, Leaving, At, IsMember, TypeOK
<1>9. ASSUME NEW c \in Callers, Write(c) PROVE Hook(c) /\ call[c].target = u
  BY <1>9, <1>5, <1>6, <1>7, <1>8 DEF Write
<1>10. ASSUME NEW i \in InviteIds, RevokeInvite(i) PROVE FALSE
  BY <1>10, <1>3 DEF RevokeInvite
<1>11. ASSUME NEW i \in InviteIds, NEW v \in Users, NEW role \in Roles, Send(i, v, role) PROVE FALSE
  BY <1>11, <1>3 DEF Send
<1>12. CASE UNCHANGED vars
  BY <1>12, <1>3 DEF vars
<1> QED
  BY <1>4, <1>9, <1>10, <1>11, <1>12 DEF Next

LEMMA TokenStep ==
  ASSUME TypeOK, TokenInv, [Next]_vars
  PROVE  TokenInv'
<1> USE DEF inviting, holding
<1>2. SUFFICES ASSUME NEW k \in KeyIds, NEW u \in Users,
                      keys'[k] # None, keys'[k].personal, keys'[k].owner = u, ~keys'[k].revoked,
                      Leaving(u)'
               PROVE  k \in late'
  BY DEF TokenInv
<1>4. Leaving(u) \/ \E c \in Callers : Hook(c) /\ call[c].target = u
  BY <1>2, LeavingStep
<1>5. ASSUME NEW c \in Callers, KeySave(c) PROVE k \in late'
  <2>1. call[c] \in Saving
    BY <1>5, CallKinds DEF KeySave, At
  <2>2. ~Hook(c) /\ \A d \in Callers : ~Hook(d)
    BY <1>5, <2>1 DEF KeySave, Hook, At, Goes, Saving, TypeOK
  <2> QED
    BY <1>2, <1>4, <1>5, <2>1, <2>2 DEF KeySave, TokenInv, TypeOK, Saving
<1>6. ASSUME NEW c \in Callers, Hook(c) PROVE k \in late'
  <2>1. ASSUME NEW d \in Callers, Hook(d) PROVE k \notin OwnedBy(call[d].target) /\ keys'[k] = keys[k]
    <3>1. ASSUME k \in OwnedBy(call[d].target) PROVE FALSE
      <4>1. keys[k] \in Key /\ keys'[k] = [keys[k] EXCEPT !.revoked = TRUE]
        BY <2>1, <3>1 DEF Hook, OwnedBy, TypeOK
      <4> QED
        BY <4>1, <1>2 DEF Key
    <3> QED
      BY <2>1, <3>1 DEF Hook
  <2>2. ASSUME NEW d \in Callers, Hook(d) PROVE call[d].target # u
    BY <2>1, <2>2, <1>2 DEF OwnedBy
  <2>3. k \in late
    BY <1>2, <1>4, <1>6, <2>1, <2>2 DEF TokenInv
  <2> QED
    BY <1>6, <2>1, <2>3 DEF Hook
<1>7. ASSUME UNCHANGED holding PROVE k \in late'
  <2>1. CASE Leaving(u)
    BY <1>2, <1>7, <2>1 DEF TokenInv
  <2> QED
    BY <1>4, <1>6, <2>1
<1>8. ASSUME NEW c \in Callers, Read(c) PROVE UNCHANGED holding
  BY <1>8 DEF Read, AcceptRead, LoginRead, Redeems, MintRead, ChangeRead, RemoveRead
<1>9. ASSUME NEW c \in Callers, Write(c), ~KeySave(c), ~Hook(c) PROVE UNCHANGED holding
  BY <1>9 DEF Write, Enrol, Consume, LoginReload, LoginClaim, LoginEnrol, Remove, Abandon
<1>10. ASSUME NEW i \in InviteIds, RevokeInvite(i) PROVE UNCHANGED holding
  BY <1>10 DEF RevokeInvite
<1>11. ASSUME NEW i \in InviteIds, NEW v \in Users, NEW role \in Roles, Send(i, v, role)
       PROVE  UNCHANGED holding
  BY <1>11 DEF Send
<1>12. CASE UNCHANGED vars
  BY <1>12, <1>7 DEF vars
<1> QED
  BY <1>5, <1>6, <1>7, <1>8, <1>9, <1>10, <1>11, <1>12 DEF Next

\* Who has left holds no live personal token but one saved during or after the
\* removal from an older read, whatever step of the removal failed
\* (org/service.go RemoveMember).
THEOREM NoTokensLeft == Spec => []LeaversHoldNoTokens
<1>1. Init => TokenInv
  BY DEF Init, TokenInv
<1>2. TypeOK /\ TokenInv /\ [Next]_vars => TokenInv'
  BY TokenStep
<1>3. TypeOK /\ TokenInv => LeaversHoldNoTokens
  BY DEF TypeOK, Key, TokenInv, LeaversHoldNoTokens, Leaving
<1> QED
  BY <1>1, <1>2, <1>3, TypeCorrect, PTL DEF Spec

-----------------------------------------------------------------------------
(* The last owner *)

\* What a removal was allowed on: its actor is not its target, and was an owner
\* if the target was.
RemovalInv ==
  \A c \in Callers :
    (At(c, "remove") \/ At(c, "hooked"))
      => /\ call[c].actor # call[c].target
         /\ call[c].targetRow.role = "owner" => call[c].actorRow.role = "owner"

LEMMA RemovalStep ==
  ASSUME TypeOK, RemovalInv, [Next]_vars
  PROVE  RemovalInv'
<1>1. ASSUME NEW c \in Callers, NEW next, next # None => next.pc \notin {"remove", "hooked"}, Goes(c, next)
      PROVE  RemovalInv'
  BY <1>1 DEF Goes, RemovalInv, At, TypeOK
<1>2. ASSUME UNCHANGED call PROVE RemovalInv'
  BY <1>2 DEF RemovalInv, At
<1>3. ASSUME NEW c \in Callers, NEW actor \in Users, NEW target \in Users, RemoveRead(c, actor, target)
      PROVE  RemovalInv'
  BY <1>3 DEF RemoveRead, Removable, IsOwner, IsMember, CanManage, Begins, Goes, RemovalInv, At, TypeOK
<1>4. ASSUME NEW c \in Callers, Read(c) PROVE RemovalInv'
  BY <1>4, <1>1, <1>3 DEF Read, AcceptRead, LoginRead, Redeems, MintRead, ChangeRead, Begins
<1>5. ASSUME NEW c \in Callers, Enrol(c) \/ LoginReload(c) \/ LoginClaim(c) PROVE RemovalInv'
  <2>1. call[c] \in Accepting
    BY <1>5, CallKinds DEF Enrol, LoginReload, LoginClaim, At
  <2>2. \A pc \in {"enrolled", "reloaded", "claimed"} : [call[c] EXCEPT !.pc = pc].pc = pc
    BY <2>1 DEF Accepting
  <2> QED
    BY <1>5, <1>1, <2>2 DEF Enrol, LoginReload, LoginClaim
<1>6. ASSUME NEW c \in Callers, Consume(c) \/ LoginEnrol(c) \/ KeySave(c) \/ Remove(c) \/ Abandon(c)
      PROVE  RemovalInv'
  BY <1>6, <1>1 DEF Consume, LoginEnrol, KeySave, Remove, Abandon
<1>7. ASSUME NEW c \in Callers, Hook(c) PROVE RemovalInv'
  <2>1. call[c] \in Removing
    BY <1>7, CallKinds DEF Hook, At
  <2> DEFINE next == [call[c] EXCEPT !.pc = "hooked"]
  <2>2. /\ next.actor = call[c].actor /\ next.target = call[c].target
        /\ next.actorRow = call[c].actorRow /\ next.targetRow = call[c].targetRow
    BY <2>1 DEF Removing
  <2>3. At(c, "remove") /\ call' = [call EXCEPT ![c] = next]
    BY <1>7 DEF Hook, Goes
  <2> HIDE DEF next
  <2> QED
    BY <2>2, <2>3 DEF RemovalInv, At, TypeOK
<1>8. ASSUME NEW c \in Callers, Write(c) PROVE RemovalInv'
  BY <1>8, <1>5, <1>6, <1>7 DEF Write
<1>9. ASSUME NEW i \in InviteIds, RevokeInvite(i) PROVE RemovalInv'
  BY <1>9, <1>2 DEF RevokeInvite
<1>10. ASSUME NEW i \in InviteIds, NEW u \in Users, NEW role \in Roles, Send(i, u, role) PROVE RemovalInv'
  BY <1>10, <1>2 DEF Send
<1>11. CASE UNCHANGED vars
  BY <1>11, <1>2 DEF vars
<1> QED
  BY <1>4, <1>8, <1>9, <1>10, <1>11 DEF Next

LEMMA OwnerStep ==
  ASSUME TypeOK, RemovalInv, [Next]_vars, HasOwner, ~HasOwner'
  PROVE  RemovesOverlapped \/ EnrolsOwner
<1>1. PICK u \in Users : IsOwner(u)
  BY DEF HasOwner
<1>2. \A v \in Users : ~IsOwner(v)'
  BY DEF HasOwner
<1>3. ASSUME UNCHANGED members PROVE FALSE
  BY <1>1, <1>2, <1>3 DEF IsOwner, IsMember
<1>4. ASSUME NEW c \in Callers, Enrol(c) \/ LoginEnrol(c) PROVE EnrolsOwner
  <2>1. At(c, "accept") \/ At(c, "claimed")
    BY <1>4 DEF Enrol, LoginEnrol
  <2>2. SaveMembership(c)
    BY <1>4 DEF Enrol, LoginEnrol
  <2>3. members'[u] # members[u]
    BY <1>1, <1>2 DEF IsOwner, IsMember
  <2>4. call[c].copy.user = u
    BY <2>2, <2>3 DEF SaveMembership, TypeOK
  <2> QED
    BY <1>1, <2>1, <2>3, <2>4 DEF EnrolsOwner
<1>5. ASSUME NEW c \in Callers, Remove(c) PROVE RemovesOverlapped
  <2>1. call[c] \in Removing
    BY <1>5, CallKinds DEF Remove, At
  <2>2. call[c].actor \in Users /\ call[c].target \in Users
    BY <2>1 DEF Removing
  <2>3. \A v \in Users : v # call[c].target => members'[v] = members[v]
    BY <1>5 DEF Remove, TypeOK
  <2>4. call[c].target = u
    BY <1>1, <1>2, <2>3 DEF IsOwner, IsMember
  <2>5. ASSUME members[call[c].actor] = call[c].actorRow, members[call[c].target] = call[c].targetRow
        PROVE  FALSE
    <3>1. call[c].actor # call[c].target /\ call[c].actorRow.role = "owner"
      BY <1>1, <1>5, <2>4, <2>5 DEF RemovalInv, Remove, IsOwner
    <3>2. call[c].actorRow # None
      BY <2>1, MembersAssumption DEF Removing
    <3>3. IsOwner(call[c].actor)
      BY <2>5, <3>1, <3>2 DEF IsOwner, IsMember
    <3> QED
      BY <1>2, <2>2, <2>3, <3>1, <3>3 DEF IsOwner, IsMember
  <2>6. At(c, "hooked") /\ call'[c] = None
    BY <1>5 DEF Remove, Goes, TypeOK
  <2> QED
    BY <2>5, <2>6 DEF RemovesOverlapped
<1>6. ASSUME NEW c \in Callers, Read(c) PROVE UNCHANGED members
  BY <1>6 DEF Read, AcceptRead, LoginRead, Redeems, MintRead, ChangeRead, RemoveRead
<1>7. ASSUME NEW c \in Callers, Write(c), ~Enrol(c), ~LoginEnrol(c), ~Remove(c) PROVE UNCHANGED members
  BY <1>7 DEF Write, Consume, LoginReload, LoginClaim, KeySave, Hook, Abandon
<1>8. ASSUME NEW i \in InviteIds, RevokeInvite(i) PROVE UNCHANGED members
  BY <1>8 DEF RevokeInvite
<1>9. ASSUME NEW i \in InviteIds, NEW v \in Users, NEW role \in Roles, Send(i, v, role)
      PROVE  UNCHANGED members
  BY <1>9 DEF Send
<1>10. CASE UNCHANGED vars
  BY <1>10, <1>3 DEF vars
<1> QED
  BY <1>3, <1>4, <1>5, <1>6, <1>7, <1>8, <1>9, <1>10 DEF Next

\* The organisation keeps an owner unless removals overlap or an owner redeems
\* an invite to a lesser role (org/errors.go RemovalRefusal).
THEOREM OwnerRemains == Spec => LastOwnerStays
<1>1. Init => RemovalInv
  BY DEF Init, RemovalInv, At
<1>2. TypeOK /\ RemovalInv /\ [Next]_vars => RemovalInv'
  BY RemovalStep
<1>3. TypeOK /\ RemovalInv /\ [Next]_vars
        => [HasOwner => HasOwner' \/ RemovesOverlapped \/ EnrolsOwner]_vars
  BY OwnerStep
<1> QED
  BY <1>1, <1>2, <1>3, TypeCorrect, PTL DEF Spec, LastOwnerStays
=============================================================================
