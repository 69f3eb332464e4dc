------------------------------- MODULE Members -------------------------------
(***************************************************************************)
(* The members of one organisation (internal/org), the invites by which    *)
(* they join, accepted by token (internal/invite) or on a login            *)
(* (internal/user), and the API keys they make (internal/apikey).          *)
(*                                                                         *)
(* None of these calls has a unit of work: a call is its reads, in one     *)
(* step, and then one step per store call, each a transaction of its own.  *)
(* A call may fail or die before any of them. Whoever has access to the    *)
(* host sends and revokes invites from the command line, without a check,  *)
(* so these two are open to everyone here. An expired invite or key is     *)
(* refused, which changes nothing; key scopes, grants of projects and the  *)
(* times of last use are left out.                                         *)
(***************************************************************************)
EXTENDS Naturals

CONSTANTS
  Users,      \* people with an account; an invite names one by email
  Founder,    \* the owner the organisation was created with
  InviteIds,
  KeyIds,
  Callers,    \* calls under way
  None        \* no row, no call

VARIABLES
  members,  \* members[u]: the membership of user u, or None
  invites,  \* invites[i]: the row of invite i, or None
  keys,     \* keys[k]: the row of key k, or None
  call,     \* call[c]: what call c has read, and how far it is
  sent,     \* the invites ever sent
  joined,   \* history: the invites that have enrolled their user
  claimed,  \* history: the invites a login has marked used
  late      \* history: the keys saved live although a removal of their owner
            \* had revoked the owner's tokens already

vars == <<members, invites, keys, call, sent, joined, claimed, late>>
inviting == <<invites, sent, joined, claimed>>
holding == <<keys, late>>

Roles == {"owner", "admin", "member"}
Membership == [role : Roles, system : BOOLEAN]
Invite == [user : Users, role : Roles, used : BOOLEAN]
Key == [personal : BOOLEAN, owner : Users, revoked : BOOLEAN]

ASSUME MembersAssumption == Founder \in Users /\ None \notin Membership

Accepting == [pc : {"accept", "enrolled", "login", "reloaded", "claimed"}, invite : InviteIds, copy : Invite]
Removing == [pc : {"remove", "hooked"}, actor : Users, target : Users,
             actorRow : Membership, targetRow : Membership]
Saving == [pc : {"save"}, key : KeyIds, copy : Key]

\* A system organisation has a founder nobody may remove.
Init ==
  /\ \E system \in BOOLEAN :
       members = [u \in Users |-> IF u = Founder THEN [role |-> "owner", system |-> system] ELSE None]
  /\ invites = [i \in InviteIds |-> None]
  /\ keys = [k \in KeyIds |-> None]
  /\ call = [c \in Callers |-> None]
  /\ sent = {}
  /\ joined = {}
  /\ claimed = {}
  /\ late = {}

At(c, pc) == call[c] # None /\ call[c].pc = pc

Goes(c, next) == call' = [call EXCEPT ![c] = next]

Begins(c, next) == call[c] = None /\ Goes(c, next)

IsMember(u) == members[u] # None

IsOwner(u) == IsMember(u) /\ members[u].role = "owner"

CanManage(u) == IsMember(u) /\ members[u].role \in {"owner", "admin"}

-----------------------------------------------------------------------------
(* Invites *)

Send(i, u, role) ==
  /\ i \notin sent
  /\ invites' = [invites EXCEPT ![i] = [user |-> u, role |-> role, used |-> FALSE]]
  /\ sent' = sent \cup {i}
  /\ UNCHANGED <<members, call, joined, claimed, holding>>

\* Revoke deletes the row, used or not.
RevokeInvite(i) ==
  /\ invites[i] # None
  /\ invites' = [invites EXCEPT ![i] = None]
  /\ UNCHANGED <<members, call, sent, joined, claimed, holding>>

Redeems(c, i, pc) ==
  /\ invites[i] # None /\ ~invites[i].used
  /\ Begins(c, [pc |-> pc, invite |-> i, copy |-> [invites[i] EXCEPT !.used = TRUE]])
  /\ UNCHANGED <<members, inviting, holding>>

\* The membership is inserted, or written over the one that is there.
SaveMembership(c) ==
  /\ members' = [members EXCEPT ![call[c].copy.user] = [role |-> call[c].copy.role, system |-> FALSE]]
  /\ joined' = joined \cup {call[c].invite}

\* The invite is saved as used; one revoked since is inserted again.
SaveInvite(c) == invites' = [invites EXCEPT ![call[c].invite] = call[c].copy]

\* Execute, up to its writes.
AcceptRead(c, i) == Redeems(c, i, "accept")

Enrol(c) ==
  /\ At(c, "accept")
  /\ SaveMembership(c)
  /\ Goes(c, [call[c] EXCEPT !.pc = "enrolled"])
  /\ UNCHANGED <<invites, sent, claimed, holding>>

\* Mutant: the invite is consumed before the membership is saved.
ConsumeFirst(c) ==
  /\ call[c] # None /\ call[c].pc \in {"accept", "enrolled"}
  /\ SaveInvite(c)
  /\ IF call[c].pc = "accept" THEN UNCHANGED call ELSE Goes(c, None)
  /\ UNCHANGED <<members, sent, joined, claimed, holding>>

\* Execute saves the invite last.
Consume(c) ==
  /\ At(c, "enrolled")
  /\ SaveInvite(c)
  /\ Goes(c, None)
  /\ UNCHANGED <<members, sent, joined, claimed, holding>>

\* A login of a user who is no member redeems a pending invite: Onboard looks
\* it up, loads it again to mark it, and saves it before the membership.
LoginRead(c, i) == invites[i] # None /\ ~IsMember(invites[i].user) /\ Redeems(c, i, "login")

LoginReload(c) ==
  /\ At(c, "login") /\ invites[call[c].invite] # None
  /\ Goes(c, [call[c] EXCEPT !.pc = "reloaded"])
  /\ UNCHANGED <<members, inviting, holding>>

LoginClaim(c) ==
  /\ At(c, "reloaded")
  /\ SaveInvite(c)
  /\ claimed' = claimed \cup {call[c].invite}
  /\ Goes(c, [call[c] EXCEPT !.pc = "claimed"])
  /\ UNCHANGED <<members, sent, joined, holding>>

LoginEnrol(c) ==
  /\ At(c, "claimed")
  /\ SaveMembership(c)
  /\ Goes(c, None)
  /\ UNCHANGED <<invites, sent, claimed, holding>>

-----------------------------------------------------------------------------
(* Keys *)

\* A fresh key: a personal token of a member, or a key of the organisation or
\* of a project made by a manager.
MintRead(c, u, k, personal) ==
  /\ keys[k] = None
  /\ \A d \in Callers : At(d, "save") => call[d].key # k
  /\ IF personal THEN IsMember(u) ELSE CanManage(u)
  /\ Begins(c, [pc |-> "save", key |-> k, copy |-> [personal |-> personal, owner |-> u, revoked |-> FALSE]])
  /\ UNCHANGED <<members, inviting, holding>>

\* Revoke, or with revoke FALSE a wider grant, which a revoked key is refused.
ChangeRead(c, u, k, revoke) ==
  /\ keys[k] # None
  /\ IF keys[k].personal THEN keys[k].owner = u /\ IsMember(u) ELSE CanManage(u)
  /\ revoke \/ ~keys[k].revoked
  /\ Begins(c, [pc |-> "save", key |-> k, copy |-> [keys[k] EXCEPT !.revoked = @ \/ revoke]])
  /\ UNCHANGED <<members, inviting, holding>>

\* The tokens of u have been revoked for good: u has left, or is about to.
Leaving(u) == ~IsMember(u) \/ \E d \in Callers : At(d, "hooked") /\ call[d].target = u

\* Save writes the whole row.
KeySave(c) ==
  LET copy == call[c].copy
      k == call[c].key
  IN
  /\ At(c, "save")
  /\ keys' = [keys EXCEPT ![k] = copy]
  /\ late' = IF copy.personal /\ ~copy.revoked /\ Leaving(copy.owner) THEN late \cup {k} ELSE late \ {k}
  /\ Goes(c, None)
  /\ UNCHANGED <<members, inviting>>

-----------------------------------------------------------------------------
(* Removing a member *)

\* Mutant: an admin may remove an owner.
RemovableByAdmin(actor, target) == CanManage(actor) /\ ~members[target].system /\ actor # target

\* The handler's IsManager and RemovalRefusal.
Removable(actor, target) ==
  /\ CanManage(actor)
  /\ ~members[target].system
  /\ actor # target
  /\ IsOwner(target) => IsOwner(actor)

RemoveRead(c, actor, target) ==
  /\ IsMember(target)
  /\ Removable(actor, target)
  /\ Begins(c, [pc |-> "remove", actor |-> actor, target |-> target,
                actorRow |-> members[actor], targetRow |-> members[target]])
  /\ UNCHANGED <<members, inviting, holding>>

OwnedBy(u) == {k \in KeyIds : keys[k] # None /\ keys[k].personal /\ keys[k].owner = u}

\* Mutant: a hook that fails does not stop the removal.
HookIgnored(c) ==
  /\ At(c, "remove")
  /\ Goes(c, [call[c] EXCEPT !.pc = "hooked"])
  /\ UNCHANGED <<members, inviting, holding>>

\* The hook of the removal, RevokePersonalOf.
Hook(c) ==
  LET tokens == OwnedBy(call[c].target) IN
  /\ At(c, "remove")
  /\ keys' = [k \in KeyIds |-> IF k \in tokens THEN [keys[k] EXCEPT !.revoked = TRUE] ELSE keys[k]]
  /\ late' = late \ tokens
  /\ Goes(c, [call[c] EXCEPT !.pc = "hooked"])
  /\ UNCHANGED <<members, inviting>>

\* A membership that is gone already is not an error that changes anything.
Remove(c) ==
  /\ At(c, "hooked")
  /\ members' = [members EXCEPT ![call[c].target] = None]
  /\ Goes(c, None)
  /\ UNCHANGED <<inviting, holding>>

-----------------------------------------------------------------------------

\* A store call fails, or the process dies.
Abandon(c) ==
  /\ call[c] # None
  /\ Goes(c, None)
  /\ UNCHANGED <<members, inviting, holding>>

Read(c) ==
  \/ \E i \in InviteIds : AcceptRead(c, i) \/ LoginRead(c, i)
  \/ \E u \in Users, k \in KeyIds, b \in BOOLEAN : MintRead(c, u, k, b) \/ ChangeRead(c, u, k, b)
  \/ \E actor, target \in Users : RemoveRead(c, actor, target)

Write(c) ==
  \/ Enrol(c)
  \/ Consume(c)
  \/ LoginReload(c)
  \/ LoginClaim(c)
  \/ LoginEnrol(c)
  \/ KeySave(c)
  \/ Hook(c)
  \/ Remove(c)
  \/ Abandon(c)

Next ==
  \/ \E i \in InviteIds :
       RevokeInvite(i) \/ \E u \in Users, role \in Roles : Send(i, u, role)
  \/ \E c \in Callers : Read(c) \/ Write(c)

Spec == Init /\ [][Next]_vars

-----------------------------------------------------------------------------
(* Properties *)

\* Every variable keeps the shape the rows and the calls have in the code.
TypeOK ==
  /\ members \in [Users -> Membership \cup {None}]
  /\ invites \in [InviteIds -> Invite \cup {None}]
  /\ keys \in [KeyIds -> Key \cup {None}]
  /\ call \in [Callers -> Accepting \cup Removing \cup Saving \cup {None}]
  /\ sent \subseteq InviteIds
  /\ joined \subseteq InviteIds /\ claimed \subseteq InviteIds
  /\ late \subseteq KeyIds

\* A used invite has enrolled its user: an accept that fails or dies half way,
\* or overlaps another, a login or a revocation, never leaves an invite used up
\* and its user outside. Only a login may, which marks the invite before it
\* saves the membership (invite/accept.go Execute, user/onboard.go).
ConsumedHasJoined ==
  \A i \in InviteIds : invites[i] # None /\ invites[i].used => i \in joined \cup claimed

\* Nobody who has left the organisation has a live personal token, whatever
\* step of the removal failed and was tried again; only a token saved during
\* or after the removal, by a call that had read the membership before, is live
\* (org/service.go RemoveMember, apikey/service.go RevokePersonalOf).
LeaversHoldNoTokens ==
  \A k \in KeyIds :
    (keys[k] # None /\ keys[k].personal /\ ~keys[k].revoked /\ ~IsMember(keys[k].owner)) => k \in late

HasOwner == \E u \in Users : IsOwner(u)

\* The step is a removal that read the membership of its actor or its target
\* before another call changed it.
RemovesOverlapped ==
  \E c \in Callers :
    /\ At(c, "hooked") /\ call'[c] = None
    /\ members[call[c].actor] # call[c].actorRow \/ members[call[c].target] # call[c].targetRow

\* The step enrols an owner in a lesser role: an owner redeemed an invite.
EnrolsOwner ==
  \E c \in Callers :
    /\ At(c, "accept") \/ At(c, "claimed")
    /\ IsOwner(call[c].copy.user)
    /\ members'[call[c].copy.user] # members[call[c].copy.user]

\* No chain of removals leaves the organisation without an owner: it takes two
\* removals that overlap, or an owner who redeems an invite to a lesser role
\* (org/errors.go RemovalRefusal, org/service.go RemoveMember).
LastOwnerStays == [][HasOwner => HasOwner' \/ RemovesOverlapped \/ EnrolsOwner]_vars
=============================================================================
