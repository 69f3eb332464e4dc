------------------------------- MODULE Wallets -------------------------------
(***************************************************************************)
(* The wallets of one project (internal/wallet), the transactions on them  *)
(* (internal/transaction), and the marks both leave for the mirror         *)
(* (internal/opensheetsync), under READ COMMITTED.                         *)
(*                                                                         *)
(* The mirror shows a wallet with its derived balance and a transaction    *)
(* with the names of its wallets, so a write has to mark rows it does not  *)
(* write: the wallets whose balance it moves, the transactions that show a *)
(* name it changes. A unit of work is its reads, then its writes and its   *)
(* commit in one step, except the rename, whose cascade looks for          *)
(* transactions some time before its commit. The mirror is enabled         *)
(* throughout; its jobs are OpensheetSync, of which only the outcome       *)
(* appears here: a row is pushed as it is and is clean until marked again. *)
(* Periods are PeriodBooks. Currencies, notes, dates and categories, whose *)
(* rename cascades in the same way, are left out.                          *)
(***************************************************************************)
EXTENDS Integers, FiniteSets, FiniteSetsExt

CONSTANTS
  Clients,    \* requests, one at a time each
  WalletIds,
  TxIds,
  Names,
  Recorded,   \* the kinds that clients record, of UserKinds below
  Amounts,    \* amounts a caller may name, and targets of an adjustment
  MaxAmount,  \* bound of the model: the largest amount an adjustment writes
  None        \* no row, no request, no second wallet, no target

ASSUME WalletsAssumption ==
  /\ Recorded \subseteq {"income", "expense", "transfer"}
  /\ MaxAmount \in Nat
  /\ Amounts \subseteq 1..MaxAmount
  /\ WalletIds \cap TxIds = {}
  /\ None \notin WalletIds

VARIABLES
  wallets,  \* wallets[w]: the row of wallet w, or None
  txs,      \* txs[t]: the row of transaction t, or None
  request,  \* request[c]: the unit of work of client c, or None
  dirty,    \* the wallets and transactions the mirror has to push
  used      \* the ids ever given out

vars == <<wallets, txs, request, dirty, used>>

Wallet == [name : Names, archived : BOOLEAN]
UserKinds == {"income", "expense", "transfer"}
Kinds == UserKinds \cup {"opening", "adjustment_in", "adjustment_out"}
Inflow == {"income", "opening", "adjustment_in"}
Transaction == [kind : Kinds, wallet : WalletIds, to : WalletIds \cup {None}, amount : 1..MaxAmount]

\* A change of a wallet, before and after its cascade, and for the properties
\* the transactions that were there for it; and a write of a transaction, with
\* the target of an adjustment and, for the properties, whether another write
\* has moved the balance since the adjustment read it.
WalletUnit == [pc : {"loaded"}, id : WalletIds, before : Wallet, next : Wallet]
CascadeUnit == [pc : {"cascaded"}, id : WalletIds, before : Wallet, next : Wallet,
                marks : SUBSET TxIds, there : SUBSET TxIds]
TxUnit == [pc : {"tx"}, id : TxIds, before : Transaction \cup {None}, next : Transaction \cup {None},
           target : Amounts \cup {0, None}, moved : BOOLEAN]

Init ==
  /\ wallets = [w \in WalletIds |-> None]
  /\ txs = [t \in TxIds |-> None]
  /\ request = [c \in Clients |-> None]
  /\ dirty = {}
  /\ used = {}

-----------------------------------------------------------------------------

Idle(c) == request[c] = None

At(c, pc) == ~Idle(c) /\ request[c].pc = pc

Goes(c, next) == request' = [request EXCEPT ![c] = next]

Active(w) == wallets[w] # None /\ ~wallets[w].archived

WalletsOf(row) == {row.wallet, row.to} \ {None}

\* Balance: the movements of the wallet, incoming transfers included.
Moves(row, w) ==
  IF row = None THEN 0
  ELSE IF row.wallet = w THEN (IF row.kind \in Inflow THEN row.amount ELSE -row.amount)
  ELSE IF row.to = w THEN row.amount ELSE 0

Balance(w) == MapThenSumSet(LAMBDA t : Moves(txs[t], w), TxIds)

\* A transfer has two wallets, every other kind one.
Valid(row) == IF row.kind = "transfer" THEN row.to \notin {None, row.wallet} ELSE row.to = None

\* checkWallets: no archived wallet takes part.
CheckWallets(row) == \A w \in WalletsOf(row) : Active(w)

-----------------------------------------------------------------------------
(* Wallets *)

Clash(a, b) == ~a.archived /\ ~b.archived /\ a.name = b.name

\* The unique index on the names of active wallets.
NameFree(w, row) == \A v \in WalletIds \ {w} : wallets[v] # None => ~Clash(row, wallets[v])

\* A rename between its cascade and its commit holds its row, its names and
\* the marks it made.
Renaming == {c \in Clients : At(c, "cascaded")}

Waits(w, row) ==
  \E c \in Renaming :
    LET v == request[c].id IN
    \/ v = w
    \/ Clash(row, request[c].next)
    \/ wallets[v] # None /\ Clash(row, wallets[v])

MarksHeld == UNION {request[c].marks : c \in Renaming}

\* Create, and Open with an opening balance.
Open(c, w, name) ==
  LET row == [name |-> name, archived |-> FALSE] IN
  /\ Idle(c)
  /\ w \notin used
  /\ NameFree(w, row) /\ ~Waits(w, row)
  /\ wallets' = [wallets EXCEPT ![w] = row]
  /\ \/ UNCHANGED txs /\ used' = used \cup {w} /\ dirty' = dirty \cup {w}
     \/ \E t \in TxIds \ used, n \in Amounts :
          /\ txs' = [txs EXCEPT ![t] = [kind |-> "opening", wallet |-> w, to |-> None, amount |-> n]]
          /\ used' = used \cup {w, t}
          /\ dirty' = dirty \cup {w, t}
  /\ UNCHANGED request

\* The rows a change may ask for: Rename and Edit take a name, the old one
\* included, Archive and Unarchive turn the flag; Update leaves alone what is
\* modelled, like a rename to the same name.
Asked(row) ==
  {[row EXCEPT !.name = n] : n \in Names} \cup {[row EXCEPT !.archived = ~row.archived]}

\* Rename, Edit, Update, Archive and Unarchive load the wallet before their
\* unit of work.
WalletLoad(c, w, next) ==
  /\ Idle(c)
  /\ wallets[w] # None
  /\ next \in Asked(wallets[w])
  /\ Goes(c, [pc |-> "loaded", id |-> w, before |-> wallets[w], next |-> next])
  /\ UNCHANGED <<wallets, txs, dirty, used>>

Cascades(u) == u.next.name # u.before.name

\* save of a change that keeps the name: the whole row of the copy is
\* written, and inserted if the wallet has been deleted since.
WalletSave(c) ==
  LET u == request[c] IN
  /\ At(c, "loaded") /\ ~Cascades(u)
  /\ ~Waits(u.id, u.next)
  /\ NameFree(u.id, u.next)
  /\ wallets' = [wallets EXCEPT ![u.id] = u.next]
  /\ dirty' = dirty \cup {u.id}
  /\ Goes(c, None)
  /\ UNCHANGED <<txs, used>>

RefersTo(t, w) == txs[t] # None /\ w \in WalletsOf(txs[t])

\* Mutant: the cascade looks at the first wallet of a transaction only.
MarkReferencingSource(w) == {t \in TxIds : txs[t] # None /\ txs[t].wallet = w}

\* The committed transactions that show the name.
MarkReferencing(w) == {t \in TxIds : RefersTo(t, w)}

\* save of a rename, up to the cascade.
Cascade(c) ==
  LET u == request[c] IN
  /\ At(c, "loaded") /\ Cascades(u)
  /\ ~Waits(u.id, u.next)
  /\ NameFree(u.id, u.next)
  /\ MarkReferencing(u.id) \cap MarksHeld = {}
  /\ Goes(c, [pc |-> "cascaded", id |-> u.id, before |-> u.before, next |-> u.next,
              marks |-> MarkReferencing(u.id), there |-> {t \in TxIds : RefersTo(t, u.id)}])
  /\ UNCHANGED <<wallets, txs, dirty, used>>

\* The wallet's own mark and the commit.
CascadeCommit(c) ==
  LET u == request[c] IN
  /\ At(c, "cascaded")
  /\ wallets' = [wallets EXCEPT ![u.id] = u.next]
  /\ dirty' = dirty \cup u.marks \cup {u.id}
  /\ Goes(c, None)
  /\ UNCHANGED <<txs, used>>

\* Delete: refused while a transaction refers to the wallet.
DeleteWallet(c, w) ==
  /\ Idle(c)
  /\ wallets[w] # None
  /\ \A t \in TxIds : ~RefersTo(t, w)
  /\ \A d \in Renaming : request[d].id # w
  /\ wallets' = [wallets EXCEPT ![w] = None]
  /\ dirty' = dirty \cup {w}
  /\ UNCHANGED <<txs, request, used>>

-----------------------------------------------------------------------------
(* Transactions *)

Begin(c, t, before, next, target) ==
  /\ Idle(c)
  /\ Goes(c, [pc |-> "tx", id |-> t, before |-> before, next |-> next,
              target |-> target, moved |-> FALSE])

\* Record, and each row of RecordBatch.
RecordRead(c, t, row) ==
  /\ t \notin used
  /\ row.kind \in UserKinds /\ Valid(row)
  /\ CheckWallets(row)
  /\ Begin(c, t, None, row, None)
  /\ used' = used \cup {t}
  /\ UNCHANGED <<wallets, txs, dirty>>

\* Revise: the kind stays; what the system has recorded is refused.
ReviseRead(c, t, row) ==
  /\ txs[t] # None
  /\ txs[t].kind \in UserKinds /\ row.kind = txs[t].kind /\ Valid(row)
  /\ CheckWallets(row)
  /\ Begin(c, t, txs[t], row, None)
  /\ UNCHANGED <<wallets, txs, dirty, used>>

DeleteRead(c, t) ==
  /\ txs[t] # None
  /\ txs[t].kind \in UserKinds
  /\ Begin(c, t, txs[t], None, None)
  /\ UNCHANGED <<wallets, txs, dirty, used>>

Adjusting(w) == {c \in Clients : At(c, "tx") /\ request[c].target # None /\ request[c].next.wallet = w}

\* Mutant: no advisory lock.
LockFreeAlways(w) == TRUE

\* LockWallet, held to the end of the unit of work; Adjust alone takes it.
LockFree(w) == Adjusting(w) = {}

\* Adjust, up to the transaction it is about to write. A balance that is on
\* target already needs none.
AdjustRead(c, t, w, target) ==
  LET delta == target - Balance(w)
      row == [kind |-> IF delta > 0 THEN "adjustment_in" ELSE "adjustment_out",
              wallet |-> w, to |-> None, amount |-> IF delta > 0 THEN delta ELSE -delta]
  IN
  /\ t \notin used
  /\ Active(w)
  /\ LockFree(w)
  /\ row.amount \in 1..MaxAmount
  /\ Begin(c, t, None, row, target)
  /\ used' = used \cup {t}
  /\ UNCHANGED <<wallets, txs, dirty>>

\* Mutant: a revision marks the wallets after it only.
TouchedAfter(u) == {u.id} \cup WalletsOf(IF u.next # None THEN u.next ELSE u.before)

\* touched: the transaction, and its wallets before and after.
Touched(u) == {u.id} \cup UNION {WalletsOf(row) : row \in {u.before, u.next} \ {None}}

\* The transaction is there to delete, and the wallets to refer to.
Accepted(u) ==
  IF u.next = None THEN txs[u.id] # None ELSE \A w \in WalletsOf(u.next) : wallets[w] # None

\* An adjustment under way on a wallet whose balance the write changes.
Disturb(u) ==
  [d \in Clients |->
     IF u.target = None /\ At(d, "tx") /\ request[d].target # None
        /\ Moves(txs[u.id], request[d].next.wallet) # Moves(u.next, request[d].next.wallet)
     THEN [request[d] EXCEPT !.moved = TRUE] ELSE request[d]]

\* The write, the marks and the commit. Save inserts a transaction again that
\* has been deleted since it was loaded.
TxCommit(c) ==
  LET u == request[c] IN
  /\ At(c, "tx")
  /\ Accepted(u)
  /\ u.id \notin MarksHeld
  /\ txs' = [txs EXCEPT ![u.id] = u.next]
  /\ dirty' = dirty \cup Touched(u)
  /\ request' = [Disturb(u) EXCEPT ![c] = None]
  /\ UNCHANGED <<wallets, used>>

-----------------------------------------------------------------------------

\* The unit of work is refused, fails or dies, and is rolled back.
Rollback(c) ==
  /\ ~Idle(c)
  /\ Goes(c, None)
  /\ UNCHANGED <<wallets, txs, dirty, used>>

\* Sync jobs have pushed the marked rows as they are (OpensheetSync). A row that
\* is pushed later than others stays dirty longer, which no action looks at and
\* every property allows, so they are pushed at once.
Push ==
  /\ dirty # {}
  /\ dirty' = {}
  /\ UNCHANGED <<wallets, txs, request, used>>

WalletStep(c) ==
  \/ \E w \in WalletIds :
       \/ \E name \in Names : Open(c, w, name)
       \/ \E next \in Wallet : WalletLoad(c, w, next)
       \/ DeleteWallet(c, w)
  \/ WalletSave(c)
  \/ Cascade(c)
  \/ CascadeCommit(c)

TxStep(c) ==
  \/ \E t \in TxIds :
       \/ \E row \in [kind : Recorded, wallet : WalletIds, to : WalletIds \cup {None}, amount : Amounts] :
            RecordRead(c, t, row) \/ ReviseRead(c, t, row)
       \/ DeleteRead(c, t)
       \/ \E w \in WalletIds, target \in Amounts \cup {0} : AdjustRead(c, t, w, target)
  \/ TxCommit(c)

Next ==
  \/ \E c \in Clients : WalletStep(c) \/ TxStep(c) \/ Rollback(c)
  \/ Push

Spec == Init /\ [][Next]_vars

-----------------------------------------------------------------------------
(* Properties *)

\* Every variable keeps the shape the rows and the units of work have in the
\* code.
TypeOK ==
  /\ wallets \in [WalletIds -> Wallet \cup {None}]
  /\ txs \in [TxIds -> Transaction \cup {None}]
  /\ request \in [Clients -> WalletUnit \cup CascadeUnit \cup TxUnit \cup {None}]
  /\ dirty \subseteq used
  /\ used \subseteq WalletIds \cup TxIds

\* A unit of work whose row is no longer the one it loaded.
Outdated(c) ==
  IF request[c].pc = "tx" THEN request[c].before # txs[request[c].id]
  ELSE request[c].before # wallets[request[c].id]

\* The step is the commit of such a unit of work: it writes over a change it
\* has not seen.
Overwrites == \E c \in Clients : ~Idle(c) /\ request'[c] = None /\ Outdated(c)

\* Whatever moves a wallet's balance marks the wallet in the same commit: the
\* balance in the sheet is never left behind, unless two changes of the same
\* transaction overlap and the second moves it out of a wallet it has not seen
\* it in (transaction/mirror.go touched, service.go revise).
BalancesAreMarked ==
  [][\A w \in WalletIds : Balance(w)' # Balance(w) => w \in dirty' \/ Overwrites]_txs

NamesShown(t) == IF txs[t] = None THEN {} ELSE {<<w, wallets[w].name>> : w \in WalletsOf(txs[t])}

\* The step is the commit of a rename, and the transaction came to the wallet
\* between the cascade and it.
CameSinceCascade(t) ==
  \E c \in Renaming : request'[c] = None /\ RefersTo(t, request[c].id) /\ t \notin request[c].there

\* Whatever changes a name that a transaction shows marks the transaction in
\* the same commit: a rename reaches every transaction in the sheet, unless the
\* transaction came to the wallet during the rename, or another change of the
\* wallet wrote an old name back (opensheetsync/mirror.go Mark, wallet/service.go
\* save).
NamesAreMarked ==
  [][\A t \in TxIds : NamesShown(t)' # NamesShown(t)
        => t \in dirty' \/ Overwrites \/ CameSinceCascade(t)]_vars

\* An adjustment leaves the wallet on its target unless a recorded, revised or
\* deleted transaction moved the balance since it was read; other adjustments
\* never do (service.go Adjust).
AdjustHitsTarget ==
  [][\A c \in Clients, w \in WalletIds :
       (c \in Adjusting(w) /\ request'[c] = None)
         => request[c].moved \/ Balance(w)' = request[c].target]_txs
=============================================================================
