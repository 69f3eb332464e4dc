----------------------------- MODULE PeriodBooks -----------------------------
(***************************************************************************)
(* The books of one project: periods that are closed ("tutup buku") and    *)
(* reopened (internal/period), and the transactions filed in them          *)
(* (internal/transaction), under READ COMMITTED with the row locks and the *)
(* partial unique index of the Postgres schema.                            *)
(*                                                                         *)
(* Days are numbers and periods are numbered in the order they are created.*)
(* A snapshot is reduced to what its totals are computed from: the         *)
(* transactions filed in the period, with their amounts. The reads a       *)
(* request makes before its write are one step, and its write another;     *)
(* Close, whose unit of work the code orders with care, keeps each read.   *)
(***************************************************************************)
EXTENDS Integers, FiniteSets

CONSTANTS
  Clients,      \* concurrent requests
  Txs,          \* ids transactions may be given
  Amounts,      \* what a transaction may amount to
  MaxPeriods,   \* bound of the model: periods created
  MaxDay,       \* bound of the model: days that pass
  MaxClosings,  \* bound of the model: closings of one period
  NoRow         \* no such row

ASSUME BooksAssumption ==
  /\ {MaxPeriods, MaxDay, MaxClosings} \subseteq Nat \ {0}
  /\ Amounts \subseteq Nat /\ Amounts # {}

VARIABLES
  today,     \* the date in the project's timezone
  count,     \* periods created so far
  book,      \* book[p]: the row of period p
  closings,  \* closings[p]: closing records appended for p
  tx,        \* tx[t]: the row of transaction t
  used,      \* transaction ids given out
  req,       \* req[c]: what request c has read
  overtaken  \* history, overtaken[c]: the periods closed since c's reads, and
             \* c's transaction if it has changed since

vars == <<today, count, book, closings, tx, used, req, overtaken>>

Ids == 1..MaxPeriods
Unfiled == 0            \* period_id NULL
Open == 0               \* end_date NULL
Day == 1..MaxDay

Snapshot == SUBSET (Txs \X Amounts)

\* The CHECK constraints of the periods table.
Period == {p \in [start : 1..MaxDay + 1, end : {Open} \cup Day, closed : BOOLEAN, snap : Snapshot] :
             /\ p.end = Open \/ p.end >= p.start
             /\ p.closed => p.end # Open}

Transaction == [period : Ids \cup {Unfiled}, amount : Amounts]

\* A missing row is told from every row and every id.
ASSUME RowAssumption == NoRow \notin Period \cup Transaction \cup Txs

Phases == {"idle", "ensure", "rename", "reopen", "close", "close_locked", "close_frozen",
           "record", "revise", "delete"}

Idle == [pc |-> "idle", id |-> Unfiled, copy |-> NoRow, end |-> Open, tx |-> NoRow, row |-> NoRow]

Init ==
  /\ today = 1
  /\ count = 0
  /\ book = [p \in Ids |-> NoRow]
  /\ closings = [p \in Ids |-> 0]
  /\ tx = [t \in Txs |-> NoRow]
  /\ used = {}
  /\ req = [c \in Clients |-> Idle]
  /\ overtaken = [c \in Clients |-> {}]

-----------------------------------------------------------------------------
(* Periods, as the code asks about them *)

IsCurrent(p) == book[p].end = Open
IsLocked(p) == book[p].closed
Contains(p, d) == book[p].start <= d /\ (IsCurrent(p) \/ d <= book[p].end)

Existing == {p \in Ids : book[p] # NoRow}

Current == {p \in Existing : IsCurrent(p)}

Containing(d) == {p \in Existing : Contains(p, d)}

\* Neighbors: the nearest period on either side, by start.
Neighbors(p) ==
  {q \in Existing \ {p} :
     \A r \in Existing \ {p, q} :
       /\ book[q].start < book[p].start => ~(book[q].start < book[r].start /\ book[r].start < book[p].start)
       /\ book[p].start < book[q].start => ~(book[p].start < book[r].start /\ book[r].start < book[q].start)}

\* The one period that may be reopened: the newest closed one, as long as no
\* other period that has ended is open.
LatestClosed ==
  {p \in Existing \ Current :
     \A q \in Existing \ Current : IsLocked(q) /\ (q # p => book[q].start < book[p].start)}

\* A closed period must be reopened first; its end is then fixed; a first
\* close ends the period between its start and today.
CheckClosable(row, end) ==
  /\ ~row.closed
  /\ IF row.end # Open THEN end = row.end ELSE row.start <= end /\ end <= today

\* A Close holds its period FOR UPDATE from its read to its commit. Updates of
\* the row and inserts of rows that reference it wait.
RowLocked(p) ==
  \E c \in Clients : req[c].pc \in {"close_locked", "close_frozen"} /\ req[c].id = p

\* Mutant: without the partial unique index any save is taken.
AdmittedAnyway(p, row) == TRUE

\* The partial unique index on (project_id) WHERE end_date IS NULL.
Admitted(p, row) == row.end = Open => Current \subseteq {p}

NewPeriod(start) == [start |-> start, end |-> Open, closed |-> FALSE, snap |-> {}]

Done(c) == req' = [req EXCEPT ![c] = Idle]

-----------------------------------------------------------------------------
(* Period requests *)

Tick ==
  /\ today < MaxDay
  /\ today' = today + 1
  /\ UNCHANGED <<count, book, closings, tx, used, req>>

\* EnsureCurrent finds no current period and derives the first one's start,
\* the last cycle start on or before today.
EnsureRead(c, start) ==
  /\ req[c].pc = "idle"
  /\ Current = {}
  /\ start <= today
  /\ req' = [req EXCEPT ![c] = [Idle EXCEPT !.pc = "ensure", !.copy = NewPeriod(start)]]
  /\ UNCHANGED <<today, count, book, closings, tx, used>>

\* CreateCurrent inserts unless another creator's row won.
EnsureCreate(c) ==
  /\ req[c].pc = "ensure"
  /\ count < MaxPeriods
  /\ IF Admitted(count + 1, req[c].copy)
     THEN book' = [book EXCEPT ![count + 1] = req[c].copy] /\ count' = count + 1
     ELSE UNCHANGED <<book, count>>
  /\ Done(c)
  /\ UNCHANGED <<today, closings, tx, used>>

RenameRead(c, p) ==
  /\ req[c].pc = "idle"
  /\ p \in Existing
  /\ req' = [req EXCEPT ![c] = [Idle EXCEPT !.pc = "rename", !.id = p, !.copy = book[p]]]
  /\ UNCHANGED <<today, count, book, closings, tx, used>>

ReopenRead(c, p) ==
  /\ req[c].pc = "idle"
  /\ p \in LatestClosed
  /\ req' = [req EXCEPT ![c] = [Idle EXCEPT !.pc = "reopen", !.id = p,
                                           !.copy = [book[p] EXCEPT !.closed = FALSE]]]
  /\ UNCHANGED <<today, count, book, closings, tx, used>>

\* Store.Save of the loaded aggregate writes every column of the row.
SaveLoaded(c, pc) ==
  /\ req[c].pc = pc
  /\ ~RowLocked(req[c].id)
  /\ book' = IF Admitted(req[c].id, req[c].copy) THEN [book EXCEPT ![req[c].id] = req[c].copy] ELSE book
  /\ Done(c)
  /\ UNCHANGED <<today, count, closings, tx, used>>

RenameSave(c) == SaveLoaded(c, "rename")

ReopenSave(c) == SaveLoaded(c, "reopen")

\* Close first checks the row outside its unit of work.
CloseCheck(c, p, end) ==
  /\ req[c].pc = "idle"
  /\ p \in Existing
  /\ CheckClosable(book[p], end)
  /\ req' = [req EXCEPT ![c] = [Idle EXCEPT !.pc = "close", !.id = p, !.end = end]]
  /\ UNCHANGED <<today, count, book, closings, tx, used>>

\* Mutant: the unit of work does not look at the locked row again.
CloseLockUnchecked(c) ==
  /\ req[c].pc = "close"
  /\ ~RowLocked(req[c].id)
  /\ count < MaxPeriods /\ closings[req[c].id] < MaxClosings
  /\ req' = [req EXCEPT ![c].pc = "close_locked", ![c].copy = book[req[c].id]]
  /\ UNCHANGED <<today, count, book, closings, tx, used>>

\* In the unit of work the row is read again, for update, and checked again.
CloseLock(c) ==
  /\ req[c].pc = "close"
  /\ ~RowLocked(req[c].id)
  /\ LET row == book[req[c].id] IN
     IF CheckClosable(row, req[c].end)
     THEN /\ row.end = Open => count < MaxPeriods
          /\ closings[req[c].id] < MaxClosings
          /\ req' = [req EXCEPT ![c].pc = "close_locked", ![c].copy = row]
     ELSE Done(c)
  /\ UNCHANGED <<today, count, book, closings, tx, used>>

FiledIn(p) == {t \in Txs : tx[t] # NoRow /\ tx[t].period = p}

Totals(p) == {<<t, tx[t].amount>> : t \in FiledIn(p)}

CloseSnapshot(c) ==
  /\ req[c].pc = "close_locked"
  /\ req' = [req EXCEPT ![c].pc = "close_frozen",
                        ![c].copy = [@ EXCEPT !.end = req[c].end, !.closed = TRUE,
                                              !.snap = Totals(req[c].id)]]
  /\ UNCHANGED <<today, count, book, closings, tx, used>>

\* The row, its closing record and, on a first close, the next period commit
\* together.
CloseCommit(c) ==
  /\ req[c].pc = "close_frozen"
  /\ LET p == req[c].id
         first == IsCurrent(p) IN
     /\ book' = [q \in Ids |-> IF q = p THEN req[c].copy
                               ELSE IF first /\ q = count + 1 THEN NewPeriod(req[c].end + 1)
                               ELSE book[q]]
     /\ count' = IF first THEN count + 1 ELSE count
     /\ closings' = [closings EXCEPT ![p] = @ + 1]
  /\ Done(c)
  /\ UNCHANGED <<today, tx, used>>

\* Any request may end before its write; a unit of work is rolled back.
Abandon(c) ==
  /\ req[c].pc # "idle"
  /\ Done(c)
  /\ UNCHANGED <<today, count, book, closings, tx, used>>

-----------------------------------------------------------------------------
(* Transactions *)

\* resolvePeriod for a day and, unless it is Unfiled, a wanted period: the one
\* that contains the day or one next to it, and not locked.
Resolves(d, want, p) ==
  /\ IF want = Unfiled
     THEN IF Containing(d) = {} THEN p = Unfiled ELSE p \in Containing(d)
     ELSE p = want /\ \E q \in Containing(d) : want \in {q} \cup Neighbors(q)
  /\ p # Unfiled => ~IsLocked(p)

RecordRead(c, t, p, amount) ==
  /\ req[c].pc = "idle"
  /\ Current # {}
  /\ t \notin used
  /\ \E d \in 1..today, want \in Ids \cup {Unfiled} : Resolves(d, want, p)
  /\ used' = used \cup {t}
  /\ req' = [req EXCEPT ![c] = [Idle EXCEPT !.pc = "record", !.tx = t,
                                           !.row = [period |-> p, amount |-> amount]]]
  /\ UNCHANGED <<today, count, book, closings, tx>>

\* Mutant: the period a transaction is taken from is not looked at.
MayChangeAnywhere(t) == tx[t] # NoRow

\* Revise and Delete refuse a transaction whose period is locked; a revision
\* may take it out of its period or file it in another open one.
MayChange(t) == tx[t] # NoRow /\ (tx[t].period # Unfiled => ~IsLocked(tx[t].period))

ReviseRead(c, t, p, amount) ==
  /\ req[c].pc = "idle"
  /\ MayChange(t)
  /\ \/ p \in {tx[t].period, Unfiled}
     \/ \E d \in 1..today, want \in Ids \cup {Unfiled} : Resolves(d, want, p)
  /\ req' = [req EXCEPT ![c] = [Idle EXCEPT !.pc = "revise", !.tx = t,
                                           !.row = [period |-> p, amount |-> amount]]]
  /\ UNCHANGED <<today, count, book, closings, tx, used>>

DeleteRead(c, t) ==
  /\ req[c].pc = "idle"
  /\ MayChange(t)
  /\ req' = [req EXCEPT ![c] = [Idle EXCEPT !.pc = "delete", !.tx = t]]
  /\ UNCHANGED <<today, count, book, closings, tx, used>>

\* Mutant: period_id carries no foreign key.
WaitsForNobody(t, row) == FALSE

\* The foreign key: a row that newly references a period takes a key share
\* lock on it, which a FOR UPDATE keeps out.
Waits(t, row) ==
  /\ row.period # Unfiled
  /\ tx[t] = NoRow \/ tx[t].period # row.period
  /\ RowLocked(row.period)

\* Store.Save is an upsert: it also brings back a row deleted since the read.
SaveTx(c, pc) ==
  /\ req[c].pc = pc
  /\ ~Waits(req[c].tx, req[c].row)
  /\ tx' = [tx EXCEPT ![req[c].tx] = req[c].row]
  /\ Done(c)
  /\ UNCHANGED <<today, count, book, closings, used>>

RecordSave(c) == SaveTx(c, "record")

ReviseSave(c) == SaveTx(c, "revise")

DeleteRow(c) ==
  /\ req[c].pc = "delete"
  /\ tx' = [tx EXCEPT ![req[c].tx] = NoRow]
  /\ Done(c)
  /\ UNCHANGED <<today, count, book, closings, used>>

-----------------------------------------------------------------------------

PeriodStep(c) ==
  \/ \E start \in Day : EnsureRead(c, start)
  \/ EnsureCreate(c)
  \/ \E p \in Ids : RenameRead(c, p) \/ ReopenRead(c, p)
  \/ RenameSave(c)
  \/ ReopenSave(c)
  \/ \E p \in Ids, end \in Day : CloseCheck(c, p, end)
  \/ CloseLock(c)
  \/ CloseSnapshot(c)
  \/ CloseCommit(c)

TxStep(c) ==
  \/ \E t \in Txs, p \in Ids \cup {Unfiled}, amount \in Amounts :
       RecordRead(c, t, p, amount) \/ ReviseRead(c, t, p, amount)
  \/ \E t \in Txs : DeleteRead(c, t)
  \/ RecordSave(c)
  \/ ReviseSave(c)
  \/ DeleteRow(c)

\* A step that locks a period overtakes every transaction request under way,
\* and one that changes a transaction the other requests on it.
Overtakes ==
  overtaken' =
    [c \in Clients |->
       IF req'[c].pc \notin {"record", "revise", "delete"} THEN {}
       ELSE overtaken[c] \cup {p \in Existing : ~IsLocked(p) /\ book'[p].closed}
                         \cup {t \in Txs : t = req[c].tx /\ tx'[t] # tx[t]}]

Next ==
  /\ \/ Tick
     \/ \E c \in Clients : PeriodStep(c) \/ TxStep(c) \/ Abandon(c)
  /\ Overtakes

Spec == Init /\ [][Next]_vars

-----------------------------------------------------------------------------
(* Properties *)

Request == [pc : Phases, id : Ids \cup {Unfiled}, copy : Period \cup {NoRow}, end : {Open} \cup Day,
            tx : Txs \cup {NoRow}, row : Transaction \cup {NoRow}]

\* Every row satisfies the constraints of its table, and every request holds
\* what its reads can have returned.
TypeOK ==
  /\ today \in Day
  /\ count \in 0..MaxPeriods
  /\ book \in [Ids -> Period \cup {NoRow}]
  /\ closings \in [Ids -> 0..MaxClosings]
  /\ tx \in [Txs -> Transaction \cup {NoRow}]
  /\ used \subseteq Txs
  /\ req \in [Clients -> Request]
  /\ overtaken \in [Clients -> SUBSET (Ids \cup Txs)]

\* The periods tile the calendar from the first start on: each begins the day
\* after the one before it ends, and exactly one, the last, has no end. No
\* stale rename, second creator or second close breaks it (period.go Period:
\* "Exactly one period per project is current").
PeriodsTile ==
  /\ Existing = 1..count
  /\ count > 0 => Current = {count}
  /\ \A p \in 1..count - 1 : book[p + 1].start = book[p].end + 1

\* A close is recorded once and misses nothing: a closing record is appended
\* only when its period goes from open to closed, however many requests ask for
\* the close, and everything filed in the period by then was there for the
\* snapshot, since filing into the period waits (service.go Close).
CloseIsExact ==
  [][\A p \in Ids : closings'[p] > closings[p]
        => /\ ~book[p].closed /\ book'[p].closed
           /\ \A t \in FiledIn(p) : \E a \in Amounts : <<t, a>> \in book'[p].snap]_vars

\* Nothing enters, leaves or changes in a closed period but through a request
\* the close overtook: one that found the period open before the close and
\* writes after it, since the status it checked is not locked. A request that
\* begins after the close, on whatever transaction and towards whatever period,
\* can at most take out again what such a request has brought in since it read
\* (transaction/service.go resolvePeriod, revise, Delete; period.go
\* StatusClosed: "a period whose totals are snapshotted and locked").
OnlyOvertakenChangeClosed ==
  [][\A p \in Ids : (p \in Existing /\ IsLocked(p) /\ book' = book /\ Totals(p)' # Totals(p))
        => \E c \in Clients :
             /\ req'[c] # req[c]
             /\ \/ p \in overtaken[c]
                \/ req[c].tx \in overtaken[c] /\ Totals(p)' \subseteq Totals(p)]_vars
=============================================================================
