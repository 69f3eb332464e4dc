-------------------------- MODULE PeriodBooksProofs --------------------------
(***************************************************************************)
(* Theorems about PeriodBooks, for any number of requests, transactions    *)
(* and periods: its types, that the periods tile the calendar, that a      *)
(* close is recorded once and misses nothing, and that only requests a     *)
(* close overtook change what is filed in a closed period.                 *)
(***************************************************************************)
EXTENDS PeriodBooks, TLAPS

(* The requests under way *)

Locks(c) == req[c].pc \in {"close_locked", "close_frozen"}

\* The first period is created by a request that found none; a rename and a
\* reopen hold a copy with the row's start and, once the row has ended, its end.
CopyOK(c) ==
  /\ req[c].pc = "ensure" => \E start \in Day : req[c].copy = NewPeriod(start)
  /\ req[c].pc \in {"rename", "reopen"} =>
       /\ req[c].id \in Existing
       /\ req[c].copy \in Period
       /\ req[c].copy.start = book[req[c].id].start
       /\ req[c].copy.end \in {Open, book[req[c].id].end}

\* A close that holds its row still finds it closable, and has room for its
\* closing record and for the period that may follow. What it will write is
\* the row with its end, and everything filed in it is in the snapshot.
CloseOK(c) ==
  /\ (req[c].pc = "close" \/ Locks(c)) => req[c].id \in Existing /\ req[c].end \in Day
  /\ Locks(c) => /\ CheckClosable(book[req[c].id], req[c].end)
                 /\ closings[req[c].id] < MaxClosings
                 /\ IsCurrent(req[c].id) => count < MaxPeriods
                 /\ \A d \in Clients : Locks(d) /\ req[d].id = req[c].id => d = c
  /\ req[c].pc = "close_locked" => req[c].copy = book[req[c].id]
  /\ req[c].pc = "close_frozen" =>
       /\ req[c].copy \in Period /\ req[c].copy.closed
       /\ req[c].copy.start = book[req[c].id].start /\ req[c].copy.end = req[c].end
       /\ \A t \in FiledIn(req[c].id) : \E a \in Amounts : <<t, a>> \in req[c].copy.snap

\* The inductive invariant: the tiling rests on what the requests hold, and
\* even the types rest on the tiling.
BooksInv ==
  /\ TypeOK
  /\ PeriodsTile
  /\ \A c \in Clients : CopyOK(c)
  /\ \A c \in Clients : CloseOK(c)

-----------------------------------------------------------------------------
(* What a step does to the periods *)

LEMMA RowFacts ==
  ASSUME TypeOK, NEW p \in Existing
  PROVE  /\ p \in Ids /\ book[p] # NoRow /\ book[p] \in Period
         /\ book[p].start \in 1..MaxDay + 1 /\ book[p].end \in {Open} \cup Day
         /\ book[p].closed \in BOOLEAN
  BY DEF TypeOK, Existing, Period

\* The only period without an end is the last.
LEMMA OneCurrent ==
  ASSUME TypeOK, PeriodsTile, NEW p \in Existing
  PROVE  /\ count \in Nat \ {0} /\ p \in 1..count
         /\ Current = {count}
         /\ IsCurrent(p) <=> p = count
<1>1. p \in 1..count /\ count \in Nat
  BY BooksAssumption DEF PeriodsTile, TypeOK
<1>2. count > 0 /\ Current = {count}
  BY <1>1 DEF PeriodsTile
<1> QED
  BY <1>1, <1>2 DEF Current

Quiet == book' = book /\ count' = count /\ closings' = closings

\* A rename or a reopen that is saved writes back the start and the end of the
\* row: a copy from before the period ended is not admitted.
Saves(c) ==
  /\ req[c].pc \in {"rename", "reopen"}
  /\ ~RowLocked(req[c].id)
  /\ book' = [book EXCEPT ![req[c].id] = req[c].copy]
  /\ req[c].copy.end = book[req[c].id].end
  /\ count' = count /\ closings' = closings /\ tx' = tx
  /\ Done(c)

\* A period is created by itself only when there is none.
Creates(c) ==
  /\ req[c].pc = "ensure"
  /\ count = 0
  /\ book' = [book EXCEPT ![1] = req[c].copy]
  /\ count' = 1 /\ closings' = closings /\ tx' = tx
  /\ Done(c)

LEMMA SaveShape ==
  ASSUME BooksInv, NEW c \in Clients, NEW pc \in {"rename", "reopen"}, SaveLoaded(c, pc)
  PROVE  Quiet \/ Saves(c)
<1> DEFINE p == req[c].id
           row == req[c].copy
<1>1. CASE ~Admitted(p, row)
  BY <1>1 DEF SaveLoaded, Quiet
<1>2. CASE Admitted(p, row)
  <2>1. /\ req[c].pc = pc /\ ~RowLocked(p) /\ book' = [book EXCEPT ![p] = row]
        /\ count' = count /\ closings' = closings /\ tx' = tx /\ Done(c)
    BY <1>2 DEF SaveLoaded
  <2>2. p \in Existing /\ row.end \in {Open, book[p].end}
    BY <2>1 DEF BooksInv, CopyOK
  <2>3. row.end = Open => book[p].end = Open
    BY <1>2, <2>2, OneCurrent DEF Admitted, IsCurrent, BooksInv
  <2> QED
    BY <2>1, <2>2, <2>3 DEF Saves
<1> QED
  BY <1>1, <1>2

LEMMA CreateShape ==
  ASSUME BooksInv, NEW c \in Clients, EnsureCreate(c)
  PROVE  Quiet \/ Creates(c)
<1>1. CASE ~Admitted(count + 1, req[c].copy)
  BY <1>1 DEF EnsureCreate, Quiet
<1>2. CASE Admitted(count + 1, req[c].copy)
  <2>1. PICK start \in Day : req[c].copy = NewPeriod(start)
    BY DEF EnsureCreate, BooksInv, CopyOK
  <2>2. Current \subseteq {count + 1}
    BY <1>2, <2>1 DEF Admitted, NewPeriod
  <2>3. count \in Nat
    BY BooksAssumption DEF BooksInv, TypeOK
  <2>4. count = 0
    <3>1. count > 0 => count \in Current
      BY DEF BooksInv, PeriodsTile
    <3> QED
      BY <2>2, <2>3, <3>1
  <2> QED
    BY <1>2, <2>4 DEF EnsureCreate, Creates
<1> QED
  BY <1>1, <1>2

\* The four ways a step treats the periods.
LEMMA Shape ==
  ASSUME BooksInv, [Next]_vars
  PROVE  Quiet \/ \E c \in Clients : Saves(c) \/ Creates(c) \/ CloseCommit(c)
<1>1. ASSUME NEW c \in Clients, PeriodStep(c) PROVE Quiet \/ Saves(c) \/ Creates(c) \/ CloseCommit(c)
  BY <1>1, SaveShape, CreateShape
     DEF PeriodStep, EnsureRead, RenameRead, ReopenRead, RenameSave, ReopenSave, CloseCheck, CloseLock,
         CloseSnapshot, Quiet
<1>2. ASSUME NEW c \in Clients, TxStep(c) \/ Abandon(c) PROVE Quiet
  BY <1>2 DEF TxStep, RecordRead, ReviseRead, DeleteRead, RecordSave, ReviseSave, SaveTx, DeleteRow,
              Abandon, Quiet
<1> QED
  BY <1>1, <1>2 DEF Next, Tick, vars, Quiet

\* What a close writes: the end of its row, which is the end it had if it had
\* one, and after a first close the next period.
LEMMA CommitShape ==
  ASSUME BooksInv, NEW c \in Clients, CloseCommit(c)
  PROVE  /\ req[c].id \in Existing /\ req[c].id \in 1..count /\ req[c].copy \in Period /\ req[c].end \in Day
         /\ req[c].copy.start = book[req[c].id].start /\ req[c].copy.end = req[c].end /\ req[c].copy.closed
         /\ ~book[req[c].id].closed
         /\ closings[req[c].id] < MaxClosings
         /\ closings' = [closings EXCEPT ![req[c].id] = @ + 1] /\ tx' = tx /\ today' = today /\ used' = used
         /\ Done(c)
         /\ book'[req[c].id] = req[c].copy
         /\ \/ /\ IsCurrent(req[c].id) /\ req[c].id = count /\ count + 1 \in Ids
               /\ count' = count + 1
               /\ book'[count + 1] = NewPeriod(req[c].end + 1)
               /\ \A q \in Ids \ {count, count + 1} : book'[q] = book[q]
            \/ /\ ~IsCurrent(req[c].id) /\ req[c].end = book[req[c].id].end
               /\ count' = count
               /\ \A q \in Ids \ {req[c].id} : book'[q] = book[q]
<1> DEFINE p == req[c].id
<1>1. req[c].pc = "close_frozen"
  BY DEF CloseCommit
<1>2. /\ p \in Existing /\ req[c].end \in Day /\ CheckClosable(book[p], req[c].end)
      /\ closings[p] < MaxClosings /\ (IsCurrent(p) => count < MaxPeriods)
      /\ req[c].copy \in Period /\ req[c].copy.closed
      /\ req[c].copy.start = book[p].start /\ req[c].copy.end = req[c].end
  BY <1>1 DEF BooksInv, CloseOK, Locks
<1>3. count \in Nat \ {0} /\ p \in 1..count /\ (IsCurrent(p) <=> p = count) /\ count <= MaxPeriods
        /\ MaxPeriods \in Nat
  BY <1>2, OneCurrent, BooksAssumption DEF BooksInv, TypeOK
<1>4. p \in Ids /\ p # count + 1
  BY <1>3 DEF Ids
<1>5. /\ book' = [q \in Ids |-> IF q = p THEN req[c].copy
                                ELSE IF IsCurrent(p) /\ q = count + 1 THEN NewPeriod(req[c].end + 1)
                                ELSE book[q]]
      /\ count' = IF IsCurrent(p) THEN count + 1 ELSE count
      /\ closings' = [closings EXCEPT ![p] = @ + 1] /\ tx' = tx /\ today' = today /\ used' = used /\ Done(c)
  BY DEF CloseCommit
<1>6. ~book[p].closed /\ (~IsCurrent(p) => req[c].end = book[p].end)
  BY <1>2 DEF CheckClosable, IsCurrent
<1>7. CASE IsCurrent(p)
  <2>1. count + 1 \in Ids
    BY <1>2, <1>3, <1>7 DEF Ids
  <2> QED
    BY <1>2, <1>3, <1>4, <1>5, <1>6, <1>7, <2>1
<1>8. CASE ~IsCurrent(p)
  BY <1>2, <1>3, <1>4, <1>5, <1>6, <1>8
<1> QED
  BY <1>7, <1>8

\* No period goes away or moves its start, and an end once set stays.
LEMMA BookAfter ==
  ASSUME BooksInv, [Next]_vars, NEW p \in Existing
  PROVE  /\ p \in Existing'
         /\ book'[p].start = book[p].start
         /\ book[p].end # Open => book'[p].end = book[p].end
<1>1. p \in Ids /\ book[p] # NoRow /\ p \in 1..count /\ count \in Nat \ {0}
  BY RowFacts, OneCurrent DEF BooksInv
<1>2. CASE Quiet
  BY <1>1, <1>2 DEF Quiet, Existing
<1>3. ASSUME NEW c \in Clients, Saves(c)
      PROVE  book'[p] # NoRow /\ book'[p].start = book[p].start /\ book'[p].end = book[p].end
  <2>1. req[c].copy \in Period /\ req[c].copy.start = book[req[c].id].start
        /\ req[c].copy.end = book[req[c].id].end /\ book' = [book EXCEPT ![req[c].id] = req[c].copy]
    BY <1>3 DEF Saves, BooksInv, CopyOK
  <2>2. req[c].copy # NoRow
    BY <2>1, RowAssumption
  <2> QED
    BY <1>1, <2>1, <2>2 DEF BooksInv, TypeOK
<1>4. ASSUME NEW c \in Clients, Creates(c) PROVE FALSE
  BY <1>1, <1>4 DEF Creates
<1>5. ASSUME NEW c \in Clients, CloseCommit(c)
      PROVE  book'[p] # NoRow /\ book'[p].start = book[p].start /\ (book[p].end # Open => book'[p].end = book[p].end)
  <2>1. req[c].copy # NoRow
    BY <1>5, CommitShape, RowAssumption
  <2>2. p # count + 1
    BY <1>1
  <2>3. CASE p = req[c].id
    BY <1>5, <2>1, <2>3, CommitShape DEF IsCurrent
  <2>4. CASE p # req[c].id
    BY <1>1, <1>5, <2>2, <2>4, CommitShape
  <2> QED
    BY <2>3, <2>4
<1> QED
  BY <1>1, <1>2, <1>3, <1>4, <1>5, Shape DEF Existing

LEMMA TileStep ==
  ASSUME BooksInv, [Next]_vars
  PROVE  PeriodsTile'
<1>0. /\ TypeOK /\ PeriodsTile /\ count \in Nat /\ Existing = 1..count /\ MaxPeriods \in Nat \ {0}
      /\ \A p \in 1..count - 1 : book[p + 1].start = book[p].end + 1
      /\ 1..count \subseteq Ids
  BY BooksAssumption DEF BooksInv, PeriodsTile, TypeOK, Existing
<1>1. CASE Quiet
  BY <1>0, <1>1 DEF Quiet, PeriodsTile, Existing, Current, IsCurrent
<1>2. ASSUME NEW c \in Clients, Saves(c) PROVE PeriodsTile'
  <2>1. req[c].copy \in Period /\ req[c].copy.start = book[req[c].id].start
        /\ req[c].copy.end = book[req[c].id].end /\ book' = [book EXCEPT ![req[c].id] = req[c].copy]
        /\ req[c].id \in Existing /\ count' = count
    BY <1>2 DEF Saves, BooksInv, CopyOK
  <2>2. req[c].copy # NoRow
    BY <2>1, RowAssumption
  <2>3. \A q \in Ids : /\ book'[q] # NoRow <=> book[q] # NoRow
                       /\ book'[q].start = book[q].start /\ book'[q].end = book[q].end
    BY <1>0, <2>1, <2>2 DEF TypeOK, Existing
  <2>4. Existing' = Existing /\ Current' = Current
    BY <2>3 DEF Existing, Current, IsCurrent
  <2>5. \A p \in 1..count - 1 : p \in Ids /\ p + 1 \in Ids
    BY <1>0 DEF Ids
  <2> QED
    BY <1>0, <2>1, <2>3, <2>4, <2>5 DEF PeriodsTile
<1>3. ASSUME NEW c \in Clients, Creates(c) PROVE PeriodsTile'
  <2>1. PICK start \in Day : req[c].copy = NewPeriod(start)
    BY <1>3 DEF Creates, BooksInv, CopyOK
  <2>2. /\ 1 \in Ids /\ book' = [book EXCEPT ![1] = NewPeriod(start)] /\ count = 0 /\ count' = 1
    BY <1>0, <1>3, <2>1 DEF Creates, Ids
  <2>3. NewPeriod(start) \in Period /\ NewPeriod(start).end = Open
    BY BooksAssumption DEF NewPeriod, Period, Day, Snapshot
  <2>4. NewPeriod(start) # NoRow
    BY <2>3, RowAssumption
  <2>5. \A q \in Ids : book[q] = NoRow
    BY <1>0, <2>2 DEF Existing
  <2>6. Existing' = {1}
    BY <1>0, <2>2, <2>4, <2>5 DEF Existing, TypeOK
  <2>7. Current' = {1}
    BY <1>0, <2>2, <2>3, <2>6 DEF Current, IsCurrent, TypeOK
  <2>8. 1..1 = {1} /\ 1..0 = {}
    OBVIOUS
  <2> QED
    BY <2>2, <2>6, <2>7, <2>8 DEF PeriodsTile
<1>4. ASSUME NEW c \in Clients, CloseCommit(c) PROVE PeriodsTile'
  <2> DEFINE p == req[c].id
  <2>1. /\ p \in 1..count /\ req[c].copy \in Period /\ req[c].end \in Day
        /\ req[c].copy.start = book[p].start /\ req[c].copy.end = req[c].end
        /\ book'[p] = req[c].copy
    BY <1>4, CommitShape
  <2>2. req[c].copy # NoRow /\ req[c].end # Open
    BY <2>1, RowAssumption, BooksAssumption DEF Day, Open
  <2>3. CASE IsCurrent(p) /\ p = count /\ count + 1 \in Ids /\ count' = count + 1
             /\ book'[count + 1] = NewPeriod(req[c].end + 1)
             /\ \A q \in Ids \ {count, count + 1} : book'[q] = book[q]
    <3>1. NewPeriod(req[c].end + 1) \in Period /\ NewPeriod(req[c].end + 1).end = Open
          /\ NewPeriod(req[c].end + 1).start = req[c].end + 1
      BY <2>1, BooksAssumption DEF NewPeriod, Period, Day, Snapshot
    <3>2. NewPeriod(req[c].end + 1) # NoRow
      BY <3>1, RowAssumption
    <3>3. \A q \in Ids : book'[q] # NoRow <=> q \in 1..count + 1
      <4> SUFFICES ASSUME NEW q \in Ids PROVE book'[q] # NoRow <=> q \in 1..count + 1
        OBVIOUS
      <4>1. q \in Nat /\ (book[q] # NoRow <=> q \in 1..count)
        BY <1>0, BooksAssumption DEF Existing, Ids
      <4>2. CASE q = count
        BY <1>0, <2>1, <2>2, <2>3, <4>1, <4>2
      <4>3. CASE q = count + 1
        BY <1>0, <2>3, <3>2, <4>3
      <4>4. CASE q \notin {count, count + 1}
        BY <1>0, <2>3, <4>1, <4>4
      <4> QED
        BY <4>2, <4>3, <4>4
    <3>4. Existing' = 1..count + 1
      BY <1>0, <2>3, <3>3 DEF Existing, Ids
    <3>5. Current' = {count + 1}
      <4>1. \A q \in 1..count : q # count => book[q].end # Open
        BY <1>0, OneCurrent DEF IsCurrent
      <4>2. \A q \in 1..count : book'[q].end # Open
        BY <1>0, <2>1, <2>2, <2>3, <4>1
      <4>3. book'[count + 1].end = Open /\ count + 1 \in Existing'
        BY <1>0, <2>3, <3>1, <3>4
      <4> QED
        BY <1>0, <3>4, <4>2, <4>3 DEF Current, IsCurrent
    <3>6. \A q \in 1..count : book'[q + 1].start = book'[q].end + 1
      <4> SUFFICES ASSUME NEW q \in 1..count PROVE book'[q + 1].start = book'[q].end + 1
        OBVIOUS
      <4>1. CASE q = count
        BY <2>1, <2>3, <3>1, <4>1
      <4>2. CASE q # count
        <5>1. q \in 1..count - 1 /\ q \in Ids /\ q + 1 \in Ids
          BY <1>0, <4>2
        <5>2. book'[q] = book[q]
          BY <1>0, <2>3, <4>2, <5>1
        <5>3. book'[q + 1].start = book[q + 1].start
          <6>1. CASE q + 1 = count
            BY <2>1, <2>3, <6>1
          <6>2. CASE q + 1 # count
            BY <1>0, <2>3, <4>2, <5>1, <6>2
          <6> QED
            BY <6>1, <6>2
        <5> QED
          BY <1>0, <5>1, <5>2, <5>3
      <4> QED
        BY <4>1, <4>2
    <3> QED
      BY <1>0, <2>3, <3>4, <3>5, <3>6 DEF PeriodsTile
  <2>4. CASE ~IsCurrent(p) /\ req[c].end = book[p].end /\ count' = count
             /\ \A q \in Ids \ {p} : book'[q] = book[q]
    <3>1. p \in Ids /\ book[p] # NoRow
      BY <1>0, <2>1 DEF Existing
    <3>2. \A q \in Ids : /\ book'[q] # NoRow <=> book[q] # NoRow
                         /\ book'[q].start = book[q].start /\ book'[q].end = book[q].end
      BY <2>1, <2>2, <2>4, <3>1
    <3>3. Existing' = Existing /\ Current' = Current
      BY <3>2 DEF Existing, Current, IsCurrent
    <3>4. \A q \in 1..count - 1 : q \in Ids /\ q + 1 \in Ids
      BY <1>0 DEF Ids
    <3> QED
      BY <1>0, <2>4, <3>2, <3>3, <3>4 DEF PeriodsTile
  <2> QED
    BY <1>4, <2>3, <2>4, CommitShape
<1> QED
  BY <1>1, <1>2, <1>3, <1>4, Shape

-----------------------------------------------------------------------------
(* What a step does to the requests *)

\* What request c holds after a read, a lock or a snapshot.
Fresh(c, x) ==
  \/ x.pc = "ensure" /\ \E start \in Day : x.copy = NewPeriod(start)
  \/ /\ x.pc \in {"rename", "reopen"}
     /\ x.id \in Existing /\ x.copy \in Period
     /\ x.copy.start = book[x.id].start /\ x.copy.end = book[x.id].end
  \/ x.pc = "close" /\ x.id \in Existing /\ x.end \in Day
  \/ /\ x.pc = "close_locked" /\ ~RowLocked(x.id)
     /\ x.id \in Existing /\ x.end \in Day /\ CheckClosable(book[x.id], x.end)
     /\ closings[x.id] < MaxClosings /\ (IsCurrent(x.id) => count < MaxPeriods)
     /\ x.copy = book[x.id]
  \/ /\ x.pc = "close_frozen" /\ req[c].pc = "close_locked" /\ x.id = req[c].id /\ x.end = req[c].end
     /\ x.copy \in Period /\ x.copy.closed /\ x.copy.start = book[x.id].start /\ x.copy.end = x.end
     /\ \A t \in FiledIn(x.id) : \E a \in Amounts : <<t, a>> \in x.copy.snap
  \/ x.pc \in {"record", "revise", "delete"}

Turns(c) ==
  \E x \in Request :
    /\ req' = [req EXCEPT ![c] = x]
    /\ x = Idle \/ (Quiet /\ tx' = tx /\ today' = today /\ Fresh(c, x))

LEMMA IdleType == Idle \in Request /\ Idle.pc = "idle"
  BY DEF Idle, Request, Phases, Open, Unfiled

LEMMA TotalsType ==
  ASSUME TypeOK, NEW p
  PROVE  /\ Totals(p) \in Snapshot
         /\ \A t \in FiledIn(p) : tx[t] \in Transaction /\ tx[t].amount \in Amounts
                                  /\ <<t, tx[t].amount>> \in Totals(p)
<1>1. \A t \in FiledIn(p) : t \in Txs /\ tx[t] \in Transaction
  BY DEF FiledIn, TypeOK
<1>2. \A t \in FiledIn(p) : tx[t].amount \in Amounts
  BY <1>1 DEF Transaction
<1> QED
  BY <1>1, <1>2 DEF Totals, Snapshot

LEMMA ReadsTurn ==
  ASSUME BooksInv, NEW c \in Clients,
         \/ \E start \in Day : EnsureRead(c, start)
         \/ \E p \in Ids : RenameRead(c, p) \/ ReopenRead(c, p)
         \/ \E p \in Ids, end \in Day : CloseCheck(c, p, end)
         \/ \E t \in Txs, p \in Ids \cup {Unfiled}, amount \in Amounts :
              RecordRead(c, t, p, amount) \/ ReviseRead(c, t, p, amount)
         \/ \E t \in Txs : DeleteRead(c, t)
  PROVE  Turns(c)
<1> USE DEF Phases
<1>0. TypeOK
  BY DEF BooksInv
<1>1. ASSUME NEW start \in Day, EnsureRead(c, start) PROVE Turns(c)
  <2> DEFINE x == [Idle EXCEPT !.pc = "ensure", !.copy = NewPeriod(start)]
  <2>1. NewPeriod(start) \in Period
    BY BooksAssumption DEF NewPeriod, Period, Day, Snapshot, Open
  <2>2. x \in Request /\ x.pc = "ensure" /\ x.copy = NewPeriod(start)
    BY <2>1, IdleType DEF Request, Idle
  <2>3. req' = [req EXCEPT ![c] = x] /\ Quiet /\ tx' = tx /\ today' = today
    BY <1>1 DEF EnsureRead, Quiet
  <2> QED
    BY <2>2, <2>3 DEF Turns, Fresh
<1>2. ASSUME NEW p \in Ids, RenameRead(c, p) PROVE Turns(c)
  <2> DEFINE x == [Idle EXCEPT !.pc = "rename", !.id = p, !.copy = book[p]]
  <2>1. p \in Existing /\ book[p] \in Period
    BY <1>0, <1>2, RowFacts DEF RenameRead
  <2>2. x \in Request /\ x.pc = "rename" /\ x.copy = book[p] /\ x.id = p
    BY <2>1, IdleType DEF Request, Idle
  <2>3. req' = [req EXCEPT ![c] = x] /\ Quiet /\ tx' = tx /\ today' = today
    BY <1>2 DEF RenameRead, Quiet
  <2> QED
    BY <2>1, <2>2, <2>3 DEF Turns, Fresh
<1>3. ASSUME NEW p \in Ids, ReopenRead(c, p) PROVE Turns(c)
  <2> DEFINE row == [book[p] EXCEPT !.closed = FALSE]
             x == [Idle EXCEPT !.pc = "reopen", !.id = p, !.copy = row]
  <2>1. p \in Existing /\ book[p] \in Period
    BY <1>0, <1>3, RowFacts DEF ReopenRead, LatestClosed
  <2>2. row \in Period /\ row.start = book[p].start /\ row.end = book[p].end
    BY <2>1 DEF Period
  <2> HIDE DEF row
  <2>3. x \in Request /\ x.pc = "reopen" /\ x.copy = row /\ x.id = p
    BY <2>2, IdleType DEF Request, Idle
  <2>4. req' = [req EXCEPT ![c] = x] /\ Quiet /\ tx' = tx /\ today' = today
    BY <1>3 DEF ReopenRead, Quiet, row
  <2> QED
    BY <2>1, <2>2, <2>3, <2>4 DEF Turns, Fresh
<1>4. ASSUME NEW p \in Ids, NEW end \in Day, CloseCheck(c, p, end) PROVE Turns(c)
  <2> DEFINE x == [Idle EXCEPT !.pc = "close", !.id = p, !.end = end]
  <2>1. x \in Request /\ x.pc = "close" /\ x.id = p /\ x.end = end
    BY IdleType DEF Request, Idle
  <2>2. req' = [req EXCEPT ![c] = x] /\ Quiet /\ tx' = tx /\ today' = today /\ p \in Existing
    BY <1>4 DEF CloseCheck, Quiet
  <2> QED
    BY <2>1, <2>2 DEF Turns, Fresh
<1>5. ASSUME NEW t \in Txs, NEW p \in Ids \cup {Unfiled}, NEW amount \in Amounts,
             RecordRead(c, t, p, amount) \/ ReviseRead(c, t, p, amount)
      PROVE  Turns(c)
  <2> DEFINE row == [period |-> p, amount |-> amount]
             x(pc) == [Idle EXCEPT !.pc = pc, !.tx = t, !.row = row]
  <2>1. row \in Transaction
    BY DEF Transaction
  <2> HIDE DEF row
  <2>2. \A pc \in {"record", "revise"} : x(pc) \in Request /\ x(pc).pc = pc
    BY <2>1, IdleType DEF Request, Idle
  <2>3. /\ \E pc \in {"record", "revise"} : req' = [req EXCEPT ![c] = x(pc)]
        /\ Quiet /\ tx' = tx /\ today' = today
    BY <1>5 DEF RecordRead, ReviseRead, Quiet, row
  <2> QED
    BY <2>2, <2>3 DEF Turns, Fresh
<1>6. ASSUME NEW t \in Txs, DeleteRead(c, t) PROVE Turns(c)
  <2> DEFINE x == [Idle EXCEPT !.pc = "delete", !.tx = t]
  <2>1. x \in Request /\ x.pc = "delete"
    BY IdleType DEF Request, Idle
  <2>2. req' = [req EXCEPT ![c] = x] /\ Quiet /\ tx' = tx /\ today' = today
    BY <1>6 DEF DeleteRead, Quiet
  <2> QED
    BY <2>1, <2>2 DEF Turns, Fresh
<1> QED
  BY <1>1, <1>2, <1>3, <1>4, <1>5, <1>6

LEMMA CloseTurns ==
  ASSUME BooksInv, NEW c \in Clients, CloseLock(c) \/ CloseSnapshot(c)
  PROVE  Turns(c)
<1>0. TypeOK /\ req[c] \in Request
  BY DEF BooksInv, TypeOK
<1>1. ASSUME CloseLock(c) PROVE Turns(c)
  <2> DEFINE p == req[c].id
             x == [req[c] EXCEPT !.pc = "close_locked", !.copy = book[p]]
  <2>1. p \in Existing /\ req[c].end \in Day
    BY <1>1 DEF CloseLock, BooksInv, CloseOK
  <2>2. book[p] \in Period
    BY <1>0, <2>1, RowFacts
  <2>3. CASE CheckClosable(book[p], req[c].end)
    <3>1. x \in Request /\ x.pc = "close_locked" /\ x.id = p /\ x.end = req[c].end /\ x.copy = book[p]
      BY <1>0, <2>2 DEF Request, Phases
    <3>2. /\ req' = [req EXCEPT ![c] = x] /\ Quiet /\ tx' = tx /\ today' = today /\ ~RowLocked(p)
          /\ closings[p] < MaxClosings /\ (IsCurrent(p) => count < MaxPeriods)
      BY <1>0, <1>1, <2>3 DEF CloseLock, Quiet, IsCurrent, TypeOK
    <3> QED
      BY <2>1, <2>3, <3>1, <3>2 DEF Turns, Fresh
  <2>4. CASE ~CheckClosable(book[p], req[c].end)
    BY <1>1, <2>4, IdleType DEF CloseLock, Done, Turns
  <2> QED
    BY <2>3, <2>4
<1>2. ASSUME CloseSnapshot(c) PROVE Turns(c)
  <2> DEFINE p == req[c].id
             row == [req[c].copy EXCEPT !.end = req[c].end, !.closed = TRUE, !.snap = Totals(p)]
             x == [req[c] EXCEPT !.pc = "close_frozen", !.copy = row]
  <2>1. /\ req[c].pc = "close_locked" /\ p \in Existing /\ req[c].end \in Day
        /\ CheckClosable(book[p], req[c].end) /\ req[c].copy = book[p]
    BY <1>2 DEF CloseSnapshot, BooksInv, CloseOK, Locks
  <2>2. book[p] \in Period /\ Totals(p) \in Snapshot
    BY <1>0, <2>1, RowFacts, TotalsType
  <2>3. req[c].end >= book[p].start /\ req[c].end # Open
    <3>1. book[p].end # Open => book[p].end >= book[p].start
      BY <2>2 DEF Period
    <3>2. req[c].end \in Nat /\ req[c].end # 0 /\ book[p].start \in Nat
      BY <2>1, <2>2, BooksAssumption DEF Day, Period
    <3> QED
      BY <2>1, <3>1, <3>2 DEF CheckClosable, Open
  <2>4. row \in Period /\ row.closed /\ row.start = book[p].start /\ row.end = req[c].end /\ row.snap = Totals(p)
    BY <2>1, <2>2, <2>3 DEF Period
  <2>5. \A t \in FiledIn(p) : \E a \in Amounts : <<t, a>> \in row.snap
    BY <1>0, <2>4, TotalsType
  <2>6. req' = [req EXCEPT ![c] = x] /\ Quiet /\ tx' = tx /\ today' = today
    BY <1>0, <1>2 DEF CloseSnapshot, Quiet, TypeOK
  <2> HIDE DEF row
  <2>7. x \in Request /\ x.pc = "close_frozen" /\ x.id = p /\ x.end = req[c].end /\ x.copy = row
    BY <1>0, <2>4 DEF Request, Phases
  <2> QED
    BY <2>1, <2>4, <2>5, <2>6, <2>7 DEF Turns, Fresh
<1> QED
  BY <1>1, <1>2

\* A step is the clock's or turns one request.
LEMMA ReqAfter ==
  ASSUME BooksInv, [Next]_vars
  PROVE  req' = req \/ \E c \in Clients : Turns(c)
<1>1. ASSUME NEW c \in Clients, Done(c) PROVE Turns(c)
  BY <1>1, IdleType DEF Done, Turns
<1>2. ASSUME NEW c \in Clients, PeriodStep(c) PROVE Turns(c)
  BY <1>1, <1>2, ReadsTurn, CloseTurns
     DEF PeriodStep, EnsureCreate, RenameSave, ReopenSave, SaveLoaded, CloseCommit
<1>3. ASSUME NEW c \in Clients, TxStep(c) PROVE Turns(c)
  BY <1>1, <1>3, ReadsTurn DEF TxStep, RecordSave, ReviseSave, SaveTx, DeleteRow
<1>4. ASSUME NEW c \in Clients, Abandon(c) PROVE Turns(c)
  BY <1>1, <1>4 DEF Abandon
<1> QED
  BY <1>2, <1>3, <1>4 DEF Next, Tick, vars

\* What a step does to the transactions: nothing, or one is saved or deleted by
\* the request that ends.
LEMMA TxAfter ==
  ASSUME [Next]_vars
  PROVE  \/ tx' = tx
         \/ /\ book' = book
            /\ \E c \in Clients :
                 \/ /\ req[c].pc \in {"record", "revise"} /\ Done(c)
                    /\ ~Waits(req[c].tx, req[c].row)
                    /\ tx' = [tx EXCEPT ![req[c].tx] = req[c].row]
                 \/ /\ req[c].pc = "delete" /\ Done(c)
                    /\ tx' = [tx EXCEPT ![req[c].tx] = NoRow]
<1> DEFINE Changes(c) == \/ /\ req[c].pc \in {"record", "revise"} /\ Done(c)
                            /\ ~Waits(req[c].tx, req[c].row)
                            /\ tx' = [tx EXCEPT ![req[c].tx] = req[c].row]
                         \/ /\ req[c].pc = "delete" /\ Done(c)
                            /\ tx' = [tx EXCEPT ![req[c].tx] = NoRow]
<1>1. ASSUME NEW c \in Clients, PeriodStep(c) \/ Abandon(c) PROVE tx' = tx
  BY <1>1 DEF PeriodStep, EnsureRead, EnsureCreate, RenameRead, ReopenRead, RenameSave, ReopenSave, SaveLoaded,
              CloseCheck, CloseLock, CloseSnapshot, CloseCommit, Abandon
<1>2. ASSUME NEW c \in Clients, TxStep(c) PROVE tx' = tx \/ (book' = book /\ Changes(c))
  BY <1>2 DEF TxStep, RecordRead, ReviseRead, DeleteRead, RecordSave, ReviseSave, SaveTx, DeleteRow
<1> HIDE DEF Changes
<1>3. tx' = tx \/ (book' = book /\ \E c \in Clients : Changes(c))
  BY <1>1, <1>2 DEF Next, Tick, vars
<1> QED
  BY <1>3 DEF Changes

\* Nothing is filed in a period while a close holds its row.
LEMMA LockKeepsOut ==
  ASSUME TypeOK, [Next]_vars, NEW p \in Ids, RowLocked(p)
  PROVE  FiledIn(p)' \subseteq FiledIn(p)
<1> SUFFICES ASSUME NEW t \in Txs, tx'[t] # NoRow, tx'[t].period = p
             PROVE  tx[t] # NoRow /\ tx[t].period = p
  BY DEF FiledIn
<1>1. CASE tx' = tx
  BY <1>1
<1>2. ASSUME NEW c \in Clients, ~Waits(req[c].tx, req[c].row), tx' = [tx EXCEPT ![req[c].tx] = req[c].row]
      PROVE  tx[t] # NoRow /\ tx[t].period = p
  <2>1. CASE t = req[c].tx
    <3>1. req[c].row.period = p /\ p # Unfiled
      BY <1>2, <2>1 DEF TypeOK, Ids, Unfiled
    <3> QED
      BY <1>2, <2>1, <3>1 DEF Waits
  <2>2. CASE t # req[c].tx
    BY <1>2, <2>2 DEF TypeOK
  <2> QED
    BY <2>1, <2>2
<1>3. ASSUME NEW c \in Clients, tx' = [tx EXCEPT ![req[c].tx] = NoRow]
      PROVE  tx[t] # NoRow /\ tx[t].period = p
  BY <1>3 DEF TypeOK
<1> QED
  BY <1>1, <1>2, <1>3, TxAfter

LEMMA TodayAfter ==
  ASSUME TypeOK, [Next]_vars
  PROVE  today' \in Day /\ today' >= today /\ used' \subseteq Txs /\ used \subseteq used'
<1>1. MaxDay \in Nat /\ today \in Nat
  BY BooksAssumption DEF TypeOK, Day
<1>2. ASSUME NEW c \in Clients, PeriodStep(c) \/ Abandon(c) PROVE today' = today /\ used' = used
  BY <1>2 DEF PeriodStep, EnsureRead, EnsureCreate, RenameRead, ReopenRead, RenameSave, ReopenSave, SaveLoaded,
              CloseCheck, CloseLock, CloseSnapshot, CloseCommit, Abandon
<1>3. ASSUME NEW c \in Clients, TxStep(c) PROVE today' = today /\ (used' = used \/ \E t \in Txs : used' = used \cup {t})
  BY <1>3 DEF TxStep, RecordRead, ReviseRead, DeleteRead, RecordSave, ReviseSave, SaveTx, DeleteRow
<1>4. ASSUME Tick PROVE today' \in Day /\ today' >= today /\ used' = used
  BY <1>1, <1>4 DEF Tick, TypeOK, Day
<1>5. ASSUME UNCHANGED vars PROVE today' = today /\ used' = used
  BY <1>5 DEF vars
<1>6. today' = today => today' \in Day /\ today' >= today
  BY <1>1 DEF TypeOK
<1>7. used' = used \/ (\E t \in Txs : used' = used \cup {t})
  BY <1>2, <1>3, <1>4, <1>5 DEF Next
<1>8. today' \in Day /\ today' >= today
  BY <1>2, <1>3, <1>4, <1>5, <1>6 DEF Next
<1> QED
  BY <1>7, <1>8 DEF TypeOK

LEMMA TypeStep ==
  ASSUME BooksInv, [Next]_vars
  PROVE  TypeOK'
<1>0. /\ TypeOK /\ count \in Nat /\ MaxPeriods \in Nat \ {0} /\ MaxClosings \in Nat /\ MaxDay \in Nat
  BY BooksAssumption DEF BooksInv, TypeOK
<1>1. book' \in [Ids -> Period \cup {NoRow}] /\ count' \in 0..MaxPeriods /\ closings' \in [Ids -> 0..MaxClosings]
  <2>1. CASE Quiet
    BY <1>0, <2>1 DEF Quiet, TypeOK
  <2>2. ASSUME NEW c \in Clients, Saves(c)
        PROVE  book' \in [Ids -> Period \cup {NoRow}] /\ count' = count /\ closings' = closings
    BY <1>0, <2>2 DEF Saves, BooksInv, CopyOK, TypeOK
  <2>3. ASSUME NEW c \in Clients, Creates(c)
        PROVE  book' \in [Ids -> Period \cup {NoRow}] /\ count' = 1 /\ closings' = closings
    <3>1. req[c].copy \in Period \cup {NoRow}
      BY <1>0 DEF TypeOK, Request
    <3> QED
      BY <1>0, <2>3, <3>1 DEF Creates, TypeOK
  <2>4. ASSUME NEW c \in Clients, CloseCommit(c)
        PROVE  /\ book' \in [Ids -> Period \cup {NoRow}] /\ count' \in 0..MaxPeriods
               /\ closings' \in [Ids -> 0..MaxClosings]
    <3>1. req[c].copy \in Period /\ req[c].end \in Day /\ req[c].id \in Ids
      BY <1>0, <2>4, CommitShape, RowFacts
    <3>2. NewPeriod(req[c].end + 1) \in Period
      BY <1>0, <3>1 DEF NewPeriod, Period, Day, Snapshot
    <3>3. book' \in [Ids -> Period \cup {NoRow}]
      BY <1>0, <2>4, <3>1, <3>2 DEF CloseCommit, TypeOK
    <3>4. count' \in 0..MaxPeriods
      <4>1. CASE count' = count
        BY <1>0, <4>1 DEF TypeOK
      <4>2. CASE count' = count + 1 /\ count + 1 \in Ids
        BY <1>0, <4>2 DEF Ids
      <4> QED
        BY <2>4, <4>1, <4>2, CommitShape
    <3>5. closings[req[c].id] \in Nat /\ closings[req[c].id] < MaxClosings
          /\ closings' = [closings EXCEPT ![req[c].id] = @ + 1]
      BY <1>0, <2>4, <3>1, CommitShape DEF TypeOK
    <3>6. closings[req[c].id] + 1 \in 0..MaxClosings
      BY <1>0, <3>5
    <3>7. closings' \in [Ids -> 0..MaxClosings]
      BY <1>0, <3>5, <3>6 DEF TypeOK
    <3> QED
      BY <3>3, <3>4, <3>7
  <2> QED
    BY <1>0, <2>1, <2>2, <2>3, <2>4, Shape DEF TypeOK
<1>2. req' \in [Clients -> Request]
  BY <1>0, ReqAfter DEF Turns, TypeOK
<1>3. tx' \in [Txs -> Transaction \cup {NoRow}]
  <2>1. \A c \in Clients : req[c].row \in Transaction \cup {NoRow}
    BY <1>0 DEF TypeOK, Request
  <2> QED
    BY <1>0, <2>1, TxAfter DEF TypeOK
<1>4. overtaken' \in [Clients -> SUBSET (Ids \cup Txs)]
  BY <1>0 DEF Next, Overtakes, vars, TypeOK, Existing
<1> QED
  BY <1>0, <1>1, <1>2, <1>3, <1>4, TodayAfter DEF TypeOK

LEMMA CopyStep ==
  ASSUME BooksInv, [Next]_vars, NEW d \in Clients
  PROVE  CopyOK(d)'
<1>0. TypeOK
  BY DEF BooksInv
<1>1. CASE req'[d] = req[d]
  <2>1. CopyOK(d)
    BY DEF BooksInv
  <2>2. ASSUME req[d].pc \in {"rename", "reopen"}
        PROVE  /\ req[d].id \in Existing' /\ req[d].copy \in Period
               /\ req[d].copy.start = book'[req[d].id].start
               /\ req[d].copy.end \in {Open, book'[req[d].id].end}
    BY <2>1, <2>2, BookAfter DEF CopyOK
  <2> QED
    BY <1>1, <2>1, <2>2 DEF CopyOK, NewPeriod
<1>2. CASE req'[d] = Idle
  BY <1>2, IdleType DEF CopyOK
<1>3. CASE Quiet /\ Fresh(d, req'[d])
  BY <1>3 DEF Fresh, CopyOK, Quiet, Existing, NewPeriod
<1>4. req' = req => req'[d] = req[d]
  OBVIOUS
<1>5. ASSUME NEW c \in Clients, Turns(c) PROVE req'[d] = req[d] \/ req'[d] = Idle \/ (Quiet /\ Fresh(d, req'[d]))
  BY <1>0, <1>5 DEF Turns, TypeOK
<1> QED
  BY <1>1, <1>2, <1>3, <1>4, <1>5, ReqAfter

\* Two requests never hold the row of one period.
LEMMA LockStep ==
  ASSUME BooksInv, [Next]_vars, NEW d \in Clients, NEW e \in Clients,
         Locks(d)', Locks(e)', req'[d].id = req'[e].id
  PROVE  d = e
<1>0. TypeOK /\ \A a, b \in Clients : Locks(a) /\ Locks(b) /\ req[a].id = req[b].id => a = b
  BY DEF BooksInv, CloseOK
<1>1. CASE req' = req
  BY <1>0, <1>1 DEF Locks
<1>2. ASSUME NEW c \in Clients, NEW x \in Request, req' = [req EXCEPT ![c] = x], x = Idle \/ Fresh(c, x)
      PROVE  d = e
  <2>1. \A a \in Clients : req'[a] = IF a = c THEN x ELSE req[a]
    BY <1>0, <1>2 DEF TypeOK
  <2>2. ASSUME NEW a \in Clients, a # c, x.pc \in {"close_locked", "close_frozen"}, Locks(a), req[a].id = x.id
        PROVE  FALSE
    <3>1. x # Idle
      BY <2>2, IdleType
    <3>2. CASE x.pc = "close_locked"
      BY <1>2, <2>2, <3>1, <3>2 DEF Fresh, RowLocked, Locks
    <3>3. CASE x.pc = "close_frozen"
      <4>1. Locks(c) /\ req[c].id = x.id
        BY <1>2, <3>1, <3>3 DEF Fresh, Locks
      <4> QED
        BY <1>0, <2>2, <4>1
    <3> QED
      BY <2>2, <3>2, <3>3
  <2>3. CASE d = c /\ e # c
    BY <2>1, <2>2, <2>3 DEF Locks
  <2>4. CASE d # c /\ e = c
    BY <2>1, <2>2, <2>4 DEF Locks
  <2>5. CASE d # c /\ e # c
    BY <1>0, <2>1, <2>5 DEF Locks
  <2> QED
    BY <2>3, <2>4, <2>5
<1> QED
  BY <1>1, <1>2, ReqAfter DEF Turns

\* A row that is held is not written but by the close that holds it.
LEMMA HeldRowStays ==
  ASSUME BooksInv, [Next]_vars, NEW d \in Clients, Locks(d), Locks(d)'
  PROVE  /\ book'[req[d].id] = book[req[d].id]
         /\ closings'[req[d].id] = closings[req[d].id]
         /\ IsCurrent(req[d].id) => count' < MaxPeriods
<1> DEFINE p == req[d].id
<1>0. /\ TypeOK /\ p \in Existing /\ p \in Ids /\ (IsCurrent(p) => count < MaxPeriods) /\ RowLocked(p)
      /\ p \in 1..count /\ count \in Nat \ {0} /\ (IsCurrent(p) <=> p = count)
      /\ \A c \in Clients : Locks(c) /\ req[c].id = p => c = d
  <2>1. /\ TypeOK /\ PeriodsTile /\ p \in Existing /\ (IsCurrent(p) => count < MaxPeriods)
        /\ \A c \in Clients : Locks(c) /\ req[c].id = p => c = d
    BY DEF BooksInv, CloseOK
  <2>2. RowLocked(p)
    BY DEF RowLocked, Locks
  <2> QED
    BY <2>1, <2>2, RowFacts, OneCurrent
<1>1. ASSUME NEW c \in Clients, Done(c) PROVE c # d
  BY <1>0, <1>1, IdleType DEF Done, TypeOK, Locks
<1>2. CASE Quiet
  BY <1>0, <1>2 DEF Quiet
<1>3. ASSUME NEW c \in Clients, Saves(c)
      PROVE  book'[p] = book[p] /\ closings' = closings /\ count' = count
  BY <1>0, <1>3 DEF Saves, TypeOK
<1>4. ASSUME NEW c \in Clients, Creates(c) PROVE FALSE
  BY <1>0, <1>4 DEF Creates
<1>5. ASSUME NEW c \in Clients, CloseCommit(c)
      PROVE  book'[p] = book[p] /\ closings'[p] = closings[p] /\ (IsCurrent(p) => count' < MaxPeriods)
  <2>1. c # d /\ Locks(c)
    BY <1>1, <1>5 DEF CloseCommit, Locks
  <2>2. req[c].id # p /\ req[c].id \in Ids
    BY <1>0, <1>5, <2>1, CommitShape, RowFacts
  <2>3. closings'[p] = closings[p]
    BY <1>0, <1>5, <2>2, CommitShape DEF TypeOK
  <2>4. CASE count' = count /\ \A q \in Ids \ {req[c].id} : book'[q] = book[q]
    BY <1>0, <2>2, <2>3, <2>4
  <2>5. CASE req[c].id = count /\ \A q \in Ids \ {count, count + 1} : book'[q] = book[q]
    BY <1>0, <2>2, <2>3, <2>5
  <2> QED
    BY <1>5, <2>4, <2>5, CommitShape
<1> QED
  BY <1>0, <1>2, <1>3, <1>4, <1>5, Shape

LEMMA CloseStep ==
  ASSUME BooksInv, [Next]_vars, NEW d \in Clients
  PROVE  CloseOK(d)'
<1>0. TypeOK /\ CloseOK(d) /\ today \in Nat /\ today' \in Nat /\ today' >= today
  BY TodayAfter, BooksAssumption DEF BooksInv, TypeOK, Day
<1>1. CASE req'[d] = req[d]
  <2> DEFINE p == req[d].id
  <2>1. ASSUME req[d].pc = "close" \/ Locks(d) PROVE p \in Existing' /\ req[d].end \in Day
    BY <1>0, <2>1, BookAfter DEF CloseOK
  <2>2. ASSUME Locks(d)
        PROVE  /\ book'[p] = book[p] /\ CheckClosable(book[p], req[d].end)'
               /\ closings'[p] < MaxClosings /\ (IsCurrent(p)' => count' < MaxPeriods)
               /\ FiledIn(p)' \subseteq FiledIn(p)
    <3>1. Locks(d)'
      BY <1>1, <2>2 DEF Locks
    <3>2. /\ book'[p] = book[p] /\ closings'[p] = closings[p] /\ (IsCurrent(p) => count' < MaxPeriods)
      BY <2>2, <3>1, HeldRowStays
    <3>3. /\ p \in Existing /\ CheckClosable(book[p], req[d].end) /\ closings[p] < MaxClosings
          /\ req[d].end \in Day
      BY <1>0, <2>2 DEF CloseOK
    <3>4. CheckClosable(book[p], req[d].end)'
      <4>1. req[d].end \in Nat
        BY <3>3, BooksAssumption DEF Day
      <4> QED
        BY <1>0, <1>1, <3>2, <3>3, <4>1 DEF CheckClosable
    <3>5. FiledIn(p)' \subseteq FiledIn(p)
      <4>1. RowLocked(p) /\ p \in Ids
        BY <1>0, <2>2, <3>3, RowFacts DEF RowLocked, Locks
      <4>2. \A q \in Ids : RowLocked(q) => {t \in Txs : tx'[t] # NoRow /\ tx'[t].period = q} \subseteq FiledIn(q)
        BY <1>0, LockKeepsOut DEF FiledIn
      <4> QED
        BY <1>1, <4>1, <4>2 DEF FiledIn
    <3> QED
      BY <1>1, <3>2, <3>3, <3>4, <3>5 DEF IsCurrent
  <2>3. (\A e \in Clients : Locks(e) /\ req[e].id = req[d].id => e = d)' \/ ~Locks(d)'
    BY LockStep
  <2>4. Locks(d)' <=> Locks(d)
    BY <1>1 DEF Locks
  <2>5. req[d].pc = "close_locked" => Locks(d) /\ req[d].copy = book[p]
    BY <1>0 DEF CloseOK, Locks
  <2>6. req[d].pc = "close_frozen" =>
          /\ Locks(d) /\ req[d].copy \in Period /\ req[d].copy.closed
          /\ req[d].copy.start = book[p].start /\ req[d].copy.end = req[d].end
          /\ \A t \in FiledIn(p) : \E a \in Amounts : <<t, a>> \in req[d].copy.snap
    BY <1>0 DEF CloseOK, Locks
  <2>7. (Locks(d) => /\ CheckClosable(book[req[d].id], req[d].end)
                     /\ closings[req[d].id] < MaxClosings
                     /\ IsCurrent(req[d].id) => count < MaxPeriods)'
    BY <1>1, <2>2, <2>4 DEF IsCurrent, CheckClosable
  <2>8. (req[d].pc = "close_frozen" =>
           \A t \in FiledIn(req[d].id) : \E a \in Amounts : <<t, a>> \in req[d].copy.snap)'
    BY <1>1, <2>2, <2>6
  <2>9. ((req[d].pc = "close" \/ Locks(d)) => req[d].id \in Existing /\ req[d].end \in Day)'
    BY <1>1, <2>1, <2>4
  <2> QED
    BY <1>1, <2>2, <2>3, <2>5, <2>6, <2>7, <2>8, <2>9 DEF CloseOK
<1>2. CASE req'[d] = Idle
  BY <1>2, IdleType DEF CloseOK, Locks
<1>3. CASE Quiet /\ tx' = tx /\ today' = today /\ Fresh(d, req'[d])
  <2> DEFINE x == req'[d]
  <2>1. Locks(d)' <=> x.pc \in {"close_locked", "close_frozen"}
    BY DEF Locks
  <2>2. (\A e \in Clients : Locks(e) /\ req[e].id = req[d].id => e = d)' \/ ~Locks(d)'
    BY LockStep
  <2>3. (x.pc = "close" \/ Locks(d)') => x.id \in Existing /\ x.end \in Day
    BY <1>0, <1>3, <2>1 DEF Fresh, CloseOK, Locks
  <2>4. Locks(d)' => /\ CheckClosable(book[x.id], x.end) /\ closings[x.id] < MaxClosings
                     /\ IsCurrent(x.id) => count < MaxPeriods
    BY <1>0, <1>3, <2>1 DEF Fresh, CloseOK, Locks
  <2>5. x.pc = "close_locked" => x.copy = book[x.id]
    BY <1>3 DEF Fresh
  <2>6. x.pc = "close_frozen" =>
          /\ x.copy \in Period /\ x.copy.closed
          /\ x.copy.start = book[x.id].start /\ x.copy.end = x.end
          /\ \A t \in FiledIn(x.id) : \E a \in Amounts : <<t, a>> \in x.copy.snap
    BY <1>3 DEF Fresh
  <2>7. book' = book /\ closings' = closings /\ count' = count /\ tx' = tx /\ today' = today
    BY <1>3 DEF Quiet
  <2> QED
    BY <2>2, <2>3, <2>4, <2>5, <2>6, <2>7 DEF CloseOK, Existing, CheckClosable, IsCurrent, FiledIn
<1>4. ASSUME NEW c \in Clients, Turns(c)
      PROVE  \/ req'[d] = req[d] \/ req'[d] = Idle
             \/ Quiet /\ tx' = tx /\ today' = today /\ Fresh(d, req'[d])
  BY <1>0, <1>4 DEF Turns, TypeOK
<1> QED
  BY <1>1, <1>2, <1>3, <1>4, ReqAfter

LEMMA BooksInit ==
  ASSUME Init
  PROVE  BooksInv
<1>1. TypeOK
  BY IdleType, BooksAssumption DEF Init, TypeOK, Day
<1>2. PeriodsTile
  BY DEF Init, PeriodsTile, Existing
<1>3. \A c \in Clients : req[c].pc = "idle"
  BY IdleType DEF Init
<1> QED
  BY <1>1, <1>2, <1>3 DEF BooksInv, CopyOK, CloseOK, Locks

\* The rows keep the constraints of their tables and the requests hold what
\* their reads can have returned (period.go, transaction.go), and the books
\* keep the invariant the other theorems start from.
THEOREM TypeCorrect == Spec => [](TypeOK /\ BooksInv)
<1>1. Init => BooksInv
  BY BooksInit
<1>2. BooksInv /\ [Next]_vars => BooksInv'
  BY TypeStep, TileStep, CopyStep, CloseStep DEF BooksInv
<1>3. BooksInv => TypeOK
  BY DEF BooksInv
<1> QED
  BY <1>1, <1>2, <1>3, PTL DEF Spec

\* The periods tile the calendar and exactly the last one is current, whatever
\* creators, stale renames, reopens and closes overlap (period.go Period:
\* "Exactly one period per project is current").
THEOREM CalendarIsTiled == Spec => []PeriodsTile
<1>1. BooksInv => PeriodsTile
  BY DEF BooksInv
<1> QED
  BY <1>1, TypeCorrect, PTL

\* A close is recorded once and misses nothing: its record is appended only by
\* the step that takes its period from open to closed, and whatever is filed in
\* the period by then was there for the snapshot (service.go Close).
THEOREM ClosesAreExact == Spec => CloseIsExact
<1> DEFINE Exact == \A p \in Ids : closings'[p] > closings[p]
             => /\ ~book[p].closed /\ book'[p].closed
                /\ \A t \in FiledIn(p) : \E a \in Amounts : <<t, a>> \in book'[p].snap
<1>1. BooksInv /\ [Next]_vars => [Exact]_vars
  <2> SUFFICES ASSUME BooksInv, Next, NEW p \in Ids, closings'[p] > closings[p]
               PROVE  /\ ~book[p].closed /\ book'[p].closed
                      /\ \A t \in FiledIn(p) : \E a \in Amounts : <<t, a>> \in book'[p].snap
    OBVIOUS
  <2>1. closings \in [Ids -> Nat]
    BY BooksAssumption DEF BooksInv, TypeOK
  <2>2. closings' # closings
    BY <2>1
  <2>3. PICK c \in Clients : CloseCommit(c)
    BY <2>2, Shape DEF Quiet, Saves, Creates
  <2>4. p = req[c].id
    BY <2>1, <2>3, CommitShape
  <2>5. \A t \in FiledIn(p) : \E a \in Amounts : <<t, a>> \in req[c].copy.snap
    BY <2>3, <2>4 DEF CloseCommit, BooksInv, CloseOK
  <2> QED
    BY <2>3, <2>4, <2>5, CommitShape
<1> QED
  BY <1>1, TypeCorrect, PTL DEF Spec, CloseIsExact

-----------------------------------------------------------------------------
(* Transactions and closed periods *)

Changing == {"record", "revise", "delete"}

\* Only ids given out have rows, and transactions are filed in periods that
\* exist.
FiledInv ==
  /\ \A t \in Txs : tx[t] # NoRow =>
       t \in used /\ (tx[t].period # Unfiled => tx[t].period \in Existing)
  /\ \A c \in Clients : req[c].pc \in Changing =>
       /\ req[c].tx \in Txs /\ req[c].tx \in used
       /\ req[c].pc # "delete" =>
            /\ req[c].row \in Transaction
            /\ req[c].row.period # Unfiled => req[c].row.period \in Existing

\* Transaction t is outside the closed periods but for those in S.
OutsideClosed(t, S) ==
  \/ tx[t] = NoRow
  \/ tx[t].period = Unfiled
  \/ ~IsLocked(tx[t].period)
  \/ tx[t].period \in S

\* A request about to change a transaction found it outside closed periods, and
\* files it outside closed periods, but for the periods closed since.
OvertakenInv ==
  \A c \in Clients : req[c].pc \in Changing =>
    /\ req[c].tx \in overtaken[c] \/ OutsideClosed(req[c].tx, overtaken[c])
    /\ (req[c].pc # "delete" /\ req[c].row.period # Unfiled) =>
         ~IsLocked(req[c].row.period) \/ req[c].row.period \in overtaken[c]

LEMMA ResolvesOpen ==
  ASSUME NEW d, NEW want \in Ids \cup {Unfiled}, NEW p, Resolves(d, want, p)
  PROVE  p # Unfiled => p \in Existing /\ ~IsLocked(p)
  BY DEF Resolves, Containing, Neighbors

\* A request that is about to change a transaction has just read it, or is
\* where it was.
LEMMA ChangingAfter ==
  ASSUME BooksInv, FiledInv, [Next]_vars, NEW d \in Clients, req'[d].pc \in Changing
  PROVE  \/ req'[d] = req[d]
         \/ /\ book' = book /\ tx' = tx
            /\ req'[d].tx \in Txs /\ req'[d].tx \in used'
            /\ OutsideClosed(req'[d].tx, {})
            /\ req'[d].pc # "delete" =>
                 /\ req'[d].row \in Transaction
                 /\ req'[d].row.period # Unfiled =>
                      req'[d].row.period \in Existing /\ ~IsLocked(req'[d].row.period)
<1> DEFINE Goal == \/ req'[d] = req[d]
                   \/ /\ book' = book /\ tx' = tx
                      /\ req'[d].tx \in Txs /\ req'[d].tx \in used'
                      /\ OutsideClosed(req'[d].tx, {})
                      /\ req'[d].pc # "delete" =>
                           /\ req'[d].row \in Transaction
                           /\ req'[d].row.period # Unfiled =>
                                req'[d].row.period \in Existing /\ ~IsLocked(req'[d].row.period)
<1> SUFFICES Goal
  OBVIOUS
<1>0. TypeOK
  BY DEF BooksInv
<1>1. ASSUME NEW c \in Clients, NEW x, req' = [req EXCEPT ![c] = x] PROVE req'[d] = IF d = c THEN x ELSE req[d]
  BY <1>0, <1>1 DEF TypeOK
<1>2. ASSUME NEW c \in Clients, NEW x, req' = [req EXCEPT ![c] = x], x.pc \notin Changing PROVE Goal
  BY <1>1, <1>2
<1>3. ASSUME NEW c \in Clients, NEW t \in Txs, NEW p \in Ids \cup {Unfiled}, NEW amount \in Amounts,
             RecordRead(c, t, p, amount) \/ ReviseRead(c, t, p, amount)
      PROVE  Goal
  <2> DEFINE x(pc) == [Idle EXCEPT !.pc = pc, !.tx = t, !.row = [period |-> p, amount |-> amount]]
  <2>1. /\ \E pc \in {"record", "revise"} : req' = [req EXCEPT ![c] = x(pc)]
        /\ book' = book /\ tx' = tx
    BY <1>3 DEF RecordRead, ReviseRead
  <2>2. p # Unfiled => p \in Existing /\ ~IsLocked(p)
    <3>1. CASE RecordRead(c, t, p, amount)
      BY <3>1, ResolvesOpen DEF RecordRead
    <3>2. CASE ReviseRead(c, t, p, amount)
      <4>1. CASE p \in {tx[t].period, Unfiled}
        BY <3>2, <4>1 DEF ReviseRead, MayChange, FiledInv
      <4>2. CASE \E e \in 1..today, want \in Ids \cup {Unfiled} : Resolves(e, want, p)
        BY <4>2, ResolvesOpen
      <4> QED
        BY <3>2, <4>1, <4>2 DEF ReviseRead
    <3> QED
      BY <1>3, <3>1, <3>2
  <2>3. t \in used' /\ OutsideClosed(t, {})
    <3>1. CASE RecordRead(c, t, p, amount)
      BY <3>1 DEF RecordRead, FiledInv, OutsideClosed
    <3>2. CASE ReviseRead(c, t, p, amount)
      BY <3>2 DEF ReviseRead, MayChange, FiledInv, OutsideClosed
    <3> QED
      BY <1>3, <3>1, <3>2
  <2>4. [period |-> p, amount |-> amount] \in Transaction /\ [period |-> p, amount |-> amount].period = p
    BY DEF Transaction
  <2>5. \A pc \in {"record", "revise"} :
          x(pc).pc = pc /\ x(pc).tx = t /\ x(pc).row = [period |-> p, amount |-> amount]
    BY DEF Idle
  <2>6. CASE d = c
    <3>1. req'[d].tx = t /\ req'[d].row = [period |-> p, amount |-> amount]
      <4>1. PICK pc \in {"record", "revise"} : req' = [req EXCEPT ![c] = x(pc)]
        BY <2>1
      <4>2. req'[d] = x(pc)
        BY <1>1, <2>6, <4>1
      <4> QED
        BY <2>5, <4>2
    <3> QED
      BY <2>1, <2>2, <2>3, <2>4, <3>1
  <2>7. CASE d # c
    BY <1>1, <2>1, <2>7
  <2> QED
    BY <2>6, <2>7
<1>4. ASSUME NEW c \in Clients, NEW t \in Txs, DeleteRead(c, t) PROVE Goal
  <2> DEFINE x == [Idle EXCEPT !.pc = "delete", !.tx = t]
  <2>1. req' = [req EXCEPT ![c] = x] /\ book' = book /\ tx' = tx /\ used' = used
    BY <1>4 DEF DeleteRead
  <2>2. t \in used /\ OutsideClosed(t, {})
    BY <1>4 DEF DeleteRead, MayChange, FiledInv, OutsideClosed
  <2>3. x.pc = "delete" /\ x.tx = t
    BY DEF Idle
  <2>4. CASE d = c
    <3>1. req'[d].tx = t /\ req'[d].pc = "delete"
      BY <1>1, <2>1, <2>3, <2>4
    <3> QED
      BY <2>1, <2>2, <3>1
  <2> QED
    BY <1>1, <2>1, <2>4
<1> HIDE DEF Goal
<1>5. ASSUME NEW c \in Clients, Done(c) PROVE Goal
  BY <1>2, <1>5, IdleType DEF Done, Changing
<1>6. ASSUME NEW c \in Clients, PeriodStep(c) PROVE Goal
  <2>1. ASSUME NEW start \in Day, EnsureRead(c, start) PROVE Goal
    <3>1. [Idle EXCEPT !.pc = "ensure", !.copy = NewPeriod(start)].pc = "ensure"
      BY DEF Idle
    <3> QED
      BY <1>2, <2>1, <3>1 DEF EnsureRead, Changing
  <2>2. ASSUME NEW p \in Ids, RenameRead(c, p) PROVE Goal
    <3>1. [Idle EXCEPT !.pc = "rename", !.id = p, !.copy = book[p]].pc = "rename"
      BY DEF Idle
    <3> QED
      BY <1>2, <2>2, <3>1 DEF RenameRead, Changing
  <2>3. ASSUME NEW p \in Ids, ReopenRead(c, p) PROVE Goal
    <3>1. [Idle EXCEPT !.pc = "reopen", !.id = p, !.copy = [book[p] EXCEPT !.closed = FALSE]].pc = "reopen"
      BY DEF Idle
    <3> QED
      BY <1>2, <2>3, <3>1 DEF ReopenRead, Changing
  <2>4. ASSUME NEW p \in Ids, NEW end \in Day, CloseCheck(c, p, end) PROVE Goal
    <3>1. [Idle EXCEPT !.pc = "close", !.id = p, !.end = end].pc = "close"
      BY DEF Idle
    <3> QED
      BY <1>2, <2>4, <3>1 DEF CloseCheck, Changing
  <2>5. ASSUME CloseLock(c) \/ CloseSnapshot(c) PROVE Goal
    <3>1. Done(c) \/ \E pc \in {"close_locked", "close_frozen"} : \E x :
            req' = [req EXCEPT ![c] = [req[c] EXCEPT !.pc = pc, !.copy = x]]
      BY <1>0, <2>5 DEF CloseLock, CloseSnapshot, TypeOK
    <3>2. \A pc, x : [req[c] EXCEPT !.pc = pc, !.copy = x].pc = pc
      BY <1>0 DEF TypeOK, Request
    <3> QED
      BY <1>2, <1>5, <3>1, <3>2 DEF Changing
  <2> QED
    BY <1>5, <1>6, <2>1, <2>2, <2>3, <2>4, <2>5
       DEF PeriodStep, EnsureCreate, RenameSave, ReopenSave, SaveLoaded, CloseCommit
<1>7. ASSUME NEW c \in Clients, TxStep(c) \/ Abandon(c) PROVE Goal
  BY <1>3, <1>4, <1>5, <1>7 DEF TxStep, RecordSave, ReviseSave, SaveTx, DeleteRow, Abandon
<1> QED
  BY <1>6, <1>7 DEF Next, Tick, vars, Goal

LEMMA FiledStep ==
  ASSUME BooksInv, FiledInv, [Next]_vars
  PROVE  FiledInv'
<1>0. TypeOK /\ used \subseteq used' /\ \A p \in Existing : p \in Existing'
  BY BookAfter, TodayAfter DEF BooksInv
<1>1. ASSUME NEW t \in Txs, tx'[t] # NoRow
      PROVE  t \in used' /\ (tx'[t].period # Unfiled => tx'[t].period \in Existing')
  <2>1. CASE tx'[t] = tx[t]
    BY <1>0, <1>1, <2>1 DEF FiledInv
  <2>2. CASE tx'[t] # tx[t]
    <3>1. PICK c \in Clients : req[c].pc \in {"record", "revise"} /\ t = req[c].tx /\ tx'[t] = req[c].row
      BY <1>0, <1>1, <2>2, TxAfter DEF TypeOK
    <3> QED
      BY <1>0, <3>1 DEF FiledInv, Changing
  <2> QED
    BY <2>1, <2>2
<1>2. ASSUME NEW d \in Clients, req'[d].pc \in Changing
      PROVE  /\ req'[d].tx \in Txs /\ req'[d].tx \in used'
             /\ req'[d].pc # "delete" =>
                  /\ req'[d].row \in Transaction
                  /\ req'[d].row.period # Unfiled => req'[d].row.period \in Existing'
  <2>1. CASE req'[d] = req[d]
    BY <1>0, <1>2, <2>1 DEF FiledInv
  <2>2. CASE req'[d] # req[d]
    BY <1>0, <1>2, <2>2, ChangingAfter
  <2> QED
    BY <2>1, <2>2
<1> QED
  BY <1>1, <1>2 DEF FiledInv, Changing

LEMMA OvertakenStep ==
  ASSUME BooksInv, FiledInv, OvertakenInv, Next
  PROVE  OvertakenInv'
<1> SUFFICES ASSUME NEW d \in Clients, req'[d].pc \in Changing
             PROVE  /\ req'[d].tx \in overtaken'[d] \/ OutsideClosed(req[d].tx, overtaken[d])'
                    /\ (req'[d].pc # "delete" /\ req'[d].row.period # Unfiled) =>
                         ~book'[req'[d].row.period].closed \/ req'[d].row.period \in overtaken'[d]
  BY DEF OvertakenInv, IsLocked, Changing
<1>1. /\ overtaken[d] \subseteq overtaken'[d]
      /\ \A p \in Existing : ~IsLocked(p) /\ book'[p].closed => p \in overtaken'[d]
      /\ \A t \in Txs : t = req[d].tx /\ tx'[t] # tx[t] => t \in overtaken'[d]
  BY DEF Next, Overtakes, Changing
<1>2. CASE req'[d] = req[d]
  <2> DEFINE t == req[d].tx
  <2>1. /\ t \in Txs
        /\ tx[t] # NoRow /\ tx[t].period # Unfiled => tx[t].period \in Existing
        /\ t \in overtaken[d] \/ OutsideClosed(t, overtaken[d])
        /\ (req[d].pc # "delete" /\ req[d].row.period # Unfiled) =>
             /\ req[d].row.period \in Existing
             /\ ~IsLocked(req[d].row.period) \/ req[d].row.period \in overtaken[d]
    BY <1>2 DEF FiledInv, OvertakenInv
  <2>2. t \in overtaken'[d] \/ OutsideClosed(req[d].tx, overtaken[d])'
    <3>1. CASE tx'[t] # tx[t]
      BY <1>1, <2>1, <3>1
    <3>2. CASE tx'[t] = tx[t]
      <4>1. tx[t] = NoRow \/ tx[t].period = Unfiled \/ ~book'[tx[t].period].closed
              \/ tx[t].period \in overtaken'[d] \/ t \in overtaken'[d]
        BY <1>1, <2>1 DEF OutsideClosed, IsLocked
      <4> QED
        BY <1>2, <3>2, <4>1 DEF OutsideClosed, IsLocked
    <3> QED
      BY <3>1, <3>2
  <2> QED
    BY <1>1, <1>2, <2>1, <2>2 DEF IsLocked
<1>3. CASE req'[d] # req[d]
  <2>1. /\ book' = book /\ tx' = tx /\ OutsideClosed(req'[d].tx, {})
        /\ (req'[d].pc # "delete" /\ req'[d].row.period # Unfiled) => ~IsLocked(req'[d].row.period)
    BY <1>3, ChangingAfter
  <2>2. OutsideClosed(req[d].tx, overtaken[d])'
    BY <2>1 DEF OutsideClosed, IsLocked
  <2> QED
    BY <2>1, <2>2 DEF IsLocked
<1> QED
  BY <1>2, <1>3

\* Nothing enters, leaves or changes in a closed period but through a request
\* the close overtook, or one that takes out again what such a request brought
\* in since it read (transaction/service.go resolvePeriod, revise, Delete).
THEOREM ClosedPeriodsHold == Spec => OnlyOvertakenChangeClosed
<1> DEFINE Holds == \A p \in Ids : (p \in Existing /\ IsLocked(p) /\ book' = book /\ Totals(p)' # Totals(p))
             => \E c \in Clients :
                  /\ req'[c] # req[c]
                  /\ \/ p \in overtaken[c]
                     \/ req[c].tx \in overtaken[c] /\ Totals(p)' \subseteq Totals(p)
           Inv == BooksInv /\ FiledInv /\ OvertakenInv
<1>1. Init => FiledInv /\ OvertakenInv
  <2> SUFFICES ASSUME Init PROVE FiledInv /\ OvertakenInv
    OBVIOUS
  <2>1. \A c \in Clients : req[c].pc = "idle"
    BY IdleType DEF Init
  <2> QED
    BY <2>1 DEF Init, FiledInv, OvertakenInv, Changing
<1>2. BooksInv /\ FiledInv /\ [Next]_vars => FiledInv'
  BY FiledStep
<1>3. BooksInv /\ FiledInv /\ OvertakenInv /\ [Next]_vars => OvertakenInv'
  <2>1. CASE Next
    BY <2>1, OvertakenStep
  <2>2. CASE UNCHANGED vars
    BY <2>2 DEF vars, OvertakenInv, OutsideClosed, IsLocked
  <2> QED
    BY <2>1, <2>2
<1>4. Inv /\ [Next]_vars => [Holds]_vars
  <2> SUFFICES ASSUME Inv, Next, NEW p \in Ids, IsLocked(p), Totals(p)' # Totals(p)
               PROVE  \E c \in Clients :
                        /\ req'[c] # req[c]
                        /\ \/ p \in overtaken[c]
                           \/ req[c].tx \in overtaken[c] /\ Totals(p)' \subseteq Totals(p)
    OBVIOUS
  <2>0. TypeOK /\ p # Unfiled
    BY DEF BooksInv, Ids, Unfiled
  <2>1. tx' # tx
    BY DEF Totals, FiledIn
  <2>2. PICK c \in Clients, row \in Transaction \cup {NoRow} :
          /\ req[c].pc \in Changing /\ Done(c)
          /\ tx' = [tx EXCEPT ![req[c].tx] = row]
          /\ row # NoRow => req[c].pc # "delete" /\ row = req[c].row
    <3>1. ASSUME NEW c \in Clients, req[c].pc \in {"record", "revise"} PROVE req[c].row \in Transaction
      BY <3>1 DEF FiledInv, Changing
    <3> QED
      BY <2>1, <3>1, TxAfter DEF Changing
  <2> DEFINE t == req[c].tx
  <2>3. req'[c] # req[c] /\ t \in Txs
    BY <2>0, <2>2, IdleType DEF Done, Changing, TypeOK, FiledInv
  <2>4. SUFFICES ASSUME p \notin overtaken[c]
                 PROVE  t \in overtaken[c] /\ Totals(p)' \subseteq Totals(p)
    BY <2>3
  <2>5. row = NoRow \/ row.period # p
    BY <2>0, <2>2, <2>4 DEF OvertakenInv
  <2>6. \A u \in Txs : tx'[u] = IF u = t THEN row ELSE tx[u]
    BY <2>0, <2>2 DEF TypeOK
  <2>7. FiledIn(p)' \subseteq FiledIn(p) /\ \A u \in FiledIn(p)' : tx'[u] = tx[u]
    BY <2>5, <2>6 DEF FiledIn
  <2>8. Totals(p)' \subseteq Totals(p)
    BY <2>7 DEF Totals
  <2>9. t \in FiledIn(p)
    <3>1. SUFFICES ASSUME t \notin FiledIn(p) PROVE FALSE
      OBVIOUS
    <3>2. FiledIn(p) = FiledIn(p)'
      BY <2>5, <2>6, <2>7, <3>1 DEF FiledIn
    <3> QED
      BY <2>7, <3>2 DEF Totals
  <2>10. t \in overtaken[c]
    BY <2>0, <2>2, <2>4, <2>9 DEF OvertakenInv, OutsideClosed, FiledIn
  <2> QED
    BY <2>8, <2>10
<1>5. Spec => []Inv
  BY <1>1, <1>2, <1>3, TypeCorrect, PTL DEF Spec
<1> QED
  BY <1>4, <1>5, PTL DEF Spec, OnlyOvertakenChangeClosed
=============================================================================
