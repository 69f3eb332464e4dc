------------------------- MODULE OpensheetSyncProofs -------------------------
(***************************************************************************)
(* Theorems about OpensheetSync, for any number of rows, sheets, jobs,     *)
(* writers and managers, under every overlap of settings changes, writes,  *)
(* jobs, crashes and expired leases: its types, what a job may do to the   *)
(* link and to the attempts of a row, when two jobs may have one row, that *)
(* no row is missed and that a clean row is what the sheet shows.          *)
(***************************************************************************)
EXTENDS OpensheetSync, TLAPS

(* What the jobs, the writes and the requests hold *)

\* A write under way has rows no other one has, with room for one more edit.
WriterInv ==
  \A w \in Writers : writer[w].pc = "open" =>
    /\ writer[w].touched \cap writer[w].dropped = {}
    /\ \A r \in writer[w].touched : r \notin gone /\ row[r] < MaxEdits
    /\ \A r \in writer[w].dropped : Exists(r)
    /\ \A v \in Writers \ {w} : writer[v].pc = "open" =>
         (writer[w].touched \cup writer[w].dropped) \cap (writer[v].touched \cup writer[v].dropped) = {}

\* A settings request holds what it acts on.
RequestInv ==
  \A m \in Managers : request[m].pc = "loaded" =>
    IF request[m].kind = "save" THEN request[m].to \in Sheets ELSE request[m].copy \in Link

\* What a job holds is a row that was created, and a deletion it carries is one
\* that happened.
JobInv ==
  \A j \in Jobs : Holding(j) =>
    /\ job[j].row \in Rows /\ row[job[j].row] > 0
    /\ job[j].deleted => job[j].row \in gone

\* A lease is held by the job that has the row in hand, for a version the row
\* has not gone back behind, and what is leased is dirty and has attempts left.
LeaseInv ==
  \A r \in Rows : state[r] # NoState =>
    /\ row[r] > 0 /\ (state[r].deleted => r \in gone)
    /\ state[r].synced <= state[r].version
    /\ state[r].lease \in Jobs =>
         /\ Holding(state[r].lease) /\ job[state[r].lease].row = r
         /\ job[state[r].lease].version <= state[r].version
         /\ state[r].synced < state[r].version
         /\ state[r].attempts < MaxRowAttempts

\* The inductive invariant on which the others rest.
SyncInv == TypeOK /\ WriterInv /\ RequestInv /\ JobInv /\ LeaseInv

-----------------------------------------------------------------------------
(* The model's operators *)

LEMMA Bounds ==
  /\ {MaxEdits, MaxVersion, MaxStamp, MaxRefs, MaxPasses, MaxRowAttempts, DisableAfter} \subseteq Nat \ {0}
  /\ "none" \notin Jobs /\ "orphan" \notin Jobs
  BY OpensheetAssumption

LEMMA StateFields ==
  ASSUME NEW st \in State
  PROVE  /\ st # NoState
         /\ st.version \in 1..MaxVersion /\ st.synced \in 0..MaxVersion /\ st.deleted \in BOOLEAN
         /\ st.attempts \in 0..MaxRowAttempts /\ st.lease \in Jobs \cup {"none", "orphan"}
         /\ st.waiting \in BOOLEAN /\ st.lapsed \in BOOLEAN
  BY NoRowAssumption DEF State

\* What a mark leaves: one version more, fresh attempts, the lease as it was.
LEMMA MarkedFields ==
  ASSUME NEW st \in State \cup {NoState}, NEW dead \in BOOLEAN, st # NoState => st.version < MaxVersion
  PROVE  /\ Marked(st, dead) \in State
         /\ Marked(st, dead).attempts = 0 /\ ~Marked(st, dead).waiting
         /\ IF st = NoState
            THEN /\ Marked(st, dead).version = 1 /\ Marked(st, dead).synced = 0
                 /\ Marked(st, dead).lease = "none" /\ Marked(st, dead).deleted = dead
                 /\ ~Marked(st, dead).lapsed
            ELSE /\ Marked(st, dead).version = st.version + 1 /\ Marked(st, dead).synced = st.synced
                 /\ Marked(st, dead).lease = st.lease /\ Marked(st, dead).deleted = (st.deleted \/ dead)
                 /\ Marked(st, dead).lapsed = st.lapsed
<1>1. CASE st = NoState
  <2> DEFINE m == [version |-> 1, synced |-> 0, deleted |-> dead, attempts |-> 0,
                   lease |-> "none", lapsed |-> FALSE, waiting |-> FALSE]
  <2>1. Marked(st, dead) = m
    BY <1>1 DEF Marked
  <2>2. m \in State
    BY Bounds DEF State
  <2> QED
    BY <1>1, <2>1, <2>2
<1>2. CASE st # NoState
  <2> DEFINE m == [st EXCEPT !.version = st.version + 1, !.attempts = 0, !.waiting = FALSE,
                             !.deleted = st.deleted \/ dead]
  <2>1. Marked(st, dead) = m
    BY <1>2 DEF Marked
  <2>2. st.version + 1 \in 1..MaxVersion /\ 0 \in 0..MaxRowAttempts /\ (st.deleted \/ dead) \in BOOLEAN
    BY <1>2, StateFields, Bounds
  <2>3. m \in State /\ m.version = st.version + 1 /\ m.attempts = 0 /\ m.waiting = FALSE
          /\ m.deleted = (st.deleted \/ dead) /\ m.synced = st.synced /\ m.lease = st.lease
          /\ m.lapsed = st.lapsed
    BY <1>2, <2>2 DEF State
  <2> QED
    BY <1>2, <2>1, <2>3
<1> QED
  BY <1>1, <1>2

LEMMA SettledFields ==
  ASSUME NEW st \in State, NEW version \in 0..MaxVersion
  PROVE  /\ Settled(st, version) \in State
         /\ Settled(st, version).version = st.version /\ Settled(st, version).synced = version
         /\ Settled(st, version).lease = "none" /\ Settled(st, version).deleted = st.deleted
         /\ Settled(st, version).attempts = 0 /\ ~Settled(st, version).waiting
<1>1. 0 \in 0..MaxRowAttempts
  BY Bounds
<1> QED
  BY <1>1 DEF Settled, State

LEMMA ReleasedFields ==
  ASSUME NEW st \in State, NEW version, NEW result, st.attempts < MaxRowAttempts
  PROVE  /\ Released(st, version, result) \in State
         /\ Released(st, version, result).version = st.version
         /\ Released(st, version, result).synced = st.synced
         /\ Released(st, version, result).lease = "none"
         /\ Released(st, version, result).deleted = st.deleted
         /\ Released(st, version, result).attempts # st.attempts => result = "row" /\ st.version = version
         /\ Released(st, version, result).waiting # st.waiting => st.version = version
         /\ (st.version = version /\ Released(st, version, result).waiting) => result = "row"
<1> DEFINE a == IF result = "row" /\ st.version = version THEN st.attempts + 1 ELSE st.attempts
           b == IF st.version = version THEN result = "row" ELSE st.waiting
           s == [st EXCEPT !.lease = "none", !.lapsed = FALSE, !.attempts = a, !.waiting = b]
<1>1. Released(st, version, result) = s
  BY DEF Released
<1>2. a \in 0..MaxRowAttempts /\ b \in BOOLEAN
  <2>1. st.attempts \in 0..MaxRowAttempts /\ st.waiting \in BOOLEAN /\ MaxRowAttempts \in Nat
    BY StateFields, Bounds
  <2>2. a \in 0..MaxRowAttempts
    BY <2>1
  <2>3. b \in BOOLEAN
    BY <2>1
  <2> QED
    BY <2>2, <2>3
<1>3. (a # st.attempts => result = "row" /\ st.version = version)
      /\ (b # st.waiting => st.version = version) /\ (st.version = version /\ b => result = "row")
  OBVIOUS
<1> HIDE DEF a, b
<1>4. s \in State /\ s.version = st.version /\ s.synced = st.synced /\ s.lease = "none"
        /\ s.deleted = st.deleted /\ s.attempts = a /\ s.waiting = b
  BY <1>2 DEF State
<1> QED
  BY <1>1, <1>3, <1>4

\* A state row of which only the lease, or only the retry, changes.
Leased(st, l, b) == [st EXCEPT !.lease = l, !.lapsed = b]

LEMMA LeaseFields ==
  ASSUME NEW st \in State, NEW l \in Jobs \cup {"none", "orphan"}, NEW b \in BOOLEAN
  PROVE  /\ Leased(st, l, b) \in State /\ Leased(st, l, b).lease = l /\ Leased(st, l, b).lapsed = b
         /\ Leased(st, l, b).version = st.version /\ Leased(st, l, b).synced = st.synced
         /\ Leased(st, l, b).deleted = st.deleted /\ Leased(st, l, b).attempts = st.attempts
         /\ Leased(st, l, b).waiting = st.waiting
  BY DEF State, Leased

LEMMA WaitFields ==
  ASSUME NEW st \in State
  PROVE  /\ [st EXCEPT !.waiting = FALSE] \in State /\ [st EXCEPT !.waiting = FALSE].lease = st.lease
         /\ [st EXCEPT !.waiting = FALSE].version = st.version
         /\ [st EXCEPT !.waiting = FALSE].synced = st.synced
         /\ [st EXCEPT !.waiting = FALSE].deleted = st.deleted
         /\ [st EXCEPT !.waiting = FALSE].attempts = st.attempts
         /\ [st EXCEPT !.waiting = FALSE].waiting = FALSE
         /\ [st EXCEPT !.waiting = FALSE].lapsed = st.lapsed
  BY DEF State

LEMMA IdleFields ==
  /\ Idle \in Job /\ Idle.pc = "idle"
  /\ NoWrite \in Unit /\ NoWrite.pc = "idle"
  /\ NoRequest \in Request /\ NoRequest.pc = "idle"
<1>1. 0 \in 0..MaxPasses /\ 0 \in 0..MaxVersion /\ 0 \in 0..MaxStamp /\ Missing \in Cell
  BY Bounds DEF Missing, Cell
<1>2. Idle \in Job /\ Idle.pc = "idle"
  BY <1>1 DEF Idle, Job, Phases
<1>3. NoWrite \in Unit /\ NoWrite.pc = "idle"
  BY DEF NoWrite, Unit
<1>4. NoRequest \in Request /\ NoRequest.pc = "idle"
  BY DEF NoRequest, Request
<1> QED
  BY <1>2, <1>3, <1>4

LEMMA JobFields ==
  ASSUME TypeOK, NEW j \in Jobs
  PROVE  /\ job[j] \in Job /\ job[j].pc \in Phases /\ job[j].msg \in SUBSET Rows /\ job[j].todo \in SUBSET Rows
         /\ job[j].sheet \in Sheets \cup {NoLink} /\ job[j].stamp \in 0..MaxStamp /\ job[j].settled \in BOOLEAN
         /\ job[j].since \in {"none", "saved", "overwritten", "removed"} /\ job[j].ousted \in BOOLEAN
         /\ job[j].pass \in 0..MaxPasses /\ job[j].result \in {"ok", "row", "link", "transient"}
         /\ job[j].row \in Rows \cup {NoRow} /\ job[j].version \in 0..MaxVersion
         /\ job[j].deleted \in BOOLEAN /\ job[j].value \in Cell
  BY DEF TypeOK, Job

LEMMA LeaveFields ==
  ASSUME TypeOK, NEW j \in Jobs, NEW r
  PROVE  Leave(j, r) \in Job /\ Leave(j, r).pc = "next" /\ Leave(j, r).sheet = job[j].sheet
         /\ Leave(j, r).settled = job[j].settled /\ Leave(j, r).stamp = job[j].stamp
         /\ Leave(j, r).since = job[j].since
<1>1. 0 \in 0..MaxPasses /\ 0 \in 0..MaxVersion /\ Missing \in Cell /\ job[j].todo \ {r} \in SUBSET Rows
  BY Bounds, JobFields DEF Missing, Cell
<1>2. job[j] \in Job
  BY JobFields
<1> QED
  BY <1>1, <1>2 DEF Leave, Job, Phases

-----------------------------------------------------------------------------
(* What a step of a job does to the job and to the state rows *)

InHand == {"claimed", "read", "pushed"}

\* The job goes on with the row it has in hand, or without one.
Keeps(j, x) ==
  /\ state' = state
  /\ \/ ~Holding(j) /\ x.pc \notin InHand
     \/ /\ Holding(j) /\ x.pc \in InHand
        /\ x.row = job[j].row /\ x.version = job[j].version /\ x.deleted = job[j].deleted
        /\ x.ousted = job[j].ousted

\* The job takes a claimable row.
Takes(j, x) ==
  \E r \in Rows :
    /\ Claimable(state[r]) /\ ~Holding(j)
    /\ state' = [state EXCEPT ![r] = Leased(state[r], j, FALSE)]
    /\ x.pc = "claimed" /\ ~x.ousted /\ x.row = r /\ x.version = state[r].version /\ x.deleted = state[r].deleted

\* The job lets its row go: settled, released, or with a lease that must run
\* out. If the lease is not its own it leaves the state alone. A settle for a
\* sheet the link has left makes the row astray.
Drops(j, x) ==
  /\ Holding(j) /\ x.pc \notin InHand
  /\ IF Holds(j)
     THEN \E st \in State :
            /\ state' = [state EXCEPT ![job[j].row] = st]
            /\ st.lease \in {"none", "orphan"}
            /\ st.version = state[job[j].row].version /\ st.deleted = state[job[j].row].deleted
            /\ st.synced \in {state[job[j].row].synced, job[j].version}
            /\ \/ st.synced = state[job[j].row].synced
               \/ /\ job[j].pc = "pushed" /\ job[j].result = "ok"
                  /\ (link # NoLink /\ job[j].sheet # link.sheet) => job[j].row \in astray'
            /\ (st.attempts > state[job[j].row].attempts \/ (st.waiting /\ ~state[job[j].row].waiting))
                 => job[j].result = "row" /\ job[j].version = state[job[j].row].version
     ELSE state' = state

JobTurns(j) ==
  /\ row' = row /\ gone' = gone /\ writer' = writer /\ request' = request
  /\ \E x \in Job : job' = [job EXCEPT ![j] = x] /\ (Keeps(j, x) \/ Takes(j, x) \/ Drops(j, x))

LEMMA HeldState ==
  ASSUME SyncInv, NEW j \in Jobs, Holding(j), Holds(j)
  PROVE  /\ job[j].row \in Rows /\ state[job[j].row] \in State
         /\ state[job[j].row].attempts < MaxRowAttempts
         /\ state[job[j].row].synced < state[job[j].row].version
         /\ job[j].version <= state[job[j].row].version
  BY DEF SyncInv, TypeOK, JobInv, LeaseInv, Holds

LEMMA LoadShape ==
  ASSUME SyncInv, NEW j \in Jobs, NEW m \in queue, JobLoad(j, m)
  PROVE  JobTurns(j)
<1>0. TypeOK /\ job[j] \in Job /\ job[j].pc = "idle" /\ m \in SUBSET Rows
  BY JobFields DEF SyncInv, JobLoad, Active, TypeOK
<1>1. row' = row /\ gone' = gone /\ writer' = writer /\ request' = request /\ state' = state
  BY DEF JobLoad
<1>2. ~Holding(j)
  BY <1>0 DEF Holding
<1>3. CASE ~Enabled /\ UNCHANGED job
  <2>1. job' = [job EXCEPT ![j] = job[j]]
    BY <1>0, <1>3 DEF TypeOK
  <2> QED
    BY <1>0, <1>1, <1>2, <2>1 DEF JobTurns, Keeps, InHand
<1>4. ASSUME Enabled, NEW pc \in {"next", "ending"},
             job' = [job EXCEPT ![j] = [Idle EXCEPT
               !.pc = pc, !.msg = m, !.todo = m, !.sheet = link.sheet, !.stamp = link.stamp,
               !.result = IF pc = "next" THEN "ok" ELSE "link"]]
      PROVE  JobTurns(j)
  <2> DEFINE x == [Idle EXCEPT !.pc = pc, !.msg = m, !.todo = m, !.sheet = link.sheet, !.stamp = link.stamp,
                               !.result = IF pc = "next" THEN "ok" ELSE "link"]
  <2>1. link.sheet \in Sheets /\ link.stamp \in 0..MaxStamp
    BY <1>0, <1>4, Bounds DEF TypeOK, Enabled, Link
  <2>2. (IF pc = "next" THEN "ok" ELSE "link") \in {"ok", "row", "link", "transient"} /\ pc \in Phases
    BY DEF Phases
  <2>3. x \in Job /\ x.pc = pc
    BY <1>0, <2>1, <2>2, IdleFields DEF Job
  <2>4. x.pc \notin InHand
    BY <2>3 DEF InHand
  <2> QED
    BY <1>1, <1>2, <1>4, <2>3, <2>4 DEF JobTurns, Keeps
<1> QED
  BY <1>3, <1>4 DEF JobLoad

LEMMA ClaimShape ==
  ASSUME SyncInv, NEW j \in Jobs, NEW r \in Rows, JobClaim(j, r)
  PROVE  JobTurns(j)
<1>0. TypeOK /\ job[j] \in Job /\ job[j].pc = "next" /\ ~Holding(j)
  BY JobFields DEF SyncInv, JobClaim, Holding
<1>1. row' = row /\ gone' = gone /\ writer' = writer /\ request' = request
  BY DEF JobClaim
<1>2. CASE Claimable(state[r])
  <2> DEFINE x == [job[j] EXCEPT !.pc = "claimed", !.row = r, !.ousted = FALSE,
                                 !.version = state[r].version, !.deleted = state[r].deleted]
  <2>1. state[r] \in State
    BY <1>0, <1>2 DEF Claimable, Dirty, TypeOK
  <2>2. state[r].version \in 0..MaxVersion /\ state[r].deleted \in BOOLEAN
    BY <2>1, StateFields, Bounds
  <2>3. x \in Job /\ x.pc = "claimed" /\ x.row = r /\ x.version = state[r].version
          /\ x.deleted = state[r].deleted /\ x.ousted = FALSE
    BY <1>0, <2>2 DEF Job, Phases
  <2>4. state' = [state EXCEPT ![r] = Leased(state[r], j, FALSE)] /\ job' = [job EXCEPT ![j] = x]
    BY <1>0, <1>2 DEF JobClaim, Becomes, Leased, TypeOK
  <2>5. Takes(j, x)
    BY <1>0, <1>2, <2>3, <2>4 DEF Takes
  <2> QED
    BY <1>1, <2>3, <2>4, <2>5 DEF JobTurns
<1>3. CASE ~Claimable(state[r])
  <2>1. state' = state /\ job' = [job EXCEPT ![j] = Leave(j, r)]
    BY <1>3 DEF JobClaim, Becomes
  <2>2. Keeps(j, Leave(j, r))
    BY <1>0, <2>1, LeaveFields DEF Keeps, InHand
  <2> QED
    BY <1>0, <1>1, <2>1, <2>2, LeaveFields DEF JobTurns
<1> QED
  BY <1>2, <1>3

LEMMA ReadShape ==
  ASSUME SyncInv, NEW j \in Jobs, JobRead(j)
  PROVE  JobTurns(j)
<1>0. TypeOK /\ job[j] \in Job /\ job[j].pc = "claimed" /\ Holding(j) /\ job[j].row \in Rows
  BY JobFields DEF SyncInv, JobRead, Holding, JobInv
<1> DEFINE value == IF job[j].deleted \/ ~Exists(job[j].row) THEN Tombstone ELSE row[job[j].row]
           x == [job[j] EXCEPT !.pc = "read", !.value = value]
<1>1. value \in Cell
  <2>1. Tombstone \in Cell
    BY Bounds DEF Tombstone, Cell
  <2>2. row[job[j].row] \in Cell
    BY <1>0, Bounds DEF TypeOK, Cell
  <2> QED
    BY <2>1, <2>2
<1>2. job' = [job EXCEPT ![j] = x] /\ state' = state
      /\ row' = row /\ gone' = gone /\ writer' = writer /\ request' = request
  BY DEF JobRead, Becomes
<1> HIDE DEF value
<1>3. x \in Job /\ x.pc = "read" /\ x.row = job[j].row /\ x.version = job[j].version /\ x.deleted = job[j].deleted
      /\ x.ousted = job[j].ousted
  BY <1>0, <1>1 DEF Job, Phases
<1> QED
  BY <1>0, <1>2, <1>3 DEF JobTurns, Keeps, InHand

LEMMA PushShape ==
  ASSUME SyncInv, NEW j \in Jobs, NEW result \in {"ok", "row", "link", "transient"}, NEW lands \in BOOLEAN,
         JobPush(j, result, lands)
  PROVE  JobTurns(j)
<1>0. TypeOK /\ job[j] \in Job /\ job[j].pc = "read" /\ Holding(j)
  BY JobFields DEF SyncInv, JobPush, Holding
<1> DEFINE x == [job[j] EXCEPT !.pc = "pushed", !.result = result, !.value = Missing]
<1>1. Missing \in Cell
  BY Bounds DEF Missing, Cell
<1>2. job' = [job EXCEPT ![j] = x] /\ state' = state
      /\ row' = row /\ gone' = gone /\ writer' = writer /\ request' = request
  BY DEF JobPush, Becomes
<1>3. x \in Job /\ x.pc = "pushed" /\ x.row = job[j].row /\ x.version = job[j].version /\ x.deleted = job[j].deleted
      /\ x.ousted = job[j].ousted
  BY <1>0, <1>1 DEF Job, Phases
<1> QED
  BY <1>0, <1>2, <1>3 DEF JobTurns, Keeps, InHand

LEMMA SettleShape ==
  ASSUME SyncInv, NEW j \in Jobs, JobSettle(j)
  PROVE  JobTurns(j)
<1> DEFINE r == job[j].row
           again == Holds(j) /\ state[r].version > job[j].version /\ job[j].pass + 1 < MaxPasses
           y == IF again THEN [job[j] EXCEPT !.pc = "next", !.pass = @ + 1] ELSE Leave(j, r)
           x == [y EXCEPT !.settled = @ \/ Holds(j)]
<1>0. TypeOK /\ job[j] \in Job /\ job[j].pc = "pushed" /\ job[j].result = "ok" /\ Holding(j) /\ r \in Rows
  BY JobFields DEF SyncInv, JobSettle, Holding, JobInv
<1>1. job' = [job EXCEPT ![j] = x]
      /\ row' = row /\ gone' = gone /\ writer' = writer /\ request' = request
      /\ state' = IF Holds(j) THEN [state EXCEPT ![r] = Settled(state[r], job[j].version)] ELSE state
  BY DEF JobSettle, Becomes
<1>6. (Holds(j) /\ link # NoLink /\ job[j].sheet # link.sheet) => r \in astray'
  BY DEF JobSettle
<1>2. y \in Job /\ y.pc = "next"
  <2>1. CASE again
    <3>1. job[j].pass + 1 \in 0..MaxPasses
      BY <1>0, <2>1, JobFields, Bounds
    <3> QED
      BY <1>0, <2>1, <3>1 DEF Job, Phases
  <2>2. CASE ~again
    BY <1>0, <2>2, LeaveFields
  <2> QED
    BY <2>1, <2>2
<1> HIDE DEF y
<1>3. Holds(j) \in BOOLEAN
  BY DEF Holds
<1>4. x \in Job /\ x.pc = "next"
  BY <1>2, <1>3 DEF Job, Phases
<1>5. Drops(j, x)
  <2>1. x.pc \notin InHand
    BY <1>4 DEF InHand
  <2>2. CASE Holds(j)
    <3> DEFINE st == Settled(state[r], job[j].version)
    <3>1. state[r] \in State /\ job[j].version \in 0..MaxVersion /\ state[r].attempts \in Nat
      BY <1>0, <2>2, HeldState, JobFields, StateFields, Bounds
    <3>2. /\ st \in State /\ st.lease = "none" /\ st.version = state[r].version /\ st.deleted = state[r].deleted
          /\ st.synced = job[j].version /\ st.attempts = 0 /\ ~st.waiting
      BY <3>1, SettledFields
    <3>3. ~(st.attempts > state[r].attempts)
      BY <3>1, <3>2
    <3> HIDE DEF st
    <3> QED
      BY <1>0, <1>1, <1>6, <2>1, <2>2, <3>2, <3>3 DEF Drops, st
  <2>3. CASE ~Holds(j)
    BY <1>0, <1>1, <2>1, <2>3 DEF Drops
  <2> QED
    BY <2>2, <2>3
<1> QED
  BY <1>1, <1>4, <1>5 DEF JobTurns

\* A job that goes without a word leaves a lease that has to run out.
LEMMA OrphanShape ==
  ASSUME SyncInv, NEW j \in Jobs, state' = Orphaned(j), NEW x \in Job, x.pc \notin InHand
  PROVE  Keeps(j, x) \/ Drops(j, x)
<1>1. CASE ~Holding(j)
  BY <1>1 DEF Orphaned, Holding, Keeps
<1>2. CASE Holding(j) /\ ~Holds(j)
  BY <1>2 DEF Orphaned, Holding, Drops
<1>3. CASE Holding(j) /\ Holds(j)
  <2> DEFINE r == job[j].row
             l == IF state[r].lapsed THEN "none" ELSE "orphan"
             st == Leased(state[r], l, FALSE)
  <2>0. r \in Rows /\ TypeOK
    BY <1>3, HeldState DEF SyncInv
  <2>1. state' = [state EXCEPT ![r] = st]
    BY <1>3, <2>0 DEF Orphaned, Leased, TypeOK
  <2>2. state[r] \in State /\ state[r].attempts \in Nat
    BY <1>3, HeldState, StateFields, Bounds
  <2>3. l \in {"none", "orphan"}
    OBVIOUS
  <2> HIDE DEF l, r
  <2>4. Leased(state[r], l, FALSE) \in State /\ Leased(state[r], l, FALSE).lease = l
    BY <2>2, <2>3, LeaseFields, Zenon
  <2>5. /\ st.version = state[r].version
        /\ st.deleted = state[r].deleted /\ st.synced = state[r].synced
        /\ st.attempts = state[r].attempts /\ st.waiting = state[r].waiting
    BY <2>2, <2>3, LeaseFields, Zenon
  <2> HIDE DEF st
  <2>6. ~(st.attempts > state[r].attempts)
    BY <2>2, <2>5
  <2>7. st \in State /\ st.lease \in {"none", "orphan"}
    BY <2>3, <2>4 DEF st
  <2> QED
    BY <1>3, <2>1, <2>5, <2>6, <2>7 DEF Drops, r
<1> QED
  BY <1>1, <1>2, <1>3

LEMMA ReleaseShape ==
  ASSUME SyncInv, NEW j \in Jobs, NEW stored \in BOOLEAN, JobRelease(j, stored)
  PROVE  JobTurns(j)
<1> DEFINE r == job[j].row
           x == IF job[j].result = "row" THEN Leave(j, r) ELSE [job[j] EXCEPT !.pc = "ending"]
<1>0. TypeOK /\ job[j] \in Job /\ job[j].pc = "pushed" /\ Holding(j) /\ r \in Rows
  BY JobFields DEF SyncInv, JobRelease, Holding, JobInv
<1>1. /\ job' = [job EXCEPT ![j] = x]
      /\ row' = row /\ gone' = gone /\ writer' = writer /\ request' = request
      /\ \/ state' = IF Holds(j) THEN [state EXCEPT ![r] = Released(state[r], job[j].version, job[j].result)]
                     ELSE state
         \/ state' = Orphaned(j)
  BY DEF JobRelease, Becomes
<1>2. x \in Job /\ x.pc \notin InHand
  <2>1. CASE job[j].result = "row"
    BY <1>0, <2>1, LeaveFields DEF InHand
  <2>2. CASE job[j].result # "row"
    BY <1>0, <2>2 DEF Job, Phases, InHand
  <2> QED
    BY <2>1, <2>2
<1> HIDE DEF x
<1>3. CASE state' = Orphaned(j)
  BY <1>1, <1>2, <1>3, OrphanShape DEF JobTurns
<1>4. CASE state' = IF Holds(j) THEN [state EXCEPT ![r] = Released(state[r], job[j].version, job[j].result)]
                    ELSE state
  <2>1. CASE Holds(j)
    <3> DEFINE st == Released(state[r], job[j].version, job[j].result)
    <3>1. state[r] \in State /\ state[r].attempts < MaxRowAttempts /\ state[r].attempts \in Nat
          /\ state[r].waiting \in BOOLEAN
      BY <1>0, <2>1, HeldState, StateFields, Bounds
    <3>2. /\ st \in State /\ st.lease = "none" /\ st.version = state[r].version
          /\ st.deleted = state[r].deleted /\ st.synced = state[r].synced
          /\ st.attempts # state[r].attempts => job[j].result = "row" /\ state[r].version = job[j].version
          /\ st.waiting # state[r].waiting => state[r].version = job[j].version
          /\ (state[r].version = job[j].version /\ st.waiting) => job[j].result = "row"
      BY <3>1, ReleasedFields
    <3> HIDE DEF st
    <3>3. st.attempts > state[r].attempts => st.attempts # state[r].attempts
      BY <3>1, <3>2, StateFields, Bounds
    <3>4. (st.attempts > state[r].attempts \/ (st.waiting /\ ~state[r].waiting))
            => job[j].result = "row" /\ job[j].version = state[r].version
      BY <3>2, <3>3
    <3>5. Drops(j, x)
      BY <1>0, <1>2, <1>4, <2>1, <3>2, <3>4 DEF Drops, st
    <3> QED
      BY <1>1, <1>2, <3>5 DEF JobTurns
  <2>2. CASE ~Holds(j)
    BY <1>0, <1>1, <1>2, <1>4, <2>2 DEF JobTurns, Drops
  <2> QED
    BY <2>1, <2>2
<1> QED
  BY <1>1, <1>3, <1>4

LEMMA StoreFailsShape ==
  ASSUME SyncInv, NEW j \in Jobs, JobStoreFails(j)
  PROVE  JobTurns(j)
<1> DEFINE x == [job[j] EXCEPT !.pc = "ending", !.result = "transient"]
<1>1. /\ job' = [job EXCEPT ![j] = x] /\ state' = Orphaned(j)
      /\ row' = row /\ gone' = gone /\ writer' = writer /\ request' = request
  BY DEF JobStoreFails, Becomes
<1>2. TypeOK /\ job[j] \in Job
  BY JobFields DEF SyncInv
<1>3. x \in Job /\ x.pc \notin InHand
  BY <1>2 DEF Job, Phases, InHand
<1> QED
  BY <1>1, <1>3, OrphanShape DEF JobTurns

LEMMA EndShape ==
  ASSUME SyncInv, NEW j \in Jobs, JobEnd(j)
  PROVE  JobTurns(j)
<1>1. /\ job' = [job EXCEPT ![j] = Idle] /\ state' = state
      /\ row' = row /\ gone' = gone /\ writer' = writer /\ request' = request
  BY DEF JobEnd
<1>2. ~Holding(j)
  BY DEF JobEnd, Holding
<1> QED
  BY <1>1, <1>2, IdleFields DEF JobTurns, Keeps, InHand

LEMMA CrashShape ==
  ASSUME SyncInv, NEW j \in Jobs, JobCrash(j)
  PROVE  JobTurns(j)
<1>1. /\ job' = [job EXCEPT ![j] = Idle] /\ state' = Orphaned(j)
      /\ row' = row /\ gone' = gone /\ writer' = writer /\ request' = request
  BY DEF JobCrash
<1>2. Idle \in Job /\ Idle.pc \notin InHand
  BY IdleFields DEF InHand
<1> QED
  BY <1>1, <1>2, OrphanShape DEF JobTurns

LEMMA JobShape ==
  ASSUME SyncInv, NEW j \in Jobs, JobStep(j) \/ JobCrash(j)
  PROVE  JobTurns(j)
  BY LoadShape, ClaimShape, ReadShape, PushShape, SettleShape, ReleaseShape, StoreFailsShape, EndShape,
     CrashShape DEF JobStep

-----------------------------------------------------------------------------
(* What the other steps do to the state rows *)

\* A state row is left, taken away from under its job, marked, or its lease or
\* its retry runs out.
RowTurns(r) ==
  \/ state'[r] = state[r]
  \/ state'[r] = NoState /\ \A j \in Jobs : Holding(j) => job'[j].ousted
  \/ \E dead \in BOOLEAN :
       /\ state[r] # NoState => state[r].version < MaxVersion
       /\ state'[r] = Marked(state[r], dead)
       /\ row'[r] > 0 /\ (dead => r \in gone')
  \/ /\ state[r] # NoState /\ state[r].lease = "orphan"
     /\ state'[r] = Leased(state[r], "none", state[r].lapsed)
  \/ /\ state[r] # NoState /\ state[r].lease \in Jobs
     /\ state'[r] = Leased(state[r], state[r].lease, TRUE) /\ job'[state[r].lease].ousted
  \/ state[r] # NoState /\ state'[r] = [state[r] EXCEPT !.waiting = FALSE]

\* A job whose settings change, or whose lease runs out, under it.
Ages(j) ==
  \E a \in {"none", "saved", "overwritten", "removed"}, b \in BOOLEAN :
    (job[j].ousted => b) /\ job'[j] = [job[j] EXCEPT !.since = a, !.ousted = b]

\* The jobs stay where they are, and no row is taken back.
OthersTurn ==
  /\ state' = [r \in Rows |-> state'[r]] /\ \A r \in Rows : RowTurns(r)
  /\ \A r \in Rows : row'[r] >= row[r]
  /\ gone \subseteq gone'
  /\ job' = [j \in Jobs |-> job'[j]] /\ \A j \in Jobs : Ages(j)

LEMMA OutdatedAges ==
  ASSUME TypeOK, NEW change \in {"saved", "overwritten", "removed"}, NEW j \in Jobs
  PROVE  \E a \in {"none", "saved", "overwritten", "removed"} :
           Outdated(change)[j] = [job[j] EXCEPT !.since = a]
<1> DEFINE worse == [saved |-> {"overwritten", "removed"}, overwritten |-> {"removed"}, removed |-> {}]
<1>1. Outdated(change)[j] = IF ~Active(j) \/ job[j].since \in worse[change] THEN job[j]
                            ELSE [job[j] EXCEPT !.since = change]
  BY DEF Outdated
<1>2. job[j] = [job[j] EXCEPT !.since = job[j].since] /\ job[j].since \in {"none", "saved", "overwritten", "removed"}
  BY JobFields DEF Job
<1> HIDE DEF worse
<1> QED
  BY <1>1, <1>2

\* Jobs that a settings change leaves, at most, with outdated settings.
LEMMA JobsAge ==
  ASSUME TypeOK, job' = job \/ \E change \in {"saved", "overwritten", "removed"} : job' = Outdated(change)
  PROVE  job' = [j \in Jobs |-> job'[j]] /\ \A j \in Jobs : Ages(j)
<1>1. job' = [j \in Jobs |-> job'[j]]
  BY DEF TypeOK, Outdated
<1>2. ASSUME NEW j \in Jobs PROVE Ages(j)
  <2>1. \E a \in {"none", "saved", "overwritten", "removed"} : job'[j] = [job[j] EXCEPT !.since = a]
    <3>1. CASE job' = job
      <4>1. job[j] = [job[j] EXCEPT !.since = job[j].since] /\ job[j].since \in {"none", "saved", "overwritten", "removed"}
        BY JobFields DEF Job
      <4> QED
        BY <3>1, <4>1
    <3>2. ASSUME NEW change \in {"saved", "overwritten", "removed"}, job' = Outdated(change)
          PROVE  \E a \in {"none", "saved", "overwritten", "removed"} : job'[j] = [job[j] EXCEPT !.since = a]
      BY <3>2, OutdatedAges
    <3> QED
      BY <3>1, <3>2
  <2> PICK a \in {"none", "saved", "overwritten", "removed"} : job'[j] = [job[j] EXCEPT !.since = a]
    BY <2>1
  <2>2. job[j] \in Job /\ job[j].ousted \in BOOLEAN
    BY JobFields
  <2>3. job'[j] = [job[j] EXCEPT !.since = a, !.ousted = job[j].ousted]
    BY <2>2 DEF Job
  <2> QED
    BY <2>2, <2>3 DEF Ages
<1> QED
  BY <1>1, <1>2

\* Steps that are not a job's leave every job with what it has in hand.
LEMMA JobsStay ==
  ASSUME TypeOK, job' = [j \in Jobs |-> job'[j]], \A j \in Jobs : Ages(j)
  PROVE  /\ job' \in [Jobs -> Job]
         /\ \A j \in Jobs : /\ job'[j].pc = job[j].pc /\ job'[j].row = job[j].row
                            /\ job'[j].version = job[j].version /\ job'[j].deleted = job[j].deleted
                            /\ job'[j].sheet = job[j].sheet /\ job'[j].result = job[j].result
                            /\ job'[j].value = job[j].value /\ job'[j].stamp = job[j].stamp
                            /\ job[j].ousted => job'[j].ousted
                            /\ Holding(j)' = Holding(j)
<1>1. ASSUME NEW j \in Jobs
      PROVE  /\ job'[j] \in Job /\ job'[j].pc = job[j].pc /\ job'[j].row = job[j].row
             /\ job'[j].version = job[j].version /\ job'[j].deleted = job[j].deleted
             /\ job'[j].sheet = job[j].sheet /\ job'[j].result = job[j].result
             /\ job'[j].value = job[j].value /\ job'[j].stamp = job[j].stamp
             /\ job[j].ousted => job'[j].ousted
  <2> PICK a \in {"none", "saved", "overwritten", "removed"}, b \in BOOLEAN :
        (job[j].ousted => b) /\ job'[j] = [job[j] EXCEPT !.since = a, !.ousted = b]
    BY DEF Ages
  <2> QED
    BY JobFields DEF Job
<1> QED
  BY <1>1 DEF Holding

\* A state row that is not a job's doing: what it keeps of the one before it.
LEMMA RowTurnsFields ==
  ASSUME SyncInv, NEW r \in Rows, RowTurns(r), row'[r] >= row[r], row'[r] \in Nat, gone \subseteq gone'
  PROVE  /\ state'[r] \in State \cup {NoState}
         /\ state'[r] # NoState =>
              /\ row'[r] > 0 /\ (state'[r].deleted => r \in gone')
              /\ state'[r].synced <= state'[r].version
              /\ state[r] = NoState => state'[r].lease = "none" /\ state'[r].synced < state'[r].version
              /\ state[r] # NoState =>
                   /\ state'[r].lease = state[r].lease
                        \/ (state[r].lease = "orphan" /\ state'[r].lease = "none")
                   /\ state'[r].synced = state[r].synced /\ state'[r].version >= state[r].version
                   /\ state'[r].attempts <= state[r].attempts
                   /\ state'[r].waiting => state[r].waiting
                   /\ state'[r].lapsed => state[r].lapsed
                                            \/ (state[r].lease \in Jobs /\ job'[state[r].lease].ousted)
<1> DEFINE s == state[r]
           t == state'[r]
           Goal == /\ t \in State \cup {NoState}
                   /\ t # NoState =>
                      /\ row'[r] > 0 /\ (t.deleted => r \in gone')
                      /\ t.synced <= t.version
                      /\ s = NoState => t.lease = "none" /\ t.synced < t.version
                      /\ s # NoState =>
                           /\ t.lease = s.lease \/ (s.lease = "orphan" /\ t.lease = "none")
                           /\ t.synced = s.synced /\ t.version >= s.version
                           /\ t.attempts <= s.attempts
                           /\ t.waiting => s.waiting
                           /\ t.lapsed => s.lapsed \/ (s.lease \in Jobs /\ job'[s.lease].ousted)
<1> SUFFICES Goal
  OBVIOUS
<1>0. s \in State \cup {NoState} /\ row[r] \in Nat
  BY Bounds DEF SyncInv, TypeOK
<1>1. ASSUME s # NoState
      PROVE  /\ s \in State /\ row[r] > 0 /\ (s.deleted => r \in gone) /\ s.synced <= s.version
             /\ s.synced \in Nat /\ s.version \in Nat /\ s.attempts \in Nat
  <2>1. s \in State /\ row[r] > 0 /\ (s.deleted => r \in gone) /\ s.synced <= s.version
    BY <1>0, <1>1 DEF SyncInv, LeaseInv
  <2> QED
    BY <2>1, StateFields, Bounds
<1>2. CASE t = s
  <2>1. CASE s = NoState
    BY <1>2, <2>1
  <2>2. CASE s # NoState
    BY <1>0, <1>1, <1>2, <2>2
  <2> QED
    BY <2>1, <2>2
<1>3. CASE t = NoState
  BY <1>3
<1>4. ASSUME NEW dead \in BOOLEAN, s # NoState => s.version < MaxVersion, t = Marked(s, dead),
             row'[r] > 0, dead => r \in gone'
      PROVE  Goal
  <2>1. /\ t \in State /\ t.attempts = 0 /\ ~t.waiting
        /\ s = NoState => t.version = 1 /\ t.synced = 0 /\ t.lease = "none" /\ t.deleted = dead
        /\ s # NoState => t.version = s.version + 1 /\ t.synced = s.synced /\ t.lease = s.lease
                          /\ t.deleted = (s.deleted \/ dead) /\ t.lapsed = s.lapsed
    BY <1>0, <1>4, MarkedFields
  <2> HIDE DEF s, t
  <2>2. CASE s = NoState
    BY <2>1, <2>2, <1>4
  <2>3. CASE s # NoState
    <3>1. t.synced <= t.version /\ t.version >= s.version /\ t.attempts <= s.attempts
      BY <2>1, <2>3, <1>1
    <3>2. t.deleted => r \in gone'
      BY <2>1, <2>3, <1>1, <1>4
    <3> QED
      BY <1>4, <2>1, <2>3, <3>1, <3>2
  <2> QED
    BY <2>2, <2>3
<1>5. ASSUME s # NoState, NEW l \in Jobs \cup {"none", "orphan"}, NEW b \in BOOLEAN, t = Leased(s, l, b),
             l = s.lease \/ (s.lease = "orphan" /\ l = "none"),
             b => s.lapsed \/ (s.lease \in Jobs /\ job'[s.lease].ousted)
      PROVE  Goal
  <2>1. /\ t \in State /\ t.lease = l /\ t.version = s.version /\ t.synced = s.synced
        /\ t.deleted = s.deleted /\ t.attempts = s.attempts /\ t.waiting = s.waiting /\ t.lapsed = b
    <3>1. s \in State /\ t = Leased(s, l, b)
      BY <1>1, <1>5
    <3> HIDE DEF s, t
    <3> QED
      BY <3>1, LeaseFields
  <2>2. row'[r] > 0
    BY <1>0, <1>1, <1>5
  <2> HIDE DEF s, t
  <2>3. t.synced <= t.version /\ t.version >= s.version /\ t.attempts <= s.attempts
    BY <1>1, <1>5, <2>1
  <2>4. (t.deleted => r \in gone') /\ (t.waiting => s.waiting)
    BY <1>1, <1>5, <2>1
  <2> QED
    BY <1>5, <2>1, <2>2, <2>3, <2>4
<1>6. CASE s # NoState /\ t = [s EXCEPT !.waiting = FALSE]
  <2>1. /\ t \in State /\ t.lease = s.lease /\ t.version = s.version /\ t.synced = s.synced
        /\ t.deleted = s.deleted /\ t.attempts = s.attempts /\ t.waiting = FALSE /\ t.lapsed = s.lapsed
    BY <1>1, <1>6, WaitFields
  <2>2. row'[r] > 0
    BY <1>0, <1>1, <1>6
  <2> HIDE DEF s, t
  <2>3. t.synced <= t.version /\ t.version >= s.version /\ t.attempts <= s.attempts
    BY <1>1, <1>6, <2>1
  <2>4. (t.deleted => r \in gone') /\ (t.waiting => s.waiting)
    BY <1>1, <1>6, <2>1
  <2> QED
    BY <1>6, <2>1, <2>2, <2>3, <2>4
<1> HIDE DEF Goal
<1>7. CASE \E dead \in BOOLEAN :
             /\ s # NoState => s.version < MaxVersion
             /\ t = Marked(s, dead)
             /\ row'[r] > 0 /\ (dead => r \in gone')
  BY <1>4, <1>7
<1>8. CASE s # NoState /\ s.lease = "orphan" /\ t = Leased(s, "none", s.lapsed)
  BY <1>1, <1>5, <1>8, StateFields
<1>9. CASE s # NoState /\ s.lease \in Jobs /\ t = Leased(s, s.lease, TRUE) /\ job'[s.lease].ousted
  BY <1>1, <1>5, <1>9, StateFields
<1> QED
  BY <1>2, <1>3, <1>6, <1>7, <1>8, <1>9 DEF RowTurns

\* Whatever is not a job's step keeps leases with the jobs that hold them.
LEMMA OthersKeep ==
  ASSUME SyncInv, OthersTurn, row' \in [Rows -> 0..MaxEdits]
  PROVE  state' \in [Rows -> State \cup {NoState}] /\ job' \in [Jobs -> Job] /\ JobInv' /\ LeaseInv'
<1>0. TypeOK /\ gone \subseteq gone' /\ job' = [j \in Jobs |-> job'[j]] /\ \A j \in Jobs : Ages(j)
  BY DEF SyncInv, OthersTurn
<1>1. ASSUME NEW r \in Rows
      PROVE  row'[r] >= row[r] /\ row'[r] \in Nat /\ row[r] \in Nat /\ RowTurns(r)
  BY <1>0, Bounds DEF OthersTurn, TypeOK
<1>2. state' \in [Rows -> State \cup {NoState}]
  <2>1. \A r \in Rows : state'[r] \in State \cup {NoState}
    BY <1>0, <1>1, RowTurnsFields
  <2>2. state' = [r \in Rows |-> state'[r]]
    BY DEF OthersTurn
  <2> QED
    BY <2>1, <2>2
<1>3. job' \in [Jobs -> Job]
  BY <1>0, JobsStay
<1>4. JobInv'
  <2> SUFFICES ASSUME NEW j \in Jobs, Holding(j)'
               PROVE  /\ job'[j].row \in Rows /\ row'[job'[j].row] > 0
                      /\ job'[j].deleted => job'[j].row \in gone'
    BY DEF JobInv
  <2>1. Holding(j) /\ job'[j].row = job[j].row /\ job'[j].deleted = job[j].deleted
    BY <1>0, JobsStay
  <2>2. job[j].row \in Rows /\ row[job[j].row] > 0 /\ (job[j].deleted => job[j].row \in gone)
    BY <2>1 DEF SyncInv, JobInv
  <2>3. row'[job[j].row] > 0
    BY <1>1, <2>2
  <2> QED
    BY <1>0, <2>1, <2>2, <2>3
<1>5. LeaseInv'
  <2> SUFFICES ASSUME NEW r \in Rows, state'[r] # NoState
               PROVE  /\ row'[r] > 0 /\ (state'[r].deleted => r \in gone')
                      /\ state'[r].synced <= state'[r].version
                      /\ \A i \in Jobs : state'[r].lease = i =>
                           /\ Holding(i)' /\ job'[i].row = r
                           /\ job'[i].version <= state'[r].version
                           /\ state'[r].synced < state'[r].version
                           /\ state'[r].attempts < MaxRowAttempts
    BY DEF LeaseInv, Holding
  <2>1. /\ row'[r] > 0 /\ (state'[r].deleted => r \in gone')
        /\ state'[r].synced <= state'[r].version /\ state'[r] \in State
    BY <1>0, <1>1, RowTurnsFields
  <2>2. ASSUME state'[r].lease \in Jobs
        PROVE  /\ state[r] # NoState /\ state[r].lease = state'[r].lease
               /\ state'[r].synced = state[r].synced /\ state'[r].version >= state[r].version
               /\ state'[r].attempts <= state[r].attempts
    BY <1>0, <1>1, <2>2, RowTurnsFields, Bounds
  <2>3. ASSUME NEW i \in Jobs, state'[r].lease = i
        PROVE  /\ Holding(i)' /\ job'[i].row = r
               /\ job'[i].version <= state'[r].version
               /\ state'[r].synced < state'[r].version
               /\ state'[r].attempts < MaxRowAttempts
    <3>1. state[r] \in State /\ state'[r] \in State /\ job[i].version \in 0..MaxVersion
      BY <1>0, <1>2, <2>2, <2>3, JobFields DEF TypeOK
    <3>2. /\ Holding(i) /\ job[i].row = r /\ job[i].version <= state[r].version
          /\ state[r].synced < state[r].version /\ state[r].attempts < MaxRowAttempts
      BY <2>2, <2>3 DEF SyncInv, LeaseInv
    <3>3. Holding(i)' /\ job'[i].row = r /\ job'[i].version = job[i].version
      BY <1>0, <3>2, JobsStay
    <3>4. state[r].version \in Int /\ state'[r].version \in Int /\ state[r].attempts \in Int
          /\ state'[r].attempts \in Int /\ state[r].synced \in Int /\ job[i].version \in Int /\ MaxRowAttempts \in Int
      BY <3>1, StateFields, Bounds
    <3> QED
      BY <2>2, <2>3, <3>2, <3>3, <3>4
  <2> QED
    BY <2>1, <2>3
<1> QED
  BY <1>2, <1>3, <1>4, <1>5

LEMMA JobTurnsKeep ==
  ASSUME SyncInv, NEW j \in Jobs, JobTurns(j)
  PROVE  state' \in [Rows -> State \cup {NoState}] /\ job' \in [Jobs -> Job] /\ JobInv' /\ LeaseInv'
<1>0. TypeOK /\ row' = row /\ gone' = gone
  BY DEF SyncInv, JobTurns
<1> PICK x \in Job : job' = [job EXCEPT ![j] = x] /\ (Keeps(j, x) \/ Takes(j, x) \/ Drops(j, x))
  BY DEF JobTurns
<1>1. job' \in [Jobs -> Job] /\ job'[j] = x /\ \A i \in Jobs \ {j} : job'[i] = job[i]
  BY <1>0 DEF TypeOK
<1>2. \A i \in Jobs \ {j} : Holding(i)' = Holding(i)
  BY <1>1 DEF Holding
<1>3. Holding(j)' = (x.pc \in InHand)
  BY <1>1 DEF Holding, InHand
<1>4. ASSUME x.pc \in InHand => x.row \in Rows /\ row[x.row] > 0 /\ (x.deleted => x.row \in gone)
      PROVE  JobInv'
  <2> SUFFICES ASSUME NEW i \in Jobs, Holding(i)'
               PROVE  /\ job'[i].row \in Rows /\ row'[job'[i].row] > 0
                      /\ job'[i].deleted => job'[i].row \in gone'
    BY DEF JobInv
  <2>1. CASE i = j
    BY <1>0, <1>1, <1>3, <1>4, <2>1
  <2>2. CASE i # j
    BY <1>0, <1>1, <1>2, <2>2 DEF SyncInv, JobInv
  <2> QED
    BY <2>1, <2>2
<1> DEFINE Lent(r, st, i) == /\ Holding(i)' /\ job'[i].row = r /\ job'[i].version <= st.version
                               /\ st.synced < st.version /\ st.attempts < MaxRowAttempts
           Fine(r, st) == /\ row[r] > 0 /\ (st.deleted => r \in gone) /\ st.synced <= st.version
                          /\ \A i \in Jobs : st.lease = i => Lent(r, st, i)
<1>5. ASSUME \A r \in Rows : state'[r] # NoState => Fine(r, state'[r])
      PROVE  LeaseInv'
  BY <1>0, <1>5 DEF LeaseInv, Holding
<1>6. ASSUME NEW r \in Rows, state[r] # NoState, state[r].lease # j
      PROVE  Fine(r, state[r])
  <2>1. ASSUME NEW i \in Jobs, state[r].lease = i PROVE Lent(r, state[r], i)
    <3>1. i \in Jobs \ {j} /\ Holding(i) /\ job[i].row = r /\ job[i].version <= state[r].version
          /\ state[r].synced < state[r].version /\ state[r].attempts < MaxRowAttempts
      BY <1>6, <2>1 DEF SyncInv, LeaseInv
    <3> QED
      BY <1>1, <1>2, <3>1
  <2>2. row[r] > 0 /\ (state[r].deleted => r \in gone) /\ state[r].synced <= state[r].version
    BY <1>6 DEF SyncInv, LeaseInv
  <2> QED
    BY <2>1, <2>2
<1>7. \A r \in Rows : (state[r] # NoState /\ state[r].lease = j) => Holding(j) /\ job[j].row = r
  BY DEF SyncInv, LeaseInv
<1>8. CASE Keeps(j, x)
  <2>1. state' = state
    BY <1>8 DEF Keeps
  <2>2. JobInv'
    BY <1>4, <1>8 DEF Keeps, SyncInv, JobInv
  <2>3. ASSUME NEW r \in Rows, state[r] # NoState, state[r].lease = j
        PROVE  Fine(r, state[r])
    <3>1. Holding(j) /\ job[j].row = r /\ job[j].version <= state[r].version
          /\ state[r].synced < state[r].version /\ state[r].attempts < MaxRowAttempts
          /\ row[r] > 0 /\ (state[r].deleted => r \in gone) /\ state[r].synced <= state[r].version
      BY <2>3 DEF SyncInv, LeaseInv
    <3>2. Holding(j)' /\ job'[j].row = r /\ job'[j].version = job[j].version
      BY <1>1, <1>3, <1>8, <3>1 DEF Keeps
    <3> QED
      BY <2>3, <3>1, <3>2
  <2>4. LeaseInv'
    <3>1. \A r \in Rows : state'[r] # NoState => Fine(r, state'[r])
      BY <1>6, <2>1, <2>3
    <3> QED
      BY <1>5, <3>1
  <2> QED
    BY <1>0, <1>1, <2>1, <2>2, <2>4 DEF TypeOK
<1>9. ASSUME NEW r \in Rows, Claimable(state[r]), ~Holding(j),
             state' = [state EXCEPT ![r] = Leased(state[r], j, FALSE)],
             x.pc = "claimed", x.row = r, x.version = state[r].version, x.deleted = state[r].deleted
      PROVE  state' \in [Rows -> State \cup {NoState}] /\ JobInv' /\ LeaseInv'
  <2> DEFINE st == Leased(state[r], j, FALSE)
  <2>1. state[r] \in State /\ state[r].synced < state[r].version /\ state[r].attempts < MaxRowAttempts
    BY <1>0, <1>9 DEF Claimable, Dirty, TypeOK
  <2>2. /\ st \in State /\ st.lease = j /\ st.version = state[r].version /\ st.synced = state[r].synced
        /\ st.deleted = state[r].deleted /\ st.attempts = state[r].attempts
    BY <2>1, LeaseFields, Zenon
  <2> HIDE DEF st
  <2>3. state' = [state EXCEPT ![r] = st]
    BY <1>9 DEF st
  <2>4. state' \in [Rows -> State \cup {NoState}] /\ state'[r] = st /\ \A q \in Rows \ {r} : state'[q] = state[q]
    BY <1>0, <2>2, <2>3 DEF TypeOK
  <2>5. row[r] > 0 /\ (state[r].deleted => r \in gone) /\ state[r].synced <= state[r].version
    BY <2>1, StateFields DEF SyncInv, LeaseInv
  <2>6. JobInv'
    BY <1>4, <1>9, <2>5
  <2>7. Fine(r, st)
    <3>1. Holding(j)' /\ job'[j].row = r /\ job'[j].version = st.version
      BY <1>1, <1>3, <1>9, <2>2 DEF InHand
    <3>2. st.version <= st.version
      BY <2>2, StateFields
    <3> QED
      BY <2>1, <2>2, <2>5, <3>1, <3>2
  <2>8. \A q \in Rows : state'[q] # NoState => Fine(q, state'[q])
    BY <1>6, <1>7, <1>9, <2>4, <2>7
  <2> QED
    BY <1>5, <2>4, <2>6, <2>8
<1>10. CASE Drops(j, x)
  <2>1. JobInv'
    BY <1>4, <1>10 DEF Drops
  <2>2. CASE ~Holds(j)
    <3>1. state' = state
      BY <1>10, <2>2 DEF Drops
    <3>2. \A r \in Rows : state[r] # NoState => state[r].lease # j
      BY <1>7, <2>2 DEF Holds
    <3>3. \A r \in Rows : state'[r] # NoState => Fine(r, state'[r])
      BY <1>6, <3>1, <3>2
    <3> QED
      BY <1>0, <1>1, <1>5, <2>1, <3>1, <3>3 DEF TypeOK
  <2>3. CASE Holds(j)
    <3> DEFINE r == job[j].row
    <3> PICK st \in State :
          /\ state' = [state EXCEPT ![r] = st] /\ st.lease \in {"none", "orphan"}
          /\ st.version = state[r].version /\ st.deleted = state[r].deleted
          /\ st.synced \in {state[r].synced, job[j].version}
      BY <1>10, <2>3 DEF Drops
    <3>1. /\ r \in Rows /\ state[r] \in State /\ state[r].synced < state[r].version
          /\ job[j].version <= state[r].version
      BY <1>10, <2>3, HeldState DEF Drops
    <3>2. state' \in [Rows -> State \cup {NoState}] /\ state'[r] = st /\ \A q \in Rows \ {r} : state'[q] = state[q]
      BY <1>0, <3>1 DEF TypeOK
    <3>3. row[r] > 0 /\ (state[r].deleted => r \in gone)
      BY <3>1, StateFields DEF SyncInv, LeaseInv
    <3>4. st.synced <= st.version
      BY <3>1, StateFields
    <3>5. Fine(r, st)
      BY <3>3, <3>4, Bounds
    <3>6. \A q \in Rows : state'[q] # NoState => Fine(q, state'[q])
      BY <1>6, <1>7, <3>2, <3>5
    <3> QED
      BY <1>1, <1>5, <2>1, <3>2, <3>6
  <2> QED
    BY <2>2, <2>3
<1>11. CASE Takes(j, x)
  BY <1>1, <1>9, <1>11 DEF Takes
<1> QED
  BY <1>8, <1>10, <1>11

-----------------------------------------------------------------------------
(* Every step keeps the invariant *)

LEMMA UnitFields ==
  ASSUME TypeOK, NEW w \in Writers
  PROVE  /\ writer[w].pc \in {"idle", "open"} /\ writer[w].touched \in SUBSET Rows
         /\ writer[w].dropped \in SUBSET Rows /\ writer[w].saw \in {"none", "off", "on"} /\ writer[w].locked \in BOOLEAN
  BY DEF TypeOK, Unit

LEMMA SubmitType ==
  ASSUME queue \subseteq SUBSET Rows, NEW S \in SUBSET Rows, Submit(S)
  PROVE  queue' \subseteq SUBSET Rows
  BY DEF Submit, FirstOf

\* A settings request or a sync by hand marks every row there is.
LEMMA MarkAllTurns ==
  ASSUME SyncInv, CanMark(BackfillRows), state' = MarkAll, row' = row, gone' = gone
  PROVE  state' = [r \in Rows |-> state'[r]] /\ \A r \in Rows : RowTurns(r)
<1>1. state' = [r \in Rows |-> state'[r]]
  BY DEF MarkAll
<1>2. ASSUME NEW r \in Rows PROVE RowTurns(r)
  <2>1. CASE r \notin BackfillRows
    BY <2>1 DEF MarkAll, RowTurns
  <2>2. CASE r \in BackfillRows
    <3>1. state'[r] = Marked(state[r], ~Exists(r))
      BY <2>2 DEF MarkAll
    <3>2. state[r] # NoState => state[r].version < MaxVersion
      BY <2>2 DEF CanMark
    <3>3. row[r] > 0
      BY <2>2 DEF BackfillRows, Exists, SyncInv, LeaseInv
    <3>4. ~Exists(r) => r \in gone
      BY <3>3 DEF Exists
    <3>5. (~Exists(r)) \in BOOLEAN
      OBVIOUS
    <3> QED
      BY <3>1, <3>2, <3>3, <3>4, <3>5 DEF RowTurns
  <2> QED
    BY <2>1, <2>2
<1> QED
  BY <1>1, <1>2

\* Nothing is written: the rest of the invariant carries over.
LEMMA WriterKept ==
  ASSUME WriterInv, row' = row, gone' = gone, writer' = writer
  PROVE  WriterInv'
  BY DEF WriterInv, Exists

LEMMA RequestKept ==
  ASSUME RequestInv, request' = request
  PROVE  RequestInv'
  BY DEF RequestInv

LEMMA InitSync == ASSUME Init PROVE SyncInv
<1>1. \A j \in Jobs : job[j] = Idle /\ job[j].pc = "idle"
  BY IdleFields DEF Init
<1>2. TypeOK
  <2>1. row \in [Rows -> 0..MaxEdits] /\ gone \subseteq Rows /\ link \in Link \cup {NoLink}
        /\ state \in [Rows -> State \cup {NoState}] /\ queue \subseteq SUBSET Rows /\ astray \subseteq Rows
    BY Bounds DEF Init
  <2>2. sheet \in [Sheets -> [Rows -> Cell]]
    <3>1. Missing \in Cell
      BY Bounds DEF Missing, Cell
    <3> QED
      BY <3>1 DEF Init
  <2>3. job \in [Jobs -> Job] /\ writer \in [Writers -> Unit] /\ request \in [Managers -> Request]
    BY IdleFields DEF Init
  <2> QED
    BY <2>1, <2>2, <2>3 DEF TypeOK
<1>3. WriterInv /\ RequestInv
  <2>1. \A w \in Writers : writer[w].pc = "idle"
    BY IdleFields DEF Init
  <2>2. \A m \in Managers : request[m].pc = "idle"
    BY IdleFields DEF Init
  <2> QED
    BY <2>1, <2>2 DEF WriterInv, RequestInv
<1>4. JobInv
  BY <1>1 DEF JobInv, Holding
<1>5. LeaseInv
  BY DEF Init, LeaseInv
<1> QED
  BY <1>2, <1>3, <1>4, <1>5 DEF SyncInv

\* A step that touches no job, state row, request or entity.
LEMMA QuietTurn ==
  ASSUME SyncInv, row' = row, gone' = gone, state' = state, job' = job
  PROVE  OthersTurn
<1>1. \A r \in Rows : row'[r] >= row[r]
  BY Bounds DEF SyncInv, TypeOK
<1>2. state' = [r \in Rows |-> state'[r]] /\ TypeOK
  BY DEF SyncInv, TypeOK
<1>3. job' = [j \in Jobs |-> job'[j]] /\ \A j \in Jobs : Ages(j)
  BY <1>2, JobsAge
<1> QED
  BY <1>1, <1>2, <1>3 DEF OthersTurn, RowTurns

LEMMA WriteOpenStep ==
  ASSUME SyncInv, NEW w \in Writers, NEW T \in SUBSET Rows, NEW D \in SUBSET Rows, WriteOpen(w, T, D)
  PROVE  SyncInv' /\ OthersTurn
<1> DEFINE u == [pc |-> "open", touched |-> T, dropped |-> D, saw |-> Sight, locked |-> link # NoLink]
<1>0. /\ TypeOK /\ row' = row /\ gone' = gone /\ state' = state /\ job' = job /\ link' = link /\ sheet' = sheet
      /\ queue' = queue /\ request' = request /\ astray' = astray /\ writer' = [writer EXCEPT ![w] = u]
  BY DEF WriteOpen, SyncInv
<1>1. OthersTurn /\ row' \in [Rows -> 0..MaxEdits]
  BY <1>0, QuietTurn DEF TypeOK
<1>2. u \in Unit
  BY DEF Unit, Sight
<1>3. writer' \in [Writers -> Unit] /\ writer'[w] = u /\ \A v \in Writers \ {w} : writer'[v] = writer[v]
  BY <1>0, <1>2 DEF TypeOK
<1>4. TypeOK'
  BY <1>0, <1>1, <1>3, OthersKeep DEF TypeOK
<1>5. WriterInv'
  <2>1. ASSUME NEW v \in Writers \ {w}, writer[v].pc = "open"
        PROVE  (T \cup D) \cap (writer[v].touched \cup writer[v].dropped) = {}
    BY <2>1 DEF WriteOpen
  <2>2. T \cap D = {} /\ (\A r \in T : r \notin gone /\ row[r] < MaxEdits) /\ (\A r \in D : Exists(r))
    BY DEF WriteOpen
  <2> SUFFICES ASSUME NEW v \in Writers, writer'[v].pc = "open"
               PROVE  /\ writer'[v].touched \cap writer'[v].dropped = {}
                      /\ \A r \in writer'[v].touched : r \notin gone /\ row[r] < MaxEdits
                      /\ \A r \in writer'[v].dropped : Exists(r)
                      /\ \A z \in Writers \ {v} : writer'[z].pc = "open" =>
                           (writer'[v].touched \cup writer'[v].dropped)
                             \cap (writer'[z].touched \cup writer'[z].dropped) = {}
    BY <1>0 DEF WriterInv, Exists
  <2>3. CASE v = w
    BY <1>3, <2>1, <2>2, <2>3
  <2>4. CASE v # w
    <3>1. writer'[v] = writer[v] /\ writer[v].pc = "open"
      BY <1>3, <2>4
    <3>2. /\ writer[v].touched \cap writer[v].dropped = {}
          /\ \A r \in writer[v].touched : r \notin gone /\ row[r] < MaxEdits
          /\ \A r \in writer[v].dropped : Exists(r)
          /\ \A z \in Writers \ {v} : writer[z].pc = "open" =>
               (writer[v].touched \cup writer[v].dropped) \cap (writer[z].touched \cup writer[z].dropped) = {}
      BY <3>1 DEF SyncInv, WriterInv
    <3>3. ASSUME NEW z \in Writers \ {v}, writer'[z].pc = "open"
          PROVE  (writer[v].touched \cup writer[v].dropped) \cap (writer'[z].touched \cup writer'[z].dropped) = {}
      <4>1. CASE z = w
        BY <1>3, <2>1, <2>4, <3>1, <4>1
      <4>2. CASE z # w
        BY <1>3, <3>2, <3>3, <4>2
      <4> QED
        BY <4>1, <4>2
    <3> QED
      BY <3>1, <3>2, <3>3
  <2> QED
    BY <2>3, <2>4
<1> QED
  BY <1>0, <1>1, <1>4, <1>5, OthersKeep, RequestKept DEF SyncInv

\* A unit of work that ends leaves the others as they were.
LEMMA WritersLeft ==
  ASSUME TypeOK, NEW w \in Writers, writer' = [writer EXCEPT ![w] = NoWrite]
  PROVE  /\ writer' \in [Writers -> Unit]
         /\ \A v \in Writers : writer'[v].pc = "open" => v # w /\ writer'[v] = writer[v] /\ writer[v].pc = "open"
<1>1. writer' \in [Writers -> Unit] /\ writer'[w] = NoWrite /\ \A v \in Writers \ {w} : writer'[v] = writer[v]
  BY IdleFields DEF TypeOK
<1> QED
  BY <1>1, IdleFields

LEMMA WriteRollbackStep ==
  ASSUME SyncInv, NEW w \in Writers, WriteRollback(w)
  PROVE  SyncInv' /\ OthersTurn
<1>0. /\ TypeOK /\ row' = row /\ gone' = gone /\ state' = state /\ job' = job /\ link' = link /\ sheet' = sheet
      /\ queue' = queue /\ request' = request /\ astray' = astray /\ writer' = [writer EXCEPT ![w] = NoWrite]
  BY DEF WriteRollback, SyncInv
<1>1. OthersTurn /\ row' \in [Rows -> 0..MaxEdits]
  BY <1>0, QuietTurn DEF TypeOK
<1>2. TypeOK'
  BY <1>0, <1>1, OthersKeep, WritersLeft DEF TypeOK
<1>3. WriterInv'
  BY <1>0, WritersLeft DEF SyncInv, WriterInv, Exists
<1> QED
  BY <1>0, <1>1, <1>2, <1>3, OthersKeep, RequestKept DEF SyncInv

LEMMA WriteCommitStep ==
  ASSUME SyncInv, NEW w \in Writers, WriteCommit(w)
  PROVE  SyncInv' /\ OthersTurn
<1> DEFINE u == writer[w]
           S == u.touched \cup u.dropped
<1>0. /\ TypeOK /\ job' = job /\ link' = link /\ sheet' = sheet
      /\ request' = request /\ writer' = [writer EXCEPT ![w] = NoWrite]
      /\ u.saw = "on" => CanMark(S)
      /\ row' = [r \in Rows |-> IF r \in u.touched THEN row[r] + 1 ELSE row[r]]
      /\ gone' = gone \cup u.dropped
      /\ state' = [r \in Rows |-> IF u.saw = "on" /\ r \in S THEN Marked(state[r], r \in u.dropped) ELSE state[r]]
      /\ IF Enabled THEN Submit(S) ELSE UNCHANGED queue
      /\ astray' \in {astray \ S, astray \cup S, astray}
  BY DEF WriteCommit, SyncInv
<1>1. /\ u.touched \in SUBSET Rows /\ u.dropped \in SUBSET Rows /\ u.touched \cap u.dropped = {}
      /\ \A r \in u.touched : r \notin gone /\ row[r] < MaxEdits
      /\ \A r \in u.dropped : Exists(r)
      /\ \A v \in Writers \ {w} : writer[v].pc = "open" =>
           S \cap (writer[v].touched \cup writer[v].dropped) = {}
  BY <1>0, UnitFields DEF WriteCommit, SyncInv, WriterInv
<1>2. row' \in [Rows -> 0..MaxEdits] /\ gone' \subseteq Rows
  <2>1. ASSUME NEW r \in Rows
        PROVE  (IF r \in u.touched THEN row[r] + 1 ELSE row[r]) \in 0..MaxEdits
    BY <1>0, <1>1, Bounds DEF TypeOK
  <2> QED
    BY <1>0, <1>1, <2>1 DEF TypeOK
<1>3. queue' \subseteq SUBSET Rows /\ astray' \subseteq Rows
  BY <1>0, <1>1, SubmitType DEF TypeOK
<1>4. OthersTurn
  <2>1. ASSUME NEW r \in Rows PROVE row'[r] >= row[r] /\ (r \in u.touched => row'[r] > 0) /\ row[r] \in Nat
    BY <1>0, Bounds DEF TypeOK
  <2>2. ASSUME NEW r \in Rows, r \in S PROVE row'[r] > 0
    <3>1. CASE r \in u.touched
      BY <2>1, <3>1
    <3>2. CASE r \in u.dropped
      BY <1>0, <1>1, <2>1, <3>2 DEF Exists
    <3> QED
      BY <2>2, <3>1, <3>2
  <2>3. ASSUME NEW r \in Rows PROVE RowTurns(r)
    <3>1. CASE u.saw = "on" /\ r \in S
      <4>1. state'[r] = Marked(state[r], r \in u.dropped) /\ (r \in u.dropped) \in BOOLEAN
        BY <1>0, <3>1
      <4>2. state[r] # NoState => state[r].version < MaxVersion
        BY <1>0, <3>1 DEF CanMark
      <4>3. row'[r] > 0 /\ (r \in u.dropped => r \in gone')
        BY <1>0, <2>2, <3>1
      <4> QED
        BY <4>1, <4>2, <4>3 DEF RowTurns
    <3>2. CASE ~(u.saw = "on" /\ r \in S)
      BY <1>0, <3>2 DEF RowTurns
    <3> QED
      BY <3>1, <3>2
  <2>4. /\ state' = [r \in Rows |-> state'[r]] /\ gone \subseteq gone'
        /\ job' = [j \in Jobs |-> job'[j]] /\ \A j \in Jobs : Ages(j)
    BY <1>0, JobsAge
  <2> QED
    BY <1>0, <2>1, <2>3, <2>4 DEF OthersTurn
<1>5. TypeOK'
  BY <1>0, <1>2, <1>3, <1>4, OthersKeep, WritersLeft DEF TypeOK
<1>6. WriterInv'
  <2> SUFFICES ASSUME NEW v \in Writers, writer'[v].pc = "open"
               PROVE  /\ writer'[v].touched \cap writer'[v].dropped = {}
                      /\ \A r \in writer'[v].touched : r \notin gone' /\ row'[r] < MaxEdits
                      /\ \A r \in writer'[v].dropped : row'[r] > 0 /\ r \notin gone'
                      /\ \A z \in Writers \ {v} : writer'[z].pc = "open" =>
                           (writer'[v].touched \cup writer'[v].dropped)
                             \cap (writer'[z].touched \cup writer'[z].dropped) = {}
    BY DEF WriterInv, Exists
  <2>1. v # w /\ writer'[v] = writer[v] /\ writer[v].pc = "open"
    BY <1>0, WritersLeft
  <2>2. /\ writer[v].touched \cap writer[v].dropped = {}
        /\ \A r \in writer[v].touched : r \notin gone /\ row[r] < MaxEdits
        /\ \A r \in writer[v].dropped : Exists(r)
        /\ \A z \in Writers \ {v} : writer[z].pc = "open" =>
             (writer[v].touched \cup writer[v].dropped) \cap (writer[z].touched \cup writer[z].dropped) = {}
        /\ writer[v].touched \in SUBSET Rows /\ writer[v].dropped \in SUBSET Rows
    BY <1>0, <2>1, UnitFields DEF SyncInv, WriterInv
  <2>3. ASSUME NEW r \in writer[v].touched \cup writer[v].dropped
        PROVE  r \in Rows /\ r \notin u.touched /\ r \notin u.dropped /\ row'[r] = row[r] /\ (r \notin gone => r \notin gone')
    <3>1. S \cap (writer[v].touched \cup writer[v].dropped) = {}
      BY <1>1, <2>1
    <3> QED
      BY <1>0, <2>2, <3>1
  <2>4. \A z \in Writers \ {v} : writer'[z].pc = "open" => writer'[z] = writer[z]
    BY <1>0, WritersLeft
  <2> QED
    BY <2>1, <2>2, <2>3, <2>4 DEF Exists
<1> QED
  BY <1>0, <1>2, <1>4, <1>5, <1>6, OthersKeep, RequestKept DEF SyncInv

LEMMA RequestFields ==
  ASSUME TypeOK, NEW m \in Managers
  PROVE  /\ request[m].pc \in {"idle", "loaded"} /\ request[m].kind \in {"save", "enable", "disable", "sync"}
         /\ request[m].to \in Sheets \cup {NoLink} /\ request[m].copy \in Link \cup {NoLink}
  BY DEF TypeOK, Request

\* A request that ends leaves the others as they were.
LEMMA RequestsLeft ==
  ASSUME TypeOK, RequestInv, NEW m \in Managers, request' = [request EXCEPT ![m] = NoRequest]
  PROVE  /\ request' \in [Managers -> Request] /\ RequestInv'
         /\ \A n \in Managers : request'[n].pc = "loaded" => n # m /\ request'[n] = request[n]
<1>1. request' \in [Managers -> Request] /\ request'[m] = NoRequest
      /\ \A n \in Managers \ {m} : request'[n] = request[n]
  BY IdleFields DEF TypeOK
<1>2. \A n \in Managers : request'[n].pc = "loaded" => n # m /\ request'[n] = request[n]
  BY <1>1, IdleFields
<1> QED
  BY <1>1, <1>2 DEF RequestInv

\* What a settings request saves.
LEMMA NewLinkFields ==
  ASSUME SyncInv, NEW m \in Managers, request[m].pc = "loaded", request[m].kind # "sync", NEW at \in 1..MaxStamp
  PROVE  /\ NewLink(request[m], at) \in Link /\ NewLink(request[m], at).stamp = at
         /\ request[m].kind = "save" =>
              /\ NewLink(request[m], at).sheet = request[m].to
              /\ NewLink(request[m], at).enabled = (request[m].copy # NoLink /\ request[m].copy.enabled)
         /\ request[m].kind = "enable" => NewLink(request[m], at).sheet = request[m].copy.sheet
         /\ request[m].kind = "disable" => NewLink(request[m], at).enabled = FALSE
<1> DEFINE q == request[m]
<1>0. q.kind \in {"save", "enable", "disable"} /\ q.copy \in Link \cup {NoLink}
  BY RequestFields DEF SyncInv
<1>1. CASE q.kind = "save"
  <2> DEFINE l == [sheet |-> q.to, verified |-> TRUE, streak |-> 0, stamp |-> at,
                   enabled |-> q.copy # NoLink /\ q.copy.enabled]
  <2>1. NewLink(q, at) = l
    BY <1>1 DEF NewLink
  <2>2. q.to \in Sheets
    BY <1>1 DEF SyncInv, RequestInv
  <2>3. (q.copy # NoLink /\ q.copy.enabled) \in BOOLEAN
    OBVIOUS
  <2>4. l \in Link
    BY <2>2, <2>3 DEF Link
  <2> QED
    BY <1>1, <2>1, <2>4
<1>2. CASE q.kind = "enable"
  <2>1. NewLink(q, at) = [q.copy EXCEPT !.enabled = TRUE, !.streak = 0, !.stamp = at]
    BY <1>2 DEF NewLink
  <2> DEFINE l == [q.copy EXCEPT !.enabled = TRUE, !.streak = 0, !.stamp = at]
  <2>2. q.copy \in Link
    BY <1>2 DEF SyncInv, RequestInv
  <2> HIDE DEF q
  <2>3. l \in Link /\ l.sheet = q.copy.sheet /\ l.stamp = at
    BY <2>2 DEF Link
  <2> QED
    BY <1>2, <2>1, <2>3 DEF q
<1>3. CASE q.kind = "disable"
  <2>1. NewLink(q, at) = [q.copy EXCEPT !.enabled = FALSE, !.stamp = at]
    BY <1>3 DEF NewLink
  <2>2. q.copy \in Link
    BY <1>3 DEF SyncInv, RequestInv
  <2> QED
    BY <1>3, <2>1, <2>2 DEF Link
<1> QED
  BY <1>0, <1>1, <1>2, <1>3

LEMMA RequestLoadStep ==
  ASSUME SyncInv, NEW m \in Managers, NEW kind \in {"save", "enable", "disable", "sync"},
         NEW to \in Sheets \cup {NoLink}, RequestLoad(m, kind, to)
  PROVE  SyncInv' /\ OthersTurn
<1> DEFINE q == [pc |-> "loaded", kind |-> kind, to |-> to, copy |-> link]
<1>0. /\ TypeOK /\ row' = row /\ gone' = gone /\ state' = state /\ job' = job /\ link' = link /\ sheet' = sheet
      /\ queue' = queue /\ writer' = writer /\ astray' = astray /\ request' = [request EXCEPT ![m] = q]
  BY DEF RequestLoad, SyncInv
<1>1. OthersTurn /\ row' \in [Rows -> 0..MaxEdits]
  BY <1>0, QuietTurn DEF TypeOK
<1>2. q \in Request
  BY <1>0 DEF Request, TypeOK
<1>3. IF kind = "save" THEN to \in Sheets ELSE link \in Link
  BY <1>0 DEF RequestLoad, Enabled, TypeOK
<1>4. request' \in [Managers -> Request] /\ request'[m] = q /\ \A n \in Managers \ {m} : request'[n] = request[n]
  BY <1>0, <1>2 DEF TypeOK
<1>5. RequestInv'
  BY <1>3, <1>4 DEF SyncInv, RequestInv
<1>6. TypeOK'
  BY <1>0, <1>1, <1>4, OthersKeep DEF TypeOK
<1> QED
  BY <1>0, <1>1, <1>5, <1>6, OthersKeep, WriterKept DEF SyncInv

LEMMA RequestAbandonStep ==
  ASSUME SyncInv, NEW m \in Managers, RequestAbandon(m)
  PROVE  SyncInv' /\ OthersTurn
<1>0. /\ TypeOK /\ row' = row /\ gone' = gone /\ state' = state /\ job' = job /\ link' = link /\ sheet' = sheet
      /\ queue' = queue /\ writer' = writer /\ astray' = astray /\ request' = [request EXCEPT ![m] = NoRequest]
  BY DEF RequestAbandon, SyncInv
<1>1. OthersTurn /\ row' \in [Rows -> 0..MaxEdits]
  BY <1>0, QuietTurn DEF TypeOK
<1>2. request' \in [Managers -> Request] /\ RequestInv'
  BY <1>0, RequestsLeft DEF SyncInv
<1>3. TypeOK'
  BY <1>0, <1>1, <1>2, OthersKeep DEF TypeOK
<1> QED
  BY <1>0, <1>1, <1>2, <1>3, OthersKeep, WriterKept DEF SyncInv

LEMMA RequestCommitStep ==
  ASSUME SyncInv, NEW m \in Managers, NEW at \in 1..MaxStamp, RequestCommit(m, at)
  PROVE  SyncInv' /\ OthersTurn
<1> DEFINE q == request[m]
<1>0. /\ TypeOK /\ row' = row /\ gone' = gone /\ sheet' = sheet
      /\ q.pc = "loaded" /\ q.kind # "sync" /\ link' = NewLink(q, at)
      /\ writer' = writer /\ request' = [request EXCEPT ![m] = NoRequest]
      /\ IF Backfills(q) THEN CanMark(BackfillRows) /\ state' = MarkAll /\ KickDirty(MarkAll)
         ELSE UNCHANGED <<state, queue>>
  BY DEF RequestCommit, SyncInv
<1>8. \E change \in {"saved", "overwritten", "removed"} : job' = Outdated(change)
  BY DEF RequestCommit
<1>9. astray' \subseteq Rows
  BY <1>0 DEF RequestCommit, Strays, TypeOK
<1>1. row' \in [Rows -> 0..MaxEdits] /\ \A r \in Rows : row'[r] >= row[r]
  BY <1>0, Bounds DEF TypeOK
<1>2. state' = [r \in Rows |-> state'[r]] /\ \A r \in Rows : RowTurns(r)
  <2>1. CASE Backfills(q)
    BY <1>0, <2>1, MarkAllTurns
  <2>2. CASE ~Backfills(q)
    BY <1>0, <2>2 DEF RowTurns, TypeOK
  <2> QED
    BY <2>1, <2>2
<1>3. queue' \subseteq SUBSET Rows
  <2>1. CASE Backfills(q)
    BY <1>0, <2>1, SubmitType DEF KickDirty, TypeOK
  <2>2. CASE ~Backfills(q)
    BY <1>0, <2>2 DEF TypeOK
  <2> QED
    BY <2>1, <2>2
<1>4. OthersTurn
  <2>1. job' = [j \in Jobs |-> job'[j]] /\ \A j \in Jobs : Ages(j)
    BY <1>0, <1>8, JobsAge
  <2> QED
    BY <1>0, <1>1, <1>2, <2>1 DEF OthersTurn
<1>5. link' \in Link
  BY <1>0, NewLinkFields
<1>6. request' \in [Managers -> Request] /\ RequestInv'
  BY <1>0, RequestsLeft DEF SyncInv
<1>7. TypeOK'
  BY <1>0, <1>1, <1>3, <1>4, <1>5, <1>6, <1>9, OthersKeep DEF TypeOK
<1> QED
  BY <1>0, <1>1, <1>4, <1>6, <1>7, OthersKeep, WriterKept DEF SyncInv

LEMMA LinkDeleteStep ==
  ASSUME SyncInv, LinkDelete
  PROVE  SyncInv' /\ OthersTurn
<1>0. /\ TypeOK /\ row' = row /\ gone' = gone /\ sheet' = sheet /\ queue' = queue /\ astray' = {}
      /\ job' = [j \in Jobs |-> [Outdated("removed")[j] EXCEPT !.ousted = @ \/ Holding(j)]]
      /\ writer' = writer /\ request' = request /\ link' = NoLink /\ state' = [r \in Rows |-> NoState]
  BY DEF LinkDelete, SyncInv
<1>1. row' \in [Rows -> 0..MaxEdits] /\ \A r \in Rows : row'[r] >= row[r]
  BY <1>0, Bounds DEF TypeOK
<1>4. ASSUME NEW j \in Jobs PROVE Ages(j) /\ (Holding(j) => job'[j].ousted)
  <2> PICK a \in {"none", "saved", "overwritten", "removed"} : Outdated("removed")[j] = [job[j] EXCEPT !.since = a]
    BY <1>0, OutdatedAges
  <2> DEFINE y == [job[j] EXCEPT !.since = a]
             b == job[j].ousted \/ Holding(j)
  <2>1. job[j] \in Job /\ job[j].ousted \in BOOLEAN /\ Holding(j) \in BOOLEAN
    BY <1>0, JobFields DEF Holding
  <2>2. y \in Job /\ y.ousted = job[j].ousted
    BY <2>1 DEF Job
  <2>3. job'[j] = [y EXCEPT !.ousted = y.ousted \/ Holding(j)]
    BY <1>0
  <2>4. [y EXCEPT !.ousted = y.ousted \/ Holding(j)] = [job[j] EXCEPT !.since = a, !.ousted = b]
    BY <2>1, <2>2 DEF Job
  <2>5. [job[j] EXCEPT !.since = a, !.ousted = b].ousted = b
    BY <2>1 DEF Job
  <2>6. b \in BOOLEAN /\ (job[j].ousted => b) /\ (Holding(j) => b)
    BY <2>1
  <2> HIDE DEF y, b
  <2> QED
    BY <2>3, <2>4, <2>5, <2>6 DEF Ages
<1>2. OthersTurn
  <2>1. job' = [j \in Jobs |-> job'[j]]
    BY <1>0
  <2>2. state' = [r \in Rows |-> state'[r]] /\ \A r \in Rows : RowTurns(r)
    BY <1>0, <1>4 DEF RowTurns
  <2> QED
    BY <1>0, <1>1, <1>4, <2>1, <2>2 DEF OthersTurn
<1>3. TypeOK'
  BY <1>0, <1>1, <1>2, OthersKeep DEF TypeOK
<1> QED
  BY <1>0, <1>1, <1>2, <1>3, OthersKeep, WriterKept, RequestKept DEF SyncInv

LEMMA SyncNowStep ==
  ASSUME SyncInv, NEW m \in Managers, SyncNow(m)
  PROVE  SyncInv' /\ OthersTurn
<1>0. /\ TypeOK /\ row' = row /\ gone' = gone /\ job' = job /\ sheet' = sheet /\ link' = link
      /\ writer' = writer /\ request' = [request EXCEPT ![m] = NoRequest] /\ astray' = astray \ BackfillRows
      /\ CanMark(BackfillRows) /\ state' = MarkAll /\ KickDirty(MarkAll)
  BY DEF SyncNow, SyncInv
<1>1. row' \in [Rows -> 0..MaxEdits] /\ \A r \in Rows : row'[r] >= row[r]
  BY <1>0, Bounds DEF TypeOK
<1>2. OthersTurn
  BY <1>0, <1>1, MarkAllTurns, JobsAge DEF OthersTurn
<1>5. request' \in [Managers -> Request] /\ RequestInv'
  BY <1>0, RequestsLeft DEF SyncInv
<1>3. queue' \subseteq SUBSET Rows
  BY <1>0, SubmitType DEF KickDirty, TypeOK
<1>4. TypeOK'
  BY <1>0, <1>1, <1>2, <1>3, <1>5, OthersKeep DEF TypeOK
<1> QED
  BY <1>0, <1>1, <1>2, <1>4, <1>5, OthersKeep, WriterKept DEF SyncInv

LEMMA ClockStep ==
  ASSUME SyncInv, Clock
  PROVE  SyncInv' /\ OthersTurn
<1> PICK r \in Rows : LeaseExpires(r) \/ LeaseOverruns(r) \/ RetryFalls(r)
  BY DEF Clock
<1>0. /\ TypeOK /\ row' = row /\ gone' = gone /\ sheet' = sheet /\ link' = link /\ astray' = astray
      /\ queue' = queue /\ writer' = writer /\ request' = request
  BY DEF LeaseExpires, LeaseOverruns, RetryFalls, SyncInv
<1>1. row' \in [Rows -> 0..MaxEdits] /\ \A p \in Rows : row'[p] >= row[p]
  BY <1>0, Bounds DEF TypeOK
<1> DEFINE Turned == /\ state' = [p \in Rows |-> state'[p]] /\ \A p \in Rows : RowTurns(p)
                     /\ job' = [j \in Jobs |-> job'[j]] /\ \A j \in Jobs : Ages(j)
<1>2. Turned
  <2>1. CASE LeaseExpires(r)
    <3>1. /\ state[r] # NoState /\ state[r].lease = "orphan" /\ job' = job
          /\ state' = [state EXCEPT ![r] = [state[r] EXCEPT !.lease = "none"]]
      BY <2>1 DEF LeaseExpires
    <3>2. state[r] \in State
      BY <1>0, <3>1 DEF TypeOK
    <3>3. [state[r] EXCEPT !.lease = "none"] = Leased(state[r], "none", state[r].lapsed)
      BY <3>2 DEF State, Leased
    <3>4. state' = [state EXCEPT ![r] = Leased(state[r], "none", state[r].lapsed)]
      BY <3>1, <3>3
    <3>5. state' = [p \in Rows |-> state'[p]] /\ \A p \in Rows : RowTurns(p)
      BY <1>0, <3>1, <3>4 DEF RowTurns, TypeOK
    <3> QED
      BY <1>0, <3>1, <3>5, JobsAge
  <2>2. CASE RetryFalls(r)
    <3>1. /\ state[r] # NoState /\ job' = job
          /\ state' = [state EXCEPT ![r] = [state[r] EXCEPT !.waiting = FALSE]]
      BY <2>2 DEF RetryFalls
    <3>2. state' = [p \in Rows |-> state'[p]] /\ \A p \in Rows : RowTurns(p)
      BY <1>0, <3>1 DEF RowTurns, TypeOK
    <3> QED
      BY <1>0, <3>1, <3>2, JobsAge
  <2>3. CASE LeaseOverruns(r)
    <3> DEFINE i == state[r].lease
    <3>1. /\ state[r] # NoState /\ i \in Jobs
          /\ state' = [state EXCEPT ![r] = [state[r] EXCEPT !.lapsed = TRUE]]
          /\ job' = [job EXCEPT ![i] = [job[i] EXCEPT !.ousted = TRUE]]
      BY <2>3 DEF LeaseOverruns
    <3>2. state[r] \in State
      BY <1>0, <3>1 DEF TypeOK
    <3>3. [state[r] EXCEPT !.lapsed = TRUE] = Leased(state[r], i, TRUE)
      BY <3>2 DEF State, Leased
    <3>4. state' = [state EXCEPT ![r] = Leased(state[r], i, TRUE)]
      BY <3>1, <3>3
    <3> HIDE DEF i
    <3>5. job' = [j \in Jobs |-> job'[j]] /\ job'[i] = [job[i] EXCEPT !.ousted = TRUE]
          /\ \A j \in Jobs \ {i} : job'[j] = job[j]
      BY <1>0, <3>1 DEF TypeOK
    <3>6. job[i] \in Job
      BY <1>0, <3>1, JobFields
    <3>7. /\ [job[i] EXCEPT !.ousted = TRUE] = [job[i] EXCEPT !.since = job[i].since, !.ousted = TRUE]
          /\ [job[i] EXCEPT !.ousted = TRUE].ousted /\ job[i].since \in {"none", "saved", "overwritten", "removed"}
      BY <3>6 DEF Job
    <3>8. Ages(i) /\ job'[i].ousted
      BY <3>5, <3>7 DEF Ages
    <3>9. ASSUME NEW j \in Jobs \ {i} PROVE Ages(j)
      <4>1. job[j] \in Job
        BY <1>0, JobFields
      <4>2. job[j] = [job[j] EXCEPT !.since = job[j].since, !.ousted = job[j].ousted]
            /\ job[j].since \in {"none", "saved", "overwritten", "removed"} /\ job[j].ousted \in BOOLEAN
        BY <4>1 DEF Job
      <4> QED
        BY <3>5, <4>2 DEF Ages
    <3>10. state' = [p \in Rows |-> state'[p]] /\ state'[r] = Leased(state[r], i, TRUE)
           /\ \A p \in Rows \ {r} : state'[p] = state[p]
      BY <1>0, <3>4 DEF TypeOK
    <3>11. \A p \in Rows : RowTurns(p)
      BY <3>1, <3>8, <3>10 DEF RowTurns, i
    <3> QED
      BY <3>5, <3>8, <3>9, <3>10, <3>11
  <2> HIDE DEF Turned
  <2> QED
    BY <2>1, <2>2, <2>3
<1>3. OthersTurn
  BY <1>0, <1>1, <1>2 DEF OthersTurn
<1>4. TypeOK'
  BY <1>0, <1>1, <1>3, OthersKeep DEF TypeOK
<1> QED
  BY <1>0, <1>1, <1>3, <1>4, OthersKeep, WriterKept, RequestKept DEF SyncInv

LEMMA ReconcileStep ==
  ASSUME SyncInv, NEW S \in SUBSET Rows, Reconcile(S)
  PROVE  SyncInv' /\ OthersTurn
<1>0. /\ TypeOK /\ row' = row /\ gone' = gone /\ job' = job /\ sheet' = sheet /\ link' = link
      /\ writer' = writer /\ request' = request /\ state' = state /\ astray' = astray
      /\ queue' = queue \cup {S}
  BY DEF Reconcile, SyncInv
<1>1. OthersTurn /\ row' \in [Rows -> 0..MaxEdits] /\ queue' \subseteq SUBSET Rows
  BY <1>0, QuietTurn DEF TypeOK
<1>2. TypeOK'
  BY <1>0, <1>1, OthersKeep DEF TypeOK
<1> QED
  BY <1>0, <1>1, <1>2, OthersKeep, WriterKept, RequestKept DEF SyncInv

\* What a job leaves of the link: at most its streak and whether it is on.
LEMMA OutcomeFields ==
  ASSUME TypeOK, NEW j \in Jobs, NEW failed \in BOOLEAN
  PROVE  /\ Outcome(j, failed) \in Link \cup {NoLink}
         /\ link = NoLink => Outcome(j, failed) = NoLink
         /\ link # NoLink => /\ Outcome(j, failed) # NoLink /\ Outcome(j, failed).sheet = link.sheet
                             /\ Outcome(j, failed).enabled => link.enabled
                             /\ Outcome(j, failed).stamp = link.stamp
<1>1. CASE link = NoLink \/ link.stamp # job[j].stamp
  BY <1>1 DEF Outcome, TypeOK
<1>2. CASE link # NoLink /\ link.stamp = job[j].stamp
  <2>1. link \in Link /\ link.streak \in Nat /\ link.enabled \in BOOLEAN /\ link.verified \in BOOLEAN
    BY <1>2 DEF TypeOK, Link
  <2>2. link.streak + 1 \in Nat
    BY <2>1
  <2>3. [link EXCEPT !.streak = 0] \in Link /\ [link EXCEPT !.streak = 0].sheet = link.sheet
        /\ [link EXCEPT !.streak = 0].enabled = link.enabled /\ [link EXCEPT !.streak = 0].stamp = link.stamp
    BY <2>1 DEF Link
  <2>4. [link EXCEPT !.streak = @ + 1] \in Link /\ [link EXCEPT !.streak = @ + 1].sheet = link.sheet
        /\ [link EXCEPT !.streak = @ + 1].enabled = link.enabled /\ [link EXCEPT !.streak = @ + 1].stamp = link.stamp
    BY <2>1, <2>2 DEF Link
  <2> DEFINE l == [link EXCEPT !.streak = @ + 1, !.verified = @ /\ ~link.enabled, !.enabled = FALSE]
  <2>5. l \in Link /\ l.sheet = link.sheet /\ l.enabled = FALSE /\ l.stamp = link.stamp
    <3>1. (link.verified /\ ~link.enabled) \in BOOLEAN
      OBVIOUS
    <3> QED
      BY <2>1, <2>2, <3>1 DEF Link
  <2> HIDE DEF l
  <2>6. Outcome(j, failed) \in {[link EXCEPT !.streak = 0], [link EXCEPT !.streak = @ + 1], l}
    BY <1>2 DEF Outcome, l
  <2>7. NoLink \notin Link
    BY NoRowAssumption
  <2> QED
    BY <1>2, <2>3, <2>4, <2>5, <2>6, <2>7
<1> QED
  BY <1>1, <1>2

LEMMA ShownCell ==
  ASSUME NEW cell \in Cell, NEW value \in Cell
  PROVE  Shown(cell, value) \in Cell
<1>1. Missing \in Cell /\ Tombstone \in Cell
  BY Bounds DEF Missing, Tombstone, Cell
<1> QED
  BY <1>1 DEF Shown

\* A push changes at most the cell of its row in the sheet it loaded.
LEMMA PushSheet ==
  ASSUME TypeOK, NEW j \in Jobs, NEW result, NEW lands, JobPush(j, result, lands)
  PROVE  /\ sheet' \in [Sheets -> [Rows -> Cell]]
         /\ \A s \in Sheets, r \in Rows : sheet'[s][r] # sheet[s][r] => s = job[j].sheet /\ r = job[j].row
         /\ \A s \in Sheets, r \in Rows : sheet'[s][r] \in {sheet[s][r], Shown(sheet[s][r], job[j].value)}
<1>0. sheet \in [Sheets -> [Rows -> Cell]] /\ job[j].value \in Cell
  BY JobFields DEF TypeOK
<1>1. CASE ~lands
  BY <1>0, <1>1 DEF JobPush
<1>2. CASE lands
  <2>1. sheet' = [sheet EXCEPT ![job[j].sheet][job[j].row] = Shown(sheet[job[j].sheet][job[j].row], job[j].value)]
    BY <1>2 DEF JobPush
  <2> DEFINE s0 == job[j].sheet
             r0 == job[j].row
             c == Shown(sheet[s0][r0], job[j].value)
  <2>2. ASSUME NEW s \in Sheets, NEW r \in Rows
        PROVE  sheet'[s][r] = IF s = s0 /\ r = r0 THEN c ELSE sheet[s][r]
    BY <1>0, <2>1
  <2>3. ASSUME NEW s \in Sheets, NEW r \in Rows, s = s0, r = r0 PROVE c \in Cell
    BY <1>0, <2>3, ShownCell
  <2>4. \A s \in Sheets, r \in Rows : sheet'[s][r] \in Cell
    BY <1>0, <2>2, <2>3
  <2>5. \A s \in Sheets : DOMAIN sheet'[s] = Rows /\ sheet'[s] = [r \in Rows |-> sheet'[s][r]]
    BY <1>0, <2>1
  <2>6. sheet' = [s \in Sheets |-> sheet'[s]]
    BY <1>0, <2>1
  <2>7. sheet' \in [Sheets -> [Rows -> Cell]]
    BY <2>4, <2>5, <2>6
  <2> QED
    BY <1>2, <2>2, <2>7
<1> QED
  BY <1>1, <1>2

\* A push the sheet takes shows in the cell of its row.
LEMMA PushLands ==
  ASSUME TypeOK, NEW j \in Jobs, NEW lands, JobPush(j, "ok", lands), job[j].sheet \in Sheets, job[j].row \in Rows
  PROVE  sheet'[job[j].sheet][job[j].row] = Shown(sheet[job[j].sheet][job[j].row], job[j].value)
<1>1. sheet' = [sheet EXCEPT ![job[j].sheet][job[j].row] = Shown(sheet[job[j].sheet][job[j].row], job[j].value)]
  BY DEF JobPush
<1> QED
  BY <1>1 DEF TypeOK

\* The rest of what a job's step changes.
LEMMA JobRest ==
  ASSUME SyncInv, NEW j \in Jobs, JobStep(j) \/ JobCrash(j)
  PROVE  /\ sheet' \in [Sheets -> [Rows -> Cell]] /\ queue' \subseteq SUBSET Rows
         /\ link' \in Link \cup {NoLink} /\ astray' \subseteq Rows
<1> DEFINE Goal == /\ sheet' \in [Sheets -> [Rows -> Cell]] /\ queue' \subseteq SUBSET Rows
                   /\ link' \in Link \cup {NoLink} /\ astray' \subseteq Rows
<1> SUFFICES Goal
  OBVIOUS
<1>0. TypeOK /\ job[j].msg \in SUBSET Rows
  BY JobFields DEF SyncInv
<1>1. ASSUME NEW m \in queue, JobLoad(j, m) PROVE Goal
  BY <1>0, <1>1 DEF JobLoad, TypeOK
<1>2. ASSUME NEW r \in Rows, JobClaim(j, r) PROVE Goal
  BY <1>0, <1>2 DEF JobClaim, TypeOK
<1>3. ASSUME JobRead(j) PROVE Goal
  BY <1>0, <1>3 DEF JobRead, TypeOK
<1>4. ASSUME NEW result \in {"ok", "row", "link", "transient"}, NEW lands \in BOOLEAN, JobPush(j, result, lands)
      PROVE  Goal
  <2>1. queue' = queue /\ link' = link /\ astray' \subseteq astray \cup {job[j].row}
    BY <1>4 DEF JobPush
  <2>2. job[j].row \in Rows
    BY <1>4 DEF JobPush, Holding, SyncInv, JobInv
  <2> QED
    BY <1>0, <1>4, <2>1, <2>2, PushSheet DEF TypeOK
<1>5. ASSUME JobSettle(j) PROVE Goal
  <2>1. queue' = queue /\ link' = link /\ sheet' = sheet /\ astray' \subseteq astray \cup {job[j].row}
    BY <1>5 DEF JobSettle
  <2>2. job[j].row \in Rows
    BY <1>5 DEF JobSettle, Holding, SyncInv, JobInv
  <2> QED
    BY <1>0, <2>1, <2>2 DEF TypeOK
<1>6. ASSUME NEW stored \in BOOLEAN, JobRelease(j, stored) PROVE Goal
  BY <1>0, <1>6 DEF JobRelease, TypeOK
<1>7. ASSUME JobStoreFails(j) PROVE Goal
  BY <1>0, <1>7 DEF JobStoreFails, TypeOK
<1>8. ASSUME JobEnd(j) PROVE Goal
  <2>1. sheet' = sheet /\ astray' = astray
    BY <1>8 DEF JobEnd
  <2>2. link' \in {link, Outcome(j, TRUE), Outcome(j, FALSE)}
    BY <1>8 DEF JobEnd
  <2>3. queue' = queue \/ queue' = queue \cup {job[j].msg} \/ KickDirty(state)
    BY <1>8 DEF JobEnd
  <2>4. queue' \subseteq SUBSET Rows
    BY <1>0, <2>3, SubmitType DEF KickDirty, TypeOK
  <2>5. link' \in Link \cup {NoLink}
    BY <1>0, <2>2, OutcomeFields DEF TypeOK
  <2> QED
    BY <1>0, <2>1, <2>4, <2>5 DEF TypeOK
<1>9. ASSUME JobCrash(j) PROVE Goal
  BY <1>0, <1>9 DEF JobCrash, TypeOK
<1> HIDE DEF Goal
<1> QED
  BY <1>1, <1>2, <1>3, <1>4, <1>5, <1>6, <1>7, <1>8, <1>9 DEF JobStep

LEMMA JobKeepsSync ==
  ASSUME SyncInv, NEW j \in Jobs, JobStep(j) \/ JobCrash(j)
  PROVE  SyncInv' /\ JobTurns(j)
<1>1. JobTurns(j) /\ row' = row /\ gone' = gone /\ writer' = writer /\ request' = request
  BY JobShape DEF JobTurns
<1>2. TypeOK'
  BY <1>1, JobTurnsKeep, JobRest DEF SyncInv, TypeOK
<1> QED
  BY <1>1, <1>2, JobTurnsKeep, WriterKept, RequestKept DEF SyncInv

\* What a step is: a job's, or one that leaves the jobs where they are.
LEMMA NextSync ==
  ASSUME SyncInv, Next
  PROVE  SyncInv' /\ (OthersTurn \/ \E j \in Jobs : JobTurns(j))
<1>1. ASSUME NEW w \in Writers, Write(w) PROVE SyncInv' /\ OthersTurn
  BY <1>1, WriteOpenStep, WriteCommitStep, WriteRollbackStep DEF Write
<1>2. ASSUME NEW j \in Jobs, JobStep(j) \/ JobCrash(j) PROVE SyncInv' /\ JobTurns(j)
  BY <1>2, JobKeepsSync
<1>3. ASSUME NEW m \in Managers, Settings(m) PROVE SyncInv' /\ OthersTurn
  BY <1>3, RequestLoadStep, RequestCommitStep, RequestAbandonStep, SyncNowStep DEF Settings
<1> QED
  BY <1>1, <1>2, <1>3, ClockStep, ReconcileStep, LinkDeleteStep DEF Next

LEMMA StutterSync ==
  ASSUME SyncInv, UNCHANGED vars
  PROVE  SyncInv' /\ OthersTurn
<1>0. TypeOK /\ row' = row /\ gone' = gone /\ job' = job /\ state' = state /\ writer' = writer /\ request' = request
      /\ link' = link /\ sheet' = sheet /\ queue' = queue /\ astray' = astray
  BY DEF SyncInv, vars
<1>1. OthersTurn /\ row' \in [Rows -> 0..MaxEdits]
  BY <1>0, QuietTurn DEF TypeOK
<1>2. TypeOK'
  BY <1>0 DEF TypeOK
<1> QED
  BY <1>0, <1>1, <1>2, OthersKeep, WriterKept, RequestKept DEF SyncInv

\* Every variable keeps its shape, a job's lease is where its row in hand is,
\* and what is leased is dirty, under every overlap and for any number of
\* rows, sheets, jobs, writers and managers.
THEOREM TypeCorrect == Safety => [](TypeOK /\ SyncInv)
<1>1. Init => SyncInv
  BY InitSync
<1>2. SyncInv /\ [Next]_vars => SyncInv'
  BY NextSync, StutterSync
<1>3. SyncInv => TypeOK
  BY DEF SyncInv
<1> QED
  BY <1>1, <1>2, <1>3, PTL DEF Safety

-----------------------------------------------------------------------------
(* Under every overlap *)

\* Attempts are spent, and a retry put off, only by a refusal of the very
\* version the row is at: an edit made while a push is on its way keeps all
\* its tries (pgwriter.go Release).
THEOREM EditsKeepAttempts == Safety => FreshEditKeepsAttempts
<1> DEFINE Act == \A r \in Rows :
             (state[r] # NoState /\ state'[r] # NoState
                /\ (state'[r].attempts > state[r].attempts \/ (state'[r].waiting /\ ~state[r].waiting)))
               => \E j \in Jobs : job[j].row = r /\ job[j].result = "row" /\ job[j].version = state[r].version
<1>1. ASSUME SyncInv, SyncInv', [Next]_vars PROVE Act
  <2> SUFFICES ASSUME NEW r \in Rows, state[r] # NoState, state'[r] # NoState,
                      state'[r].attempts > state[r].attempts \/ (state'[r].waiting /\ ~state[r].waiting)
               PROVE  \E j \in Jobs : job[j].row = r /\ job[j].result = "row" /\ job[j].version = state[r].version
    OBVIOUS
  <2>0. /\ state[r] \in State /\ state'[r] \in State /\ TypeOK
        /\ state[r].attempts \in Nat /\ state'[r].attempts \in Nat
    <3>1. state[r] \in State /\ state'[r] \in State /\ TypeOK
      BY <1>1 DEF SyncInv, TypeOK
    <3> QED
      BY <3>1, StateFields, Bounds
  <2>1. CASE OthersTurn
    <3>1. row'[r] >= row[r] /\ row'[r] \in Nat /\ gone \subseteq gone' /\ RowTurns(r)
      BY <1>1, <2>1, Bounds DEF OthersTurn, SyncInv, TypeOK
    <3>2. state'[r].attempts <= state[r].attempts /\ (state'[r].waiting => state[r].waiting)
      BY <1>1, <3>1, RowTurnsFields
    <3>3. ~(state'[r].attempts > state[r].attempts)
      BY <2>0, <3>2
    <3> QED
      BY <3>2, <3>3
  <2>2. ASSUME NEW j \in Jobs, JobTurns(j)
        PROVE  \E i \in Jobs : job[i].row = r /\ job[i].result = "row" /\ job[i].version = state[r].version
    <3> PICK x \in Job : job' = [job EXCEPT ![j] = x] /\ (Keeps(j, x) \/ Takes(j, x) \/ Drops(j, x))
      BY <2>2 DEF JobTurns
    <3>0. ~(state[r].attempts > state[r].attempts)
      BY <2>0
    <3>1. CASE state'[r] = state[r]
      BY <3>0, <3>1
    <3>2. CASE Keeps(j, x)
      BY <3>1, <3>2 DEF Keeps
    <3>3. CASE Takes(j, x)
      <4> PICK p \in Rows : state' = [state EXCEPT ![p] = Leased(state[p], j, FALSE)]
        BY <3>3 DEF Takes
      <4>1. CASE p = r
        <5>1. state'[r] = Leased(state[r], j, FALSE)
          BY <2>0, <4>1 DEF TypeOK
        <5>2. state'[r].attempts = state[r].attempts /\ state'[r].waiting = state[r].waiting
          <6>1. state[r] \in State /\ j \in Jobs \cup {"none", "orphan"} /\ FALSE \in BOOLEAN
            BY <2>0
          <6>2. Leased(state[r], j, FALSE).attempts = state[r].attempts /\ Leased(state[r], j, FALSE).waiting = state[r].waiting
            BY <6>1, LeaseFields
          <6> QED
            BY <5>1, <6>2
        <5> QED
          BY <3>0, <5>2
      <4>2. CASE p # r
        BY <2>0, <3>1, <4>2 DEF TypeOK
      <4> QED
        BY <4>1, <4>2
    <3>4. CASE Drops(j, x)
      <4>1. CASE ~Holds(j)
        BY <3>1, <3>4, <4>1 DEF Drops
      <4>2. CASE Holds(j)
        <5> PICK st \in State :
              /\ state' = [state EXCEPT ![job[j].row] = st]
              /\ (st.attempts > state[job[j].row].attempts \/ (st.waiting /\ ~state[job[j].row].waiting))
                   => job[j].result = "row" /\ job[j].version = state[job[j].row].version
          BY <3>4, <4>2 DEF Drops
        <5>1. CASE job[j].row = r
          <6>1. state'[r] = st
            BY <2>0, <5>1 DEF TypeOK
          <6> QED
            BY <5>1, <6>1
        <5>2. CASE job[j].row # r
          BY <2>0, <3>1, <5>2 DEF TypeOK
        <5> QED
          BY <5>1, <5>2
      <4> QED
        BY <4>1, <4>2
    <3> QED
      BY <3>2, <3>3, <3>4
  <2>3. OthersTurn \/ \E j \in Jobs : JobTurns(j)
    BY <1>1, NextSync, StutterSync
  <2> QED
    BY <2>1, <2>2, <2>3
<1>2. SyncInv /\ SyncInv' /\ [Next]_vars => [Act]_vars
  BY <1>1
<1> QED
  BY <1>2, TypeCorrect, PTL DEF Safety, FreshEditKeepsAttempts

\* What a job's step does to the link.
LEMMA JobLink ==
  ASSUME SyncInv, NEW j \in Jobs, JobStep(j) \/ JobCrash(j)
  PROVE  /\ link' \in {link, Outcome(j, TRUE), Outcome(j, FALSE)}
         /\ link' # link => link # NoLink /\ link.stamp = job[j].stamp /\ ~Holding(j) /\ ~ShareLocked
<1> DEFINE Goal == /\ link' \in {link, Outcome(j, TRUE), Outcome(j, FALSE)}
                   /\ link' # link => link # NoLink /\ link.stamp = job[j].stamp /\ ~Holding(j) /\ ~ShareLocked
<1> SUFFICES Goal
  OBVIOUS
<1>1. CASE link' = link
  BY <1>1
<1>2. CASE JobEnd(j)
  <2>1. link' \in {link, Outcome(j, TRUE), Outcome(j, FALSE)} /\ ~Holding(j) /\ (link' # link => ~ShareLocked)
    BY <1>2 DEF JobEnd, Holding
  <2>2. link' # link => link # NoLink /\ link.stamp = job[j].stamp
    BY <2>1 DEF Outcome
  <2> QED
    BY <2>1, <2>2
<1> HIDE DEF Goal
<1> QED
  BY <1>1, <1>2 DEF JobStep, JobLoad, JobClaim, JobRead, JobPush, JobSettle, JobRelease, JobStoreFails, JobCrash

\* The other jobs stay as they are.
LEMMA OtherJobs ==
  ASSUME SyncInv, NEW j \in Jobs, JobStep(j) \/ JobCrash(j)
  PROVE  \A i \in Jobs \ {j} : job'[i] = job[i]
<1>1. TypeOK /\ \E x \in Job : job' = [job EXCEPT ![j] = x]
  BY JobShape DEF JobTurns, SyncInv
<1> QED
  BY <1>1 DEF TypeOK

\* A job that is not done keeps what it loaded of the link, or has just loaded it.
Loaded(j) ==
  \/ Active(j) /\ job'[j].sheet = job[j].sheet /\ job'[j].stamp = job[j].stamp /\ job'[j].since = job[j].since
  \/ link # NoLink /\ job'[j].sheet = link.sheet /\ job'[j].stamp = link.stamp /\ job'[j].since = "none"

LEMMA JobSheet ==
  ASSUME SyncInv, NEW j \in Jobs, JobStep(j) \/ JobCrash(j), job'[j].pc # "idle"
  PROVE  /\ link' = link
         /\ Loaded(j)
<1> DEFINE Goal == /\ link' = link
                   /\ Loaded(j)
<1> SUFFICES Goal
  OBVIOUS
<1>0. TypeOK /\ job[j] \in Job
  BY JobFields DEF SyncInv
<1>1. ASSUME NEW x, job' = [job EXCEPT ![j] = x], x.sheet = job[j].sheet, x.stamp = job[j].stamp,
             x.since = job[j].since, Active(j), link' = link
      PROVE  Goal
  <2>1. job'[j] = x
    BY <1>0, <1>1 DEF TypeOK
  <2> QED
    BY <1>1, <2>1 DEF Loaded
<1>2. ASSUME NEW m \in queue, JobLoad(j, m) PROVE Goal
  <2>1. link' = link
    BY <1>2 DEF JobLoad
  <2>2. CASE UNCHANGED job
    BY <1>2, <2>2 DEF JobLoad, Active
  <2>3. ASSUME Enabled, NEW pc \in {"next", "ending"},
               job' = [job EXCEPT ![j] = [Idle EXCEPT
                 !.pc = pc, !.msg = m, !.todo = m, !.sheet = link.sheet, !.stamp = link.stamp,
                 !.result = IF pc = "next" THEN "ok" ELSE "link"]]
        PROVE  Loaded(j)
    <3> DEFINE x == [Idle EXCEPT !.pc = pc, !.msg = m, !.todo = m, !.sheet = link.sheet, !.stamp = link.stamp,
                                 !.result = IF pc = "next" THEN "ok" ELSE "link"]
    <3>1. x.sheet = link.sheet /\ x.stamp = link.stamp /\ x.since = "none"
      BY DEF Idle
    <3> HIDE DEF x
    <3>2. job'[j] = x
      BY <1>0, <2>3 DEF TypeOK, x
    <3> QED
      BY <2>3, <3>1, <3>2 DEF Enabled, Loaded
  <2> QED
    BY <1>2, <2>1, <2>2, <2>3 DEF JobLoad
<1>3. ASSUME NEW r \in Rows, JobClaim(j, r) PROVE Goal
  <2> DEFINE x == [job[j] EXCEPT !.pc = "claimed", !.row = r, !.ousted = FALSE,
                                 !.version = state[r].version, !.deleted = state[r].deleted]
  <2>1. /\ x.sheet = job[j].sheet /\ Leave(j, r).sheet = job[j].sheet
        /\ x.stamp = job[j].stamp /\ Leave(j, r).stamp = job[j].stamp
        /\ x.since = job[j].since /\ Leave(j, r).since = job[j].since
    BY <1>0, LeaveFields DEF Job
  <2>2. job' = [job EXCEPT ![j] = x] \/ job' = [job EXCEPT ![j] = Leave(j, r)]
    BY <1>3 DEF JobClaim, Becomes
  <2>3. link' = link /\ Active(j)
    BY <1>3 DEF JobClaim, Active
  <2> HIDE DEF x, Goal
  <2> QED
    BY <1>1, <2>1, <2>2, <2>3
<1>4. ASSUME JobRead(j) PROVE Goal
  <2> DEFINE v == IF job[j].deleted \/ ~Exists(job[j].row) THEN Tombstone ELSE row[job[j].row]
             x == [job[j] EXCEPT !.pc = "read", !.value = v]
  <2>1. job' = [job EXCEPT ![j] = x] /\ link' = link /\ Active(j)
    BY <1>4 DEF JobRead, Becomes, Active
  <2>2. x.sheet = job[j].sheet /\ x.stamp = job[j].stamp /\ x.since = job[j].since
    BY <1>0 DEF Job
  <2> HIDE DEF x, Goal
  <2> QED
    BY <1>1, <2>1, <2>2
<1>5. ASSUME NEW result, NEW lands, JobPush(j, result, lands) PROVE Goal
  <2> DEFINE x == [job[j] EXCEPT !.pc = "pushed", !.result = result, !.value = Missing]
  <2>1. job' = [job EXCEPT ![j] = x] /\ link' = link /\ Active(j)
    BY <1>5 DEF JobPush, Becomes, Active
  <2>2. x.sheet = job[j].sheet /\ x.stamp = job[j].stamp /\ x.since = job[j].since
    BY <1>0 DEF Job
  <2> HIDE DEF x, Goal
  <2> QED
    BY <1>1, <2>1, <2>2
<1>6. ASSUME JobSettle(j) PROVE Goal
  <2> DEFINE r == job[j].row
             again == Holds(j) /\ state[r].version > job[j].version /\ job[j].pass + 1 < MaxPasses
             y == IF again THEN [job[j] EXCEPT !.pc = "next", !.pass = @ + 1] ELSE Leave(j, r)
             x == [y EXCEPT !.settled = @ \/ Holds(j)]
  <2>1. job' = [job EXCEPT ![j] = x] /\ link' = link /\ Active(j)
    BY <1>6 DEF JobSettle, Becomes, Active
  <2>2. x.sheet = job[j].sheet /\ x.stamp = job[j].stamp /\ x.since = job[j].since
    BY <1>0 DEF Job, Leave
  <2> HIDE DEF x, Goal
  <2> QED
    BY <1>1, <2>1, <2>2
<1>7. ASSUME NEW stored \in BOOLEAN, JobRelease(j, stored) PROVE Goal
  <2> DEFINE x == IF job[j].result = "row" THEN Leave(j, job[j].row) ELSE [job[j] EXCEPT !.pc = "ending"]
  <2>1. job' = [job EXCEPT ![j] = x] /\ link' = link /\ Active(j)
    BY <1>7 DEF JobRelease, Becomes, Active
  <2>2. x.sheet = job[j].sheet /\ x.stamp = job[j].stamp /\ x.since = job[j].since
    BY <1>0, LeaveFields DEF Job
  <2> HIDE DEF x, Goal
  <2> QED
    BY <1>1, <2>1, <2>2
<1>8. ASSUME JobStoreFails(j) PROVE Goal
  <2> DEFINE x == [job[j] EXCEPT !.pc = "ending", !.result = "transient"]
  <2>1. job' = [job EXCEPT ![j] = x] /\ link' = link /\ Active(j)
    BY <1>8 DEF JobStoreFails, Becomes, Active
  <2>2. x.sheet = job[j].sheet /\ x.stamp = job[j].stamp /\ x.since = job[j].since
    BY <1>0 DEF Job
  <2> HIDE DEF x, Goal
  <2> QED
    BY <1>1, <2>1, <2>2
<1>9. ASSUME JobEnd(j) \/ JobCrash(j) PROVE FALSE
  <2>1. job'[j] = Idle
    BY <1>0, <1>9 DEF JobEnd, JobCrash, TypeOK
  <2> QED
    BY <2>1, IdleFields
<1> HIDE DEF Goal
<1> QED
  BY <1>2, <1>3, <1>4, <1>5, <1>6, <1>7, <1>8, <1>9 DEF JobStep

\* A step is a job's, or leaves the jobs and the sheets where they are.
LEMMA StepKinds ==
  ASSUME SyncInv, [Next]_vars
  PROVE  \/ OthersTurn /\ sheet' = sheet
         \/ \E j \in Jobs : JobStep(j) \/ JobCrash(j)
<1>1. ASSUME NEW w \in Writers, Write(w) PROVE OthersTurn /\ sheet' = sheet
  <2>1. OthersTurn
    BY <1>1, WriteOpenStep, WriteCommitStep, WriteRollbackStep DEF Write
  <2> QED
    BY <1>1, <2>1 DEF Write, WriteOpen, WriteCommit, WriteRollback
<1>2. ASSUME NEW m \in Managers, Settings(m) PROVE OthersTurn /\ sheet' = sheet
  <2>1. OthersTurn
    BY <1>2, RequestLoadStep, RequestCommitStep, RequestAbandonStep, SyncNowStep DEF Settings
  <2> QED
    BY <1>2, <2>1 DEF Settings, RequestLoad, RequestCommit, RequestAbandon, SyncNow
<1>3. ASSUME Clock PROVE OthersTurn /\ sheet' = sheet
  BY <1>3, ClockStep DEF Clock, LeaseExpires, LeaseOverruns, RetryFalls
<1>4. ASSUME NEW S \in SUBSET Rows, Reconcile(S) PROVE OthersTurn /\ sheet' = sheet
  BY <1>4, ReconcileStep DEF Reconcile
<1>5. ASSUME LinkDelete PROVE OthersTurn /\ sheet' = sheet
  BY <1>5, LinkDeleteStep DEF LinkDelete
<1>7. ASSUME UNCHANGED vars PROVE OthersTurn /\ sheet' = sheet
  BY <1>7, StutterSync DEF vars
<1> QED
  BY <1>1, <1>2, <1>3, <1>4, <1>5, <1>7 DEF Next

\* While nothing but requests that had loaded it as it was stored has saved the
\* link a job loaded, its updated_at is the job's, or has moved past it.
StampInv ==
  \A j \in Jobs : Active(j) =>
    /\ job[j].since = "none" => link # NoLink /\ link.stamp = job[j].stamp
    /\ job[j].since = "saved" => link # NoLink /\ link.stamp > job[j].stamp

LEMMA OutdatedSince ==
  ASSUME TypeOK, NEW j \in Jobs, Active(j)
  PROVE  /\ Outdated("saved")[j].since = IF job[j].since \in {"overwritten", "removed"} THEN job[j].since ELSE "saved"
         /\ Outdated("overwritten")[j].since \in {"overwritten", "removed"}
         /\ Outdated("removed")[j].since = "removed"
<1>0. job[j] \in Job /\ job[j].since \in {"none", "saved", "overwritten", "removed"}
  BY JobFields
<1>1. ASSUME NEW c \in {"saved", "overwritten", "removed"} PROVE [job[j] EXCEPT !.since = c].since = c
  BY <1>0 DEF Job
<1>2. /\ Outdated("saved")[j] = IF job[j].since \in {"overwritten", "removed"} THEN job[j]
                                ELSE [job[j] EXCEPT !.since = "saved"]
      /\ Outdated("overwritten")[j] = IF job[j].since \in {"removed"} THEN job[j]
                                      ELSE [job[j] EXCEPT !.since = "overwritten"]
      /\ Outdated("removed")[j] = [job[j] EXCEPT !.since = "removed"]
  BY DEF Outdated
<1> QED
  BY <1>0, <1>1, <1>2

LEMMA NextStamp ==
  ASSUME SyncInv, StampInv, [Next]_vars
  PROVE  StampInv'
<1>0. TypeOK
  BY DEF SyncInv
<1> DEFINE Stamped(i) == /\ job'[i].since = "none" => link' # NoLink /\ link'.stamp = job'[i].stamp
                         /\ job'[i].since = "saved" => link' # NoLink /\ link'.stamp > job'[i].stamp
<1>1. ASSUME NEW j \in Jobs, JobStep(j) \/ JobCrash(j) PROVE StampInv'
  <2> SUFFICES ASSUME NEW i \in Jobs, job'[i].pc # "idle" PROVE Stamped(i)
    BY DEF StampInv, Active
  <2>1. CASE i = j
    BY <1>1, <2>1, JobSheet DEF StampInv, Loaded
  <2>2. CASE i # j
    <3>1. job'[i] = job[i] /\ Active(i)
      BY <1>1, <2>2, OtherJobs DEF Active
    <3>2. link # NoLink => link' # NoLink /\ link'.stamp = link.stamp
      <4>1. link' \in {link, Outcome(j, TRUE), Outcome(j, FALSE)}
        BY <1>1, JobLink
      <4> QED
        BY <1>0, <4>1, OutcomeFields
    <3> QED
      BY <3>1, <3>2 DEF StampInv
  <2> QED
    BY <2>1, <2>2
<1>2. ASSUME NEW m \in Managers, NEW at \in 1..MaxStamp, RequestCommit(m, at) PROVE StampInv'
  <2> SUFFICES ASSUME NEW i \in Jobs, job'[i].pc # "idle" PROVE Stamped(i)
    BY DEF StampInv, Active
  <2> DEFINE q == request[m]
  <2>1. OthersTurn
    BY <1>2, RequestCommitStep
  <2>2. Active(i) /\ job'[i].stamp = job[i].stamp
    BY <1>0, <2>1, JobsStay DEF OthersTurn, Active
  <2>3. /\ q.pc = "loaded" /\ q.kind # "sync" /\ link' = NewLink(q, at)
        /\ job' = Outdated(IF q.copy # NoLink /\ link # NoLink /\ q.copy.stamp = link.stamp
                           THEN "saved" ELSE "overwritten")
    BY <1>2 DEF RequestCommit
  <2>4. link' \in Link /\ link'.stamp = at /\ link' # NoLink
    BY <2>3, NewLinkFields, NoRowAssumption
  <2>5. CASE q.copy # NoLink /\ link # NoLink /\ q.copy.stamp = link.stamp
    <3>1. at > link.stamp
      BY <1>2, <2>5 DEF RequestCommit, Stamp
    <3>2. job'[i].since = IF job[i].since \in {"overwritten", "removed"} THEN job[i].since ELSE "saved"
      BY <1>0, <2>2, <2>3, <2>5, OutdatedSince
    <3>3. job[i].since \in {"none", "saved", "overwritten", "removed"} /\ job[i].stamp \in Int /\ link.stamp \in Int /\ at \in Int
      BY <1>0, <2>5, JobFields, Bounds DEF TypeOK, Link
    <3>4. job'[i].since # "none"
      BY <3>2
    <3>5. ASSUME job'[i].since = "saved" PROVE at > job[i].stamp
      <4>1. job[i].since \in {"none", "saved"}
        BY <3>2, <3>3, <3>5
      <4>2. link.stamp = job[i].stamp \/ link.stamp > job[i].stamp
        BY <2>2, <4>1 DEF StampInv
      <4> HIDE DEF q
      <4> QED
        BY <3>1, <3>3, <4>2
    <3> QED
      BY <2>2, <2>4, <3>4, <3>5
  <2>6. CASE ~(q.copy # NoLink /\ link # NoLink /\ q.copy.stamp = link.stamp)
    <3>1. job' = Outdated("overwritten")
      BY <2>3, <2>6
    <3>2. job'[i].since \in {"overwritten", "removed"}
      BY <1>0, <2>2, <3>1, OutdatedSince
    <3> QED
      BY <3>2
  <2> QED
    BY <2>5, <2>6
<1>3. ASSUME LinkDelete PROVE StampInv'
  <2> SUFFICES ASSUME NEW i \in Jobs, job'[i].pc # "idle" PROVE Stamped(i)
    BY DEF StampInv, Active
  <2>1. OthersTurn
    BY <1>3, LinkDeleteStep
  <2>2. Active(i)
    BY <1>0, <2>1, JobsStay DEF OthersTurn, Active
  <2> DEFINE y == Outdated("removed")[i]
  <2>3. job'[i] = [y EXCEPT !.ousted = y.ousted \/ Holding(i)]
    BY <1>3 DEF LinkDelete
  <2>4. y \in Job /\ y.since = "removed"
    <3>1. \E a \in {"none", "saved", "overwritten", "removed"} : y = [job[i] EXCEPT !.since = a]
      BY <1>0, OutdatedAges
    <3>2. y \in Job
      BY <1>0, <3>1, JobFields DEF Job
    <3> QED
      BY <1>0, <2>2, <3>2, OutdatedSince
  <2> HIDE DEF y
  <2>5. job'[i].since = "removed"
    BY <2>3, <2>4 DEF Job
  <2> QED
    BY <2>5
<1>4. CASE link' = link /\ job' = job
  BY <1>4 DEF StampInv, Active
<1>5. ASSUME Clock PROVE StampInv'
  <2> PICK r \in Rows : LeaseExpires(r) \/ LeaseOverruns(r) \/ RetryFalls(r)
    BY <1>5 DEF Clock
  <2>1. CASE LeaseExpires(r) \/ RetryFalls(r)
    BY <1>4, <2>1 DEF LeaseExpires, RetryFalls
  <2>2. CASE LeaseOverruns(r)
    <3> SUFFICES ASSUME NEW i \in Jobs, job'[i].pc # "idle" PROVE Stamped(i)
      BY DEF StampInv, Active
    <3>1. link' = link /\ state[r].lease \in Jobs /\ job' = [job EXCEPT ![state[r].lease] = [job[state[r].lease] EXCEPT !.ousted = TRUE]]
      BY <2>2 DEF LeaseOverruns
    <3>2. [job[i] EXCEPT !.ousted = TRUE].pc = job[i].pc /\ [job[i] EXCEPT !.ousted = TRUE].since = job[i].since
          /\ [job[i] EXCEPT !.ousted = TRUE].stamp = job[i].stamp
      BY <1>0, JobFields DEF Job
    <3>3. job'[i] = job[i] \/ job'[i] = [job[i] EXCEPT !.ousted = TRUE]
      BY <1>0, <3>1 DEF TypeOK
    <3>4. job'[i].pc = job[i].pc /\ job'[i].since = job[i].since /\ job'[i].stamp = job[i].stamp
      BY <3>2, <3>3
    <3> QED
      BY <3>1, <3>4 DEF StampInv, Active
  <2> QED
    BY <2>1, <2>2
<1>6. ASSUME NEW w \in Writers, Write(w) PROVE link' = link /\ job' = job
  BY <1>6 DEF Write, WriteOpen, WriteCommit, WriteRollback
<1>7. ASSUME NEW m \in Managers, Settings(m) PROVE StampInv'
  <2>1. CASE \E at \in 1..MaxStamp : RequestCommit(m, at)
    BY <1>2, <2>1
  <2>2. (\E at \in 1..MaxStamp : RequestCommit(m, at)) \/ (link' = link /\ job' = job)
    BY <1>7 DEF Settings, RequestLoad, RequestAbandon, SyncNow
  <2> QED
    BY <1>4, <2>1, <2>2
<1>8. ASSUME NEW S \in SUBSET Rows, Reconcile(S) PROVE link' = link /\ job' = job
  BY <1>8 DEF Reconcile
<1>9. ASSUME UNCHANGED vars PROVE link' = link /\ job' = job
  BY <1>9 DEF vars
<1> QED
  BY <1>1, <1>3, <1>4, <1>5, <1>6, <1>7, <1>8, <1>9 DEF Next

\* Once the settings a job loaded have been changed, the job never moves the
\* failure streak, turns the mirror off or clears a streak, whatever clocks the
\* changes were stamped by: each moves updated_at past the one it loaded
\* (service.go stamp, postgres.go SaveOutcome).
THEOREM StaleJobsSpareLink == Safety => StaleJobSparesLink
<1> DEFINE Act == \A j \in Jobs : (Active(j) /\ job'[j].pc = "idle" /\ job[j].since = "saved") => link' = link
<1>1. Init => StampInv
  BY IdleFields DEF Init, StampInv, Active
<1>2. SyncInv /\ StampInv /\ [Next]_vars => StampInv'
  BY NextStamp
<1>3. ASSUME SyncInv, StampInv, [Next]_vars PROVE Act
  <2> SUFFICES ASSUME NEW j \in Jobs, Active(j), job'[j].pc = "idle", job[j].since = "saved"
               PROVE  link' = link
    OBVIOUS
  <2>0. TypeOK /\ job[j].pc # "idle"
    BY <1>3 DEF SyncInv, Active
  <2>1. ~OthersTurn
    BY <2>0, JobsStay DEF OthersTurn
  <2> PICK i \in Jobs : JobStep(i) \/ JobCrash(i)
    BY <1>3, <2>1, StepKinds
  <2>2. i = j
    BY <1>3, <2>0, OtherJobs
  <2>3. link # NoLink /\ link.stamp > job[j].stamp
    BY <1>3 DEF StampInv
  <2>4. link.stamp \in Int /\ job[j].stamp \in Int
    BY <2>0, <2>3, JobFields, Bounds DEF TypeOK, Link
  <2>5. link.stamp # job[j].stamp
    BY <2>3, <2>4
  <2> QED
    BY <1>3, <2>2, <2>5, JobLink
<1>4. SyncInv /\ StampInv /\ [Next]_vars => [Act]_vars
  BY <1>3
<1> QED
  BY <1>1, <1>2, <1>4, TypeCorrect, PTL DEF Safety, StaleJobSparesLink

-----------------------------------------------------------------------------
(* Two jobs and one row *)

\* A job between claim and settle that has not outlived its lease holds it.
HoldInv == \A j \in Jobs : (Holding(j) /\ ~job[j].ousted) => Holds(j) /\ ~state[job[j].row].lapsed

LEMMA NextHold ==
  ASSUME SyncInv, SyncInv', HoldInv, [Next]_vars
  PROVE  HoldInv'
<1>0. TypeOK
  BY DEF SyncInv
<1> DEFINE Keeper(i) == (Holding(i)' /\ ~job'[i].ousted) =>
                          /\ state'[job'[i].row] # NoState /\ state'[job'[i].row].lease = i
                          /\ ~state'[job'[i].row].lapsed
<1>1. ASSUME \A i \in Jobs : Keeper(i) PROVE HoldInv'
  BY <1>1 DEF HoldInv, Holds
<1>2. CASE OthersTurn
  <2> SUFFICES ASSUME NEW j \in Jobs, Holding(j)', ~job'[j].ousted
               PROVE  state'[job'[j].row] # NoState /\ state'[job'[j].row].lease = j /\ ~state'[job'[j].row].lapsed
    BY <1>1
  <2> DEFINE r == job[j].row
  <2>1. job'[j].row = r /\ Holding(j) /\ ~job[j].ousted
    BY <1>0, <1>2, JobsStay DEF OthersTurn
  <2>2. r \in Rows /\ state[r] # NoState /\ state[r].lease = j /\ ~state[r].lapsed
    BY <2>1 DEF HoldInv, Holds, SyncInv, JobInv
  <2>4. row'[r] >= row[r] /\ row'[r] \in Nat /\ gone \subseteq gone' /\ RowTurns(r)
    BY <1>2, <2>2, Bounds DEF OthersTurn, SyncInv, TypeOK
  <2>3. state'[r] # NoState
    <3>1. state[r] \in State
      BY <1>0, <2>2 DEF TypeOK
    <3>2. ASSUME NEW st, st \in State PROVE st # NoState
      BY <3>2, StateFields
    <3>3. ASSUME NEW dead \in BOOLEAN, state[r].version < MaxVersion PROVE Marked(state[r], dead) \in State
      BY <3>1, <3>3, MarkedFields
    <3>4. Leased(state[r], "none", state[r].lapsed) \in State /\ Leased(state[r], state[r].lease, TRUE) \in State
      BY <3>1, LeaseFields, StateFields
    <3>5. [state[r] EXCEPT !.waiting = FALSE] \in State
      BY <3>1, WaitFields
    <3> QED
      BY <2>1, <2>2, <2>4, <3>2, <3>3, <3>4, <3>5 DEF RowTurns
  <2>5. state'[r].lease = j /\ ~state'[r].lapsed
    BY <2>1, <2>2, <2>3, <2>4, RowTurnsFields, Bounds
  <2> QED
    BY <2>1, <2>3, <2>5
<1>3. ASSUME NEW j \in Jobs, JobTurns(j) PROVE HoldInv'
  <2> PICK x \in Job : job' = [job EXCEPT ![j] = x] /\ (Keeps(j, x) \/ Takes(j, x) \/ Drops(j, x))
    BY <1>3 DEF JobTurns
  <2>0. job'[j] = x /\ \A i \in Jobs \ {j} : job'[i] = job[i] /\ Holding(i)' = Holding(i)
    BY <1>0 DEF TypeOK, Holding
  <2>1. Holding(j)' = (x.pc \in InHand)
    BY <2>0 DEF Holding, InHand
  <2>2. ASSUME NEW i \in Jobs \ {j}, Holding(i), ~job[i].ousted
        PROVE  /\ job[i].row \in Rows /\ state[job[i].row] # NoState /\ state[job[i].row].lease = i
               /\ ~state[job[i].row].lapsed
    BY <2>2 DEF HoldInv, Holds, SyncInv, JobInv
  <2>6. ASSUME state' = state PROVE \A i \in Jobs \ {j} : Keeper(i)
    BY <2>0, <2>2, <2>6
  <2>3. CASE Keeps(j, x)
    <3>1. state' = state
      BY <2>3 DEF Keeps
    <3>2. Keeper(j)
      BY <2>0, <2>1, <2>3, <3>1 DEF Keeps, HoldInv, Holds
    <3> QED
      BY <1>1, <2>6, <3>1, <3>2
  <2>4. CASE Takes(j, x)
    <3> PICK r \in Rows : /\ Claimable(state[r]) /\ x.row = r
                          /\ state' = [state EXCEPT ![r] = Leased(state[r], j, FALSE)]
      BY <2>4 DEF Takes
    <3>1. state[r] \in State /\ (state[r].lease = "none" \/ state[r].lapsed)
      BY <1>0 DEF Claimable, Dirty, TypeOK
    <3>2. j \in Jobs \cup {"none", "orphan"} /\ FALSE \in BOOLEAN
      OBVIOUS
    <3>3. Leased(state[r], j, FALSE) \in State /\ Leased(state[r], j, FALSE).lease = j /\ ~Leased(state[r], j, FALSE).lapsed
      BY <3>1, <3>2, LeaseFields
    <3>4. state'[r] = Leased(state[r], j, FALSE) /\ \A p \in Rows \ {r} : state'[p] = state[p]
      BY <1>0 DEF TypeOK
    <3>5. state'[r] # NoState /\ state'[r].lease = j /\ ~state'[r].lapsed
      BY <3>3, <3>4, StateFields
    <3>6. Keeper(j)
      BY <2>0, <3>5
    <3>7. ASSUME NEW i \in Jobs \ {j}, Holding(i)', ~job'[i].ousted
          PROVE  /\ state'[job'[i].row] # NoState /\ state'[job'[i].row].lease = i
                 /\ ~state'[job'[i].row].lapsed
      <4>1. Holding(i) /\ ~job[i].ousted /\ job'[i] = job[i]
        BY <2>0, <3>7
      <4>2. job[i].row \in Rows /\ state[job[i].row] # NoState /\ state[job[i].row].lease = i /\ ~state[job[i].row].lapsed
        BY <2>2, <4>1
      <4>3. job[i].row # r
        BY <3>1, <4>2, Bounds
      <4> QED
        BY <3>4, <4>1, <4>2, <4>3
    <3> QED
      BY <1>1, <3>6, <3>7
  <2>5. CASE Drops(j, x)
    <3>1. Keeper(j)
      BY <2>1, <2>5 DEF Drops
    <3>2. CASE ~Holds(j)
      BY <1>1, <2>5, <2>6, <3>1, <3>2 DEF Drops
    <3>3. CASE Holds(j)
      <4> PICK st \in State : state' = [state EXCEPT ![job[j].row] = st]
        BY <2>5, <3>3 DEF Drops
      <4>1. \A i \in Jobs \ {j} : Keeper(i)
        BY <1>0, <2>0, <2>2, <3>3 DEF Holds, TypeOK
      <4> QED
        BY <1>1, <3>1, <4>1
    <3> QED
      BY <3>2, <3>3
  <2> QED
    BY <2>3, <2>4, <2>5
<1> QED
  BY <1>2, <1>3, NextSync, StutterSync

\* Two jobs are between the claim and the settle of one row only when one of
\* them has outlived its lease, whatever crashes, overruns and settings changes
\* come between (sync.go leaseTTL: "so two jobs never push one row at once").
THEOREM JobsNeverShareRow == Safety => []TwoJobsNeverPushOneRow
<1>1. Init => HoldInv
  BY IdleFields DEF Init, HoldInv, Holding
<1>2. SyncInv /\ SyncInv' /\ HoldInv /\ [Next]_vars => HoldInv'
  BY NextHold
<1>3. HoldInv => TwoJobsNeverPushOneRow
  BY DEF HoldInv, TwoJobsNeverPushOneRow, Holds
<1> QED
  BY <1>1, <1>2, <1>3, TypeCorrect, PTL DEF Safety

-----------------------------------------------------------------------------
(* No row is missed *)

LEMMA MarkedIsState ==
  ASSUME NEW st \in State \cup {NoState}, NEW dead \in BOOLEAN, st # NoState => st.version < MaxVersion
  PROVE  Marked(st, dead) # NoState
  BY MarkedFields, StateFields

LEMMA JobStatesStay ==
  ASSUME SyncInv, NEW j \in Jobs, JobTurns(j), NEW r \in Rows, state[r] # NoState
  PROVE  state'[r] # NoState
<1>0. TypeOK
  BY DEF SyncInv
<1> PICK x \in Job : job' = [job EXCEPT ![j] = x] /\ (Keeps(j, x) \/ Takes(j, x) \/ Drops(j, x))
  BY DEF JobTurns
<1>1. CASE Keeps(j, x)
  BY <1>1 DEF Keeps
<1>2. CASE Takes(j, x)
  <2> PICK p \in Rows : Claimable(state[p]) /\ state' = [state EXCEPT ![p] = Leased(state[p], j, FALSE)]
    BY <1>2 DEF Takes
  <2>1. state[p] \in State
    BY <1>0 DEF Claimable, Dirty, TypeOK
  <2>2. Leased(state[p], j, FALSE) \in State
    BY <2>1, LeaseFields, Zenon
  <2>3. Leased(state[p], j, FALSE) # NoState
    BY <2>2, StateFields
  <2> QED
    BY <1>0, <2>3 DEF TypeOK
<1>3. CASE Drops(j, x)
  <2>1. CASE ~Holds(j)
    BY <1>3, <2>1 DEF Drops
  <2>2. CASE Holds(j)
    <3> PICK st \in State : state' = [state EXCEPT ![job[j].row] = st]
      BY <1>3, <2>2 DEF Drops
    <3>1. st # NoState
      BY StateFields
    <3> QED
      BY <1>0, <3>1 DEF TypeOK
  <2> QED
    BY <2>1, <2>2
<1> QED
  BY <1>1, <1>2, <1>3

LEMMA MarkAllStays ==
  ASSUME SyncInv, CanMark(BackfillRows), state' = MarkAll, NEW r \in Rows
  PROVE  (Exists(r) \/ state[r] # NoState) => state'[r] # NoState
<1> SUFFICES ASSUME r \in BackfillRows PROVE state'[r] # NoState
  BY DEF BackfillRows
<1>1. state'[r] = Marked(state[r], ~Exists(r)) /\ (~Exists(r)) \in BOOLEAN
  BY DEF MarkAll
<1>2. state[r] \in State \cup {NoState} /\ (state[r] # NoState => state[r].version < MaxVersion)
  BY DEF SyncInv, TypeOK, CanMark
<1> QED
  BY <1>1, <1>2, MarkedIsState

\* A commit of a write under way marks the rows it touched, if the link was on.
LEMMA CommitStays ==
  ASSUME SyncInv, NEW w \in Writers, WriteCommit(w), NEW r \in Rows
  PROVE  /\ state[r] # NoState => state'[r] # NoState
         /\ (writer[w].saw = "on" /\ r \in writer[w].touched \cup writer[w].dropped) => state'[r] # NoState
         /\ r \notin writer[w].touched \cup writer[w].dropped =>
              state'[r] = state[r] /\ row'[r] = row[r] /\ (r \in gone' <=> r \in gone)
<1> DEFINE u == writer[w]
           S == u.touched \cup u.dropped
<1>1. /\ u.saw = "on" => CanMark(S)
      /\ state' = [p \in Rows |-> IF u.saw = "on" /\ p \in S THEN Marked(state[p], p \in u.dropped) ELSE state[p]]
      /\ row' = [p \in Rows |-> IF p \in u.touched THEN row[p] + 1 ELSE row[p]]
      /\ gone' = gone \cup u.dropped
  BY DEF WriteCommit
<1>2. ASSUME u.saw = "on", r \in S PROVE state'[r] # NoState
  <2>1. state'[r] = Marked(state[r], r \in u.dropped) /\ (r \in u.dropped) \in BOOLEAN
    BY <1>1, <1>2
  <2>2. state[r] \in State \cup {NoState} /\ (state[r] # NoState => state[r].version < MaxVersion)
    BY <1>1, <1>2 DEF SyncInv, TypeOK, CanMark
  <2> QED
    BY <2>1, <2>2, MarkedIsState
<1>3. ~(u.saw = "on" /\ r \in S) => state'[r] = state[r]
  BY <1>1
<1>4. r \notin S => row'[r] = row[r] /\ (r \in gone' <=> r \in gone)
  BY <1>1
<1> QED
  BY <1>2, <1>3, <1>4

\* Only the deletion of the link takes state rows away.
LEMMA StatesStay ==
  ASSUME SyncInv, [Next]_vars, ~LinkDelete, NEW r \in Rows, state[r] # NoState
  PROVE  state'[r] # NoState
<1>0. state[r] \in State /\ TypeOK
  BY DEF SyncInv, TypeOK
<1>1. ASSUME NEW w \in Writers, Write(w) PROVE state'[r] # NoState
  <2>1. CASE WriteCommit(w)
    BY <2>1, CommitStays
  <2>2. CASE state' = state
    BY <2>2
  <2> QED
    BY <1>1, <2>1, <2>2 DEF Write, WriteOpen, WriteRollback
<1>2. ASSUME NEW j \in Jobs, JobStep(j) \/ JobCrash(j) PROVE state'[r] # NoState
  BY <1>2, JobKeepsSync, JobStatesStay
<1>3. ASSUME NEW m \in Managers, Settings(m) PROVE state'[r] # NoState
  <2>1. CASE state' = MarkAll /\ CanMark(BackfillRows)
    BY <2>1, MarkAllStays
  <2>2. CASE state' = state
    BY <2>2
  <2> QED
    BY <1>3, <2>1, <2>2 DEF Settings, RequestLoad, RequestAbandon, RequestCommit, SyncNow
<1>4. ASSUME Clock PROVE state'[r] # NoState
  <2> PICK p \in Rows : LeaseExpires(p) \/ LeaseOverruns(p) \/ RetryFalls(p)
    BY <1>4 DEF Clock
  <2> DEFINE Turned == {[state[p] EXCEPT !.lease = "none"], [state[p] EXCEPT !.lapsed = TRUE],
                        [state[p] EXCEPT !.waiting = FALSE]}
  <2>1. state[p] \in State
    BY <1>0 DEF LeaseExpires, LeaseOverruns, RetryFalls, TypeOK
  <2>2. \A st \in Turned : st \in State
    BY <2>1 DEF State
  <2>3. \A st \in Turned : st # NoState
    BY <2>2, StateFields
  <2>4. \E st \in Turned : state' = [state EXCEPT ![p] = st]
    BY DEF LeaseExpires, LeaseOverruns, RetryFalls
  <2> QED
    BY <1>0, <2>3, <2>4 DEF TypeOK
<1>5. ASSUME NEW S \in SUBSET Rows, Reconcile(S) PROVE state'[r] # NoState
  BY <1>5 DEF Reconcile
<1>7. CASE UNCHANGED vars
  BY <1>7 DEF vars
<1> QED
  BY <1>1, <1>2, <1>3, <1>4, <1>5, <1>7 DEF Next

\* A marked row trails its version.
LEMMA MarkIsDirty ==
  ASSUME SyncInv, NEW r \in Rows, NEW dead \in BOOLEAN, state[r] # NoState => state[r].version < MaxVersion,
         NEW st, st = Marked(state[r], dead)
  PROVE  Dirty(st) /\ (state[r] # NoState => st.version > state[r].version)
<1>0. state[r] \in State \cup {NoState}
  BY DEF SyncInv, TypeOK
<1>1. CASE state[r] = NoState
  <2>1. st \in State /\ st.version = 1 /\ st.synced = 0
    BY <1>0, <1>1, MarkedFields
  <2> QED
    BY <1>1, <2>1, StateFields DEF Dirty
<1>2. CASE state[r] # NoState
  <2>1. st \in State /\ st.version = state[r].version + 1 /\ st.synced = state[r].synced
    BY <1>0, <1>2, MarkedFields
  <2>2. state[r].synced <= state[r].version /\ state[r].version \in Nat /\ state[r].synced \in Nat
    BY <1>0, <1>2, StateFields, Bounds DEF SyncInv, LeaseInv
  <2>3. st # NoState
    BY <2>1, StateFields
  <2> QED
    BY <1>2, <2>1, <2>2, <2>3 DEF Dirty
<1> QED
  BY <1>1, <1>2

\* Which entities there are changes only by the commit of a write.
LEMMA RowsStay ==
  ASSUME [Next]_vars, SyncInv
  PROVE  (row' = row /\ gone' = gone) \/ \E w \in Writers : WriteCommit(w)
<1>1. ASSUME NEW w \in Writers, Write(w) PROVE (row' = row /\ gone' = gone) \/ WriteCommit(w)
  BY <1>1 DEF Write, WriteOpen, WriteRollback
<1>2. ASSUME NEW j \in Jobs, JobStep(j) \/ JobCrash(j) PROVE row' = row /\ gone' = gone
  BY <1>2, JobShape DEF JobTurns
<1>3. ASSUME NEW m \in Managers, Settings(m) PROVE row' = row /\ gone' = gone
  BY <1>3 DEF Settings, RequestLoad, RequestAbandon, RequestCommit, SyncNow
<1>4. ASSUME Clock PROVE row' = row /\ gone' = gone
  BY <1>4 DEF Clock, LeaseExpires, LeaseOverruns, RetryFalls
<1>5. ASSUME NEW S \in SUBSET Rows, Reconcile(S) PROVE row' = row /\ gone' = gone
  BY <1>5 DEF Reconcile
<1>6. ASSUME LinkDelete PROVE row' = row /\ gone' = gone
  BY <1>6 DEF LinkDelete
<1>7. ASSUME UNCHANGED vars PROVE row' = row /\ gone' = gone
  BY <1>7 DEF vars
<1> QED
  BY <1>1, <1>2, <1>3, <1>4, <1>5, <1>6, <1>7 DEF Next

\* No statement changes the link under a unit of work that has it locked.
LEMMA LinkLocked ==
  ASSUME SyncInv, [Next]_vars
  PROVE  link' = link \/ (~ShareLocked /\ writer' = writer)
<1>1. ASSUME NEW w \in Writers, Write(w) PROVE link' = link
  BY <1>1 DEF Write, WriteOpen, WriteCommit, WriteRollback
<1>2. ASSUME NEW j \in Jobs, JobStep(j) \/ JobCrash(j) PROVE link' = link \/ (~ShareLocked /\ writer' = writer)
  BY <1>2, JobLink, JobShape DEF JobTurns
<1>3. ASSUME NEW m \in Managers, Settings(m) PROVE link' = link \/ (~ShareLocked /\ writer' = writer)
  BY <1>3 DEF Settings, RequestLoad, RequestAbandon, RequestCommit, SyncNow
<1>4. ASSUME Clock PROVE link' = link
  BY <1>4 DEF Clock, LeaseExpires, LeaseOverruns, RetryFalls
<1>5. ASSUME NEW S \in SUBSET Rows, Reconcile(S) PROVE link' = link
  BY <1>5 DEF Reconcile
<1>6. ASSUME LinkDelete PROVE ~ShareLocked /\ writer' = writer
  BY <1>6 DEF LinkDelete
<1>7. ASSUME UNCHANGED vars PROVE link' = link
  BY <1>7 DEF vars
<1> QED
  BY <1>1, <1>2, <1>3, <1>4, <1>5, <1>6, <1>7 DEF Next

\* A unit of work that read a link holds it, and one that read it off still
\* finds it off.
OnInv ==
  \A w \in Writers : writer[w].pc = "open" =>
    (writer[w].saw # "none" => writer[w].locked) /\ (writer[w].saw = "off" => ~Enabled)

LEMMA NextOn ==
  ASSUME SyncInv, OnInv, [Next]_vars
  PROVE  OnInv'
<1>0. TypeOK
  BY DEF SyncInv
<1>1. CASE ~ShareLocked /\ writer' = writer
  <2>1. ASSUME NEW w \in Writers, writer[w].pc = "open" PROVE writer[w].saw = "none"
    BY <1>1, <2>1 DEF OnInv, ShareLocked
  <2> QED
    BY <1>1, <2>1 DEF OnInv
<1>2. CASE link' = link /\ writer' = writer
  BY <1>2 DEF OnInv, Enabled
<1>3. ASSUME NEW w \in Writers, Write(w) PROVE OnInv'
  <2>1. link' = link
    BY <1>3 DEF Write, WriteOpen, WriteCommit, WriteRollback
  <2>2. CASE writer' = [writer EXCEPT ![w] = NoWrite]
    BY <1>0, <2>1, <2>2, WritersLeft DEF OnInv, Enabled
  <2>3. ASSUME NEW T \in SUBSET Rows, NEW D \in SUBSET Rows, WriteOpen(w, T, D) PROVE OnInv'
    <3> DEFINE u == [pc |-> "open", touched |-> T, dropped |-> D, saw |-> Sight, locked |-> link # NoLink]
    <3>1. writer' = [writer EXCEPT ![w] = u]
      BY <2>3 DEF WriteOpen
    <3>2. writer'[w] = u /\ \A v \in Writers \ {w} : writer'[v] = writer[v]
      BY <1>0, <3>1 DEF TypeOK
    <3>3. (u.saw # "none" => u.locked) /\ (u.saw = "off" => ~Enabled)
      BY DEF Sight, Enabled
    <3> HIDE DEF u
    <3> QED
      BY <2>1, <3>2, <3>3 DEF OnInv, Enabled
  <2> QED
    BY <1>3, <2>2, <2>3 DEF Write, WriteCommit, WriteRollback
<1>4. (\E w \in Writers : Write(w)) \/ writer' = writer
  <2>1. ASSUME NEW j \in Jobs, JobStep(j) \/ JobCrash(j) PROVE writer' = writer
    BY <2>1, JobShape DEF JobTurns
  <2>2. ASSUME NEW m \in Managers, Settings(m) PROVE writer' = writer
    BY <2>2 DEF Settings, RequestLoad, RequestAbandon, RequestCommit, SyncNow
  <2>3. ASSUME Clock \/ LinkDelete PROVE writer' = writer
    BY <2>3 DEF Clock, LeaseExpires, LeaseOverruns, RetryFalls, LinkDelete
  <2>4. ASSUME NEW S \in SUBSET Rows, Reconcile(S) PROVE writer' = writer
    BY <2>4 DEF Reconcile
  <2>5. ASSUME UNCHANGED vars PROVE writer' = writer
    BY <2>5 DEF vars
  <2> QED
    BY <2>1, <2>2, <2>3, <2>4, <2>5 DEF Next
<1> QED
  BY <1>1, <1>2, <1>3, <1>4, LinkLocked

\* The mirror comes on, or moves, only by a settings request, with a backfill
\* or with every row astray.
LEMMA LinkOn ==
  ASSUME SyncInv, [Next]_vars, Enabled'
  PROVE  \/ Enabled /\ link'.sheet = link.sheet
         \/ \E m \in Managers, at \in 1..MaxStamp : RequestCommit(m, at) /\ Backfills(request[m])
         \/ astray' = Rows
<1> DEFINE Goal == \/ Enabled /\ link'.sheet = link.sheet
                   \/ \E m \in Managers, at \in 1..MaxStamp : RequestCommit(m, at) /\ Backfills(request[m])
                   \/ astray' = Rows
<1> SUFFICES Goal
  OBVIOUS
<1>0. TypeOK
  BY DEF SyncInv
<1>1. CASE link' = link
  BY <1>1 DEF Enabled
<1>2. ASSUME NEW j \in Jobs, JobStep(j) \/ JobCrash(j) PROVE Goal
  <2>1. link' \in {link, Outcome(j, TRUE), Outcome(j, FALSE)}
    BY <1>2, JobLink
  <2>2. link' # NoLink /\ link'.enabled
    BY DEF Enabled
  <2>3. link # NoLink /\ link'.sheet = link.sheet /\ (link'.enabled => link.enabled)
    <3>1. CASE link' = link
      BY <2>2, <3>1
    <3>2. CASE link' = Outcome(j, TRUE)
      BY <1>0, <2>2, <3>2, OutcomeFields
    <3>3. CASE link' = Outcome(j, FALSE)
      BY <1>0, <2>2, <3>3, OutcomeFields
    <3> QED
      BY <2>1, <3>1, <3>2, <3>3
  <2> QED
    BY <2>2, <2>3 DEF Enabled
<1>3. ASSUME NEW m \in Managers, NEW at \in 1..MaxStamp, RequestCommit(m, at) PROVE Goal
  <2>1. CASE Backfills(request[m])
    BY <1>3, <2>1
  <2>2. CASE ~Backfills(request[m])
    <3>1. link' = NewLink(request[m], at) /\ astray' = Strays(request[m], NewLink(request[m], at))
      BY <1>3 DEF RequestCommit
    <3>2. astray' = IF link'.enabled /\ ~(Enabled /\ link.sheet = link'.sheet) THEN Rows ELSE astray
      BY <2>2, <3>1 DEF Strays
    <3> QED
      BY <3>2 DEF Enabled
  <2> QED
    BY <2>1, <2>2
<1>4. CASE LinkDelete
  BY <1>4 DEF LinkDelete, Enabled
<1>5. ASSUME NEW w \in Writers, Write(w) PROVE link' = link
  BY <1>5 DEF Write, WriteOpen, WriteCommit, WriteRollback
<1>6. ASSUME NEW m \in Managers, Settings(m) PROVE link' = link \/ \E at \in 1..MaxStamp : RequestCommit(m, at)
  BY <1>6 DEF Settings, RequestLoad, RequestAbandon, SyncNow
<1>7. ASSUME Clock PROVE link' = link
  BY <1>7 DEF Clock, LeaseExpires, LeaseOverruns, RetryFalls
<1>8. ASSUME NEW S \in SUBSET Rows, Reconcile(S) PROVE link' = link
  BY <1>8 DEF Reconcile
<1>9. ASSUME UNCHANGED vars PROVE link' = link
  BY <1>9 DEF vars
<1> HIDE DEF Goal
<1> QED
  BY <1>1, <1>2, <1>3, <1>4, <1>5, <1>6, <1>7, <1>8, <1>9 DEF Next

\* A backfill marks every row that has a state.
LEMMA MarkAllMarks ==
  ASSUME SyncInv, CanMark(BackfillRows), state' = MarkAll, NEW r \in BackfillRows
  PROVE  Dirty(state'[r]) /\ (state[r] # NoState => state'[r].version > state[r].version)
<1>1. /\ r \in Rows /\ state'[r] = Marked(state[r], ~Exists(r)) /\ (~Exists(r)) \in BOOLEAN
      /\ state[r] # NoState => state[r].version < MaxVersion
  BY DEF MarkAll, CanMark, BackfillRows
<1> QED
  BY <1>1, MarkIsDirty

LEMMA CommitMarks ==
  ASSUME SyncInv, NEW w \in Writers, WriteCommit(w), writer[w].saw = "on", NEW r \in Rows,
         r \in writer[w].touched \cup writer[w].dropped
  PROVE  Dirty(state'[r]) /\ (state[r] # NoState => state'[r].version > state[r].version)
<1>1. /\ state'[r] = Marked(state[r], r \in writer[w].dropped) /\ (r \in writer[w].dropped) \in BOOLEAN
      /\ state[r] # NoState => state[r].version < MaxVersion
  BY DEF WriteCommit, CanMark
<1> QED
  BY <1>1, MarkIsDirty

\* A row that was astray stays so until it is marked, or the link is gone.
LEMMA AstrayStays ==
  ASSUME SyncInv, [Next]_vars, NEW r \in Rows, r \in astray, r \notin astray', ~LinkDelete
  PROVE  Dirty(state'[r]) /\ (state[r] # NoState => state'[r].version > state[r].version)
<1> DEFINE Goal == Dirty(state'[r]) /\ (state[r] # NoState => state'[r].version > state[r].version)
<1> SUFFICES Goal
  OBVIOUS
<1>1. ASSUME NEW w \in Writers, Write(w) PROVE Goal
  <2>1. WriteCommit(w)
    BY <1>1 DEF Write, WriteOpen, WriteRollback
  <2>2. writer[w].saw = "on" /\ r \in writer[w].touched \cup writer[w].dropped
    BY <2>1 DEF WriteCommit
  <2> QED
    BY <2>1, <2>2, CommitMarks
<1>2. ASSUME NEW j \in Jobs, JobStep(j) \/ JobCrash(j) PROVE astray \subseteq astray'
  BY <1>2 DEF JobStep, JobLoad, JobClaim, JobRead, JobPush, JobSettle, JobRelease, JobStoreFails, JobEnd, JobCrash
<1>3. ASSUME NEW m \in Managers, Settings(m) PROVE Goal
  <2>1. ASSUME NEW at \in 1..MaxStamp, RequestCommit(m, at) PROVE Goal
    <3>1. Backfills(request[m]) /\ r \in BackfillRows
      BY <2>1 DEF RequestCommit, Strays
    <3> QED
      BY <2>1, <3>1, MarkAllMarks DEF RequestCommit
  <2>2. CASE SyncNow(m)
    <3>1. r \in BackfillRows /\ CanMark(BackfillRows) /\ state' = MarkAll
      BY <2>2 DEF SyncNow
    <3> QED
      BY <3>1, MarkAllMarks
  <2>3. (\E at \in 1..MaxStamp : RequestCommit(m, at)) \/ SyncNow(m)
    BY <1>3 DEF Settings, RequestLoad, RequestAbandon
  <2> QED
    BY <2>1, <2>2, <2>3
<1>4. ASSUME Clock PROVE astray' = astray
  BY <1>4 DEF Clock, LeaseExpires, LeaseOverruns, RetryFalls
<1>5. ASSUME NEW S \in SUBSET Rows, Reconcile(S) PROVE astray' = astray
  BY <1>5 DEF Reconcile
<1>6. ASSUME UNCHANGED vars PROVE astray' = astray
  BY <1>6 DEF vars
<1> HIDE DEF Goal
<1> QED
  BY <1>1, <1>2, <1>3, <1>4, <1>5, <1>6 DEF Next

LEMMA NextMissed ==
  ASSUME SyncInv, OnInv, NoRowMissed, [Next]_vars
  PROVE  NoRowMissed'
<1> SUFFICES ASSUME Enabled', NEW r \in Rows, Exists(r)' PROVE state'[r] # NoState \/ r \in astray'
  BY DEF NoRowMissed
<1>0. ~LinkDelete
  BY DEF LinkDelete, Enabled
<1>1. ASSUME NEW m \in Managers, NEW at \in 1..MaxStamp, RequestCommit(m, at), Backfills(request[m])
      PROVE  state'[r] # NoState
  <2>1. state' = MarkAll /\ CanMark(BackfillRows) /\ row' = row /\ gone' = gone
    BY <1>1 DEF RequestCommit
  <2>2. Exists(r)
    BY <2>1 DEF Exists
  <2> QED
    BY <2>1, <2>2, MarkAllStays
<1>2. ASSUME Enabled PROVE state'[r] # NoState \/ r \in astray'
  <2>1. CASE Exists(r)
    <3>1. state[r] # NoState \/ r \in astray
      BY <1>2, <2>1 DEF NoRowMissed
    <3>2. ASSUME r \in astray, r \notin astray' PROVE state'[r] # NoState
      BY <1>0, <3>2, AstrayStays DEF Dirty
    <3> QED
      BY <1>0, <3>1, <3>2, StatesStay
  <2>2. CASE ~Exists(r)
    <3>1. ~(row' = row /\ gone' = gone)
      BY <2>2 DEF Exists
    <3> PICK w \in Writers : WriteCommit(w)
      BY <3>1, RowsStay
    <3>2. r \in writer[w].touched \cup writer[w].dropped
      BY <2>2, CommitStays DEF Exists
    <3>3. writer[w].saw \in {"none", "on"}
      BY <1>2, UnitFields DEF OnInv, WriteCommit, SyncInv
    <3>4. CASE writer[w].saw = "none"
      BY <1>2, <3>2, <3>4 DEF WriteCommit
    <3>5. CASE writer[w].saw = "on"
      BY <3>2, <3>5, CommitStays
    <3> QED
      BY <3>3, <3>4, <3>5
  <2> QED
    BY <2>1, <2>2
<1> QED
  BY <1>1, <1>2, LinkOn

LEMMA OnAlways == Safety => []OnInv
<1>1. Init => OnInv
  BY IdleFields DEF Init, OnInv
<1>2. SyncInv /\ OnInv /\ [Next]_vars => OnInv'
  BY NextOn
<1> QED
  BY <1>1, <1>2, TypeCorrect, PTL DEF Safety

\* A row of a project whose mirror is on has a sync state row, whatever
\* overlaps: no write slips between its own look at the link and the backfill
\* of whoever turns the link on (postgres.go LinkEnabled: "so a row is never
\* missed"). Left out are the rows astray: of a write that found no link to
\* lock, or of a mirror that came on without a backfill.
THEOREM NoRowIsMissed == Safety => []NoRowMissed
<1>1. Init => NoRowMissed
  BY DEF Init, NoRowMissed, Enabled
<1>2. SyncInv /\ OnInv /\ NoRowMissed /\ [Next]_vars => NoRowMissed'
  BY NextMissed
<1> QED
  BY <1>1, <1>2, TypeCorrect, OnAlways, PTL DEF Safety

-----------------------------------------------------------------------------
(* What is clean is mirrored *)

\* Only rows that are gone are tombstones, in a sheet or on the way to one.
TombInv ==
  /\ \A s \in Sheets, r \in Rows : sheet[s][r] = Tombstone => r \in gone
  /\ \A j \in Jobs : job[j].pc = "read" /\ job[j].value = Tombstone => job[j].row \in gone

Mirrors(r) ==
  IF Exists(r) THEN sheet[link.sheet][r] = row[r] ELSE sheet[link.sheet][r] \in {Missing, Tombstone}

\* What a job that has the lease and the sheet of the link read of a row that
\* was not marked since is what the row is, and once it has landed it is what
\* the sheet shows.
PushInv ==
  \A j \in Jobs :
    (/\ Enabled /\ Holding(j) /\ Holds(j) /\ job[j].sheet = link.sheet
     /\ state[job[j].row].version = job[j].version /\ job[j].row \notin astray) =>
      /\ job[j].pc = "read" => job[j].value = IF Exists(job[j].row) THEN row[job[j].row] ELSE Tombstone
      /\ job[j].pc = "pushed" /\ job[j].result = "ok" => Mirrors(job[j].row)

\* A job comes to a read or a pushed row only by reading and by pushing it.
LEMMA JobHand ==
  ASSUME SyncInv, NEW j \in Jobs, JobStep(j) \/ JobCrash(j), job'[j].pc \in {"read", "pushed"}
  PROVE  \/ JobRead(j)
         \/ \E result \in {"ok", "row", "link", "transient"}, lands \in BOOLEAN : JobPush(j, result, lands)
<1>0. TypeOK /\ job[j] \in Job
  BY JobFields DEF SyncInv
<1>1. ASSUME NEW x, job' = [job EXCEPT ![j] = x], x.pc \in {"idle", "next", "claimed", "ending"} PROVE FALSE
  <2>1. job'[j] = x
    BY <1>0, <1>1 DEF TypeOK
  <2> QED
    BY <1>1, <2>1
<1>2. ASSUME NEW m \in queue, JobLoad(j, m) PROVE FALSE
  <2>1. CASE UNCHANGED job
    BY <1>2, <2>1 DEF JobLoad, Active
  <2>2. ASSUME NEW pc \in {"next", "ending"},
               job' = [job EXCEPT ![j] = [Idle EXCEPT
                 !.pc = pc, !.msg = m, !.todo = m, !.sheet = link.sheet, !.stamp = link.stamp,
                 !.result = IF pc = "next" THEN "ok" ELSE "link"]]
        PROVE  FALSE
    <3> DEFINE x == [Idle EXCEPT !.pc = pc, !.msg = m, !.todo = m, !.sheet = link.sheet, !.stamp = link.stamp,
                                 !.result = IF pc = "next" THEN "ok" ELSE "link"]
    <3>1. x.pc = pc
      BY DEF Idle
    <3> HIDE DEF x
    <3> QED
      BY <1>1, <2>2, <3>1 DEF x
  <2> QED
    BY <1>2, <2>1, <2>2 DEF JobLoad
<1>3. ASSUME NEW r \in Rows, JobClaim(j, r) PROVE FALSE
  <2> DEFINE x == [job[j] EXCEPT !.pc = "claimed", !.row = r, !.ousted = FALSE,
                                 !.version = state[r].version, !.deleted = state[r].deleted]
  <2>1. x.pc = "claimed"
    BY <1>0 DEF Job
  <2>2. job' = [job EXCEPT ![j] = x] \/ job' = [job EXCEPT ![j] = Leave(j, r)]
    BY <1>3 DEF JobClaim, Becomes
  <2> HIDE DEF x
  <2> QED
    BY <1>0, <1>1, <2>1, <2>2, LeaveFields
<1>4. ASSUME JobSettle(j) PROVE FALSE
  <2> DEFINE r == job[j].row
             again == Holds(j) /\ state[r].version > job[j].version /\ job[j].pass + 1 < MaxPasses
             y == IF again THEN [job[j] EXCEPT !.pc = "next", !.pass = @ + 1] ELSE Leave(j, r)
             x == [y EXCEPT !.settled = @ \/ Holds(j)]
  <2>1. job' = [job EXCEPT ![j] = x]
    BY <1>4 DEF JobSettle, Becomes
  <2>2. [job[j] EXCEPT !.pc = "next", !.pass = @ + 1].pc = "next" /\ Leave(j, r).pc = "next"
    BY <1>0, LeaveFields DEF Job
  <2>3. x.pc = "next"
    BY <1>0, <2>2 DEF Job, Leave
  <2> HIDE DEF x
  <2> QED
    BY <1>1, <2>1, <2>3
<1>5. ASSUME NEW stored \in BOOLEAN, JobRelease(j, stored) PROVE FALSE
  <2> DEFINE x == IF job[j].result = "row" THEN Leave(j, job[j].row) ELSE [job[j] EXCEPT !.pc = "ending"]
  <2>1. job' = [job EXCEPT ![j] = x]
    BY <1>5 DEF JobRelease, Becomes
  <2>2. x.pc \in {"next", "ending"}
    BY <1>0, LeaveFields DEF Job
  <2> HIDE DEF x
  <2> QED
    BY <1>1, <2>1, <2>2
<1>6. ASSUME JobStoreFails(j) PROVE FALSE
  <2> DEFINE x == [job[j] EXCEPT !.pc = "ending", !.result = "transient"]
  <2>1. job' = [job EXCEPT ![j] = x]
    BY <1>6 DEF JobStoreFails, Becomes
  <2>2. x.pc = "ending"
    BY <1>0 DEF Job
  <2> HIDE DEF x
  <2> QED
    BY <1>1, <2>1, <2>2
<1>7. ASSUME JobEnd(j) \/ JobCrash(j) PROVE FALSE
  BY <1>1, <1>7, IdleFields DEF JobEnd, JobCrash
<1> QED
  BY <1>2, <1>3, <1>4, <1>5, <1>6, <1>7 DEF JobStep

LEMMA NextTomb ==
  ASSUME SyncInv, TombInv, [Next]_vars
  PROVE  TombInv'
<1>0. TypeOK
  BY DEF SyncInv
<1>1. CASE OthersTurn /\ sheet' = sheet
  <2>1. gone \subseteq gone'
    BY <1>1 DEF OthersTurn
  <2>2. \A j \in Jobs : job'[j].pc = job[j].pc /\ job'[j].value = job[j].value /\ job'[j].row = job[j].row
    BY <1>0, <1>1, JobsStay DEF OthersTurn
  <2> QED
    BY <1>1, <2>1, <2>2 DEF TombInv
<1>2. ASSUME NEW j \in Jobs, JobStep(j) \/ JobCrash(j) PROVE TombInv'
  <2>0. gone' = gone /\ job[j] \in Job
    BY <1>0, <1>2, JobShape, JobFields DEF JobTurns
  <2>1. ASSUME NEW i \in Jobs, job'[i].pc = "read", job'[i].value = Tombstone PROVE job'[i].row \in gone
    <3>1. CASE i # j
      BY <1>2, <2>1, <3>1, OtherJobs DEF TombInv
    <3>2. CASE i = j
      <4>1. JobRead(j) \/ \E result \in {"ok", "row", "link", "transient"}, lands \in BOOLEAN : JobPush(j, result, lands)
        BY <1>2, <2>1, <3>2, JobHand
      <4>2. ASSUME NEW result, NEW lands, JobPush(j, result, lands) PROVE FALSE
        <5> DEFINE x == [job[j] EXCEPT !.pc = "pushed", !.result = result, !.value = Missing]
        <5>1. job' = [job EXCEPT ![j] = x]
          BY <4>2 DEF JobPush, Becomes
        <5>2. x.pc = "pushed"
          BY <2>0 DEF Job
        <5> HIDE DEF x
        <5>3. job'[j] = x
          BY <1>0, <5>1 DEF TypeOK
        <5> QED
          BY <2>1, <3>2, <5>2, <5>3
      <4>3. CASE JobRead(j)
        <5> DEFINE r == job[j].row
                   v == IF job[j].deleted \/ ~Exists(r) THEN Tombstone ELSE row[r]
                   x == [job[j] EXCEPT !.pc = "read", !.value = v]
        <5>1. job' = [job EXCEPT ![j] = x]
          BY <4>3 DEF JobRead, Becomes
        <5>2. Holding(j)
          BY <4>3 DEF JobRead, Holding
        <5>3. r \in Rows /\ row[r] > 0 /\ (job[j].deleted => r \in gone) /\ row[r] \in Nat
          BY <1>0, <5>2, Bounds DEF SyncInv, JobInv, TypeOK
        <5>4. v = Tombstone => r \in gone
          BY <5>3 DEF Tombstone, Exists
        <5> HIDE DEF v
        <5>5. x.row = r /\ x.value = v
          BY <2>0 DEF Job
        <5> HIDE DEF x
        <5>6. job'[j] = x
          BY <1>0, <5>1 DEF TypeOK
        <5> QED
          BY <2>1, <3>2, <5>4, <5>5, <5>6
      <4> QED
        BY <4>1, <4>2, <4>3
    <3> QED
      BY <3>1, <3>2
  <2>2. ASSUME NEW s \in Sheets, NEW r \in Rows, sheet'[s][r] = Tombstone PROVE r \in gone
    <3>1. CASE sheet' = sheet
      BY <2>2, <3>1 DEF TombInv
    <3>2. ASSUME NEW result, NEW lands, JobPush(j, result, lands) PROVE r \in gone
      <4>1. CASE sheet'[s][r] = sheet[s][r]
        BY <2>2, <4>1 DEF TombInv
      <4>2. CASE sheet'[s][r] # sheet[s][r]
        <5>1. r = job[j].row /\ sheet'[s][r] = Shown(sheet[s][r], job[j].value)
          BY <1>0, <3>2, <4>2, PushSheet
        <5>2. sheet[s][r] = Tombstone \/ job[j].value = Tombstone
          BY <2>2, <5>1 DEF Shown
        <5>3. job[j].pc = "read"
          BY <3>2 DEF JobPush
        <5> QED
          BY <5>1, <5>2, <5>3 DEF TombInv
      <4> QED
        BY <4>1, <4>2
    <3> QED
      BY <1>2, <3>1, <3>2 DEF JobStep, JobLoad, JobClaim, JobRead, JobSettle, JobRelease, JobStoreFails, JobEnd, JobCrash
  <2> QED
    BY <2>0, <2>1, <2>2 DEF TombInv
<1> QED
  BY <1>1, <1>2, StepKinds

\* A job's step moves no version.
LEMMA JobVersions ==
  ASSUME SyncInv, NEW j \in Jobs, JobTurns(j), NEW r \in Rows, state'[r] # NoState
  PROVE  /\ state[r] # NoState /\ state'[r].version = state[r].version
         /\ \/ state'[r].synced = state[r].synced
            \/ /\ job[j].row = r /\ job[j].pc = "pushed" /\ job[j].result = "ok" /\ Holding(j) /\ Holds(j)
               /\ state'[r].synced = job[j].version
               /\ (link # NoLink /\ job[j].sheet # link.sheet) => r \in astray'
<1>0. TypeOK
  BY DEF SyncInv
<1> PICK x \in Job : job' = [job EXCEPT ![j] = x] /\ (Keeps(j, x) \/ Takes(j, x) \/ Drops(j, x))
  BY DEF JobTurns
<1>1. CASE state'[r] = state[r]
  BY <1>1
<1>2. CASE Keeps(j, x)
  BY <1>1, <1>2 DEF Keeps
<1>3. CASE Takes(j, x)
  <2> PICK p \in Rows : Claimable(state[p]) /\ state' = [state EXCEPT ![p] = Leased(state[p], j, FALSE)]
    BY <1>3 DEF Takes
  <2>1. CASE p = r
    <3>1. state[r] \in State /\ state'[r] = Leased(state[r], j, FALSE)
      BY <1>0, <2>1 DEF Claimable, Dirty, TypeOK
    <3>2. j \in Jobs \cup {"none", "orphan"} /\ FALSE \in BOOLEAN
      OBVIOUS
    <3>3. Leased(state[r], j, FALSE).version = state[r].version /\ Leased(state[r], j, FALSE).synced = state[r].synced
      BY <3>1, <3>2, LeaseFields
    <3> QED
      BY <3>1, <3>3, StateFields
  <2>2. CASE p # r
    BY <1>0, <1>1, <2>2 DEF TypeOK
  <2> QED
    BY <2>1, <2>2
<1>4. CASE Drops(j, x)
  <2>1. CASE ~Holds(j)
    BY <1>1, <1>4, <2>1 DEF Drops
  <2>2. CASE Holds(j)
    <3> PICK st \in State :
          /\ state' = [state EXCEPT ![job[j].row] = st]
          /\ st.version = state[job[j].row].version
          /\ st.synced \in {state[job[j].row].synced, job[j].version}
          /\ \/ st.synced = state[job[j].row].synced
             \/ /\ job[j].pc = "pushed" /\ job[j].result = "ok"
                /\ (link # NoLink /\ job[j].sheet # link.sheet) => job[j].row \in astray'
      BY <1>4, <2>2 DEF Drops
    <3>1. CASE job[j].row = r
      <4>1. state'[r] = st /\ state[r] # NoState /\ Holding(j)
        BY <1>0, <1>4, <2>2, <3>1 DEF TypeOK, Holds, Drops
      <4> QED
        BY <2>2, <3>1, <4>1
    <3>2. CASE job[j].row # r
      BY <1>0, <1>1, <3>2 DEF TypeOK
    <3> QED
      BY <3>1, <3>2
  <2> QED
    BY <2>1, <2>2
<1> QED
  BY <1>2, <1>3, <1>4

\* With the mirror on after a step, a row is astray, was marked by it, or is as
\* it was.
LEMMA MarkedOrSame ==
  ASSUME SyncInv, SyncInv', OnInv, [Next]_vars, Enabled', NEW r \in Rows, state'[r] # NoState, r \notin astray'
  PROVE  \/ Dirty(state'[r]) /\ (state[r] # NoState => state'[r].version > state[r].version)
         \/ /\ state[r] # NoState /\ state'[r].version = state[r].version /\ r \notin astray
            /\ Enabled /\ link'.sheet = link.sheet /\ row'[r] = row[r] /\ (r \in gone' <=> r \in gone)
<1> DEFINE Mark == Dirty(state'[r]) /\ (state[r] # NoState => state'[r].version > state[r].version)
           Same == state[r] # NoState /\ state'[r].version = state[r].version
<1>0. ~LinkDelete
  BY DEF LinkDelete, Enabled
<1>1. ASSUME NEW m \in Managers, NEW at \in 1..MaxStamp, RequestCommit(m, at), Backfills(request[m]) PROVE Mark
  <2>1. CanMark(BackfillRows) /\ state' = MarkAll
    BY <1>1 DEF RequestCommit
  <2>2. r \in BackfillRows
    BY <2>1 DEF MarkAll, BackfillRows
  <2> QED
    BY <2>1, <2>2, MarkAllMarks
<1>2. ASSUME NEW w \in Writers, WriteCommit(w), Enabled
      PROVE  Mark \/ (Same /\ row'[r] = row[r] /\ (r \in gone' <=> r \in gone))
  <2>1. writer[w].saw \in {"none", "on"}
    BY <1>2, UnitFields DEF OnInv, WriteCommit, SyncInv
  <2>2. CASE r \in writer[w].touched \cup writer[w].dropped
    <3>1. writer[w].saw # "none"
      BY <1>2, <2>2 DEF WriteCommit
    <3> QED
      BY <1>2, <2>1, <2>2, <3>1, CommitMarks
  <2>3. CASE r \notin writer[w].touched \cup writer[w].dropped
    BY <1>2, <2>3, CommitStays
  <2> QED
    BY <2>2, <2>3
<1>3. ASSUME OthersTurn PROVE Mark \/ Same
  <2>0. RowTurns(r) /\ state[r] \in State \cup {NoState}
    BY <1>3 DEF OthersTurn, SyncInv, TypeOK
  <2>1. CASE state'[r] = state[r]
    BY <2>1
  <2>2. ASSUME NEW dead \in BOOLEAN, state[r] # NoState => state[r].version < MaxVersion,
               state'[r] = Marked(state[r], dead)
        PROVE  Mark
    BY <2>2, MarkIsDirty
  <2>3. ASSUME state[r] # NoState, NEW l \in Jobs \cup {"none", "orphan"}, NEW b \in BOOLEAN,
               state'[r] = Leased(state[r], l, b)
        PROVE  Same
    <3>1. state[r] \in State
      BY <2>0, <2>3
    <3>2. Leased(state[r], l, b).version = state[r].version
      BY <3>1, LeaseFields
    <3> QED
      BY <2>3, <3>2
  <2>4. CASE state[r] # NoState /\ state'[r] = [state[r] EXCEPT !.waiting = FALSE]
    <3>1. state[r] \in State
      BY <2>0, <2>4
    <3> QED
      BY <2>4, <3>1, WaitFields
  <2>5. CASE state[r] # NoState /\ state'[r] = Leased(state[r], "none", state[r].lapsed)
    <3>1. state[r].lapsed \in BOOLEAN
      BY <2>0, <2>5, StateFields
    <3> QED
      BY <2>3, <2>5, <3>1
  <2>6. CASE state[r] # NoState /\ state[r].lease \in Jobs /\ state'[r] = Leased(state[r], state[r].lease, TRUE)
    BY <2>3, <2>6
  <2> HIDE DEF Mark, Same
  <2> QED
    BY <2>0, <2>1, <2>2, <2>4, <2>5, <2>6 DEF RowTurns, Same
<1>4. ASSUME NEW j \in Jobs, JobTurns(j) PROVE Same
  BY <1>4, JobVersions
<1>5. ASSUME r \in astray PROVE Mark
  BY <1>0, <1>5, AstrayStays
<1> HIDE DEF Mark, Same
<1>6. CASE Enabled /\ link'.sheet = link.sheet
  <2>1. CASE row' = row /\ gone' = gone
    <3>1. Mark \/ Same
      BY <1>3, <1>4, NextSync, StutterSync
    <3> QED
      BY <1>5, <1>6, <2>1, <3>1 DEF Mark, Same
  <2>2. CASE \E w \in Writers : WriteCommit(w)
    BY <1>2, <1>5, <1>6, <2>2 DEF Mark, Same
  <2> QED
    BY <2>1, <2>2, RowsStay
<1> QED
  BY <1>1, <1>6, LinkOn DEF Mark

\* A sheet is only written by a push.
LEMMA SheetStays ==
  ASSUME NEW j \in Jobs, JobStep(j) \/ JobCrash(j)
  PROVE  \/ sheet' = sheet
         \/ \E result \in {"ok", "row", "link", "transient"}, lands \in BOOLEAN : JobPush(j, result, lands)
  BY DEF JobStep, JobLoad, JobClaim, JobRead, JobSettle, JobRelease, JobStoreFails, JobEnd, JobCrash

\* The cell of a row that is not astray is changed only by the job that has its
\* lease.
LEMMA CellStays ==
  ASSUME SyncInv, [Next]_vars, NEW s \in Sheets, NEW r \in Rows, r \notin astray', sheet'[s][r] # sheet[s][r]
  PROVE  \E j \in Jobs : /\ job[j].pc = "read" /\ job'[j].pc = "pushed" /\ job[j].row = r
                         /\ Holding(j) /\ Holds(j)
<1>0. TypeOK
  BY DEF SyncInv
<1>1. sheet' # sheet
  OBVIOUS
<1> PICK j \in Jobs, result \in {"ok", "row", "link", "transient"}, lands \in BOOLEAN : JobPush(j, result, lands)
  BY <1>1, StepKinds, SheetStays
<1>2. job[j].pc = "read" /\ job[j] \in Job /\ lands
  BY <1>0, <1>1, JobFields DEF JobPush
<1>3. job[j].row = r
  BY <1>0, PushSheet
<1>4. Holds(j)
  BY <1>2, <1>3 DEF JobPush
<1>5. job'[j].pc = "pushed"
  <2> DEFINE x == [job[j] EXCEPT !.pc = "pushed", !.result = result, !.value = Missing]
  <2>1. job' = [job EXCEPT ![j] = x]
    BY DEF JobPush, Becomes
  <2>2. x.pc = "pushed"
    BY <1>2 DEF Job
  <2> HIDE DEF x
  <2> QED
    BY <1>0, <2>1, <2>2 DEF TypeOK
<1> QED
  BY <1>2, <1>3, <1>4, <1>5 DEF Holding

\* A job at work on a row it has read goes on with the same row and version.
LEMMA HandStays ==
  ASSUME SyncInv, [Next]_vars, NEW j \in Jobs, job'[j].pc \in {"read", "pushed"}
  PROVE  /\ Holding(j) /\ job'[j].row = job[j].row /\ job'[j].version = job[j].version /\ job'[j].sheet = job[j].sheet
         /\ \/ /\ job'[j].pc = job[j].pc /\ job'[j].value = job[j].value /\ job'[j].result = job[j].result
            \/ JobRead(j) /\ sheet' = sheet /\ job'[j].pc = "read"
                 /\ job'[j].value = IF job[j].deleted \/ ~Exists(job[j].row) THEN Tombstone ELSE row[job[j].row]
            \/ \E lands \in BOOLEAN : JobPush(j, job'[j].result, lands) /\ job'[j].pc = "pushed"
<1>0. TypeOK /\ job[j] \in Job
  BY JobFields DEF SyncInv
<1>1. CASE OthersTurn /\ sheet' = sheet
  BY <1>0, <1>1, JobsStay DEF OthersTurn, Holding
<1>2. ASSUME NEW i \in Jobs \ {j}, JobStep(i) \/ JobCrash(i)
      PROVE  job'[j] = job[j] /\ Holding(j)
  BY <1>2, OtherJobs DEF Holding
<1>3. ASSUME JobRead(j)
      PROVE  /\ sheet' = sheet /\ Holding(j) /\ job'[j].pc = "read"
             /\ job'[j].row = job[j].row /\ job'[j].version = job[j].version /\ job'[j].sheet = job[j].sheet
             /\ job'[j].value = IF job[j].deleted \/ ~Exists(job[j].row) THEN Tombstone ELSE row[job[j].row]
  <2> DEFINE v == IF job[j].deleted \/ ~Exists(job[j].row) THEN Tombstone ELSE row[job[j].row]
             x == [job[j] EXCEPT !.pc = "read", !.value = v]
  <2>1. job' = [job EXCEPT ![j] = x] /\ sheet' = sheet /\ Holding(j)
    BY <1>3 DEF JobRead, Becomes, Holding
  <2> HIDE DEF v
  <2>2. x.pc = "read" /\ x.row = job[j].row /\ x.sheet = job[j].sheet /\ x.version = job[j].version /\ x.value = v
    BY <1>0 DEF Job
  <2> HIDE DEF x
  <2>3. job'[j] = x
    BY <1>0, <2>1 DEF TypeOK
  <2> QED
    BY <2>1, <2>2, <2>3 DEF v
<1>4. ASSUME NEW result, NEW lands, JobPush(j, result, lands)
      PROVE  /\ Holding(j) /\ job'[j].pc = "pushed" /\ job'[j].result = result
             /\ job'[j].row = job[j].row /\ job'[j].version = job[j].version /\ job'[j].sheet = job[j].sheet
  <2> DEFINE x == [job[j] EXCEPT !.pc = "pushed", !.result = result, !.value = Missing]
  <2>1. job' = [job EXCEPT ![j] = x] /\ Holding(j)
    BY <1>4 DEF JobPush, Becomes, Holding
  <2>2. x.pc = "pushed" /\ x.row = job[j].row /\ x.sheet = job[j].sheet /\ x.version = job[j].version /\ x.result = result
    BY <1>0 DEF Job
  <2> HIDE DEF x
  <2>3. job'[j] = x
    BY <1>0, <2>1 DEF TypeOK
  <2> QED
    BY <2>1, <2>2, <2>3
<1>5. CASE JobStep(j) \/ JobCrash(j)
  <2>1. CASE JobRead(j)
    BY <1>3, <2>1
  <2>2. ASSUME NEW result \in {"ok", "row", "link", "transient"}, NEW lands \in BOOLEAN, JobPush(j, result, lands)
        PROVE  /\ Holding(j) /\ job'[j].row = job[j].row /\ job'[j].version = job[j].version /\ job'[j].sheet = job[j].sheet
               /\ JobPush(j, job'[j].result, lands) /\ job'[j].pc = "pushed"
    BY <1>4, <2>2
  <2> QED
    BY <1>5, <2>1, <2>2, JobHand
<1>6. CASE \E i \in Jobs \ {j} : JobStep(i) \/ JobCrash(i)
  BY <1>2, <1>6
<1> QED
  BY <1>1, <1>5, <1>6, StepKinds

\* A job at work on a row it has read has the lease only if it had it.
LEMMA HoldsBack ==
  ASSUME SyncInv, SyncInv', [Next]_vars, NEW j \in Jobs, job'[j].pc \in {"read", "pushed"}, Holds(j)'
  PROVE  Holds(j)
<1> DEFINE r == job[j].row
<1>0. TypeOK /\ Holding(j) /\ job'[j].row = r /\ r \in Rows
  BY HandStays DEF SyncInv, JobInv
<1>1. state'[r] # NoState /\ state'[r].lease = j
  BY <1>0 DEF Holds
<1>2. CASE OthersTurn
  <2>1. row'[r] >= row[r] /\ row'[r] \in Nat /\ gone \subseteq gone' /\ RowTurns(r)
    BY <1>0, <1>2, Bounds DEF OthersTurn, SyncInv, TypeOK
  <2>2. state[r] # NoState /\ state[r].lease = j
    BY <1>0, <1>1, <2>1, RowTurnsFields, Bounds
  <2> QED
    BY <2>2 DEF Holds
<1>3. ASSUME NEW i \in Jobs, JobTurns(i) PROVE Holds(j)
  <2> PICK x \in Job : job' = [job EXCEPT ![i] = x] /\ (Keeps(i, x) \/ Takes(i, x) \/ Drops(i, x))
    BY <1>3 DEF JobTurns
  <2>1. CASE state'[r] = state[r]
    BY <1>1, <2>1 DEF Holds
  <2>2. CASE Keeps(i, x)
    BY <2>1, <2>2 DEF Keeps
  <2>3. CASE Takes(i, x)
    <3> PICK p \in Rows : /\ Claimable(state[p]) /\ ~Holding(i)
                          /\ state' = [state EXCEPT ![p] = Leased(state[p], i, FALSE)]
      BY <2>3 DEF Takes
    <3>1. i # j
      BY <1>0
    <3>2. CASE p # r
      BY <1>0, <2>1, <3>2 DEF TypeOK
    <3>3. CASE p = r
      <4>1. state'[r] = Leased(state[r], i, FALSE) /\ state[r] \in State
        BY <1>0, <3>3 DEF TypeOK, Claimable, Dirty
      <4>2. i \in Jobs \cup {"none", "orphan"} /\ FALSE \in BOOLEAN
        OBVIOUS
      <4>3. Leased(state[r], i, FALSE).lease = i
        BY <4>1, <4>2, LeaseFields
      <4> QED
        BY <1>1, <3>1, <4>1, <4>3
    <3> QED
      BY <3>2, <3>3
  <2>4. CASE Drops(i, x)
    <3>1. CASE ~Holds(i)
      BY <2>1, <2>4, <3>1 DEF Drops
    <3>2. CASE Holds(i)
      <4> PICK st \in State : state' = [state EXCEPT ![job[i].row] = st] /\ st.lease \in {"none", "orphan"}
        BY <2>4, <3>2 DEF Drops
      <4>1. CASE job[i].row # r
        BY <1>0, <2>1, <4>1 DEF TypeOK
      <4>2. CASE job[i].row = r
        <5>1. state'[r] = st
          BY <1>0, <4>2 DEF TypeOK
        <5> QED
          BY <1>1, <5>1, Bounds
      <4> QED
        BY <4>1, <4>2
    <3> QED
      BY <3>1, <3>2
  <2> QED
    BY <2>2, <2>3, <2>4
<1> QED
  BY <1>2, <1>3, NextSync, StutterSync

LEMMA NextPush ==
  ASSUME SyncInv, SyncInv', OnInv, TombInv, PushInv, [Next]_vars
  PROVE  PushInv'
<1>0. TypeOK
  BY DEF SyncInv
<1> SUFFICES ASSUME NEW j \in Jobs, NEW r, r = job'[j].row, Enabled', job'[j].pc \in {"read", "pushed"}, Holds(j)',
                    job'[j].sheet = link'.sheet, state'[r].version = job'[j].version, r \notin astray'
             PROVE  /\ job'[j].pc = "read" => job'[j].value = IF Exists(r)' THEN row'[r] ELSE Tombstone
                    /\ job'[j].pc = "pushed" /\ job'[j].result = "ok" => Mirrors(r)'
  BY DEF PushInv, Mirrors, Exists, Holding
<1>1. Holding(j) /\ Holds(j) /\ job[j].row = r /\ job'[j].version = job[j].version /\ job'[j].sheet = job[j].sheet
  BY HandStays, HoldsBack
<1>2. /\ r \in Rows /\ state[r] \in State /\ state[r].lease = j /\ job[j].version <= state[r].version
      /\ row[r] > 0 /\ row[r] \in Nat /\ (job[j].deleted => r \in gone)
  <2>1. Holds(j) /\ r \in Rows /\ row[r] > 0 /\ (job[j].deleted => r \in gone)
    BY <1>1 DEF SyncInv, JobInv
  <2>2. state[r] \in State /\ job[j].version <= state[r].version /\ row[r] \in Nat
    BY <1>0, <1>1, <2>1, HeldState, Bounds DEF TypeOK
  <2> QED
    BY <1>1, <2>1, <2>2 DEF Holds
<1>3. state'[r] \in State
  <2>2. state'[r] # NoState
    BY DEF Holds
  <2> QED
    BY <1>2, <2>2 DEF SyncInv, TypeOK
<1>4. /\ state'[r].version = state[r].version /\ r \notin astray
      /\ Enabled /\ link'.sheet = link.sheet /\ row'[r] = row[r] /\ (r \in gone' <=> r \in gone)
  <2>1. ~(state'[r].version > state[r].version)
    BY <1>1, <1>2, <1>3, StateFields, JobFields, <1>0
  <2>2. state'[r] # NoState /\ state[r] # NoState
    BY <1>2, <1>3, StateFields
  <2> QED
    BY <1>2, <2>1, <2>2, MarkedOrSame
<1>5. /\ job[j].pc = "read" => job[j].value = IF Exists(r) THEN row[r] ELSE Tombstone
      /\ job[j].pc = "pushed" /\ job[j].result = "ok" => Mirrors(r)
  BY <1>1, <1>4 DEF PushInv
<1>6. link.sheet \in Sheets /\ job[j].sheet = link.sheet
  BY <1>0, <1>1, <1>4 DEF Enabled, TypeOK, Link
<1> DEFINE Shows(c) == IF Exists(r) THEN c = row[r] ELSE c \in {Missing, Tombstone}
<1> SUFFICES /\ job'[j].pc = "read" => job'[j].value = IF Exists(r) THEN row[r] ELSE Tombstone
             /\ job'[j].pc = "pushed" /\ job'[j].result = "ok" => Shows(sheet'[link.sheet][r])
  BY <1>4 DEF Mirrors, Exists
<1>7. CASE job'[j].pc = job[j].pc /\ job'[j].value = job[j].value /\ job'[j].result = job[j].result
  <2>1. sheet'[link.sheet][r] = sheet[link.sheet][r]
    <3>1. ASSUME NEW i \in Jobs, job[i].pc = "read", job'[i].pc = "pushed", job[i].row = r, Holds(i) PROVE FALSE
      BY <1>2, <1>7, <3>1 DEF Holds
    <3> QED
      BY <1>2, <1>6, <3>1, CellStays
  <2> QED
    BY <1>5, <1>7, <2>1 DEF Mirrors
<1>8. CASE /\ JobRead(j) /\ job'[j].pc = "read"
           /\ job'[j].value = IF job[j].deleted \/ ~Exists(job[j].row) THEN Tombstone ELSE row[job[j].row]
  BY <1>1, <1>2, <1>8 DEF Exists
<1>9. ASSUME NEW lands, JobPush(j, job'[j].result, lands), job'[j].pc = "pushed", job'[j].result = "ok"
      PROVE  Shows(sheet'[link.sheet][r])
  <2>1. job[j].pc = "read"
    BY <1>9 DEF JobPush
  <2>2. sheet'[link.sheet][r] = Shown(sheet[link.sheet][r], job[j].value)
    <3>1. JobPush(j, "ok", lands)
      BY <1>9
    <3> QED
      BY <1>0, <1>1, <1>2, <1>6, <3>1, PushLands
  <2>3. CASE Exists(r)
    <3>1. sheet[link.sheet][r] # Tombstone /\ job[j].value = row[r] /\ row[r] # Tombstone
      BY <1>2, <1>5, <1>6, <2>1, <2>3 DEF TombInv, Exists, Tombstone
    <3> QED
      BY <2>2, <2>3, <3>1 DEF Shown
  <2>4. CASE ~Exists(r)
    BY <1>5, <2>1, <2>2, <2>4 DEF Shown
  <2> QED
    BY <2>3, <2>4
<1> HIDE DEF Shows
<1>10. CASE \E lands \in BOOLEAN : JobPush(j, job'[j].result, lands) /\ job'[j].pc = "pushed"
  BY <1>9, <1>10
<1> QED
  BY <1>7, <1>8, <1>10, HandStays

LEMMA NextClean ==
  ASSUME SyncInv, SyncInv', OnInv, PushInv, CleanMeansMirrored, [Next]_vars
  PROVE  CleanMeansMirrored'
<1>0. TypeOK
  BY DEF SyncInv
<1> SUFFICES ASSUME Enabled', NEW r \in Rows, state'[r] # NoState, ~Dirty(state'[r]), r \notin astray'
             PROVE  Mirrors(r)'
  BY DEF CleanMeansMirrored, Mirrors, Dirty
<1>1. /\ state[r] # NoState /\ state'[r].version = state[r].version /\ r \notin astray
      /\ Enabled /\ link'.sheet = link.sheet /\ row'[r] = row[r] /\ (r \in gone' <=> r \in gone)
  BY MarkedOrSame
<1>2. state[r] \in State /\ state'[r] \in State
  BY <1>1 DEF SyncInv, TypeOK
<1>3. ~(state'[r].synced < state'[r].version)
  BY DEF Dirty
<1> DEFINE Reader(i) == job[i].pc = "read" /\ job[i].row = r /\ Holding(i) /\ Holds(i)
<1>4. ASSUME ~Dirty(state[r]) PROVE Mirrors(r) /\ \A i \in Jobs : ~Reader(i)
  <2>1. Mirrors(r)
    BY <1>1, <1>4 DEF CleanMeansMirrored, Mirrors
  <2>2. ASSUME NEW i \in Jobs, Reader(i) PROVE FALSE
    <3>1. state[r].synced < state[r].version
      BY <2>2, HeldState
    <3> QED
      BY <1>1, <1>4, <3>1 DEF Dirty
  <2> QED
    BY <2>1, <2>2
<1>5. Mirrors(r) /\ \A i \in Jobs : ~Reader(i)
  <2>1. CASE OthersTurn
    <3>1. row'[r] >= row[r] /\ row'[r] \in Nat /\ gone \subseteq gone' /\ RowTurns(r)
      BY <2>1, Bounds DEF OthersTurn, SyncInv, TypeOK
    <3>2. state'[r].synced = state[r].synced
      BY <1>1, <3>1, RowTurnsFields
    <3>3. ~Dirty(state[r])
      BY <1>1, <1>3, <3>2 DEF Dirty
    <3> QED
      BY <1>4, <3>3
  <2>2. ASSUME NEW j \in Jobs, JobTurns(j)
        PROVE  Mirrors(r) /\ \A i \in Jobs : ~Reader(i)
    <3>1. CASE state'[r].synced = state[r].synced
      <4>1. ~Dirty(state[r])
        BY <1>1, <1>3, <3>1 DEF Dirty
      <4> QED
        BY <1>4, <4>1
    <3>2. CASE /\ job[j].row = r /\ job[j].pc = "pushed" /\ job[j].result = "ok" /\ Holding(j) /\ Holds(j)
               /\ state'[r].synced = job[j].version
               /\ (link # NoLink /\ job[j].sheet # link.sheet) => r \in astray'
      <4>1. job[j].version <= state[r].version
        BY <3>2, HeldState
      <4>2. job[j].version = state[r].version
        BY <1>1, <1>2, <1>3, <3>2, <4>1, StateFields, JobFields, <1>0
      <4>3. job[j].sheet = link.sheet
        BY <1>1, <3>2 DEF Enabled
      <4>4. Mirrors(r)
        BY <1>1, <3>2, <4>2, <4>3 DEF PushInv
      <4>5. ASSUME NEW i \in Jobs, Reader(i) PROVE FALSE
        BY <3>2, <4>5 DEF Holds
      <4> QED
        BY <4>4, <4>5
    <3> QED
      BY <2>2, <3>1, <3>2, JobVersions
  <2> QED
    BY <2>1, <2>2, NextSync, StutterSync
<1>6. link.sheet \in Sheets
  BY <1>0, <1>1 DEF Enabled, TypeOK, Link
<1>7. sheet'[link.sheet][r] = sheet[link.sheet][r]
  BY <1>5, <1>6, CellStays
<1> QED
  BY <1>1, <1>5, <1>7 DEF Mirrors, Exists

\* The inductive invariant behind the mirror.
MirrorInv == OnInv /\ TombInv /\ PushInv /\ CleanMeansMirrored

LEMMA InitMirror == ASSUME Init PROVE MirrorInv
<1>1. \A j \in Jobs : job[j].pc = "idle"
  BY IdleFields DEF Init
<1>2. \A w \in Writers : writer[w].pc = "idle"
  BY IdleFields DEF Init
<1>3. ~Enabled /\ \A s \in Sheets, r \in Rows : sheet[s][r] # Tombstone
  BY DEF Init, Enabled, Missing, Tombstone
<1> QED
  BY <1>1, <1>2, <1>3 DEF MirrorInv, OnInv, TombInv, PushInv, CleanMeansMirrored, Holding

\* A row that is not dirty is what the linked sheet shows, and a deleted one is
\* gone from it, whatever was edited while a push of it was on its way,
\* whichever jobs died, were refused or outlived their lease, and whatever
\* settings changes overlapped them (ref.go Dirty: "whether the sheet still
\* trails the row"). Left out are the rows astray: pushed by a job that had lost
\* their lease, settled for a sheet the link had left, or never marked.
THEOREM CleanRowsAreMirrored == Safety => []CleanMeansMirrored
<1>1. Init => MirrorInv
  BY InitMirror
<1>2. SyncInv /\ SyncInv' /\ MirrorInv /\ [Next]_vars => MirrorInv'
  <2> SUFFICES ASSUME SyncInv, SyncInv', MirrorInv, [Next]_vars PROVE MirrorInv'
    OBVIOUS
  <2>0. OnInv /\ TombInv /\ PushInv /\ CleanMeansMirrored
    BY DEF MirrorInv
  <2>1. OnInv'
    BY <2>0, NextOn
  <2>2. TombInv'
    BY <2>0, NextTomb
  <2>3. PushInv'
    BY <2>0, NextPush
  <2>4. CleanMeansMirrored'
    BY <2>0, NextClean
  <2> QED
    BY <2>1, <2>2, <2>3, <2>4 DEF MirrorInv
<1>3. MirrorInv => CleanMeansMirrored
  BY DEF MirrorInv
<1> QED
  BY <1>1, <1>2, <1>3, TypeCorrect, PTL DEF Safety
=============================================================================
