---------------------------- MODULE OpensheetSync ----------------------------
(***************************************************************************)
(* The mirror of one project into an external spreadsheet                  *)
(* (internal/opensheetsync): writes mark the rows they touch inside their  *)
(* own unit of work, sync jobs lease each dirty row, push its current      *)
(* state and settle the version they pushed, a reconciler resubmits what   *)
(* was lost, and managers configure, switch and remove the link.           *)
(*                                                                         *)
(* A wallet, category or transaction is one row; what the sheet would show *)
(* of it is its edit number. A sheet target stands for the opensheet org,  *)
(* project and tabs of the settings. Time is abstracted: a retry_after     *)
(* passes, a lease runs out, also under a job that still works on its row, *)
(* and each process reads any clock when it stamps a link.                 *)
(*                                                                         *)
(* Settings changes may overlap everything that read the settings before   *)
(* them. Three histories, which no step reads, tell what such an overlap   *)
(* did: `astray`, and `since` and `ousted` of a job.                       *)
(***************************************************************************)
EXTENDS Integers, FiniteSets

CONSTANTS
  Rows,           \* entities of the project
  Sheets,         \* what the link can point at
  Jobs,           \* consumers running opensheet.sync
  Writers,        \* concurrent domain writes
  Managers,       \* concurrent settings requests
  NoLink,         \* the project has no link row
  NoState,        \* the entity has no sync state row
  NoRow,          \* a job between two rows
  MaxEdits,       \* bound of the model: edits of one row
  MaxVersion,     \* bound of the model: marks of one state row
  MaxStamp,       \* bound of the model: values of the link's updated_at
  MaxRefs,        \* maxRefsPerJob (50)
  MaxPasses,      \* maxPasses (3)
  MaxRowAttempts, \* MaxRowAttempts (5)
  DisableAfter    \* DisableAfter (3)

ASSUME OpensheetAssumption ==
  /\ {MaxEdits, MaxVersion, MaxStamp, MaxRefs, MaxPasses, MaxRowAttempts, DisableAfter}
       \subseteq Nat \ {0}
  /\ Jobs \cap {"none", "orphan"} = {}

VARIABLES
  row,      \* row[r]: edits committed so far, 0 before it is created
  gone,     \* rows hard-deleted
  link,     \* the link row, or NoLink
  state,    \* state[r]: the sync state row, or NoState
  sheet,    \* sheet[s][r]: what the spreadsheet shows
  queue,    \* opensheet.sync messages waiting to be delivered
  job,      \* job[j]: the message a consumer is handling
  writer,   \* writer[w]: the unit of work of a domain write
  request,  \* request[m]: a settings request past its load
  astray    \* history: rows the sheet may trail though they are not dirty

vars == <<row, gone, link, state, sheet, queue, job, writer, request, astray>>

Missing == 0        \* the tab has no such row
Tombstone == -1     \* the tab's row carries deleted_at
Cell == -1..MaxEdits

\* stamp: updated_at.
Link == [sheet : Sheets, enabled : BOOLEAN, verified : BOOLEAN, streak : Nat, stamp : 1..MaxStamp]

\* lease: "none", a job whose lease_token it is, or "orphan" once that job is
\* gone; lapsed: leased_until has passed though the token is still that job's.
State == [version : 1..MaxVersion, synced : 0..MaxVersion, deleted : BOOLEAN,
          attempts : 0..MaxRowAttempts, lease : Jobs \cup {"none", "orphan"},
          lapsed : BOOLEAN, waiting : BOOLEAN]

\* A missing row is told from a link, a sheet, a state row and an entity.
ASSUME NoRowAssumption == NoLink \notin Link \cup Sheets /\ NoState \notin State /\ NoRow \notin Rows

Exists(r) == row[r] > 0 /\ r \notin gone

\* State.Dirty.
Dirty(st) == st # NoState /\ st.synced < st.version

Enabled == link # NoLink /\ link.enabled

\* msg, todo: the message and its rows not yet taken up; sheet, stamp: of the
\* loaded link; row, version, deleted, value: the row in hand, as claimed and
\* as read. Two histories: since, what became of the link since the load: saved
\* by requests that had loaded it as it was stored, overwritten by one that had
\* not, or removed; ousted, whether the lease of the row in hand ran out or went
\* with its link.
Idle == [pc |-> "idle", msg |-> {}, todo |-> {}, sheet |-> NoLink, stamp |-> 0, since |-> "none",
         settled |-> FALSE, pass |-> 0, result |-> "ok", row |-> NoRow, ousted |-> FALSE,
         version |-> 0, deleted |-> FALSE, value |-> Missing]
NoWrite == [pc |-> "idle", touched |-> {}, dropped |-> {}, saw |-> "none", locked |-> FALSE]
NoRequest == [pc |-> "idle", kind |-> "save", to |-> NoLink, copy |-> NoLink]

Phases == {"idle", "next", "claimed", "read", "pushed", "ending"}

Job == [pc : Phases, msg : SUBSET Rows, todo : SUBSET Rows, sheet : Sheets \cup {NoLink},
        stamp : 0..MaxStamp, since : {"none", "saved", "overwritten", "removed"},
        settled : BOOLEAN, pass : 0..MaxPasses, result : {"ok", "row", "link", "transient"},
        row : Rows \cup {NoRow}, ousted : BOOLEAN, version : 0..MaxVersion, deleted : BOOLEAN, value : Cell]

\* saw: what the write read of the link.
Unit == [pc : {"idle", "open"}, touched : SUBSET Rows, dropped : SUBSET Rows,
         saw : {"none", "off", "on"}, locked : BOOLEAN]

Request == [pc : {"idle", "loaded"}, kind : {"save", "enable", "disable", "sync"},
            to : Sheets \cup {NoLink}, copy : Link \cup {NoLink}]

Init ==
  /\ row = [r \in Rows |-> 0]
  /\ gone = {}
  /\ link = NoLink
  /\ state = [r \in Rows |-> NoState]
  /\ sheet = [s \in Sheets |-> [r \in Rows |-> Missing]]
  /\ queue = {}
  /\ job = [j \in Jobs |-> Idle]
  /\ writer = [w \in Writers |-> NoWrite]
  /\ request = [m \in Managers |-> NoRequest]
  /\ astray = {}

-----------------------------------------------------------------------------
(* Marks *)

\* A first mark inserts version 1; a later one moves the version on, gives
\* the row fresh attempts and drops its retry_after.
Marked(st, dead) ==
  IF st = NoState
  THEN [version |-> 1, synced |-> 0, deleted |-> dead, attempts |-> 0,
        lease |-> "none", lapsed |-> FALSE, waiting |-> FALSE]
  ELSE [st EXCEPT !.version = @ + 1, !.attempts = 0, !.waiting = FALSE, !.deleted = @ \/ dead]

CanMark(S) == \A r \in S : state[r] # NoState => state[r].version < MaxVersion

\* MarkAll: every row of the project, and as deleted every state row whose
\* entity is gone.
BackfillRows == {r \in Rows : Exists(r) \/ state[r] # NoState}

MarkAll == [r \in Rows |-> IF r \in BackfillRows THEN Marked(state[r], ~Exists(r)) ELSE state[r]]

\* Mutant: the predicate forgets the lease.
ClaimableThoughLeased(st) == Dirty(st) /\ st.attempts < MaxRowAttempts /\ ~st.waiting

\* The predicate shared by Claim and ListDirty.
Claimable(st) ==
  /\ Dirty(st)
  /\ st.attempts < MaxRowAttempts
  /\ st.lease = "none" \/ st.lapsed
  /\ ~st.waiting

\* The first rows of S, up to a message's worth. Which are first depends on
\* updated_at and on ids, and is left open.
FirstOf(S) ==
  {T \in SUBSET S : Cardinality(T) = IF Cardinality(S) < MaxRefs THEN Cardinality(S) ELSE MaxRefs}

\* One message for the first rows of S, unless there are none, the submit
\* fails or the process dies first.
Submit(S) == queue' \in {queue} \cup {queue \cup {T} : T \in FirstOf(S) \ {{}}}

\* KickDirty and followUp: the oldest claimable rows.
KickDirty(states) == Submit({r \in Rows : Claimable(states[r])})

-----------------------------------------------------------------------------
(* Domain writes *)

\* While a unit of work holds its share lock on the link row, no statement
\* can change or delete that row.
ShareLocked == \E w \in Writers : writer[w].pc = "open" /\ writer[w].locked

\* LinkEnabled, of a link that may be missing.
Sight == IF link = NoLink THEN "none" ELSE IF link.enabled THEN "on" ELSE "off"

\* Mutant: the link is read without FOR SHARE.
WriteOpenUnlocked(w, touched, dropped) ==
  /\ writer[w].pc = "idle"
  /\ touched # {} /\ dropped = {}
  /\ \A r \in touched : r \notin gone /\ row[r] < MaxEdits
  /\ writer' = [writer EXCEPT ![w] =
       [pc |-> "open", touched |-> touched, dropped |-> dropped, saw |-> Sight, locked |-> FALSE]]
  /\ UNCHANGED <<row, gone, link, state, sheet, queue, job, request, astray>>

\* Mark: the write is made and the link read for share. It finds no row to
\* lock when the project has no link.
WriteOpen(w, touched, dropped) ==
  /\ writer[w].pc = "idle"
  /\ touched \cup dropped # {} /\ touched \cap dropped = {}
  /\ \A r \in touched : r \notin gone /\ row[r] < MaxEdits
  /\ \A r \in dropped : Exists(r)
  /\ \A v \in Writers : writer[v].pc = "open" =>
       (touched \cup dropped) \cap (writer[v].touched \cup writer[v].dropped) = {}
  /\ writer' = [writer EXCEPT ![w] =
       [pc |-> "open", touched |-> touched, dropped |-> dropped,
        saw |-> Sight, locked |-> link # NoLink]]
  /\ UNCHANGED <<row, gone, link, state, sheet, queue, job, request, astray>>

\* The commit makes rows and marks visible together; the kick that follows may
\* not happen, and is pointless if the link was turned off since.
WriteCommit(w) ==
  /\ writer[w].pc = "open"
  /\ LET u == writer[w]
         S == u.touched \cup u.dropped IN
     /\ u.saw = "on" => CanMark(S)
     /\ row' = [r \in Rows |-> IF r \in u.touched THEN row[r] + 1 ELSE row[r]]
     /\ gone' = gone \cup u.dropped
     /\ state' = [r \in Rows |-> IF u.saw = "on" /\ r \in S
                                 THEN Marked(state[r], r \in u.dropped) ELSE state[r]]
     /\ IF Enabled THEN Submit(S) ELSE UNCHANGED queue
     /\ astray' = CASE u.saw = "on" -> astray \ S
                    [] u.saw = "none" /\ Enabled -> astray \cup S
                    [] OTHER -> astray
  /\ writer' = [writer EXCEPT ![w] = NoWrite]
  /\ UNCHANGED <<link, sheet, job, request>>

WriteRollback(w) ==
  /\ writer[w].pc = "open"
  /\ writer' = [writer EXCEPT ![w] = NoWrite]
  /\ UNCHANGED <<row, gone, link, state, sheet, queue, job, request, astray>>

-----------------------------------------------------------------------------
(* The sync job *)

Active(j) == job[j].pc # "idle"

\* Between the claim and the settle of a row.
Holding(j) == job[j].pc \in {"claimed", "read", "pushed"}

\* The row's lease_token is still this job's.
Holds(j) == state[job[j].row] # NoState /\ state[job[j].row].lease = j

\* Sync loads the link once, for every row of the message. A missing or
\* disabled link acknowledges the message; a key that does not open or an
\* unusable endpoint refuses it.
JobLoad(j, m) ==
  /\ ~Active(j)
  /\ m \in queue
  /\ queue' = queue \ {m}
  /\ \/ ~Enabled /\ UNCHANGED job
     \/ /\ Enabled
        /\ \E pc \in {"next", "ending"} :
             job' = [job EXCEPT ![j] = [Idle EXCEPT
               !.pc = pc, !.msg = m, !.todo = m, !.sheet = link.sheet, !.stamp = link.stamp,
               !.result = IF pc = "next" THEN "ok" ELSE "link"]]
  /\ UNCHANGED <<row, gone, link, state, sheet, writer, request, astray>>

\* The row a job takes up next: syncRow stays on a row it settled dirty.
Turn(j) == IF job[j].pass > 0 THEN {job[j].row} ELSE job[j].todo

\* The job is done with the row in hand, or with one it could not claim.
Leave(j, r) ==
  [job[j] EXCEPT !.pc = "next", !.todo = @ \ {r}, !.pass = 0, !.result = "ok",
                 !.row = NoRow, !.ousted = FALSE, !.version = 0, !.deleted = FALSE, !.value = Missing]

Becomes(j, next) == job' = [job EXCEPT ![j] = next]

JobClaim(j, r) ==
  /\ job[j].pc = "next"
  /\ r \in Turn(j)
  /\ \/ /\ Claimable(state[r])
        /\ state' = [state EXCEPT ![r].lease = j, ![r].lapsed = FALSE]
        /\ Becomes(j, [job[j] EXCEPT !.pc = "claimed", !.row = r, !.ousted = FALSE,
                                     !.version = state[r].version, !.deleted = state[r].deleted])
     \/ /\ ~Claimable(state[r])
        /\ Becomes(j, Leave(j, r))
        /\ UNCHANGED state
  /\ UNCHANGED <<row, gone, link, sheet, queue, writer, request, astray>>

\* push reads the row after the claim; a row that is gone is removed.
JobRead(j) ==
  /\ job[j].pc = "claimed"
  /\ LET r == job[j].row
         value == IF job[j].deleted \/ ~Exists(r) THEN Tombstone ELSE row[r] IN
     Becomes(j, [job[j] EXCEPT !.pc = "read", !.value = value])
  /\ UNCHANGED <<row, gone, link, state, sheet, queue, writer, request, astray>>

\* DELETE of a missing row is fine; PATCH leaves a tombstone a tombstone.
Shown(cell, value) ==
  IF value = Tombstone THEN IF cell = Missing THEN Missing ELSE Tombstone
  ELSE IF cell = Tombstone THEN Tombstone ELSE value

\* upsert or remove: it lands, the sheet refuses the row or the link, or the
\* call fails with or without having landed.
JobPush(j, result, lands) ==
  /\ job[j].pc = "read"
  /\ result \in {"ok", "row", "link", "transient"}
  /\ result = "ok" => lands
  /\ result \in {"row", "link"} => ~lands
  /\ sheet' = IF lands
              THEN [sheet EXCEPT ![job[j].sheet][job[j].row] = Shown(@, job[j].value)]
              ELSE sheet
  /\ Becomes(j, [job[j] EXCEPT !.pc = "pushed", !.result = result, !.value = Missing])
  /\ astray' = IF lands /\ ~Holds(j) THEN astray \cup {job[j].row} ELSE astray
  /\ UNCHANGED <<row, gone, link, state, queue, writer, request>>

\* Mutant: the settle records the version the row is at.
SettledAsIs(st, version) == [st EXCEPT !.synced = st.version, !.lease = "none", !.lapsed = FALSE]

Settled(st, version) ==
  [st EXCEPT !.synced = version, !.attempts = 0, !.lease = "none", !.lapsed = FALSE, !.waiting = FALSE]

\* Settle by lease token; a mark since the claim leaves the row dirty and the
\* job pushes it again, up to MaxPasses.
JobSettle(j) ==
  /\ job[j].pc = "pushed"
  /\ job[j].result = "ok"
  /\ LET r == job[j].row
         again == Holds(j) /\ state[r].version > job[j].version /\ job[j].pass + 1 < MaxPasses IN
     /\ state' = IF Holds(j) THEN [state EXCEPT ![r] = Settled(@, job[j].version)] ELSE state
     /\ Becomes(j, [(IF again THEN [job[j] EXCEPT !.pc = "next", !.pass = @ + 1] ELSE Leave(j, r))
                      EXCEPT !.settled = @ \/ Holds(j)])
     /\ astray' = IF Holds(j) /\ link # NoLink /\ job[j].sheet # link.sheet
                  THEN astray \cup {r} ELSE astray
  /\ UNCHANGED <<row, gone, link, sheet, queue, writer, request>>

\* Mutant: the refusal of an older version counts against the new one.
ReleasedAlways(st, version, result) ==
  [st EXCEPT !.lease = "none", !.lapsed = FALSE, !.waiting = result = "row",
             !.attempts = IF result = "row" THEN @ + 1 ELSE @]

\* A refused row counts an attempt and waits, unless it was marked since.
Released(st, version, result) ==
  [st EXCEPT !.lease = "none", !.lapsed = FALSE,
             !.attempts = IF result = "row" /\ st.version = version THEN @ + 1 ELSE @,
             !.waiting = IF st.version = version THEN result = "row" ELSE @]

\* A job leaves its lease behind, to run out unless it has already.
Orphaned(j) ==
  IF Holding(j) /\ Holds(j)
  THEN [state EXCEPT ![job[j].row].lease = IF state[job[j].row].lapsed THEN "none" ELSE "orphan",
                     ![job[j].row].lapsed = FALSE]
  ELSE state

\* The failure path of syncRow. A refused row lets the job go on, anything
\* else ends it. A release or settle the store does not take leaves the lease.
JobRelease(j, stored) ==
  /\ job[j].pc = "pushed"
  /\ job[j].result # "ok"
  /\ LET r == job[j].row IN
     /\ state' = IF ~stored THEN Orphaned(j)
                 ELSE IF Holds(j) THEN [state EXCEPT ![r] = Released(@, job[j].version, job[j].result)]
                 ELSE state
     /\ Becomes(j, IF job[j].result = "row" THEN Leave(j, r) ELSE [job[j] EXCEPT !.pc = "ending"])
  /\ UNCHANGED <<row, gone, link, sheet, queue, writer, request, astray>>

\* The store fails a claim or a settle: the job ends, worth a retry.
JobStoreFails(j) ==
  /\ \/ job[j].pc = "next" /\ job[j].todo # {}
     \/ job[j].pc = "pushed" /\ job[j].result = "ok"
  /\ state' = Orphaned(j)
  /\ Becomes(j, [job[j] EXCEPT !.pc = "ending", !.result = "transient"])
  /\ UNCHANGED <<row, gone, link, sheet, queue, writer, request, astray>>

\* SaveOutcome: only the link the job loaded, unchanged since.
Outcome(j, failed) ==
  IF link = NoLink \/ link.stamp # job[j].stamp THEN link
  ELSE IF ~failed THEN [link EXCEPT !.streak = 0]
  ELSE IF link.streak + 1 < DisableAfter THEN [link EXCEPT !.streak = @ + 1]
  ELSE [link EXCEPT !.streak = @ + 1, !.verified = @ /\ ~link.enabled, !.enabled = FALSE]

\* The end of Sync and the fate of its message. A job out of budget leaves the
\* rest of its rows dirty; a full batch that made progress submits the next
\* page; a refused message is dead-lettered; any other failure is redelivered
\* until its deliveries are used up.
JobEnd(j) ==
  /\ \/ /\ job[j].pc = "next" /\ job[j].pass = 0
        /\ IF job[j].settled /\ job[j].todo = {} /\ Cardinality(job[j].msg) >= MaxRefs
           THEN KickDirty(state) ELSE UNCHANGED queue
        /\ \/ link' = Outcome(j, FALSE) /\ job[j].settled /\ ~ShareLocked
           \/ UNCHANGED link
     \/ /\ job[j].pc = "ending" /\ job[j].result = "link"
        /\ \/ link' = Outcome(j, TRUE) /\ ~ShareLocked
           \/ UNCHANGED link
        /\ UNCHANGED queue
     \/ /\ job[j].pc = "ending" /\ job[j].result = "transient"
        /\ queue' \in {queue, queue \cup {job[j].msg}}
        /\ UNCHANGED link
  /\ job' = [job EXCEPT ![j] = Idle]
  /\ UNCHANGED <<row, gone, state, sheet, writer, request, astray>>

\* The process dies: the message is redelivered, the lease has to run out.
JobCrash(j) ==
  /\ Active(j)
  /\ state' = Orphaned(j)
  /\ queue' = queue \cup {job[j].msg}
  /\ job' = [job EXCEPT ![j] = Idle]
  /\ UNCHANGED <<row, gone, link, sheet, writer, request, astray>>

\* Mutant: leased_until is never looked at.
LeaseForEver(r) == FALSE /\ state[r] = NoState /\ UNCHANGED vars

\* leased_until passes on a lease nobody will settle.
LeaseExpires(r) ==
  /\ state[r] # NoState
  /\ state[r].lease = "orphan"
  /\ state' = [state EXCEPT ![r].lease = "none"]
  /\ UNCHANGED <<row, gone, link, sheet, queue, job, writer, request, astray>>

\* leased_until passes under a job still at work: its 25s are measured on its
\* own clock, and a stalled process does not see them end.
LeaseOverruns(r) ==
  /\ state[r] # NoState
  /\ state[r].lease \in Jobs /\ ~state[r].lapsed
  /\ state' = [state EXCEPT ![r].lapsed = TRUE]
  /\ job' = [job EXCEPT ![state[r].lease].ousted = TRUE]
  /\ UNCHANGED <<row, gone, link, sheet, queue, writer, request, astray>>

RetryFalls(r) ==
  /\ state[r] # NoState
  /\ state[r].waiting
  /\ state' = [state EXCEPT ![r].waiting = FALSE]
  /\ UNCHANGED <<row, gone, link, sheet, queue, job, writer, request, astray>>

\* The rows still claimable a minute after their last mark, up to a page.
Reconcile(S) ==
  /\ Enabled
  /\ S # {} /\ Cardinality(S) <= MaxRefs
  /\ \A r \in S : Claimable(state[r])
  /\ queue' = queue \cup {S}
  /\ UNCHANGED <<row, gone, link, state, sheet, job, writer, request, astray>>

-----------------------------------------------------------------------------
(* Settings *)

\* Save, SetEnabled(TRUE), SetEnabled(FALSE) and SyncNow load the link, and
\* act later: Save runs a Test of up to 10s in between.
RequestLoad(m, kind, to) ==
  /\ request[m].pc = "idle"
  /\ \/ kind = "save" /\ to \in Sheets
     \/ kind = "enable" /\ to = NoLink /\ link # NoLink /\ ~link.enabled /\ link.verified
     \/ kind \in {"disable", "sync"} /\ to = NoLink /\ Enabled
  /\ request' = [request EXCEPT ![m] = [pc |-> "loaded", kind |-> kind, to |-> to, copy |-> link]]
  /\ UNCHANGED <<row, gone, link, state, sheet, queue, job, writer, astray>>

\* Mutant: a stamp taken when the clock has not moved is kept.
StampAsIs(copy) == {t \in 1..MaxStamp : copy # NoLink => t >= copy.stamp}

\* stamp: any time, but past the updated_at of the loaded copy.
Stamp(copy) == {t \in 1..MaxStamp : copy # NoLink => t > copy.stamp}

\* Configure, Enable and Disable on the loaded copy.
NewLink(q, at) ==
  CASE q.kind = "save" -> [sheet |-> q.to, verified |-> TRUE, streak |-> 0, stamp |-> at,
                           enabled |-> q.copy # NoLink /\ q.copy.enabled]
    [] q.kind = "enable" -> [q.copy EXCEPT !.enabled = TRUE, !.streak = 0, !.stamp = at]
    [] q.kind = "disable" -> [q.copy EXCEPT !.enabled = FALSE, !.stamp = at]

Retargets(q) == q.kind = "save" /\ q.copy # NoLink /\ q.copy.enabled /\ q.copy.sheet # q.to

Backfills(q) == q.kind = "enable" \/ Retargets(q)

\* History: what a change of the link makes of the jobs that loaded it before.
Outdated(change) ==
  LET worse == [saved |-> {"overwritten", "removed"}, overwritten |-> {"removed"},
                removed |-> {}] IN
  [j \in Jobs |-> IF ~Active(j) \/ job[j].since \in worse[change] THEN job[j]
                  ELSE [job[j] EXCEPT !.since = change]]

\* History: a backfill reaches every row; a mirror that comes on, or moves,
\* without one, because the request had loaded another link, leaves them all.
Strays(q, new) ==
  IF Backfills(q) THEN astray \ BackfillRows
  ELSE IF new.enabled /\ ~(Enabled /\ link.sheet = new.sheet) THEN Rows
  ELSE astray

\* persist: SaveLink and, for a backfill, MarkAll in one unit of work; then
\* KickDirty. SaveLink writes the whole row, inserting it if it is gone.
RequestCommit(m, at) ==
  /\ request[m].pc = "loaded"
  /\ LET q == request[m] IN
     /\ q.kind # "sync"
     /\ ~ShareLocked
     /\ at \in Stamp(q.copy)
     /\ link' = NewLink(q, at)
     /\ IF Backfills(q)
        THEN CanMark(BackfillRows) /\ state' = MarkAll /\ KickDirty(MarkAll)
        ELSE UNCHANGED <<state, queue>>
     /\ job' = Outdated(IF q.copy # NoLink /\ link # NoLink /\ q.copy.stamp = link.stamp
                        THEN "saved" ELSE "overwritten")
     /\ astray' = Strays(q, NewLink(q, at))
  /\ request' = [request EXCEPT ![m] = NoRequest]
  /\ UNCHANGED <<row, gone, sheet, writer>>

\* SyncNow's MarkAll and KickDirty, whatever became of the link since the load;
\* without a link its foreign key refuses the marks.
SyncNow(m) ==
  /\ request[m].pc = "loaded" /\ request[m].kind = "sync"
  /\ link # NoLink
  /\ CanMark(BackfillRows)
  /\ state' = MarkAll
  /\ KickDirty(MarkAll)
  /\ astray' = astray \ BackfillRows
  /\ request' = [request EXCEPT ![m] = NoRequest]
  /\ UNCHANGED <<row, gone, link, sheet, job, writer>>

\* A Test that fails, or a request that ends early, changes nothing.
RequestAbandon(m) ==
  /\ request[m].pc = "loaded"
  /\ request' = [request EXCEPT ![m] = NoRequest]
  /\ UNCHANGED <<row, gone, link, state, sheet, queue, job, writer, astray>>

\* Deleting the link cascades to the sync state; the sheet is left alone.
LinkDelete ==
  /\ Managers # {}
  /\ link # NoLink
  /\ ~ShareLocked
  /\ link' = NoLink
  /\ state' = [r \in Rows |-> NoState]
  /\ job' = [j \in Jobs |-> [Outdated("removed")[j] EXCEPT !.ousted = @ \/ Holding(j)]]
  /\ astray' = {}
  /\ UNCHANGED <<row, gone, sheet, queue, writer, request>>

-----------------------------------------------------------------------------

Write(w) ==
  \/ \E T, D \in SUBSET Rows : WriteOpen(w, T, D)
  \/ WriteCommit(w)
  \/ WriteRollback(w)

JobStep(j) ==
  \/ \E m \in queue : JobLoad(j, m)
  \/ \E r \in Rows : JobClaim(j, r)
  \/ JobRead(j)
  \/ \E result \in {"ok", "row", "link", "transient"}, lands \in BOOLEAN : JobPush(j, result, lands)
  \/ JobSettle(j)
  \/ \E stored \in BOOLEAN : JobRelease(j, stored)
  \/ JobStoreFails(j)
  \/ JobEnd(j)

Settings(m) ==
  \/ \E kind \in {"save", "enable", "disable", "sync"}, to \in Sheets \cup {NoLink} :
       RequestLoad(m, kind, to)
  \/ \E at \in 1..MaxStamp : RequestCommit(m, at)
  \/ SyncNow(m)
  \/ RequestAbandon(m)

Clock == \E r \in Rows : LeaseExpires(r) \/ LeaseOverruns(r) \/ RetryFalls(r)

Next ==
  \/ \E w \in Writers : Write(w)
  \/ \E j \in Jobs : JobStep(j) \/ JobCrash(j)
  \/ \E m \in Managers : Settings(m)
  \/ Clock
  \/ \E S \in SUBSET Rows : Reconcile(S)
  \/ LinkDelete

Safety == Init /\ [][Next]_vars

(***************************************************************************)
(* Fairness, row by row: time passes; the reconciler ticks every 5 minutes *)
(* and takes the oldest rows first; the queue delivers; and a job that     *)
(* keeps getting to a step takes it at last: not every process dies before *)
(* it, not every call to the sheet is lost, not every store call fails.    *)
(* Nothing makes the sheet accept a row, a settings request or a domain    *)
(* write happen, or a commit's kick arrive.                                *)
(***************************************************************************)
Resubmits(r) == \E S \in SUBSET Rows : r \in S /\ Reconcile(S)
Delivers(r) == \E j \in Jobs, m \in SUBSET Rows : r \in m /\ JobLoad(j, m) /\ job'[j].pc = "next"
Claims(r) == \E j \in Jobs : JobClaim(j, r)
Reads(r) == \E j \in Jobs : job[j].row = r /\ JobRead(j)
Answers(r) == \E j \in Jobs : job[j].row = r /\ (JobPush(j, "ok", TRUE) \/ JobPush(j, "row", FALSE))
Records(r) ==
  \E j \in Jobs :
    /\ job[j].row = r /\ job[j].result \in {"ok", "row"}
    /\ JobSettle(j) \/ JobRelease(j, TRUE)

Fairness ==
  /\ \A j \in Jobs : WF_vars(JobStep(j))
  /\ \A r \in Rows :
       /\ WF_vars(LeaseExpires(r)) /\ WF_vars(RetryFalls(r))
       /\ SF_vars(Resubmits(r)) /\ SF_vars(Delivers(r)) /\ SF_vars(Claims(r))
       /\ SF_vars(Reads(r)) /\ SF_vars(Answers(r)) /\ SF_vars(Records(r))

Spec == Safety /\ Fairness

-----------------------------------------------------------------------------
(* Properties *)

\* Every variable keeps the shape the rows, messages and requests have.
TypeOK ==
  /\ row \in [Rows -> 0..MaxEdits]
  /\ gone \subseteq Rows
  /\ link \in Link \cup {NoLink}
  /\ state \in [Rows -> State \cup {NoState}]
  /\ sheet \in [Sheets -> [Rows -> Cell]]
  /\ queue \subseteq SUBSET Rows
  /\ job \in [Jobs -> Job]
  /\ writer \in [Writers -> Unit]
  /\ request \in [Managers -> Request]
  /\ astray \subseteq Rows

\* A row of a project whose mirror is on has a sync state row, whatever
\* overlaps: no write slips between its own look at the link and the backfill
\* of whoever turns the link on (postgres.go LinkEnabled: "so a row is never
\* missed"). Only a write that found no link to lock, and a mirror that came on
\* without a backfill, leave rows astray.
NoRowMissed == Enabled => \A r \in Rows : Exists(r) => state[r] # NoState \/ r \in astray

\* A row that is not dirty is what the linked sheet shows, and a deleted one
\* is gone from it, whatever was edited, saved, deleted or leased away while a
\* push of it was in flight (ref.go Dirty: "whether the sheet still trails the
\* row"). Astray are only the rows a job pushed after losing their lease, or
\* settled for a sheet the link had left, or that no mark recorded.
CleanMeansMirrored ==
  Enabled => \A r \in Rows :
    (state[r] # NoState /\ ~Dirty(state[r]) /\ r \notin astray)
      => IF Exists(r) THEN sheet[link.sheet][r] = row[r]
         ELSE sheet[link.sheet][r] \in {Missing, Tombstone}

\* Two jobs are between the claim and the settle of the same row only if one of
\* them has outlived its lease (sync.go leaseTTL: "so two jobs never push one
\* row at once").
TwoJobsNeverPushOneRow ==
  \A i, j \in Jobs : (i # j /\ Holding(i) /\ Holding(j) /\ job[i].row = job[j].row)
                       => job[i].ousted \/ job[j].ousted

\* Once the settings a job loaded have been changed, the job never moves the
\* failure streak, turns the mirror off or clears the streak: whatever clocks
\* the changes were stamped by, updated_at has moved past what the job loaded
\* (service.go stamp, postgres.go SaveOutcome). Only a change made to a copy
\* that was no longer the stored link, or a link set up anew, may bring the
\* job's own updated_at back.
StaleJobSparesLink ==
  [][\A j \in Jobs : (Active(j) /\ job'[j].pc = "idle" /\ job[j].since = "saved")
                        => link' = link]_vars

\* Attempts are spent, and a retry is put off, only by a refusal of the very
\* version the row is at: an edit made during the push keeps all its tries
\* (pgwriter.go Release).
FreshEditKeepsAttempts ==
  [][\A r \in Rows :
       (state[r] # NoState /\ state'[r] # NoState
          /\ (state'[r].attempts > state[r].attempts \/ (state'[r].waiting /\ ~state[r].waiting)))
         => \E j \in Jobs : job[j].row = r /\ job[j].result = "row" /\ job[j].version = state[r].version]_vars

\* While the mirror stays on, a dirty row is mirrored at last or given up
\* after MaxRowAttempts refusals, whatever jobs die, calls fail and kicks are
\* lost; only a mirror that is turned off leaves it.
EventuallyMirrored ==
  \A r \in Rows :
    (Enabled /\ Dirty(state[r]))
      ~> (~Enabled \/ ~Dirty(state[r]) \/ state[r].attempts >= MaxRowAttempts)
=============================================================================
