# yasaku: TLA+ specifications

yasaku is a multitenant personal cashflow application (wallets, transactions,
periods with a closing of the books, a mirror into an external spreadsheet)
built on a Go service template (organisations, projects, API keys, invites,
webhooks). This directory models the parts of it whose correctness rests on the
order of concurrent steps, checks them with TLC and proves the most important
results with TLAPS.

Contents: [inventory](#inventory), [modules and code](#modules-and-code),
[runs](#runs), [limits found](#limits-found),
[proofs](#proofs), [what is not modelled](#what-is-not-modelled),
[plan](#plan).

## Inventory

One process serves several surfaces (console, control plane, data plane,
ingest, MCP, CLI) over the same domain services. A `worker.Supervisor` runs the
background work: the outbox dispatcher, the queue consumer and listener, the
scheduler, database health. Replicas share a Postgres database (READ COMMITTED,
row level security per tenant) or one process owns a SQLite file; an optional
NATS JetStream server carries jobs and broadcasts.

| Component | State | Operations | Hard part | Correct when |
| --- | --- | --- | --- | --- |
| outbox (`internal/platform/outbox`) | entries: status, attempt, next attempt | Enqueue, ClaimDue, Succeed, Fail, Requeue, RequeueFailed; the worker's sweep | leases that expire under a live dispatcher, crashes, lost settles, retries | a try is given out once; delivered means accepted; failed means exhausted; nothing stays pending |
| opensheet mirror (`internal/opensheetsync`) | one link per project, one sync state per row, the sheets | Mark, Kick, Sync, Reconcile, Save, SetEnabled, SyncNow, Delete | writes, jobs and settings changes overlap; external calls fail half way | a clean row is what the sheet shows; no row is missed; a dirty row is mirrored at last |
| periods (`internal/period`) | periods, closings | EnsureCurrent, Rename, Close, Reopen | reads without locks under READ COMMITTED | periods tile the calendar; a close is recorded once and misses nothing; only a request the close overtook changes a closed period |
| transactions (`internal/transaction`) | transactions | Record, RecordBatch, Revise, Delete, RecordOpening, Adjust | the period or wallet read before the write changes | no transaction enters a locked period; the mirror is marked with the write |
| job queue (`internal/platform/queue`) | WORK and DLQ streams, consume loops | Submit, handle, deadLetter; Emit, Listen | lost acknowledgements, failed DLQ publishes, crashes on the last attempt | no message is lost; handler runs are bounded |
| scheduler (`scheduler`, `internal/platform/db/locker.go`) | in-flight flags, wait group, advisory locks | Run, RunOnce, Shutdown | ticks, manual runs, replicas and shutdown meet | one run at a time; no lock left behind; nothing runs after a drain |
| webhooks (`internal/webhook`) | endpoints, sealed secrets, attempts | Create, Update, Delete, Rotate, RetireSecondary, SendTest, Retry, Enqueue, Deliver | limits and updates decided on stale reads; two encryption keys during a rollout | a secret a tenant holds signs until its rotation ends it; delivered means received or deleted |
| blog (`internal/blog`) | posts with a version, events | Create, Update, Publish, Unpublish, Delete, from three surfaces | conditional and unconditional writes of loaded copies, lookups by slug | no conditional write loses an update; events tell the changes |
| idempotency store (`internal/dataplane/idempotency.go`) | keys with a response or pending, oldest first | reserve, store, release, sweep | eviction of a pending key, expiry, duplicates in flight | a key makes one post as long as it is remembered; no key stays pending |
| inline submitter (`internal/boot/submit_yasaku.go`) | depth in ctx | Submit | runs a job inside the request when the queue is off | never inside a unit of work, never nested without bound |
| wallets (`internal/wallet`) | wallets; marks for the mirror | Open, Update, Rename, Edit, Archive, Unarchive, Delete; Adjust | a write moves what other rows show in the sheet | whatever changes a shown balance or name marks the row |
| organisations, invites, API keys (`internal/org`, `invite`, `apikey`, `user`) | memberships, invites, keys | Send, Revoke, Accept, login, Mint, grant, Revoke, RemoveMember | several store calls without a unit of work, each deciding on older reads | a used invite has enrolled its user; who left holds no live token; an owner remains |
| first-run setup (`internal/onboard`, `internal/boot/onboarding.go`) | one row; a gate per process | Complete, Required; a broadcast | gates of other processes | set up once; every gate opens |
| categories, ledger, projects, users | rows | create, rename, archive, delete | the rename cascade, as for wallets | — |
| todo, reports, surfaces | rows; none | plain create, read, update, delete; rendering | little | — |

How they interact. A transaction write runs in a unit of work that also marks
the mirror, and kicks a sync job after the commit (`transaction/mirror.go`).
Recording a transaction resolves its period (`boot/adapters.go`), and closing a
period sums its transactions. Sync jobs travel through the job queue; the
reconciler is a singleton of the scheduler. Webhook events are written to the
outbox in the unit of work that produced them, and the outbox worker delivers
them. A wallet rename marks the transactions that show the wallet's name. Removing
a member calls a hook that revokes the member's personal tokens, and every use
of a token looks at the membership again. Posts are created through the data
plane under an idempotency key kept in the memory of the process.

## Modules and code

`PROJECT.json` maps every definition to its lines. Names follow the source.

- **DeliveryPromise** is what a caller of the outbox, or of the queue, is
  promised: an accepted entry ends delivered or failed, delivered only after a
  receiver accepted it, and only an explicit retry takes it out of failed.
- **Outbox** models the store and the dispatch workers of one tenant.
  `next_attempt_at` is reduced to whether it has passed (`due`); `claims[d]` is
  what a sweep holds in memory; `ClaimDue` is one transaction that reaps and
  claims; `Begin`, `Deliver`, `Settle`, `SettleLost`, `Cancel` and `Crash` are
  the worker. `round` and `accepted` are history.
- **OpensheetSync** models the mirror of one project: domain writes
  (`WriteOpen`, `WriteCommit`, `WriteRollback`), the sync job step by step
  (`JobLoad` to `JobEnd`, `JobCrash`), the reconciler, and the settings
  requests, which load the link in one step and write it in another. A row's
  contents are its edit number. `stamp` is the link's `updated_at`: each request
  stamps by any clock, but past the copy it loaded, and a job's outcome is
  accepted only for the stamp it loaded. A lease runs out when its job is gone
  (`LeaseExpires`) and also under a job still at work (`LeaseOverruns`), which
  keeps its token until another job claims the row. Settings changes overlap
  whatever read the settings before them, without restriction. Three histories
  that no step reads tell what such an overlap did: `astray`, the rows the sheet
  may trail though they are not dirty; `since`, what became of the link after a
  job loaded it; `ousted`, whether a job has outlived the lease of its row.
- **PeriodBooks** models periods and the transactions filed in them. Each
  request is its reads, then its write, with the row locks (`FOR UPDATE` in
  Close), the foreign key's share lock and the partial unique index of the
  schema as guards. `overtaken` is history: the periods closed between a
  transaction request's reads and its write.
- **JobQueue** models one job's messages. JetStream is external: it counts
  deliveries, redelivers after AckWait or a delay, and drops what is
  acknowledged, terminated or too old. `loop[k]` is a consume loop: it handles,
  acknowledges, refuses or buries. Any settlement may be lost, and a DLQ
  publish may land with its answer lost. `Slow` has the messages whose handling may
  outlast its timeout, so that AckWait passes under it: every message in the run
  `queue`, none in `queue_in_time`.
- **Scheduler** models `runEntry` as the code orders it: reserve in the wait
  group, take the in-flight flag, take the lock, run, and the deferred releases
  in their order; and `Run` and `Shutdown`. Postgres may end the session of a
  lock at any time; `lost` remembers the calls it happened to. `pooled` has the
  jobs whose lock stayed on a session that `TryLock` gave back to the pool: ctx
  ended after the grant and before the answer was scanned.
- **Webhook** models the endpoints of a project over an outbox that does what
  DeliveryPromise says. A call is its read and its write (`CreateRead` and the
  like); a sealed secret is a secret with the key that sealed it, so that two
  processes with different keys can be in one behaviour. `valid`, `received` and
  `gone` are history.
- **Posts** models posts and the idempotency store. A client may first see a
  post, then load it for a conditional write, then save; the version guard of
  the store is the only thing that tells it the row has moved. `idem` is the
  process-local store, oldest key first, with eviction, expiry and restarts.
- **Wallets** models wallets and transactions under their units of work and the
  marks they leave. The rename's cascade is a step of its own before its commit.
- **Members** models memberships, invites and keys of one organisation that has
  its founder. No call has a unit of work, so every store call is a step and a
  call may fail between any two (`Abandon`). An invite is redeemed by its token
  (`AcceptRead`, `Enrol`, `Consume`: membership first) or by a login
  (`LoginRead`, `LoginReload`, `LoginClaim`, `LoginEnrol`: invite first).
  `joined`, `claimed` and `late` are history. `org.AddMember` has no caller and
  is left out.
- **MC...** modules add symmetry sets and constant values where a run needs
  them; **...Proofs** modules hold theorems.

## Runs

| Run | Shows |
| --- | --- |
| `outbox` | unique tries, no early failure, honest outcomes, the reaper's and the settle's fences, refinement of DeliveryPromise; every pending entry is settled |
| `mirror` | no row missed and clean means mirrored, but for the rows `astray`; a changed link is spared by the jobs that loaded it before; under every overlap |
| `mirror_jobs` | two jobs have one row in hand only if one has outlived its lease; attempts are charged to the right version |
| `mirror_live` | a dirty row of an enabled mirror is mirrored or given up |
| `period` | periods tile the calendar, a close is recorded once and misses nothing, a closed period changes only through a request its close overtook |
| `queue` | nothing lost, bounded runs, true causes, refinement of DeliveryPromise, with overrunning handlers |
| `queue_in_time` | one instance at a time when handlers keep their timeout; every message leaves the stream |
| `scheduler` | single flight, one run of a singleton unless Postgres takes its lock, no lock left behind, a drained process is quiet, Run returns |
| `webhooks` | no secret in use is overwritten or brought back, both secrets of an endpoint open together, delivered means received or deleted, the limit is overshot by less than the callers |
| `posts` | one post per remembered key, no key stuck pending, events tell exactly the changes, no lost update |
| `wallets` | balances and names the sheet shows are marked with the change, an adjustment hits its target |
| `members` | a used invite has enrolled its user, leavers hold no live tokens, the last owner stays |

A property that the code keeps only outside certain overlaps names those
overlaps, and nothing else, as its exception, in the mirror by its histories; each
exception is reachable, and [Limits found](#limits-found) tells
what it does.

**Bounds.** Every hazard here needs two actors and one object they share, and
sometimes a second object one of them holds meanwhile, so two dispatchers, jobs,
clients, consumers or replicas over one or two entries are what the runs use.
The outbox runs claim one entry per sweep, which leaves `Concurrency` idle;
larger batches are covered by the proofs, which fix none of the constants.
In Scheduler the initial state chooses Postgres or SQLite, so that one run has
a job under a lock and, in other behaviours, the same job without one.
Attempt limits are 2 where the code has 5 or 8: one attempt that is not the
last and one that is. `MaxRequeues` 1 gives one retry, which is what an attempt
number needs to come round again. `MaxVersion` and `MaxEdits` let a row be
edited during its push and once more. In `mirror`, `MaxStamp` 3 leaves room for a
link, a change a job loads and one after it; two sheets are the one a link
leaves and the one it goes to. In PeriodBooks three periods over two
days give an older closed, a latest closed and a current period; two closings
of one allow a reopened period to be closed again. In Webhook two callers, one
of them with the new encryption key, and a limit of one endpoint with three ids
let two creates pass it and a deleted endpoint come back; three secrets are a
first one and two rotations. In Posts two posts that can exchange two slugs,
two keys with room for one, and three versions: the one a client saw and two
after it. In Wallets two wallets and two transactions, with a kind that moves
one wallet and one that moves two; every adjustment of amounts of 1 fits in 2.
In Members two people, two invites, one key and two calls: an owner and a
second member of any role, a removal and whatever it overlaps. Counters whose bound is the
model's and not the code's (`MaxRequeues`, `MaxEdits`, `MaxVersion`, `MaxStamp`,
`MaxPeriods`, `MaxDay`, `MaxClosings`, `MaxSecrets`, `MaxAmount`) are named in
the modules and appear only in guards.

**Deadlock** is not checked: when every entry is settled and every bound or id
used up, the systems may stop.

**Fairness.** Outbox: time passes, a dispatcher finishes what it started (the
HTTP client has a timeout), and due rows are claimed in order, so no row is
passed over for ever. OpensheetSync: time passes and a job
that runs goes on (weak fairness of `JobStep`, `LeaseExpires`, `RetryFalls`); and,
row by row, strong fairness of the resubmission by the reconciler, which runs every
five minutes and takes the oldest rows first; of the delivery of a message with the
row to a job that gets past the load; of its claim and its read; of an answer of
the sheet, accepting or refusing the row; and of the record of that answer. A step that
is possible again and again is thus not met for ever by crashes, timeouts or a
failing store. The sheet need never accept. JobQueue: time passes, the stream
delivers, handlers return, and a message is not met by a lost settlement, a
refusing DLQ or a crash every time. Scheduler: the runner's own steps happen,
and a job returns after its ctx has ended. Nothing is
assumed about the outcomes of deliveries, handlers or sheet calls, nor that
users or crashes act or refrain from acting.

## Limits found

What the models contain and the code does not prevent. Each was shown by TLC, on
a variant of a run, on a property without its exception or with the overlap
admitted; `hazards` gives the lines.

- Outbox. A manual retry resets the attempt, so the fence of a settle can be
  passed by a dispatcher of the round before. `StaleClaimSettlesNothing`, within
  one round, is what does hold.
- Mirror. Rows go `astray` in four ways, each reachable. A write that found no
  link has nothing to lock, so it can commit unmarked after the first enable and
  its backfill. A Save turns a link on again, without a backfill, that was turned
  off or removed since it was loaded. A job that loaded the old settings pushes to
  the old sheets and settles the version of the backfill for the new ones. A job
  that has lost its lease, by time or with a removed link, still pushes, perhaps
  over what the next job has settled. A mark or a backfill brings a row back.
  The lease of one minute against the job's own deadline is what makes the last
  one rare; nothing checks it before a push.
- Mirror, overlapping settings changes. `stamp` moves `updated_at` past the copy the
  request loaded, not past the stored row. Two requests that load one copy, on
  clocks behind it or at one microsecond, stamp alike, and a job that loads the
  link between the two saves passes the check of `SaveOutcome` against the settings
  of the second: it may count its failure against them, or turn them off. The
  comments at `SaveOutcome` (postgres.go:236) and `stamp` (service.go:324) exclude
  that. TLC shows it with two settings requests when `StaleJobSparesLink` is asked
  of jobs whose `since` is "overwritten" too. As it stands, for
  changes made to the stored link one after the other, it holds.
- Periods. A transaction request that found its period open is saved after the
  close, so the frozen totals are no longer those of the period; the note in
  `period/service.go` Close speaks of a window the width of the close, but it is
  the width of the other request. A rename writes back the whole row it loaded,
  and undoes a close or a reopen made in between. A reopen decided on an older
  list leaves an open period before a closed one.
- Scheduler. A lost database session frees the lock of a singleton that runs on,
  which is why `SingletonRunsOnce` names lost sessions. `database/sql` may report
  the end of ctx for a query that Postgres has answered and keep the session:
  `TryLock` then closes the conn, unlike `release`, without discarding the session,
  and the lock stays with the pool until the session or the process ends
  (`NoLockLeftBehind` names it). And a scheduled job that
  ignores its ctx would keep `Run` from returning, since the grace period starts
  only after the loops have ended.
- Webhooks. An update brings back an endpoint deleted since it was loaded, and
  overlapping creates pass the limit.
- Posts. A conditional edit by slug lands on another post that has taken the
  slug since; a save after a deletion inserts the post again with the version it
  was loaded at, so its versions run twice; an unconditional console edit writes
  the status it loaded back. An evicted pending key lets a second create run
  under the same key.
- Wallets. Of two overlapping revisions of one transaction the second marks the
  wallets of the row it loaded, not those of the row it replaces. An Archive or
  Update from a copy loaded before a rename writes the old name back without a
  cascade. A transaction that comes to a wallet between the rename's cascade and
  its commit, and is pushed in between, keeps the old name. A Record between the
  read and the write of an Adjust takes the wallet off the target.
- Members. A login marks its invite used before it saves the membership; if the
  second save fails, the invite is used up, the user is outside, and the next
  login finds no pending invite. `invite.Accept` saves in the other order. Two
  overlapping removals of each other, or an owner redeeming an invite to a lesser
  role (the membership is written over, the system flag with it), leave an
  organisation without an owner. A wider grant saved from a copy of a key read
  before the removal revoked it makes the key live again, though the comment on
  `RevokePersonalOf` calls a revocation final; the key is refused until its owner
  rejoins, since each use looks at the membership.

## Proofs

Each of Outbox, JobQueue, Scheduler, Members, Webhook, Posts, PeriodBooks and
OpensheetSync has a `...Proofs` module. Its theorems hold for every value of the
constants that satisfies the named assumptions of the module: positive limits, a
few sets kept apart, finitely many jobs and callers in a process, a founder who
is a user, and values for "no row" that are not rows (`RowAssumption`,
`NoneAssumption`, `NoRowAssumption`). No theorem assumes more than that.

Outbox. Claims are unique because of two facts that the invariant adds:
every claim in hand lies behind its row (`ClaimsBehindRows`: an earlier round,
or an attempt the row has counted), and a sweep holds one claim per entry. A
new claim takes the next attempt of the current round, which then nobody has.
From the same invariant follow `TypeCorrect`, `HonestOutcomes`, the action
properties `ReaperSparesLease` and `StaleClaims`, and `Implementation`: each
step is a step of DeliveryPromise or a stutter.

JobQueue. What a loop is about to tell the stream is already true
(`HandsAreHonest`), which gives `NothingIsLost` and `CausesAreTrue`; handler
runs never exceed the deliveries counted (`RunsWithinDeliveries`), which with
the check of `handle` gives `RunsAreBounded` without a server-side limit.
`OneInstance` adds that a message in hand whose handler keeps its timeout (one not
in `Slow`) is neither ready nor delayed. `Implementation` is the refinement.

Scheduler. Two invariants. In `FlightInv` a call between its compare-and-swap
and its deferred store has the flag, so it is alone in its process; a call
inside a locked job whose session lives holds the lock; and a held lock has such
a call or is on a pooled session. The four are needed together: that nobody else frees the lock of a
running call follows from being alone. They give `OneFlight`, `OneSingleton` and
`NoStrayLock`. In `CountInv` the WaitGroup is the cardinality of the set of calls
under way, which gives `TypeCorrect` (no negative counter) and, since
`wg.Wait` returns at zero and a draining runner reserves nothing,
`QuietAfterDrain`.

Members. Three small invariants. `InviteInv`: an accept that is about to save its
invite has enrolled the user, which gives `UsedHaveJoined`. `TokenInv`: the live
tokens of someone who leaves are late ones from the hook on, not only once the
membership is gone, and only the hook makes someone leave (`LeavingStep`); it
gives `NoTokensLeft`. `RemovalInv`: what a removal was allowed on, its actor not
its target and an owner if the target was; if neither row has changed since, the
actor is the owner who remains, which gives the action property `OwnerRemains`.

Webhook. `SecretInv` adds to the two properties of secrets why a write cannot
harm them: nobody holds a secret of an endpoint that is not there, so one that an
update brings back owes nothing; an id under creation is nobody else's; and the
rows the requests loaded open together, since `Save` may insert them. It gives
`SecretsKeepSigning` and `PairsOpenTogether`. `DeliveryInv` adds that a delivery
is for an endpoint that is there or was deleted, so that a sender who finds none
finds one deleted (`DeliveredMeansReceivedOrGone`). `LimitPassedByCallersOnly` is
a count: the ids claimed are the endpoints and the ids of the calls under way,
and a create that reads the number below the limit adds one of the latter.

Posts. `TypeCorrect` also states `Unique(idem)`: a key has one record, which the
map of the code gives and the model's sequence has to keep through reserve,
eviction, sweep and release; the lemmas on these operators are the bulk of it.
`KeyInv` says of every remembered key that its record is there while a create
runs, that one create runs at a time, that a reservation has made nothing, and
that a pending record whose post exists has a create about to store its answer.
Without the last a sweep could let a second create in. It gives
`KeysMakeOnePost`; `NoKeyIsStuck` is inductive with the types. `HistoryInv` says
that a version of a post that was never brought back is one row: a copy a call
holds is older than the stored row or equal to it, which is why the version
guard is enough (`UpdatesAreNotLost`) and why an event tells what changed
(`ChangesAreTold`).

PeriodBooks. Even the types rest on the tiling: a close of the current period
creates the next one, under an id and from a day that only the tiling says are
free. `BooksInv` is the tiling with what a request holds: a loaded copy has the
dates the row still has except for an end set since (`CopyOK`), and a close that
has its lock still finds its row closable, is alone on it, and misses none of its
transactions (`CloseOK`). It gives `TypeCorrect`, `CalendarIsTiled` and
`ClosesAreExact`. `OvertakenInv` says that a request about to change a
transaction found it, and files it, outside closed periods, but for periods
closed since its reads and unless the transaction has changed since; with
`FiledInv` (transactions are filed in periods that exist) it gives
`ClosedPeriodsHold`.

OpensheetSync. All six theorems hold for every overlap, without a hypothesis of
their own. `SyncInv` carries the types: units of work have rows of their own, a job
has a row that was created, and a lease is held by the job that has the row in
hand, for a version the row has reached and not yet synced. The proof sorts the
steps once: a job's step keeps, takes or drops its row (`JobTurns`), any other step
leaves leases with their jobs or ends them (`OthersTurn`). `StampInv`, that a link
saved only by requests which had loaded it as stored has moved past what a job
loaded, gives `StaleJobsSpareLink`; the strict step of `stamp` is what it needs.
`HoldInv`, that a job between claim and settle has its lease unless it is ousted,
gives `JobsNeverShareRow`. `OnInv`, that a unit of work which read a link holds it,
and one which read it off still finds it off, gives `NoRowIsMissed`. `MirrorInv`
joins to `OnInv` that only rows that are gone are tombstones (`TombInv`) and
`PushInv`: for a job that has the lease and the link's sheet, what it read of a row
not marked since is the row, and once landed it is what the sheet shows; it gives
`CleanRowsAreMirrored`. What these leave out are the rows `astray`, by the four
ways under [Limits found](#limits-found), and jobs ousted.

`HonestOutcomes` states `OutcomesAreHonest`, both of its parts. The type
invariants of these eight modules are theorems and no run repeats them.

Only model-checked: all liveness (`EventuallySettled` of Outbox and JobQueue,
`EventuallyMirrored`, `RunReturns`), since liveness under fairness is outside
what the prover handles; and Wallets (`AdjustHitsTarget`, `BalancesAreMarked`,
`NamesAreMarked`). Its balances are folds over the set of transactions, and what
a fold returns for every set needs an induction over the set.

## What is not modelled

Rendering, request decoding, authorisation checks and localisation; row
contents of the mirror (amounts, names, tab shapes, sealing of the key); the
SQLite stores separately, whose single writer allows fewer interleavings than
the Postgres ones; search, suggestions and reports, which only read; todo,
which is plain records. The connection pool that singleton jobs pin
(`docs/deployment/workers.md` gives the sizing rule). OnDeadLetter hooks: no job
registers one. Generated code (`gen/`, the `_templ.go` templates), which is most
of the repository's lines. The scopes and granted projects of API keys, the
authenticator and the batched times of last use. Creating and renaming
organisations, projects and users; Members starts from an organisation that has
its founder. The first-run setup with its gate and broadcast, and the inline
submitter. The cycle dates of periods, any of which the model admits.

## Plan

1. Done: Outbox, JobQueue and Scheduler with their proofs; OpensheetSync,
   PeriodBooks, Webhook (over DeliveryPromise), Posts with the idempotency store,
   Wallets with the rename cascade, Members with its proofs.
2. Done: the proofs of Webhook, Posts, PeriodBooks and OpensheetSync. Of the
   safety properties only those of Wallets are left to TLC.
3. The first-run setup: the once-only row, the gate of each process and the
   broadcast that clears it; the creation of an organisation in two saves.
4. The inline submitter; the category cascade; pure operators for the cycle
   dates and the backoff, checked against reference definitions.
