-------------------------------- MODULE Posts --------------------------------
(***************************************************************************)
(* The posts of one project (internal/blog) and their writers: the data    *)
(* plane, conditional on the version its client has seen and with a        *)
(* process-local store of idempotency keys (internal/dataplane); the       *)
(* control plane, conditional or not; and the console, unconditional.      *)
(*                                                                         *)
(* A call reads a post and later writes the copy it changed, under READ    *)
(* COMMITTED: the version guard of the write, and nothing else, tells      *)
(* whether the row has moved. The write, the event in the outbox and the   *)
(* commit are one step. Of a post's text the slug is kept, which has to be *)
(* unique and by which the data plane looks posts up.                      *)
(***************************************************************************)
EXTENDS Integers, FiniteSets, Sequences, SequencesExt

CONSTANTS
  Clients,      \* callers, one call at a time each
  PostIds,      \* ids a create may draw
  Slugs,
  Keys,         \* idempotency keys
  Limit,        \* IdempotencyMaxEntries (4096 in the code)
  MaxVersion,   \* bound of the model: versions of one post
  None          \* no row, no call, no event, no version seen

ASSUME PostsAssumption == Limit \in Nat \ {0} /\ MaxVersion \in Nat \ {0}

VARIABLES
  posts,      \* posts[p]: the row of post p, or None
  call,       \* call[c]: what client c's call has read and not yet written
  event,      \* the event the last step put in the outbox, or None
  idem,       \* the idempotency records, oldest first
  born,       \* history: the posts ever created
  revived,    \* history: the posts a save has inserted after their deletion
  made        \* history: made[k] counts the posts made under key k, and is None
              \* once k has expired, been evicted or been lost in a restart

vars == <<posts, call, event, idem, born, revived, made>>
keys == <<idem, made>>

Statuses == {"draft", "published"}
Post == [version : 1..MaxVersion, status : Statuses, slug : Slugs]
Ops == {"edit", "publish", "unpublish", "delete"}
Sight == [id : PostIds, row : Post]
Seen == [pc : {"seen"}, saw : Sight]
Loaded == [pc : {"loaded"}, op : Ops, id : PostIds, row : Post,
           saw : Sight \cup {None}, retried : BOOLEAN]
Create == [pc : {"reserved", "created", "stored"}, key : Keys, slug : Slugs]
Record == [key : Keys, pending : BOOLEAN]
Event == [post : PostIds, shows : Statuses, version : 1..MaxVersion + 1]
           \cup [post : PostIds, shows : {"deleted"}, wasPublished : BOOLEAN]

\* A row, a sight, a call, an event and a number are told from none.
ASSUME NoneAssumption == None \notin Post \cup Sight \cup Seen \cup Loaded \cup Create \cup Event \cup Nat

Init ==
  /\ posts = [p \in PostIds |-> None]
  /\ call = [c \in Clients |-> None]
  /\ event = None
  /\ idem = <<>>
  /\ born = {}
  /\ revived = {}
  /\ made = [k \in Keys |-> 0]

Existing == {p \in PostIds : posts[p] # None}

At(c, pc) == call[c] # None /\ call[c].pc = pc

Goes(c, next) == call' = [call EXCEPT ![c] = next]

-----------------------------------------------------------------------------
(* Reading *)

\* The client reads a post, and with it the version of its ETag.
See(c, p) ==
  /\ call[c] = None
  /\ posts[p] # None
  /\ Goes(c, [pc |-> "seen", saw |-> [id |-> p, row |-> posts[p]]])
  /\ event' = None
  /\ UNCHANGED <<posts, keys, born, revived>>

Target(op) == IF op = "publish" THEN "published" ELSE "draft"

Transits(op) == op \in {"publish", "unpublish"}

\* A transition looks at the version and the status of what it loads; an edit
\* and a delete leave the version to the guard of their write.
Proceeds(op, p, saw) ==
  Transits(op) => /\ saw # None => saw.row.version = posts[p].version
                  /\ posts[p].status # Target(op)

Loads(c, op, p, saw, retried) ==
  Goes(c, IF Proceeds(op, p, saw)
          THEN [pc |-> "loaded", op |-> op, id |-> p, row |-> posts[p], saw |-> saw, retried |-> retried]
          ELSE None)

\* The control plane names a post by its id, the data plane by its slug: the
\* post the slug names now.
LoadSeen(c, op, p) ==
  /\ At(c, "seen")
  /\ posts[p] # None
  /\ p = call[c].saw.id \/ posts[p].slug = call[c].saw.row.slug
  /\ Loads(c, op, p, call[c].saw, FALSE)
  /\ event' = None
  /\ UNCHANGED <<posts, keys, born, revived>>

\* A call with ifVersion 0.
LoadAny(c, op, p) ==
  /\ call[c] = None
  /\ posts[p] # None
  /\ Loads(c, op, p, None, FALSE)
  /\ event' = None
  /\ UNCHANGED <<posts, keys, born, revived>>

-----------------------------------------------------------------------------
(* Writing *)

SlugFree(p, slug) == \A q \in Existing \ {p} : posts[q].slug # slug

\* Mutants: a write guarded by the version it loaded itself, and a transition
\* that leaves an unconditional call unguarded.
GuardLoaded(c) == call[c].row.version
GuardIfVersionOnly(c) == IF call[c].saw # None THEN call[c].saw.row.version ELSE 0

\* The version a write insists on, 0 for any: the client's, and without one
\* that of the copy, which an edit does not insist on.
Guard(c) ==
  IF call[c].saw # None THEN call[c].saw.row.version
  ELSE IF call[c].op = "edit" THEN 0 ELSE call[c].row.version

Stale(c) == posts[call[c].id] # None /\ Guard(c) \notin {0, posts[call[c].id].version}

\* Save: an upsert whose guard is in its conflict clause only, so that a row
\* deleted since is inserted again at the version of the copy.
Save(c, row) ==
  LET p == call[c].id IN
  /\ posts[p] # None => posts[p].version < MaxVersion
  /\ posts' = [posts EXCEPT ![p] =
                 IF @ = None THEN row ELSE [row EXCEPT !.version = posts[p].version + 1]]
  /\ revived' = IF posts[p] = None THEN revived \cup {p} ELSE revived

Refused(c, slug) ==
  ~SlugFree(call[c].id, slug) \/ Stale(c)

\* Update, UpdateWithTags and SetTags: the status of the copy is written back.
Edit(c, slug) ==
  /\ At(c, "loaded") /\ call[c].op = "edit"
  /\ \/ Refused(c, slug) /\ UNCHANGED <<posts, revived>>
     \/ ~Refused(c, slug) /\ Save(c, [call[c].row EXCEPT !.slug = slug])
  /\ Goes(c, None)
  /\ event' = None
  /\ UNCHANGED <<keys, born>>

\* Publish and Unpublish: the write and the event are one unit of work.
Transition(c) ==
  LET l == call[c]
      t == Target(l.op)
  IN
  /\ At(c, "loaded") /\ Transits(l.op)
  /\ ~Refused(c, l.row.slug)
  /\ Save(c, [l.row EXCEPT !.status = t])
  /\ event' = [post |-> l.id, shows |-> t, version |-> l.row.version + 1]
  /\ Goes(c, None)
  /\ UNCHANGED <<keys, born>>

\* Delete: not found once the row is gone.
Delete(c) ==
  LET l == call[c] IN
  /\ At(c, "loaded") /\ l.op = "delete"
  /\ posts[l.id] # None
  /\ ~Stale(c)
  /\ posts' = [posts EXCEPT ![l.id] = None]
  /\ event' = [post |-> l.id, shows |-> "deleted", wasPublished |-> l.row.status = "published"]
  /\ Goes(c, None)
  /\ UNCHANGED <<keys, born, revived>>

\* A transition or a delete that is refused: without a version of the client's
\* a stale one runs once more, from its read.
Refuse(c) ==
  LET l == call[c] IN
  /\ At(c, "loaded") /\ l.op # "edit"
  /\ IF l.op = "delete" THEN posts[l.id] = None \/ Stale(c) ELSE Refused(c, l.row.slug)
  /\ IF Stale(c) /\ l.saw = None /\ ~l.retried
     THEN Loads(c, l.op, l.id, None, TRUE)
     ELSE Goes(c, None)
  /\ event' = None
  /\ UNCHANGED <<posts, keys, born, revived>>

-----------------------------------------------------------------------------
(* Creating, with an idempotency key or without *)

KeysOf(records) == {r.key : r \in ToSet(records)}

\* rows: where the record of a key is; a key has one.
Row(records, k) == CHOOSE i \in DOMAIN records : records[i].key = k

Without(records, k) == IF k \in KeysOf(records) THEN RemoveAt(records, Row(records, k)) ELSE records

\* insert: the oldest records make way for one more, pending or not.
Insert(records, r) ==
  LET all == Append(records, r) IN
  IF Len(all) > Limit THEN SubSeq(all, Len(all) - Limit + 1, Len(all)) ELSE all

\* What is dropped on the way from the records kept to the next is forgotten.
Remember(kept, next) ==
  /\ idem' = next
  /\ made' = [k \in Keys |-> IF k \in (KeysOf(idem) \ KeysOf(kept)) \cup (KeysOf(kept) \ KeysOf(next))
                              THEN None ELSE made[k]]

\* Mutant: a pending record does not hold a second create off.
TakesPending(records, k) == \A r \in ToSet(records) : r.key = k => r.pending

\* A key is taken when it has no record. A record with another body, a pending
\* one and a completed one are answered without a create.
Takes(records, k) == k \notin KeysOf(records)

\* reserve: what has expired is at the front and goes first.
Reserve(c, k, slug) ==
  /\ call[c] = None
  /\ \E n \in 0..Len(idem) :
       LET swept == SubSeq(idem, n + 1, Len(idem)) IN
       IF Takes(swept, k)
       THEN /\ Remember(swept, Insert(swept, [key |-> k, pending |-> TRUE]))
            /\ Goes(c, [pc |-> "reserved", key |-> k, slug |-> slug])
       ELSE Remember(swept, swept) /\ UNCHANGED call
  /\ event' = None
  /\ UNCHANGED <<posts, born, revived>>

\* A post is a draft at version 1; its slug must be free.
NewPost(p, slug) ==
  /\ p \notin born
  /\ SlugFree(p, slug)
  /\ posts' = [posts EXCEPT ![p] = [version |-> 1, status |-> "draft", slug |-> slug]]
  /\ born' = born \cup {p}
  /\ event' = None
  /\ UNCHANGED <<idem, revived>>

CreateKeyed(c, p) ==
  /\ At(c, "reserved")
  /\ NewPost(p, call[c].slug)
  /\ made' = [made EXCEPT ![call[c].key] = IF @ = None THEN None ELSE @ + 1]
  /\ Goes(c, [call[c] EXCEPT !.pc = "created"])

\* Mutant: no release after a create that failed.
CreateFailsQuietly(c) ==
  /\ At(c, "reserved")
  /\ Goes(c, None)
  /\ event' = None
  /\ UNCHANGED <<posts, keys, born, revived>>

\* The slug is taken, or the store fails.
CreateFails(c) ==
  /\ At(c, "reserved")
  /\ Goes(c, [call[c] EXCEPT !.pc = "stored"])
  /\ event' = None
  /\ UNCHANGED <<posts, keys, born, revived>>

\* Create of the control plane and the console; the SetTags that may follow is
\* a LoadAny and an Edit.
CreateUnkeyed(c, p, slug) ==
  /\ call[c] = None
  /\ NewPost(p, slug)
  /\ UNCHANGED <<made, call>>

StoreKey(c) ==
  LET k == call[c].key IN
  /\ At(c, "created")
  /\ Remember(idem, Insert(Without(idem, k), [key |-> k, pending |-> FALSE]))
  /\ Goes(c, [call[c] EXCEPT !.pc = "stored"])
  /\ event' = None
  /\ UNCHANGED <<posts, born, revived>>

\* release, deferred by the create: drops the record if it is pending, whoever
\* made it so.
Release(c) ==
  LET k == call[c].key IN
  /\ At(c, "stored")
  /\ idem' = IF k \in KeysOf(idem) /\ idem[Row(idem, k)].pending THEN Without(idem, k) ELSE idem
  /\ Goes(c, None)
  /\ event' = None
  /\ UNCHANGED <<posts, born, revived, made>>

\* The process is started again: its calls and its records are gone.
Restart ==
  /\ \E c \in Clients : call[c] # None
  /\ call' = [c \in Clients |-> None]
  /\ idem' = <<>>
  /\ made' = [k \in Keys |-> None]
  /\ event' = None
  /\ UNCHANGED <<posts, born, revived>>

-----------------------------------------------------------------------------

Write(c) ==
  \/ \E p \in PostIds :
       \/ See(c, p)
       \/ \E op \in Ops : LoadSeen(c, op, p) \/ LoadAny(c, op, p)
  \/ \E slug \in Slugs : Edit(c, slug)
  \/ Transition(c)
  \/ Delete(c)
  \/ Refuse(c)

Make(c) ==
  \/ \E k \in Keys, slug \in Slugs : Reserve(c, k, slug)
  \/ \E p \in PostIds : CreateKeyed(c, p) \/ \E slug \in Slugs : CreateUnkeyed(c, p, slug)
  \/ CreateFails(c)
  \/ StoreKey(c)
  \/ Release(c)

Next == Restart \/ \E c \in Clients : Write(c) \/ Make(c)

Spec == Init /\ [][Next]_vars

-----------------------------------------------------------------------------
(* Properties *)

\* Every variable keeps the shape the rows, the calls and the records have in
\* the code.
TypeOK ==
  /\ posts \in [PostIds -> Post \cup {None}]
  /\ call \in [Clients -> Seen \cup Loaded \cup Create \cup {None}]
  /\ event \in Event \cup {None}
  /\ idem \in Seq(Record) /\ Len(idem) <= Limit
  /\ born \subseteq PostIds
  /\ revived \subseteq PostIds
  /\ made \in [Keys -> Nat \cup {None}]

Shows(row) == IF row = None THEN "deleted" ELSE row.status

\* A write that lands on a row it has not loaded: an edit without a version
\* (the last write wins of the console), or any write with a version that is
\* not of this post or that this post has had twice.
Overwrites(p) ==
  \E c \in Clients :
    /\ At(c, "loaded") /\ call'[c] = None
    /\ call[c].id = p /\ call[c].row # posts[p]
    /\ IF call[c].saw = None THEN call[c].op = "edit" \/ p \in revived
       ELSE call[c].saw.id # p \/ p \in revived

\* Of a post that exists, the events tell every change of status and the
\* deletion, in the step that makes it, and nothing else: no event for a change
\* another call has already made, the version in it the stored one and
\* was_published true of the row deleted. The exceptions are the writes above
\* (service.go transition, Delete).
EventsTellChanges ==
  [][\A p \in Existing :
       LET told == event' # None /\ event'.post = p
           changed == Shows(posts'[p]) # Shows(posts[p])
       IN \/ Overwrites(p)
          \/ ~told /\ ~changed
          \/ /\ told /\ changed
             /\ event'.shows = Shows(posts'[p])
             /\ IF posts'[p] = None THEN event'.wasPublished = (posts[p].status = "published")
                ELSE event'.version = posts'[p].version]_vars

\* A conditional write lands only on the very row its client saw: no update
\* between is lost. A post a save brought back has its versions twice, and a
\* slug may have come to name another post since (dataplane/blog.go writePost).
NoLostUpdate ==
  [][\A c \in Clients, p \in Existing \ revived :
       (At(c, "loaded") /\ call[c].saw # None /\ call[c].id = p /\ call[c].saw.id = p
          /\ call'[c] = None /\ posts'[p] # posts[p])
         => posts[p] = call[c].saw.row]_vars

\* A key makes one post as long as the process remembers it: retries that
\* overlap the first create, come after it or follow a rename or a deletion of
\* its post never run again (idempotency.go reserve, store, release).
OnePostPerKey == \A k \in Keys : made[k] \in {0, 1, None}

\* A pending record always has a create under way that will release it, even
\* after evictions have let two creates run under one key: no key is refused
\* as in progress for its whole lifetime (dataplane/blog.go createPost).
NoKeyStuck ==
  \A r \in ToSet(idem) :
    r.pending => \E c \in Clients : call[c] # None /\ call[c].pc \in {"reserved", "created", "stored"}
                                      /\ call[c].key = r.key
=============================================================================
