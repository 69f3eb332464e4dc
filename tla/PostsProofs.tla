----------------------------- MODULE PostsProofs -----------------------------
(***************************************************************************)
(* Theorems about Posts, for any number of clients, posts, slugs and keys: *)
(* its types, that a remembered key makes one post and no key is stuck,    *)
(* that no conditional write loses an update, and that the events tell the *)
(* changes.                                                                *)
(***************************************************************************)
EXTENDS Posts, SequenceTheorems, TLAPS

(* The records of the idempotency store *)

\* A key has one record.
Unique(records) == \A i, j \in DOMAIN records : records[i].key = records[j].key => i = j

LEMMA DomainOfSeq ==
  ASSUME NEW S, NEW s \in Seq(S)
  PROVE  DOMAIN s = 1..Len(s) /\ Len(s) \in Nat /\ \A i \in 1..Len(s) : s[i] \in S
  BY LenProperties

\* What is left of the records when the first n have expired.
LEMMA Swept ==
  ASSUME NEW s \in Seq(Record), NEW n \in 0..Len(s)
  PROVE  /\ SubSeq(s, n + 1, Len(s)) \in Seq(Record)
         /\ Len(SubSeq(s, n + 1, Len(s))) = Len(s) - n
         /\ ToSet(SubSeq(s, n + 1, Len(s))) \subseteq ToSet(s)
         /\ Unique(s) => Unique(SubSeq(s, n + 1, Len(s)))
<1> DEFINE t == SubSeq(s, n + 1, Len(s))
<1>1. Len(s) \in Nat /\ DOMAIN s = 1..Len(s) /\ \A i \in 1..Len(s) : s[i] \in Record
  BY DomainOfSeq
<1>2. t \in Seq(Record) /\ Len(t) = Len(s) - n /\ \A i \in 1..Len(s) - n : t[i] = s[n + i]
  <2>1. \A i \in n + 1..Len(s) : s[i] \in Record
    BY <1>1
  <2>2. /\ t \in Seq(Record) /\ Len(t) = (IF n + 1 <= Len(s) THEN Len(s) - (n + 1) + 1 ELSE 0)
        /\ \A i \in 1..Len(s) - (n + 1) + 1 : t[i] = s[(n + 1) + i - 1]
    BY <1>1, <2>1, SubSeqProperties
  <2> HIDE DEF t
  <2>3. Len(t) = Len(s) - n
    <3>1. n \in Nat /\ n <= Len(s) /\ Len(s) \in Nat
      BY <1>1
    <3>2. Len(t) = IF n + 1 <= Len(s) THEN Len(s) - (n + 1) + 1 ELSE 0
      BY <2>2
    <3> QED
      BY <3>1, <3>2
  <2>4. ASSUME NEW i \in 1..Len(s) - n PROVE t[i] = s[n + i]
    <3>1. i \in 1..Len(s) - (n + 1) + 1 /\ (n + 1) + i - 1 = n + i
      BY <1>1
    <3> QED
      BY <2>2, <3>1
  <2> QED
    BY <2>2, <2>3, <2>4
<1>3. DOMAIN t = 1..Len(s) - n
  BY <1>2, DomainOfSeq
<1> HIDE DEF t
<1>4. \A i \in DOMAIN t : n + i \in DOMAIN s /\ t[i] = s[n + i]
  BY <1>1, <1>2, <1>3
<1>5. ToSet(t) \subseteq ToSet(s)
  BY <1>4 DEF ToSet
<1>6. ASSUME Unique(s) PROVE Unique(t)
  <2> SUFFICES ASSUME NEW i \in DOMAIN t, NEW j \in DOMAIN t, t[i].key = t[j].key PROVE i = j
    BY DEF Unique
  <2>1. n + i = n + j
    BY <1>4, <1>6 DEF Unique
  <2> QED
    BY <2>1, <1>3
<1> QED
  BY <1>2, <1>5, <1>6 DEF t

\* One more record at the back, and the oldest ones gone.
LEMMA Inserted ==
  ASSUME NEW s \in Seq(Record), Len(s) <= Limit, NEW r \in Record
  PROVE  /\ Insert(s, r) \in Seq(Record)
         /\ Len(Insert(s, r)) <= Limit
         /\ r \in ToSet(Insert(s, r))
         /\ ToSet(Insert(s, r)) \subseteq ToSet(s) \cup {r}
         /\ (Unique(s) /\ r.key \notin KeysOf(s)) => Unique(Insert(s, r))
         /\ Len(s) < Limit => ToSet(s) \subseteq ToSet(Insert(s, r))
<1> DEFINE all == Append(s, r)
           n == IF Len(all) > Limit THEN Len(all) - Limit ELSE 0
<1>1. Len(s) \in Nat /\ DOMAIN s = 1..Len(s)
  BY DomainOfSeq
<1>2. /\ all \in Seq(Record) /\ Len(all) = Len(s) + 1
      /\ \A i \in 1..Len(s) : all[i] = s[i]
      /\ all[Len(s) + 1] = r
  BY AppendProperties
<1>3. DOMAIN all = 1..Len(s) + 1
  BY <1>2, DomainOfSeq
<1>4. Limit \in Nat \ {0}
  BY PostsAssumption
<1>5. ToSet(all) \subseteq ToSet(s) \cup {r} /\ ToSet(s) \subseteq ToSet(all) /\ r \in ToSet(all)
  <2>1. \A i \in DOMAIN all : (i \in DOMAIN s /\ all[i] = s[i]) \/ all[i] = r
    BY <1>1, <1>2, <1>3
  <2>2. \A i \in DOMAIN s : i \in DOMAIN all /\ all[i] = s[i]
    BY <1>1, <1>2, <1>3
  <2>3. Len(s) + 1 \in DOMAIN all
    BY <1>1, <1>3
  <2> QED
    BY <1>2, <2>1, <2>2, <2>3 DEF ToSet
<1>6. ASSUME Unique(s), r.key \notin KeysOf(s) PROVE Unique(all)
  <2>1. \A i \in DOMAIN s : s[i].key # r.key
    BY <1>6 DEF KeysOf, ToSet
  <2> SUFFICES ASSUME NEW i \in DOMAIN all, NEW j \in DOMAIN all, all[i].key = all[j].key PROVE i = j
    BY DEF Unique
  <2>2. CASE i \in DOMAIN s /\ j \in DOMAIN s
    BY <1>1, <1>2, <1>6, <2>2 DEF Unique
  <2>3. CASE i \notin DOMAIN s \/ j \notin DOMAIN s
    BY <1>1, <1>2, <1>3, <2>1, <2>3
  <2> QED
    BY <2>2, <2>3
<1>7. n \in 0..Len(all) /\ Len(all) - n <= Limit /\ n < Len(all)
  BY <1>1, <1>2, <1>4
<1>8. SubSeq(all, 1, Len(all)) = all
  BY <1>2, SubSeqFull
<1>9. Insert(s, r) = SubSeq(all, n + 1, Len(all))
  <2>1. CASE Len(all) > Limit
    BY <2>1 DEF Insert
  <2>2. CASE ~(Len(all) > Limit)
    <3>1. n + 1 = 1 /\ Insert(s, r) = all
      BY <2>2 DEF Insert
    <3> QED
      BY <1>8, <3>1
  <2> QED
    BY <2>1, <2>2
<1>10. r \in ToSet(Insert(s, r))
  <2> DEFINE t == SubSeq(all, n + 1, Len(all))
  <2>1. t \in Seq(Record) /\ Len(t) = Len(all) - n
    BY <1>2, <1>7, Swept
  <2>2. Len(all) - n \in DOMAIN t
    BY <1>1, <1>2, <1>7, <2>1, DomainOfSeq
  <2>3. t[Len(all) - n] = all[Len(all)]
    <3>1. \A i \in n + 1 .. Len(all) : all[i] \in Record
      BY <1>2, <1>7, DomainOfSeq
    <3>2. \A i \in 1 .. Len(all) - (n + 1) + 1 : t[i] = all[(n + 1) + i - 1]
      BY <1>1, <1>2, <1>7, <3>1, SubSeqProperties
    <3> QED
      BY <1>1, <1>2, <1>7, <3>2
  <2> QED
    BY <1>2, <1>9, <2>2, <2>3 DEF ToSet
<1>11. Len(s) < Limit => Insert(s, r) = all
  BY <1>1, <1>2, <1>4 DEF Insert
<1>12. /\ SubSeq(all, n + 1, Len(all)) \in Seq(Record)
       /\ Len(SubSeq(all, n + 1, Len(all))) = Len(all) - n
       /\ ToSet(SubSeq(all, n + 1, Len(all))) \subseteq ToSet(all)
       /\ Unique(all) => Unique(SubSeq(all, n + 1, Len(all)))
  BY <1>2, <1>7, Swept
<1> QED
  BY <1>5, <1>6, <1>7, <1>9, <1>10, <1>11, <1>12

\* The records of the other keys.
LEMMA Removed ==
  ASSUME NEW s \in Seq(Record), Unique(s), NEW k \in Keys
  PROVE  /\ Without(s, k) \in Seq(Record)
         /\ Len(Without(s, k)) <= Len(s)
         /\ k \in KeysOf(s) => Len(Without(s, k)) = Len(s) - 1
         /\ ToSet(Without(s, k)) = {r \in ToSet(s) : r.key # k}
         /\ Unique(Without(s, k))
<1>1. Len(s) \in Nat /\ DOMAIN s = 1..Len(s) /\ \A i \in 1..Len(s) : s[i] \in Record
  BY DomainOfSeq
<1>2. CASE k \notin KeysOf(s)
  <2>1. Without(s, k) = s
    BY <1>2 DEF Without
  <2>2. \A r \in ToSet(s) : r.key # k
    BY <1>2 DEF KeysOf
  <2>3. ToSet(s) = {r \in ToSet(s) : r.key # k}
    BY <2>2
  <2>4. Len(s) <= Len(s)
    BY <1>1
  <2> QED
    BY <1>2, <2>1, <2>3, <2>4
<1>3. CASE k \in KeysOf(s)
  <2> DEFINE p == Row(s, k)
             a == SubSeq(s, 1, p - 1)
             b == SubSeq(s, p + 1, Len(s))
             t == Without(s, k)
  <2>1. \E i \in DOMAIN s : s[i].key = k
    BY <1>3 DEF KeysOf, ToSet
  <2>2. p \in 1..Len(s) /\ s[p].key = k
    BY <1>1, <2>1 DEF Row
  <2>3. t = a \o b
    BY <1>3 DEF Without, RemoveAt
  <2> HIDE DEF p
  <2>4. a \in Seq(Record) /\ Len(a) = p - 1 /\ \A i \in 1..p - 1 : a[i] = s[i]
    <3>1. \A i \in 1..p - 1 : s[i] \in Record
      BY <1>1, <2>2
    <3>2. /\ a \in Seq(Record) /\ Len(a) = (IF 1 <= p - 1 THEN p - 1 - 1 + 1 ELSE 0)
          /\ \A i \in 1..p - 1 - 1 + 1 : a[i] = s[1 + i - 1]
      BY <1>1, <2>2, <3>1, SubSeqProperties
    <3> HIDE DEF a
    <3> QED
      BY <1>1, <2>2, <3>2
  <2>5. b \in Seq(Record) /\ Len(b) = Len(s) - p /\ \A i \in 1..Len(s) - p : b[i] = s[p + i]
    <3>1. \A i \in p + 1..Len(s) : s[i] \in Record
      BY <1>1, <2>2
    <3>2. /\ b \in Seq(Record) /\ Len(b) = (IF p + 1 <= Len(s) THEN Len(s) - (p + 1) + 1 ELSE 0)
          /\ \A i \in 1..Len(s) - (p + 1) + 1 : b[i] = s[(p + 1) + i - 1]
      BY <1>1, <2>2, <3>1, SubSeqProperties
    <3> HIDE DEF b
    <3>3. Len(b) = Len(s) - p
      <4>1. p \in Nat /\ p <= Len(s) /\ Len(s) \in Nat
        BY <1>1, <2>2
      <4>2. Len(b) = IF p + 1 <= Len(s) THEN Len(s) - (p + 1) + 1 ELSE 0
        BY <3>2
      <4> QED
        BY <4>1, <4>2
    <3>4. ASSUME NEW i \in 1..Len(s) - p PROVE b[i] = s[p + i]
      <4>1. i \in 1..Len(s) - (p + 1) + 1 /\ (p + 1) + i - 1 = p + i
        BY <1>1, <2>2
      <4> QED
        BY <3>2, <4>1
    <3> QED
      BY <3>2, <3>3, <3>4
  <2>6. /\ t \in Seq(Record) /\ Len(t) = Len(s) - 1
        /\ \A i \in 1..Len(s) - 1 : t[i] = IF i <= p - 1 THEN a[i] ELSE b[i - (p - 1)]
    <3> HIDE DEF a, b, t
    <3>1. /\ a \o b \in Seq(Record) /\ Len(a \o b) = Len(a) + Len(b)
          /\ \A i \in 1..Len(a) + Len(b) : (a \o b)[i] = IF i <= Len(a) THEN a[i] ELSE b[i - Len(a)]
      BY <2>4, <2>5, ConcatProperties
    <3>2. Len(a) = p - 1 /\ Len(a) + Len(b) = Len(s) - 1
      BY <1>1, <2>2, <2>4, <2>5
    <3> QED
      BY <2>3, <3>1, <3>2
  <2>7. DOMAIN t = 1..Len(s) - 1
    BY <2>6, DomainOfSeq
  <2> HIDE DEF t, a, b
  <2>8. \A i \in DOMAIN t : t[i] = IF i < p THEN s[i] ELSE s[i + 1]
    <3> SUFFICES ASSUME NEW i \in DOMAIN t PROVE t[i] = IF i < p THEN s[i] ELSE s[i + 1]
      OBVIOUS
    <3>1. CASE i < p
      BY <1>1, <2>2, <2>4, <2>6, <2>7, <3>1
    <3>2. CASE ~(i < p)
      <4>1. i - (p - 1) \in 1..Len(s) - p /\ p + (i - (p - 1)) = i + 1
        BY <1>1, <2>2, <2>7, <3>2
      <4> QED
        BY <1>1, <2>2, <2>5, <2>6, <2>7, <3>2, <4>1
    <3> QED
      BY <3>1, <3>2
  <2>9. ToSet(t) = {r \in ToSet(s) : r.key # k}
    <3>1. ASSUME NEW i \in DOMAIN t PROVE t[i] \in ToSet(s) /\ t[i].key # k
      <4> DEFINE j == IF i < p THEN i ELSE i + 1
      <4>1. j \in DOMAIN s /\ j # p /\ t[i] = s[j]
        BY <1>1, <2>2, <2>7, <2>8
      <4> QED
        BY <1>1, <2>2, <4>1 DEF Unique, ToSet
    <3>2. ASSUME NEW j \in DOMAIN s, s[j].key # k PROVE s[j] \in ToSet(t)
      <4> DEFINE i == IF j < p THEN j ELSE j - 1
      <4>1. i \in DOMAIN t /\ t[i] = s[j]
        BY <1>1, <2>2, <2>7, <2>8, <3>2
      <4> QED
        BY <4>1 DEF ToSet
    <3> QED
      BY <3>1, <3>2 DEF ToSet
  <2>10. Unique(t)
    <3> SUFFICES ASSUME NEW i \in DOMAIN t, NEW j \in DOMAIN t, t[i].key = t[j].key PROVE i = j
      BY DEF Unique
    <3> DEFINE f(x) == IF x < p THEN x ELSE x + 1
    <3>1. f(i) \in DOMAIN s /\ f(j) \in DOMAIN s /\ t[i] = s[f(i)] /\ t[j] = s[f(j)]
      BY <1>1, <2>2, <2>7, <2>8
    <3>2. f(i) = f(j)
      BY <3>1 DEF Unique
    <3> QED
      BY <1>1, <2>2, <2>7, <3>2
  <2> QED
    BY <1>1, <2>6, <2>9, <2>10 DEF t
<1> QED
  BY <1>2, <1>3

-----------------------------------------------------------------------------
(* Types *)

\* A call that is At a pc is of the kind the pc says.
LEMMA CallKinds ==
  ASSUME TypeOK, NEW c \in Clients, call[c] # None
  PROVE  /\ call[c].pc = "seen" => call[c] \in Seen
         /\ call[c].pc = "loaded" => call[c] \in Loaded
         /\ call[c].pc \in {"reserved", "created", "stored"} => call[c] \in Create
<1>1. call[c] \in Seen \cup Loaded \cup Create
  BY DEF TypeOK
<1>2. ASSUME call[c] \in Seen PROVE call[c].pc = "seen"
  BY <1>2 DEF Seen
<1>3. ASSUME call[c] \in Loaded PROVE call[c].pc = "loaded"
  BY <1>3 DEF Loaded
<1>4. ASSUME call[c] \in Create PROVE call[c].pc \in {"reserved", "created", "stored"}
  BY <1>4 DEF Create
<1> QED
  BY <1>1, <1>2, <1>3, <1>4

\* What a loaded call holds.
LEMMA LoadedTypes ==
  ASSUME TypeOK, NEW c \in Clients, At(c, "loaded")
  PROVE  /\ call[c] \in Loaded /\ call[c].id \in PostIds /\ call[c].row \in Post /\ call[c].op \in Ops
         /\ call[c].row.version \in 1..MaxVersion
         /\ call[c].saw # None => call[c].saw \in Sight /\ call[c].saw.row \in Post
                                   /\ call[c].saw.row.version \in 1..MaxVersion
         /\ call[c].retried \in BOOLEAN
<1>1. call[c] \in Loaded
  BY CallKinds DEF At
<1> QED
  BY <1>1 DEF Loaded, Sight, Post

\* A load is a call on the row it found, or no call.
LEMMA LoadsType ==
  ASSUME TypeOK, NEW c \in Clients, NEW op \in Ops, NEW p \in PostIds, posts[p] # None,
         NEW saw \in Sight \cup {None}, NEW retried \in BOOLEAN, Loads(c, op, p, saw, retried)
  PROVE  call' \in [Clients -> Seen \cup Loaded \cup Create \cup {None}]
<1>1. [pc |-> "loaded", op |-> op, id |-> p, row |-> posts[p], saw |-> saw, retried |-> retried] \in Loaded
  BY DEF Loaded, TypeOK
<1> QED
  BY <1>1 DEF Loads, Goes, TypeOK

\* A save writes a row of the post, one version on if there is one.
LEMMA SaveType ==
  ASSUME TypeOK, NEW c \in Clients, At(c, "loaded"), NEW row \in Post, Save(c, row)
  PROVE  /\ posts' \in [PostIds -> Post \cup {None}]
         /\ revived' \subseteq PostIds
         /\ posts'[call[c].id] \in Post
         /\ posts'[call[c].id].status = row.status
         /\ posts[call[c].id] # None => posts'[call[c].id].version = posts[call[c].id].version + 1
         /\ posts[call[c].id] # None => revived' = revived
         /\ posts[call[c].id] = None => posts'[call[c].id] = row
         /\ posts[call[c].id] = None => revived' = revived \cup {call[c].id}
         /\ \A q \in PostIds \ {call[c].id} : posts'[q] = posts[q]
<1> DEFINE p == call[c].id
           new == IF posts[p] = None THEN row ELSE [row EXCEPT !.version = posts[p].version + 1]
<1>1. p \in PostIds
  BY LoadedTypes
<1>2. posts[p] # None => posts[p].version \in 1..MaxVersion /\ posts[p].version < MaxVersion
  BY <1>1 DEF Save, TypeOK, Post
<1>3. new \in Post /\ new.status = row.status
      /\ (posts[p] # None => new.version = posts[p].version + 1) /\ (posts[p] = None => new = row)
  BY <1>2, PostsAssumption DEF Post
<1>4. posts' = [posts EXCEPT ![p] = new]
  BY DEF Save
<1>5. posts' \in [PostIds -> Post \cup {None}] /\ posts'[p] = new
        /\ \A q \in PostIds \ {p} : posts'[q] = posts[q]
  BY <1>1, <1>3, <1>4 DEF TypeOK
<1>6. revived' = IF posts[p] = None THEN revived \cup {p} ELSE revived
  BY DEF Save
<1> QED
  BY <1>1, <1>3, <1>5, <1>6 DEF TypeOK

LEMMA RememberType ==
  ASSUME TypeOK, NEW kept, NEW next \in Seq(Record), Len(next) <= Limit, Remember(kept, next)
  PROVE  /\ idem' \in Seq(Record) /\ Len(idem') <= Limit
         /\ made' \in [Keys -> Nat \cup {None}]
  BY DEF Remember, TypeOK

\* The type invariant, with the one record a key has, is inductive.
LEMMA TypeStep ==
  ASSUME TypeOK, Unique(idem), [Next]_vars
  PROVE  TypeOK' /\ Unique(idem)'
<1> USE DEF keys
<1>1. ASSUME NEW c \in Clients, NEW p \in PostIds, See(c, p) PROVE TypeOK' /\ Unique(idem)'
  <2>1. [pc |-> "seen", saw |-> [id |-> p, row |-> posts[p]]] \in Seen
    BY <1>1 DEF See, Seen, Sight, TypeOK
  <2> QED
    BY <1>1, <2>1 DEF See, Goes, TypeOK, Unique
<1>2. ASSUME NEW c \in Clients, NEW op \in Ops, NEW p \in PostIds, LoadSeen(c, op, p) \/ LoadAny(c, op, p)
      PROVE  TypeOK' /\ Unique(idem)'
  <2>1. CASE LoadSeen(c, op, p)
    <3>1. call[c].saw \in Sight
      BY <2>1, CallKinds DEF LoadSeen, At, Seen
    <3>2. call' \in [Clients -> Seen \cup Loaded \cup Create \cup {None}]
      BY <2>1, <3>1, LoadsType DEF LoadSeen
    <3> QED
      BY <2>1, <3>2 DEF LoadSeen, TypeOK, Unique
  <2>2. CASE LoadAny(c, op, p)
    <3>1. call' \in [Clients -> Seen \cup Loaded \cup Create \cup {None}]
      BY <2>2, LoadsType DEF LoadAny
    <3> QED
      BY <2>2, <3>1 DEF LoadAny, TypeOK, Unique
  <2> QED
    BY <1>2, <2>1, <2>2
<1>3. ASSUME NEW c \in Clients, NEW slug \in Slugs, Edit(c, slug) PROVE TypeOK' /\ Unique(idem)'
  <2>1. [call[c].row EXCEPT !.slug = slug] \in Post
    BY <1>3, LoadedTypes DEF Edit, Post
  <2>2. posts' \in [PostIds -> Post \cup {None}] /\ revived' \subseteq PostIds
    BY <1>3, <2>1, SaveType DEF Edit, TypeOK
  <2> QED
    BY <1>3, <2>2 DEF Edit, Goes, TypeOK, Unique
<1>4. ASSUME NEW c \in Clients, Transition(c) PROVE TypeOK' /\ Unique(idem)'
  <2>1. Target(call[c].op) \in Statuses
    BY DEF Target, Statuses
  <2>2. [call[c].row EXCEPT !.status = Target(call[c].op)] \in Post
    BY <1>4, <2>1, LoadedTypes DEF Transition, Post
  <2>3. posts' \in [PostIds -> Post \cup {None}] /\ revived' \subseteq PostIds
    BY <1>4, <2>2, SaveType DEF Transition
  <2>4. call[c].id \in PostIds /\ call[c].row.version + 1 \in 1..MaxVersion + 1
    BY <1>4, LoadedTypes, PostsAssumption DEF Transition
  <2>5. event' \in Event
    BY <1>4, <2>1, <2>4 DEF Transition, Event
  <2> QED
    BY <1>4, <2>3, <2>5 DEF Transition, Goes, TypeOK, Unique
<1>5. ASSUME NEW c \in Clients, Delete(c) PROVE TypeOK' /\ Unique(idem)'
  <2>1. call[c].id \in PostIds
    BY <1>5, LoadedTypes DEF Delete
  <2>2. event' \in Event
    BY <1>5, <2>1 DEF Delete, Event
  <2> QED
    BY <1>5, <2>1, <2>2 DEF Delete, Goes, TypeOK, Unique
<1>6. ASSUME NEW c \in Clients, Refuse(c) PROVE TypeOK' /\ Unique(idem)'
  <2>1. call' \in [Clients -> Seen \cup Loaded \cup Create \cup {None}]
    <3>1. CASE Stale(c) /\ call[c].saw = None /\ ~call[c].retried
      <4>1. Loads(c, call[c].op, call[c].id, None, TRUE)
        BY <1>6, <3>1 DEF Refuse
      <4>2. call[c].op \in Ops /\ call[c].id \in PostIds /\ posts[call[c].id] # None
        BY <1>6, <3>1, LoadedTypes DEF Refuse, Stale
      <4> QED
        BY <4>1, <4>2, LoadsType
    <3>2. CASE ~(Stale(c) /\ call[c].saw = None /\ ~call[c].retried)
      BY <1>6, <3>2 DEF Refuse, Goes, TypeOK
    <3> QED
      BY <3>1, <3>2
  <2> QED
    BY <1>6, <2>1 DEF Refuse, TypeOK, Unique
<1>7. ASSUME NEW c \in Clients, NEW k \in Keys, NEW slug \in Slugs, Reserve(c, k, slug)
      PROVE  TypeOK' /\ Unique(idem)'
  <2>1. PICK n \in 0..Len(idem) :
          LET swept == SubSeq(idem, n + 1, Len(idem)) IN
          IF Takes(swept, k)
          THEN /\ Remember(swept, Insert(swept, [key |-> k, pending |-> TRUE]))
               /\ Goes(c, [pc |-> "reserved", key |-> k, slug |-> slug])
          ELSE Remember(swept, swept) /\ UNCHANGED call
    BY <1>7 DEF Reserve
  <2> DEFINE swept == SubSeq(idem, n + 1, Len(idem))
             r == [key |-> k, pending |-> TRUE]
  <2>2. swept \in Seq(Record) /\ Len(swept) <= Limit /\ Unique(swept)
    <3>1. idem \in Seq(Record) /\ Len(idem) \in Nat /\ Len(idem) <= Limit
      BY DomainOfSeq DEF TypeOK
    <3>2. swept \in Seq(Record) /\ Len(swept) = Len(idem) - n /\ Unique(swept)
      BY <3>1, Swept
    <3> QED
      BY <3>1, <3>2, PostsAssumption
  <2> HIDE DEF swept
  <2>3. r \in Record
    BY DEF Record
  <2>4. CASE Takes(swept, k)
    <3>1. Remember(swept, Insert(swept, r)) /\ Goes(c, [pc |-> "reserved", key |-> k, slug |-> slug])
      BY <2>1, <2>4 DEF swept
    <3>2. Insert(swept, r) \in Seq(Record) /\ Len(Insert(swept, r)) <= Limit /\ Unique(Insert(swept, r))
      BY <2>2, <2>3, <2>4, Inserted DEF Takes
    <3>3. [pc |-> "reserved", key |-> k, slug |-> slug] \in Create
      BY DEF Create
    <3>4. idem' \in Seq(Record) /\ Len(idem') <= Limit /\ made' \in [Keys -> Nat \cup {None}]
      BY <3>1, <3>2, RememberType
    <3> QED
      BY <1>7, <3>1, <3>2, <3>3, <3>4 DEF Reserve, Goes, Remember, TypeOK
  <2>5. CASE ~Takes(swept, k)
    <3>1. Remember(swept, swept) /\ UNCHANGED call
      BY <2>1, <2>5 DEF swept
    <3>2. idem' \in Seq(Record) /\ Len(idem') <= Limit /\ made' \in [Keys -> Nat \cup {None}]
      BY <2>2, <3>1, RememberType
    <3> QED
      BY <1>7, <2>2, <3>1, <3>2 DEF Reserve, Remember, TypeOK
  <2> QED
    BY <2>4, <2>5
<1>8. ASSUME NEW p \in PostIds, NEW slug \in Slugs, NewPost(p, slug), made' \in [Keys -> Nat \cup {None}],
             call' \in [Clients -> Seen \cup Loaded \cup Create \cup {None}]
      PROVE  TypeOK' /\ Unique(idem)'
  <2>1. [version |-> 1, status |-> "draft", slug |-> slug] \in Post
    BY PostsAssumption DEF Post, Statuses
  <2> QED
    BY <1>8, <2>1 DEF NewPost, TypeOK, Unique
<1>9. ASSUME NEW c \in Clients, NEW p \in PostIds, CreateKeyed(c, p) PROVE TypeOK' /\ Unique(idem)'
  <2>1. call[c] \in Create
    BY <1>9, CallKinds DEF CreateKeyed, At
  <2>2. call[c].slug \in Slugs /\ call[c].key \in Keys /\ [call[c] EXCEPT !.pc = "created"] \in Create
    BY <2>1 DEF Create
  <2>3. made' \in [Keys -> Nat \cup {None}]
    BY <1>9, <2>2 DEF CreateKeyed, TypeOK
  <2>4. call' \in [Clients -> Seen \cup Loaded \cup Create \cup {None}]
    BY <1>9, <2>2 DEF CreateKeyed, Goes, TypeOK
  <2> QED
    BY <1>9, <2>2, <2>3, <2>4, <1>8 DEF CreateKeyed
<1>10. ASSUME NEW c \in Clients, NEW p \in PostIds, NEW slug \in Slugs, CreateUnkeyed(c, p, slug)
       PROVE  TypeOK' /\ Unique(idem)'
  BY <1>10, <1>8 DEF CreateUnkeyed, TypeOK
<1>11. ASSUME NEW c \in Clients, CreateFails(c) PROVE TypeOK' /\ Unique(idem)'
  <2>1. [call[c] EXCEPT !.pc = "stored"] \in Create
    BY <1>11, CallKinds DEF CreateFails, At, Create
  <2> QED
    BY <1>11, <2>1 DEF CreateFails, Goes, TypeOK, Unique
<1>12. ASSUME NEW c \in Clients, StoreKey(c) PROVE TypeOK' /\ Unique(idem)'
  <2> DEFINE k == call[c].key
             r == [key |-> k, pending |-> FALSE]
             rest == Without(idem, k)
  <2>1. call[c] \in Create
    BY <1>12, CallKinds DEF StoreKey, At
  <2>2. k \in Keys /\ r \in Record /\ [call[c] EXCEPT !.pc = "stored"] \in Create
    BY <2>1 DEF Create, Record
  <2>3. rest \in Seq(Record) /\ Len(rest) <= Len(idem) /\ Unique(rest) /\ k \notin KeysOf(rest)
    BY <2>2, Removed DEF TypeOK, KeysOf
  <2>4. Len(rest) <= Limit
    BY <2>3, DomainOfSeq, PostsAssumption DEF TypeOK
  <2>5. Insert(rest, r) \in Seq(Record) /\ Len(Insert(rest, r)) <= Limit /\ Unique(Insert(rest, r))
    BY <2>2, <2>3, <2>4, Inserted
  <2>6. Remember(idem, Insert(rest, r))
    BY <1>12 DEF StoreKey
  <2>7. idem' \in Seq(Record) /\ Len(idem') <= Limit /\ made' \in [Keys -> Nat \cup {None}]
    BY <2>5, <2>6, RememberType
  <2> QED
    BY <1>12, <2>2, <2>5, <2>6, <2>7 DEF StoreKey, Goes, Remember, TypeOK
<1>13. ASSUME NEW c \in Clients, Release(c) PROVE TypeOK' /\ Unique(idem)'
  <2>1. call[c].key \in Keys
    BY <1>13, CallKinds DEF Release, At, Create
  <2>2. /\ Without(idem, call[c].key) \in Seq(Record)
        /\ Len(Without(idem, call[c].key)) <= Limit
        /\ Unique(Without(idem, call[c].key))
    BY <2>1, Removed, DomainOfSeq, PostsAssumption DEF TypeOK
  <2>3. idem' \in Seq(Record) /\ Len(idem') <= Limit /\ Unique(idem')
    BY <1>13, <2>2 DEF Release, TypeOK
  <2> QED
    BY <1>13, <2>3 DEF Release, Goes, TypeOK
<1>14. ASSUME Restart PROVE TypeOK' /\ Unique(idem)'
  <2>1. idem' \in Seq(Record) /\ Len(idem') = 0 /\ DOMAIN idem' = {}
    BY <1>14, EmptySeq DEF Restart
  <2> QED
    BY <1>14, <2>1, PostsAssumption DEF Restart, TypeOK, Unique
<1>15. CASE UNCHANGED vars
  BY <1>15 DEF vars, TypeOK, Unique
<1>16. ASSUME NEW c \in Clients, Write(c) PROVE TypeOK' /\ Unique(idem)'
  BY <1>16, <1>1, <1>2, <1>3, <1>4, <1>5, <1>6 DEF Write
<1>17. ASSUME NEW c \in Clients, Make(c) PROVE TypeOK' /\ Unique(idem)'
  BY <1>17, <1>7, <1>9, <1>10, <1>11, <1>12, <1>13 DEF Make
<1> QED
  BY <1>14, <1>15, <1>16, <1>17 DEF Next

LEMMA TypeInit ==
  ASSUME Init
  PROVE  TypeOK /\ Unique(idem)
<1>1. idem \in Seq(Record) /\ Len(idem) = 0 /\ DOMAIN idem = {}
  BY EmptySeq DEF Init
<1> QED
  BY <1>1, PostsAssumption DEF Init, TypeOK, Unique

\* The rows, the calls, the events and the records of Posts keep their types,
\* and a key never has two records: the map and the list of the idempotency
\* store agree (idempotency.go idempotencyStore).
THEOREM TypeCorrect == Spec => [](TypeOK /\ Unique(idem))
<1>1. Init => TypeOK /\ Unique(idem)
  BY TypeInit
<1>2. (TypeOK /\ Unique(idem)) /\ [Next]_vars => (TypeOK /\ Unique(idem))'
  BY TypeStep
<1> QED
  BY <1>1, <1>2, PTL DEF Spec

-----------------------------------------------------------------------------
(* Idempotency keys *)

\* A create under key k that is under way, and how far it is.
MakingAt(c, k, pc) == call[c] # None /\ call[c].pc = pc /\ call[c].key = k

Making(c, k) == \E pc \in {"reserved", "created", "stored"} : MakingAt(c, k, pc)

\* Of a key that is remembered: at most one create is under way, and a record
\* holds the key while it is; nothing is made before the create; and a post
\* once made is held by a record that nobody will release.
KeyHeld(k) ==
  /\ made[k] \in {0, 1}
  /\ made[k] = 1 => k \in KeysOf(idem)
  /\ \A c \in Clients : Making(c, k) => k \in KeysOf(idem)
  /\ \A c, d \in Clients : Making(c, k) /\ Making(d, k) => c = d
  /\ \A c \in Clients : MakingAt(c, k, "reserved") => made[k] = 0
  /\ \A r \in ToSet(idem) :
       (r.key = k /\ r.pending /\ made[k] = 1) => \E c \in Clients : MakingAt(c, k, "created")

KeyInv == \A k \in Keys : made[k] # None => KeyHeld(k)

\* A step of c leaves the creates of the other calls where they are.
LEMMA OthersMake ==
  ASSUME TypeOK, NEW c \in Clients, NEW x, Goes(c, x)
  PROVE  /\ \A d \in Clients \ {c}, k \in Keys :
              /\ Making(d, k)' <=> Making(d, k)
              /\ \A pc \in {"reserved", "created", "stored"} : MakingAt(d, k, pc)' <=> MakingAt(d, k, pc)
         /\ call'[c] = x
  BY DEF TypeOK, Goes, MakingAt, Making

\* A call that reads or writes a post makes nothing under a key.
LEMMA ReadersMakeNothing ==
  ASSUME TypeOK, NEW c \in Clients, NEW x, Goes(c, x),
         call[c] = None \/ call[c].pc \in {"seen", "loaded"},
         x = None \/ x.pc \in {"seen", "loaded"}
  PROVE  \A d \in Clients, k \in Keys :
           /\ Making(d, k)' <=> Making(d, k)
           /\ \A pc \in {"reserved", "created", "stored"} : MakingAt(d, k, pc)' <=> MakingAt(d, k, pc)
  BY OthersMake DEF MakingAt, Making

\* Writing a post, and creating one without a key, leave the keys alone.
LEMMA WritersLeaveKeys ==
  ASSUME TypeOK, NEW c \in Clients,
         Write(c) \/ \E p \in PostIds, slug \in Slugs : CreateUnkeyed(c, p, slug)
  PROVE  /\ idem' = idem /\ made' = made
         /\ \A d \in Clients, k \in Keys :
              /\ Making(d, k)' <=> Making(d, k)
              /\ \A pc \in {"reserved", "created", "stored"} : MakingAt(d, k, pc)' <=> MakingAt(d, k, pc)
<1> USE DEF keys
<1>1. ASSUME NEW p \in PostIds, See(c, p)
      PROVE  /\ idem' = idem /\ made' = made /\ (call[c] = None \/ call[c].pc \in {"seen", "loaded"})
             /\ \E x : Goes(c, x) /\ (x = None \/ x.pc \in {"seen", "loaded"})
  BY <1>1 DEF See
<1>2. ASSUME NEW p \in PostIds, NEW op \in Ops, LoadSeen(c, op, p) \/ LoadAny(c, op, p)
      PROVE  /\ idem' = idem /\ made' = made /\ (call[c] = None \/ call[c].pc \in {"seen", "loaded"})
             /\ \E x : Goes(c, x) /\ (x = None \/ x.pc \in {"seen", "loaded"})
  BY <1>2 DEF LoadSeen, LoadAny, Loads, At
<1>3. ASSUME NEW slug \in Slugs, Edit(c, slug)
      PROVE  /\ idem' = idem /\ made' = made /\ (call[c] = None \/ call[c].pc \in {"seen", "loaded"})
             /\ \E x : Goes(c, x) /\ (x = None \/ x.pc \in {"seen", "loaded"})
  BY <1>3 DEF Edit, At
<1>4. ASSUME Transition(c) \/ Delete(c)
      PROVE  /\ idem' = idem /\ made' = made /\ (call[c] = None \/ call[c].pc \in {"seen", "loaded"})
             /\ \E x : Goes(c, x) /\ (x = None \/ x.pc \in {"seen", "loaded"})
  BY <1>4 DEF Transition, Delete, At
<1>5. ASSUME Refuse(c)
      PROVE  /\ idem' = idem /\ made' = made /\ (call[c] = None \/ call[c].pc \in {"seen", "loaded"})
             /\ \E x : Goes(c, x) /\ (x = None \/ x.pc \in {"seen", "loaded"})
  BY <1>5 DEF Refuse, At, Loads
<1>6. ASSUME NEW p \in PostIds, NEW slug \in Slugs, CreateUnkeyed(c, p, slug)
      PROVE  idem' = idem /\ made' = made /\ call' = call
  BY <1>6 DEF CreateUnkeyed, NewPost
<1>7. CASE Write(c)
  <2>1. /\ idem' = idem /\ made' = made /\ (call[c] = None \/ call[c].pc \in {"seen", "loaded"})
        /\ \E x : Goes(c, x) /\ (x = None \/ x.pc \in {"seen", "loaded"})
    BY <1>1, <1>2, <1>3, <1>4, <1>5, <1>7 DEF Write
  <2> QED
    BY <2>1, ReadersMakeNothing
<1>8. CASE \E p \in PostIds, slug \in Slugs : CreateUnkeyed(c, p, slug)
  BY <1>6, <1>8 DEF MakingAt, Making
<1> QED
  BY <1>7, <1>8

\* A key that is still remembered has the count it had, and its record if it
\* had one.
LEMMA RememberKeeps ==
  ASSUME TypeOK, NEW kept, NEW next, Remember(kept, next), NEW k \in Keys, made'[k] # None
  PROVE  /\ made'[k] = made[k]
         /\ k \in KeysOf(idem) => k \in KeysOf(kept) /\ k \in KeysOf(idem')
  BY DEF Remember

\* The steps of a keyed create, as the proofs below use them.
LEMMA ReserveSteps ==
  ASSUME TypeOK, Unique(idem), NEW c \in Clients, NEW k \in Keys, NEW slug \in Slugs, Reserve(c, k, slug)
  PROVE  /\ call[c] = None
         /\ \A q \in Keys : made'[q] # None =>
              made'[q] = made[q] /\ (q \in KeysOf(idem) => q \in KeysOf(idem'))
         /\ \/ /\ call' = call
               /\ ToSet(idem') \subseteq ToSet(idem)
            \/ /\ Goes(c, [pc |-> "reserved", key |-> k, slug |-> slug])
               /\ [key |-> k, pending |-> TRUE] \in ToSet(idem')
               /\ ToSet(idem') \subseteq ToSet(idem) \cup {[key |-> k, pending |-> TRUE]}
               /\ made'[k] # None => k \notin KeysOf(idem)
<1>1. PICK n \in 0..Len(idem) :
        LET swept == SubSeq(idem, n + 1, Len(idem)) IN
        IF Takes(swept, k)
        THEN /\ Remember(swept, Insert(swept, [key |-> k, pending |-> TRUE]))
             /\ Goes(c, [pc |-> "reserved", key |-> k, slug |-> slug])
        ELSE Remember(swept, swept) /\ UNCHANGED call
  BY DEF Reserve
<1> DEFINE swept == SubSeq(idem, n + 1, Len(idem))
           r == [key |-> k, pending |-> TRUE]
<1>2. call[c] = None
  BY DEF Reserve
<1>3. swept \in Seq(Record) /\ Len(swept) <= Limit /\ ToSet(swept) \subseteq ToSet(idem)
  <2>1. idem \in Seq(Record) /\ Len(idem) \in Nat /\ Len(idem) <= Limit
    BY DomainOfSeq DEF TypeOK
  <2>2. swept \in Seq(Record) /\ Len(swept) = Len(idem) - n /\ ToSet(swept) \subseteq ToSet(idem)
    BY <2>1, Swept
  <2> QED
    BY <2>1, <2>2, PostsAssumption
<1>4. r \in Record
  BY DEF Record
<1>5. CASE Takes(swept, k)
  <2>1. Remember(swept, Insert(swept, r)) /\ Goes(c, [pc |-> "reserved", key |-> k, slug |-> slug])
    BY <1>1, <1>5
  <2> HIDE DEF swept
  <2>2. r \in ToSet(Insert(swept, r)) /\ ToSet(Insert(swept, r)) \subseteq ToSet(swept) \cup {r}
    BY <1>3, <1>4, Inserted
  <2>3. idem' = Insert(swept, r)
    BY <2>1 DEF Remember
  <2>4. \A q \in Keys : made'[q] # None =>
          made'[q] = made[q] /\ (q \in KeysOf(idem) => q \in KeysOf(swept) /\ q \in KeysOf(idem'))
    BY <2>1, RememberKeeps
  <2>5. made'[k] # None => k \notin KeysOf(idem)
    BY <1>5, <2>4 DEF Takes
  <2> QED
    BY <1>2, <1>3, <2>1, <2>2, <2>3, <2>4, <2>5
<1>6. CASE ~Takes(swept, k)
  <2>1. Remember(swept, swept) /\ UNCHANGED call
    BY <1>1, <1>6
  <2> HIDE DEF swept
  <2>2. \A q \in Keys : made'[q] # None =>
          made'[q] = made[q] /\ (q \in KeysOf(idem) => q \in KeysOf(idem'))
    BY <2>1, RememberKeeps
  <2> QED
    BY <1>2, <1>3, <2>1, <2>2 DEF Remember
<1> QED
  BY <1>5, <1>6

LEMMA StoreSteps ==
  ASSUME TypeOK, Unique(idem), NEW c \in Clients, StoreKey(c)
  PROVE  /\ call[c].key \in Keys /\ MakingAt(c, call[c].key, "created")
         /\ Goes(c, [call[c] EXCEPT !.pc = "stored"])
         /\ [call[c] EXCEPT !.pc = "stored"] # None
         /\ [call[c] EXCEPT !.pc = "stored"].pc = "stored"
         /\ [call[c] EXCEPT !.pc = "stored"].key = call[c].key
         /\ \A q \in Keys : made'[q] # None =>
              made'[q] = made[q] /\ (q \in KeysOf(idem) => q \in KeysOf(idem'))
         /\ [key |-> call[c].key, pending |-> FALSE] \in ToSet(idem')
         /\ ToSet(idem') \subseteq {r \in ToSet(idem) : r.key # call[c].key}
                                     \cup {[key |-> call[c].key, pending |-> FALSE]}
<1> DEFINE k == call[c].key
           r == [key |-> k, pending |-> FALSE]
           rest == Without(idem, k)
<1>1. call[c] \in Create /\ call[c] # None /\ call[c].pc = "created"
  BY CallKinds DEF StoreKey, At
<1>2. k \in Keys /\ r \in Record /\ [call[c] EXCEPT !.pc = "stored"] \in Create
        /\ [call[c] EXCEPT !.pc = "stored"].pc = "stored"
        /\ [call[c] EXCEPT !.pc = "stored"].key = call[c].key
  BY <1>1 DEF Create, Record
<1>3. [call[c] EXCEPT !.pc = "stored"] # None
  BY <1>2, NoneAssumption
<1>4. rest \in Seq(Record) /\ Len(rest) <= Len(idem) /\ ToSet(rest) = {q \in ToSet(idem) : q.key # k}
  BY <1>2, Removed DEF TypeOK
<1>5. Len(rest) <= Limit
  BY <1>4, DomainOfSeq, PostsAssumption DEF TypeOK
<1>6. r \in ToSet(Insert(rest, r)) /\ ToSet(Insert(rest, r)) \subseteq ToSet(rest) \cup {r}
  BY <1>2, <1>4, <1>5, Inserted
<1>7. Remember(idem, Insert(rest, r))
  BY DEF StoreKey
<1>8. idem' = Insert(rest, r)
  BY <1>7 DEF Remember
<1>9. \A q \in Keys : made'[q] # None =>
        made'[q] = made[q] /\ (q \in KeysOf(idem) => q \in KeysOf(idem'))
  BY <1>7, RememberKeeps
<1>10. Goes(c, [call[c] EXCEPT !.pc = "stored"])
  BY DEF StoreKey
<1> HIDE DEF rest
<1> QED
  BY <1>1, <1>2, <1>3, <1>4, <1>6, <1>8, <1>9, <1>10 DEF MakingAt

LEMMA ReleaseSteps ==
  ASSUME TypeOK, Unique(idem), NEW c \in Clients, Release(c)
  PROVE  /\ call[c].key \in Keys /\ MakingAt(c, call[c].key, "stored")
         /\ Goes(c, None)
         /\ made' = made
         /\ \A r \in ToSet(idem') : r \in ToSet(idem) /\ (r.key = call[c].key => ~r.pending)
         /\ \A r \in ToSet(idem) : (r.key # call[c].key \/ ~r.pending) => r \in ToSet(idem')
<1> DEFINE k == call[c].key
<1>1. call[c] \in Create /\ call[c] # None /\ call[c].pc = "stored"
  BY CallKinds DEF Release, At
<1>2. k \in Keys
  BY <1>1 DEF Create
<1>3. ToSet(Without(idem, k)) = {q \in ToSet(idem) : q.key # k}
  BY <1>2, Removed DEF TypeOK
<1>4. idem' = IF k \in KeysOf(idem) /\ idem[Row(idem, k)].pending THEN Without(idem, k) ELSE idem
  BY DEF Release
<1>5. \A r \in ToSet(idem) : r.key = k => k \in KeysOf(idem) /\ r = idem[Row(idem, k)]
  <2> SUFFICES ASSUME NEW i \in DOMAIN idem, idem[i].key = k
               PROVE  k \in KeysOf(idem) /\ idem[i] = idem[Row(idem, k)]
    BY DEF ToSet
  <2>1. Row(idem, k) \in DOMAIN idem /\ idem[Row(idem, k)].key = k
    BY DEF Row
  <2>2. Row(idem, k) = i
    BY <2>1 DEF Unique
  <2> QED
    BY <2>2 DEF KeysOf, ToSet
<1>6. Goes(c, None) /\ made' = made
  BY DEF Release
<1> QED
  BY <1>1, <1>2, <1>3, <1>4, <1>5, <1>6 DEF MakingAt

LEMMA CreateSteps ==
  ASSUME TypeOK, NEW c \in Clients, NEW p \in PostIds, CreateKeyed(c, p)
  PROVE  /\ call[c].key \in Keys /\ MakingAt(c, call[c].key, "reserved")
         /\ Goes(c, [call[c] EXCEPT !.pc = "created"])
         /\ [call[c] EXCEPT !.pc = "created"] # None
         /\ [call[c] EXCEPT !.pc = "created"].pc = "created"
         /\ [call[c] EXCEPT !.pc = "created"].key = call[c].key
         /\ idem' = idem
         /\ \A q \in Keys : made'[q] = IF q = call[c].key /\ made[q] # None THEN made[q] + 1 ELSE made[q]
<1>1. call[c] \in Create /\ call[c] # None /\ call[c].pc = "reserved"
  BY CallKinds DEF CreateKeyed, At
<1>2. call[c].key \in Keys /\ [call[c] EXCEPT !.pc = "created"] \in Create
        /\ [call[c] EXCEPT !.pc = "created"].pc = "created"
        /\ [call[c] EXCEPT !.pc = "created"].key = call[c].key
  BY <1>1 DEF Create
<1>3. [call[c] EXCEPT !.pc = "created"] # None
  BY <1>2, NoneAssumption
<1>4. \A q \in Keys : made'[q] = IF q = call[c].key /\ made[q] # None THEN made[q] + 1 ELSE made[q]
  BY <1>2 DEF CreateKeyed, TypeOK
<1> QED
  BY <1>1, <1>2, <1>3, <1>4 DEF CreateKeyed, NewPost, MakingAt

LEMMA FailSteps ==
  ASSUME TypeOK, NEW c \in Clients, CreateFails(c)
  PROVE  /\ call[c].key \in Keys /\ MakingAt(c, call[c].key, "reserved")
         /\ Goes(c, [call[c] EXCEPT !.pc = "stored"])
         /\ [call[c] EXCEPT !.pc = "stored"] # None
         /\ [call[c] EXCEPT !.pc = "stored"].pc = "stored"
         /\ [call[c] EXCEPT !.pc = "stored"].key = call[c].key
         /\ idem' = idem /\ made' = made
<1>1. call[c] \in Create /\ call[c] # None /\ call[c].pc = "reserved"
  BY CallKinds DEF CreateFails, At
<1>2. call[c].key \in Keys /\ [call[c] EXCEPT !.pc = "stored"] \in Create
        /\ [call[c] EXCEPT !.pc = "stored"].pc = "stored"
        /\ [call[c] EXCEPT !.pc = "stored"].key = call[c].key
  BY <1>1 DEF Create
<1>3. [call[c] EXCEPT !.pc = "stored"] # None
  BY <1>2, NoneAssumption
<1> QED
  BY <1>1, <1>2, <1>3 DEF CreateFails, MakingAt, keys

LEMMA RestartSteps ==
  ASSUME Restart
  PROVE  /\ ToSet(idem') = {} /\ \A k \in Keys : made'[k] = None
         /\ \A c \in Clients : call'[c] = None
<1>1. DOMAIN idem' = {}
  BY EmptySeq DEF Restart
<1> QED
  BY <1>1 DEF Restart, ToSet

\* No key is refused as in progress for the whole lifetime of its record: a
\* pending record has a create under way that releases it, whatever is evicted
\* meanwhile (idempotency.go reserve, release; dataplane/blog.go createPost).
THEOREM NoKeyIsStuck == Spec => []NoKeyStuck
<1> USE DEF MakingAt, Making
<1> DEFINE Inv == TypeOK /\ Unique(idem)
<1>1. Init => NoKeyStuck
  <2> SUFFICES ASSUME Init PROVE NoKeyStuck
    OBVIOUS
  <2>1. DOMAIN idem = {}
    BY EmptySeq DEF Init
  <2> QED
    BY <2>1 DEF NoKeyStuck, ToSet
<1>2. ASSUME Inv, NoKeyStuck, [Next]_vars PROVE NoKeyStuck'
  <2> DEFINE Held(r) == \E d \in Clients : Making(d, r.key)
  <2>0. \A r \in ToSet(idem) : r.pending => Held(r)
    BY <1>2 DEF NoKeyStuck
  <2>1. SUFFICES ASSUME NEW r \in ToSet(idem'), r.pending
                 PROVE  \E d \in Clients : Making(d, r.key)'
    BY DEF NoKeyStuck
  <2>2. r.key \in Keys
    <3>1. idem' \in Seq(Record)
      BY <1>2, TypeStep DEF TypeOK
    <3>2. PICK i \in DOMAIN idem' : r = idem'[i]
      BY DEF ToSet
    <3>3. idem'[i] \in Record
      BY <3>1, DomainOfSeq
    <3> QED
      BY <3>2, <3>3 DEF Record
  <2>3. CASE \E c \in Clients : Write(c) \/ \E p \in PostIds, slug \in Slugs : CreateUnkeyed(c, p, slug)
    BY <1>2, <2>0, <2>1, <2>2, <2>3, WritersLeaveKeys
  <2>4. ASSUME NEW c \in Clients, NEW k \in Keys, NEW slug \in Slugs, Reserve(c, k, slug)
        PROVE  \E d \in Clients : Making(d, r.key)'
    <3> DEFINE x == [pc |-> "reserved", key |-> k, slug |-> slug]
    <3>1. CASE call' = call /\ ToSet(idem') \subseteq ToSet(idem)
      BY <2>0, <2>1, <3>1
    <3>2. CASE /\ Goes(c, x)
               /\ ToSet(idem') \subseteq ToSet(idem) \cup {[key |-> k, pending |-> TRUE]}
      <4>1. x \in Create /\ x.pc = "reserved" /\ x.key = k
        BY DEF Create
      <4>2. call'[c] = x /\ x # None
        BY <1>2, <3>2, <4>1, OthersMake, NoneAssumption
      <4>3. CASE r = [key |-> k, pending |-> TRUE]
        BY <4>1, <4>2, <4>3
      <4>4. CASE r \in ToSet(idem)
        <5>1. PICK d \in Clients : Making(d, r.key)
          BY <2>0, <2>1, <4>4
        <5>2. call[c] = None
          BY <2>4 DEF Reserve
        <5> QED
          BY <1>2, <2>2, <3>2, <5>1, <5>2, OthersMake
      <4> QED
        BY <3>2, <4>3, <4>4
    <3> QED
      BY <1>2, <2>4, <3>1, <3>2, ReserveSteps
  <2>5. ASSUME NEW c \in Clients, NEW x, Goes(c, x), x # None, x.pc \in {"created", "stored"},
               x.key = call[c].key, r \in ToSet(idem)
        PROVE  \E d \in Clients : Making(d, r.key)'
    <3>1. PICK d \in Clients : Making(d, r.key)
      BY <2>0, <2>1, <2>5
    <3>2. call'[c] = x
      BY <1>2, <2>5, OthersMake
    <3> QED
      BY <1>2, <2>2, <2>5, <3>1, <3>2, OthersMake
  <2>6. ASSUME NEW c \in Clients, NEW p \in PostIds, CreateKeyed(c, p)
        PROVE  \E d \in Clients : Making(d, r.key)'
    BY <1>2, <2>1, <2>5, <2>6, CreateSteps
  <2>7. ASSUME NEW c \in Clients, CreateFails(c)
        PROVE  \E d \in Clients : Making(d, r.key)'
    BY <1>2, <2>1, <2>5, <2>7, FailSteps
  <2>8. ASSUME NEW c \in Clients, StoreKey(c)
        PROVE  \E d \in Clients : Making(d, r.key)'
    <3>1. r \in ToSet(idem)
      <4>1. r \in {q \in ToSet(idem) : q.key # call[c].key} \cup {[key |-> call[c].key, pending |-> FALSE]}
        BY <1>2, <2>1, <2>8, StoreSteps
      <4> QED
        BY <2>1, <4>1
    <3> QED
      BY <1>2, <2>5, <2>8, <3>1, StoreSteps
  <2>9. ASSUME NEW c \in Clients, Release(c)
        PROVE  \E d \in Clients : Making(d, r.key)'
    <3>1. r \in ToSet(idem) /\ r.key # call[c].key
      BY <1>2, <2>1, <2>9, ReleaseSteps
    <3>2. PICK d \in Clients : Making(d, r.key)
      BY <2>0, <2>1, <3>1
    <3>3. Goes(c, None) /\ d # c
      BY <1>2, <2>9, <3>1, <3>2, ReleaseSteps
    <3> QED
      BY <1>2, <2>2, <3>2, <3>3, OthersMake
  <2>10. CASE Restart
    BY <2>1, <2>10, RestartSteps
  <2>11. CASE UNCHANGED vars
    BY <2>0, <2>1, <2>11 DEF vars
  <2> QED
    BY <1>2, <2>3, <2>4, <2>6, <2>7, <2>8, <2>9, <2>10, <2>11 DEF Next, Make
<1>3. Inv /\ NoKeyStuck /\ [Next]_vars => NoKeyStuck'
  BY <1>2
<1> QED
  BY <1>1, <1>3, TypeCorrect, PTL DEF Spec

LEMMA KeyInit ==
  ASSUME Init
  PROVE  KeyInv
<1>1. DOMAIN idem = {}
  BY EmptySeq DEF Init
<1> QED
  BY <1>1, NoneAssumption DEF Init, KeyInv, KeyHeld, Making, MakingAt, ToSet, KeysOf

LEMMA KeyStep ==
  ASSUME TypeOK, Unique(idem), KeyInv, [Next]_vars
  PROVE  KeyInv'
<1> SUFFICES ASSUME NEW q \in Keys, made'[q] # None PROVE KeyHeld(q)'
  BY DEF KeyInv
<1>1. CASE \E c \in Clients : Write(c) \/ \E p \in PostIds, slug \in Slugs : CreateUnkeyed(c, p, slug)
  <2>1. /\ idem' = idem /\ made' = made
        /\ \A d \in Clients :
              /\ Making(d, q)' <=> Making(d, q)
              /\ MakingAt(d, q, "reserved")' <=> MakingAt(d, q, "reserved")
              /\ MakingAt(d, q, "created")' <=> MakingAt(d, q, "created")
    BY <1>1, WritersLeaveKeys
  <2>2. KeyHeld(q)
    BY <2>1 DEF KeyInv
  <2> QED
    BY <2>1, <2>2 DEF KeyHeld
<1>2. ASSUME NEW c \in Clients, NEW k \in Keys, NEW slug \in Slugs, Reserve(c, k, slug)
      PROVE  KeyHeld(q)'
  <2> DEFINE x == [pc |-> "reserved", key |-> k, slug |-> slug]
             new == [key |-> k, pending |-> TRUE]
  <2>1. made'[q] = made[q] /\ (q \in KeysOf(idem) => q \in KeysOf(idem'))
    BY <1>2, ReserveSteps
  <2>2. KeyHeld(q)
    BY <2>1 DEF KeyInv
  <2>3. CASE call' = call /\ ToSet(idem') \subseteq ToSet(idem)
    BY <2>1, <2>2, <2>3 DEF KeyHeld, Making, MakingAt
  <2>4. CASE /\ Goes(c, x) /\ new \in ToSet(idem') /\ ToSet(idem') \subseteq ToSet(idem) \cup {new}
             /\ made'[k] # None => k \notin KeysOf(idem)
    <3>1. x \in Create /\ x.pc = "reserved" /\ x.key = k
      BY DEF Create
    <3>2. call'[c] = x /\ x # None /\ call[c] = None
      BY <1>2, <2>4, <3>1, OthersMake, NoneAssumption DEF Reserve
    <3>3. k \in KeysOf(idem')
      BY <2>4 DEF KeysOf
    <3>4. /\ \A d \in Clients \ {c} : /\ Making(d, q)' <=> Making(d, q)
                                      /\ MakingAt(d, q, "reserved")' <=> MakingAt(d, q, "reserved")
                                      /\ MakingAt(d, q, "created")' <=> MakingAt(d, q, "created")
      BY <2>4, OthersMake
    <3>5. ~Making(c, q) /\ ~MakingAt(c, q, "created") /\ (Making(c, q)' => q = k)
      BY <3>1, <3>2 DEF Making, MakingAt
    <3>6. CASE q = k
      <4>1. k \notin KeysOf(idem) /\ made[k] = 0 /\ \A d \in Clients : ~Making(d, k)
        BY <2>2, <2>4, <3>6 DEF KeyHeld
      <4>2. \A d \in Clients : Making(d, k)' => d = c
        BY <3>4, <3>6, <4>1
      <4> QED
        BY <2>1, <3>3, <3>6, <4>1, <4>2 DEF KeyHeld
    <3>7. CASE q # k
      <4>1. \A d \in Clients : /\ Making(d, q)' <=> Making(d, q)
                               /\ MakingAt(d, q, "reserved")' => MakingAt(d, q, "reserved")
                               /\ MakingAt(d, q, "created") => MakingAt(d, q, "created")'
        BY <3>1, <3>2, <3>4, <3>5, <3>7 DEF MakingAt
      <4>2. \A r \in ToSet(idem') : r.key = q => r \in ToSet(idem)
        BY <2>4, <3>7
      <4> QED
        BY <2>1, <2>2, <4>1, <4>2 DEF KeyHeld
    <3> QED
      BY <3>6, <3>7
  <2> QED
    BY <1>2, <2>3, <2>4, ReserveSteps
<1>3. ASSUME NEW c \in Clients, NEW x, Goes(c, x), x # None, x.pc \in {"created", "stored"},
             x.key = call[c].key
      PROVE  /\ \A d \in Clients \ {c} : /\ Making(d, q)' <=> Making(d, q)
                                         /\ MakingAt(d, q, "reserved")' <=> MakingAt(d, q, "reserved")
                                         /\ MakingAt(d, q, "created")' <=> MakingAt(d, q, "created")
             /\ Making(c, q)' <=> q = call[c].key
             /\ ~MakingAt(c, q, "reserved")'
             /\ MakingAt(c, q, "created")' <=> (q = call[c].key /\ x.pc = "created")
  <2>1. call'[c] = x
    BY <1>3, OthersMake
  <2> QED
    BY <1>3, <2>1, OthersMake DEF Making, MakingAt
<1>4. ASSUME NEW c \in Clients, NEW p \in PostIds, CreateKeyed(c, p) PROVE KeyHeld(q)'
  <2> DEFINE k == call[c].key
  <2>1. /\ k \in Keys /\ MakingAt(c, k, "reserved") /\ idem' = idem
        /\ \A z \in Keys : made'[z] = IF z = k /\ made[z] # None THEN made[z] + 1 ELSE made[z]
    BY <1>4, CreateSteps
  <2>2. /\ \A d \in Clients \ {c} : /\ Making(d, q)' <=> Making(d, q)
                                    /\ MakingAt(d, q, "reserved")' <=> MakingAt(d, q, "reserved")
                                    /\ MakingAt(d, q, "created")' <=> MakingAt(d, q, "created")
        /\ Making(c, q)' <=> q = k
        /\ ~MakingAt(c, q, "reserved")'
        /\ MakingAt(c, q, "created")' <=> q = k
    BY <1>3, <1>4, CreateSteps
  <2>3. made[q] # None /\ KeyHeld(q)
    BY <2>1 DEF KeyInv
  <2>4. Making(c, k) /\ (q # k => ~Making(c, q) /\ ~MakingAt(c, q, "created"))
    BY <2>1 DEF Making, MakingAt
  <2>5. CASE q = k
    <3>1. made[q] = 0 /\ q \in KeysOf(idem) /\ \A d \in Clients : Making(d, q) => d = c
      BY <2>1, <2>3, <2>4, <2>5 DEF KeyHeld
    <3>2. made'[q] = 1
      BY <2>1, <2>3, <2>5, <3>1
    <3>3. \A d \in Clients : MakingAt(d, q, "reserved") => Making(d, q)
      BY DEF Making
    <3> QED
      BY <2>1, <2>2, <2>5, <3>1, <3>2, <3>3 DEF KeyHeld
  <2>6. CASE q # k
    BY <2>1, <2>2, <2>3, <2>4, <2>6 DEF KeyHeld
  <2> QED
    BY <2>5, <2>6
<1>5. ASSUME NEW c \in Clients, CreateFails(c) PROVE KeyHeld(q)'
  <2> DEFINE k == call[c].key
  <2>1. k \in Keys /\ MakingAt(c, k, "reserved") /\ idem' = idem /\ made' = made
    BY <1>5, FailSteps
  <2>2. /\ \A d \in Clients \ {c} : /\ Making(d, q)' <=> Making(d, q)
                                    /\ MakingAt(d, q, "reserved")' <=> MakingAt(d, q, "reserved")
                                    /\ MakingAt(d, q, "created")' <=> MakingAt(d, q, "created")
        /\ Making(c, q)' <=> q = k
        /\ ~MakingAt(c, q, "reserved")'
    BY <1>3, <1>5, FailSteps
  <2>3. Making(c, k) /\ ~MakingAt(c, q, "created") /\ (q # k => ~Making(c, q))
    BY <2>1 DEF Making, MakingAt
  <2>4. KeyHeld(q)
    BY <2>1 DEF KeyInv
  <2> QED
    BY <2>1, <2>2, <2>3, <2>4 DEF KeyHeld
<1>6. ASSUME NEW c \in Clients, StoreKey(c) PROVE KeyHeld(q)'
  <2> DEFINE k == call[c].key
             new == [key |-> k, pending |-> FALSE]
  <2>1. /\ k \in Keys /\ MakingAt(c, k, "created") /\ new \in ToSet(idem')
        /\ ToSet(idem') \subseteq {r \in ToSet(idem) : r.key # k} \cup {new}
        /\ made'[q] = made[q] /\ (q \in KeysOf(idem) => q \in KeysOf(idem'))
    BY <1>6, StoreSteps
  <2>2. /\ \A d \in Clients \ {c} : /\ Making(d, q)' <=> Making(d, q)
                                    /\ MakingAt(d, q, "reserved")' <=> MakingAt(d, q, "reserved")
                                    /\ MakingAt(d, q, "created")' <=> MakingAt(d, q, "created")
        /\ Making(c, q)' <=> q = k
        /\ ~MakingAt(c, q, "reserved")'
    BY <1>3, <1>6, StoreSteps
  <2>3. Making(c, k) /\ (q # k => ~Making(c, q) /\ ~MakingAt(c, q, "created"))
    BY <2>1 DEF Making, MakingAt
  <2>4. KeyHeld(q)
    BY <2>1 DEF KeyInv
  <2>5. \A r \in ToSet(idem') : r.key = q /\ r.pending => r \in ToSet(idem) /\ q # k
    BY <2>1
  <2> QED
    BY <2>1, <2>2, <2>3, <2>4, <2>5 DEF KeyHeld
<1>7. ASSUME NEW c \in Clients, Release(c) PROVE KeyHeld(q)'
  <2> DEFINE k == call[c].key
  <2>1. /\ k \in Keys /\ MakingAt(c, k, "stored") /\ made' = made
        /\ \A r \in ToSet(idem') : r \in ToSet(idem) /\ (r.key = k => ~r.pending)
        /\ \A r \in ToSet(idem) : (r.key # k \/ ~r.pending) => r \in ToSet(idem')
    BY <1>7, ReleaseSteps
  <2>2. Goes(c, None)
    BY <1>7, ReleaseSteps
  <2>3. /\ \A d \in Clients \ {c} : /\ Making(d, q)' <=> Making(d, q)
                                    /\ MakingAt(d, q, "reserved")' <=> MakingAt(d, q, "reserved")
                                    /\ MakingAt(d, q, "created")' <=> MakingAt(d, q, "created")
        /\ call'[c] = None
    BY <2>2, OthersMake
  <2>4. ~Making(c, q)' /\ ~MakingAt(c, q, "reserved")' /\ ~MakingAt(c, q, "created")
    BY <2>1, <2>3 DEF Making, MakingAt
  <2>5. Making(c, k) /\ KeyHeld(q)
    BY <2>1 DEF KeyInv, Making
  <2>6. q # k => (q \in KeysOf(idem) => q \in KeysOf(idem'))
    BY <2>1 DEF KeysOf
  <2>7. CASE q = k
    <3>1. \A d \in Clients : d # c => ~Making(d, q)
      BY <2>5, <2>7 DEF KeyHeld
    <3>2. \A d \in Clients : ~MakingAt(d, q, "created")
      BY <2>4, <3>1 DEF Making
    <3>3. made[q] = 1 => \E r \in ToSet(idem) : r.key = q /\ ~r.pending
      BY <2>5, <3>2 DEF KeyHeld, KeysOf
    <3>4. made'[q] = 1 => q \in KeysOf(idem')
      BY <2>1, <3>3 DEF KeysOf
    <3>5. \A d \in Clients : ~Making(d, q)' /\ ~MakingAt(d, q, "reserved")'
      BY <2>3, <2>4, <3>1 DEF Making
    <3> QED
      BY <2>1, <2>5, <2>7, <3>4, <3>5 DEF KeyHeld
  <2>8. CASE q # k
    BY <2>1, <2>3, <2>4, <2>5, <2>6, <2>8 DEF KeyHeld
  <2> QED
    BY <2>7, <2>8
<1>8. CASE Restart
  BY <1>8, RestartSteps
<1>9. CASE UNCHANGED vars
  BY <1>9 DEF vars, KeyInv, KeyHeld, Making, MakingAt
<1> QED
  BY <1>1, <1>2, <1>4, <1>5, <1>6, <1>7, <1>8, <1>9 DEF Next, Make

\* A key makes one post as long as the process remembers it: whatever retries
\* overlap the first create or follow it, however the records are evicted, and
\* whichever deferred release runs last (idempotency.go reserve, store,
\* release).
THEOREM KeysMakeOnePost == Spec => []OnePostPerKey
<1>1. Init => KeyInv
  BY KeyInit
<1>2. (TypeOK /\ Unique(idem)) /\ KeyInv /\ [Next]_vars => KeyInv'
  BY KeyStep
<1>3. KeyInv => OnePostPerKey
  BY DEF KeyInv, KeyHeld, OnePostPerKey
<1> QED
  BY <1>1, <1>2, <1>3, TypeCorrect, PTL DEF Spec

-----------------------------------------------------------------------------
(* What the calls hold of the posts *)

\* Only posts that were created exist, are seen and are loaded.
BornInv ==
  /\ Existing \subseteq born
  /\ \A c \in Clients : At(c, "seen") => call[c].saw.id \in born
  /\ \A c \in Clients : At(c, "loaded") =>
       call[c].id \in born /\ (call[c].saw # None => call[c].saw.id \in born)

\* The rows of post p that call c has seen or loaded.
Saw(c, p, row) ==
  /\ At(c, "seen") \/ At(c, "loaded")
  /\ call[c].saw # None /\ call[c].saw.id = p /\ call[c].saw.row = row

HasLoaded(c, p, row) == At(c, "loaded") /\ call[c].id = p /\ call[c].row = row

\* A version of a post that was never brought back is one row: what a call
\* holds is older than the stored row, or is that row.
CopyInv ==
  \A c \in Clients, p \in Existing \ revived, row \in Post :
    Saw(c, p, row) \/ HasLoaded(c, p, row) =>
      /\ row.version <= posts[p].version
      /\ row.version = posts[p].version => row = posts[p]

\* A call loads a post after it has seen it, and a transition only if there is
\* one to make.
LoadInv ==
  \A c \in Clients : At(c, "loaded") =>
    /\ (call[c].saw # None /\ call[c].saw.id = call[c].id /\ call[c].id \notin revived)
         => call[c].saw.row.version <= call[c].row.version
    /\ Transits(call[c].op) => call[c].row.status # Target(call[c].op)

LEMMA GoesElsewhere ==
  ASSUME TypeOK, NEW c \in Clients, NEW x, Goes(c, x), NEW d \in Clients
  PROVE  IF d = c THEN call'[d] = x ELSE call'[d] = call[d]
  BY DEF TypeOK, Goes

\* Call d sees a post as it is, or loads one: the one it saw, or any.
Sees(d) ==
  \E p \in PostIds :
    posts[p] # None /\ call'[d] = [pc |-> "seen", saw |-> [id |-> p, row |-> posts[p]]]

Loading(d) ==
  \E p \in PostIds, op \in Ops, saw \in Sight \cup {None}, retried \in BOOLEAN :
    /\ posts[p] # None
    /\ call'[d] = [pc |-> "loaded", op |-> op, id |-> p, row |-> posts[p], saw |-> saw, retried |-> retried]
    /\ Proceeds(op, p, saw)
    /\ saw # None => At(d, "seen") /\ saw = call[d].saw

\* What becomes of a call in a step: it stays, ends, creates, sees a post, or
\* loads one.
LEMMA CallAfter ==
  ASSUME TypeOK, [Next]_vars, NEW d \in Clients
  PROVE  \/ call'[d] = call[d]
         \/ call'[d] = None
         \/ call'[d] # None /\ call'[d].pc \in {"reserved", "created", "stored"}
         \/ posts' = posts /\ revived' = revived /\ born' = born /\ (Sees(d) \/ Loading(d))
<1> DEFINE Keeps == posts' = posts /\ revived' = revived /\ born' = born
           Makes == call'[d] # None /\ call'[d].pc \in {"reserved", "created", "stored"}
           Goal == \/ call'[d] = call[d] \/ call'[d] = None \/ Makes
                   \/ Keeps /\ (Sees(d) \/ Loading(d))
<1> SUFFICES Goal
  OBVIOUS
<1>1. ASSUME NEW c \in Clients, NEW p \in PostIds, See(c, p) PROVE Goal
  <2>1. Keeps
    BY <1>1 DEF See
  <2>2. posts[p] # None /\ Goes(c, [pc |-> "seen", saw |-> [id |-> p, row |-> posts[p]]])
    BY <1>1 DEF See
  <2>3. call'[d] = call[d] \/ call'[d] = [pc |-> "seen", saw |-> [id |-> p, row |-> posts[p]]]
    BY <2>2, GoesElsewhere
  <2> QED
    BY <2>1, <2>2, <2>3 DEF Sees
<1>2. ASSUME NEW c \in Clients, NEW p \in PostIds, NEW op \in Ops, NEW saw \in Sight \cup {None},
             NEW retried \in BOOLEAN, Loads(c, op, p, saw, retried), posts[p] # None, Keeps,
             saw # None => At(c, "seen") /\ saw = call[c].saw
      PROVE  Goal
  <2> DEFINE x == [pc |-> "loaded", op |-> op, id |-> p, row |-> posts[p], saw |-> saw, retried |-> retried]
  <2>1. CASE Proceeds(op, p, saw)
    <3>1. Goes(c, x)
      BY <1>2, <2>1 DEF Loads
    <3>2. IF d = c THEN call'[d] = x ELSE call'[d] = call[d]
      BY <3>1, GoesElsewhere
    <3>3. CASE d = c
      BY <1>2, <2>1, <3>2, <3>3 DEF Loading
    <3> QED
      BY <3>2, <3>3
  <2>2. CASE ~Proceeds(op, p, saw)
    BY <1>2, <2>2, GoesElsewhere DEF Loads
  <2> QED
    BY <2>1, <2>2
<1> HIDE DEF Makes
<1>3. ASSUME NEW c \in Clients, NEW p \in PostIds, NEW op \in Ops, LoadSeen(c, op, p) PROVE Goal
  <2>1. At(c, "seen") /\ call[c].saw \in Sight
    BY <1>3, CallKinds DEF LoadSeen, At, Seen
  <2>2. Loads(c, op, p, call[c].saw, FALSE) /\ posts[p] # None /\ Keeps
    BY <1>3 DEF LoadSeen
  <2> QED
    BY <1>2, <2>1, <2>2
<1>4. ASSUME NEW c \in Clients, NEW p \in PostIds, NEW op \in Ops, LoadAny(c, op, p) PROVE Goal
  BY <1>2, <1>4 DEF LoadAny
<1>5. ASSUME NEW c \in Clients, Goes(c, None) PROVE Goal
  BY <1>5, GoesElsewhere
<1>6. ASSUME NEW c \in Clients, Refuse(c) PROVE Goal
  <2>1. call[c].op \in Ops /\ call[c].id \in PostIds /\ Keeps
    BY <1>6, LoadedTypes DEF Refuse
  <2>2. CASE Stale(c) /\ call[c].saw = None /\ ~call[c].retried
    <3>1. Loads(c, call[c].op, call[c].id, None, TRUE) /\ posts[call[c].id] # None
      BY <1>6, <2>2 DEF Refuse, Stale
    <3> QED
      BY <1>2, <2>1, <3>1
  <2>3. CASE ~(Stale(c) /\ call[c].saw = None /\ ~call[c].retried)
    BY <1>5, <1>6, <2>3 DEF Refuse
  <2> QED
    BY <2>2, <2>3
<1>7. ASSUME NEW c \in Clients, NEW x, Goes(c, x), x # None, x.pc \in {"reserved", "created", "stored"}
      PROVE  Goal
  BY <1>7, GoesElsewhere DEF Makes
<1>8. ASSUME NEW c \in Clients, NEW k \in Keys, NEW slug \in Slugs, Reserve(c, k, slug) PROVE Goal
  <2>1. [pc |-> "reserved", key |-> k, slug |-> slug] \in Create
    BY DEF Create
  <2>2. [pc |-> "reserved", key |-> k, slug |-> slug] # None
    BY <2>1, NoneAssumption
  <2>3. call' = call \/ Goes(c, [pc |-> "reserved", key |-> k, slug |-> slug])
    BY <1>8 DEF Reserve
  <2> QED
    BY <1>7, <2>2, <2>3
<1>9. ASSUME NEW c \in Clients, Write(c) PROVE Goal
  BY <1>1, <1>3, <1>4, <1>5, <1>6, <1>9 DEF Write, Edit, Transition, Delete
<1>10. ASSUME NEW c \in Clients, Make(c) PROVE Goal
  <2>1. ASSUME NEW p \in PostIds, CreateKeyed(c, p) PROVE Goal
    BY <1>7, <2>1, CreateSteps
  <2>2. ASSUME NEW p \in PostIds, NEW slug \in Slugs, CreateUnkeyed(c, p, slug) PROVE Goal
    BY <2>2 DEF CreateUnkeyed
  <2>3. ASSUME CreateFails(c) PROVE Goal
    BY <1>7, <2>3, FailSteps
  <2>4. ASSUME StoreKey(c) PROVE Goal
    <3>1. /\ Goes(c, [call[c] EXCEPT !.pc = "stored"])
          /\ call[c] \in Create
      BY <2>4, CallKinds DEF StoreKey, At
    <3>2. [call[c] EXCEPT !.pc = "stored"] \in Create /\ [call[c] EXCEPT !.pc = "stored"].pc = "stored"
      BY <3>1 DEF Create
    <3> QED
      BY <1>7, <3>1, <3>2, NoneAssumption
  <2>5. ASSUME Release(c) PROVE Goal
    BY <1>5, <2>5 DEF Release
  <2> QED
    BY <1>8, <1>10, <2>1, <2>2, <2>3, <2>4, <2>5 DEF Make
<1>11. CASE Restart
  BY <1>11, RestartSteps
<1>12. CASE UNCHANGED vars
  BY <1>12 DEF vars
<1> QED
  BY <1>9, <1>10, <1>11, <1>12 DEF Next

\* What becomes of a post in a step: it stays, goes, moves one version on, is
\* brought back by a call that had loaded it, or is new.
LEMMA PostAfter ==
  ASSUME TypeOK, [Next]_vars
  PROVE  /\ revived \subseteq revived' /\ born \subseteq born'
         /\ \A p \in PostIds :
              \/ posts'[p] = posts[p]
              \/ posts'[p] = None
              \/ posts[p] # None /\ posts'[p] # None /\ posts'[p].version = posts[p].version + 1
              \/ p \in revived' /\ \E c \in Clients : At(c, "loaded") /\ call[c].id = p
              \/ p \notin born /\ p \in born'
<1> DEFINE Moves(p) == \/ posts'[p] = posts[p]
                       \/ posts'[p] = None
                       \/ posts[p] # None /\ posts'[p] # None /\ posts'[p].version = posts[p].version + 1
                       \/ p \in revived' /\ \E c \in Clients : At(c, "loaded") /\ call[c].id = p
                       \/ p \notin born /\ p \in born'
           Goal == revived \subseteq revived' /\ born \subseteq born' /\ \A p \in PostIds : Moves(p)
<1> SUFFICES Goal
  OBVIOUS
<1>1. ASSUME posts' = posts, revived' = revived, born' = born PROVE Goal
  BY <1>1
<1>2. ASSUME NEW c \in Clients, At(c, "loaded"), NEW row \in Post, Save(c, row), born' = born PROVE Goal
  <2>1. /\ posts'[call[c].id] \in Post /\ call[c].id \in PostIds
        /\ posts[call[c].id] # None => posts'[call[c].id].version = posts[call[c].id].version + 1
        /\ posts[call[c].id] # None => revived' = revived
        /\ posts[call[c].id] = None => revived' = revived \cup {call[c].id}
        /\ \A q \in PostIds \ {call[c].id} : posts'[q] = posts[q]
    BY <1>2, SaveType, LoadedTypes
  <2>2. posts'[call[c].id] # None
    BY <2>1, NoneAssumption
  <2> QED
    BY <1>2, <2>1, <2>2
<1>3. ASSUME NEW p \in PostIds, NEW slug \in Slugs, NewPost(p, slug) PROVE Goal
  BY <1>3 DEF NewPost, TypeOK
<1> HIDE DEF Goal
<1>4. ASSUME NEW c \in Clients, NEW slug \in Slugs, Edit(c, slug) PROVE Goal
  <2>1. [call[c].row EXCEPT !.slug = slug] \in Post
    BY <1>4, LoadedTypes DEF Edit, Post
  <2> QED
    BY <1>1, <1>2, <1>4, <2>1 DEF Edit
<1>5. ASSUME NEW c \in Clients, Transition(c) PROVE Goal
  <2>1. [call[c].row EXCEPT !.status = Target(call[c].op)] \in Post
    BY <1>5, LoadedTypes DEF Transition, Post, Target, Statuses
  <2> QED
    BY <1>2, <1>5, <2>1 DEF Transition
<1>6. ASSUME NEW c \in Clients, Delete(c) PROVE Goal
  BY <1>6, LoadedTypes DEF Delete, TypeOK, Goal
<1>7. ASSUME NEW c \in Clients, Write(c) PROVE Goal
  BY <1>1, <1>4, <1>5, <1>6, <1>7 DEF Write, See, LoadSeen, LoadAny, Refuse
<1>8. ASSUME NEW c \in Clients, Make(c) PROVE Goal
  <2>1. ASSUME NEW p \in PostIds, CreateKeyed(c, p) PROVE Goal
    <3>1. call[c].slug \in Slugs
      BY <2>1, CallKinds DEF CreateKeyed, At, Create
    <3> QED
      BY <1>3, <2>1, <3>1 DEF CreateKeyed
  <2> QED
    BY <1>1, <1>3, <1>8, <2>1 DEF Make, Reserve, CreateUnkeyed, CreateFails, StoreKey, Release
<1> QED
  BY <1>1, <1>7, <1>8 DEF Next, Restart, vars

LEMMA BornStep ==
  ASSUME TypeOK, BornInv, [Next]_vars
  PROVE  BornInv'
<1>1. born \subseteq born'
  BY PostAfter
<1>2. Existing' \subseteq born'
  <2> SUFFICES ASSUME NEW p \in PostIds, posts'[p] # None PROVE p \in born'
    BY DEF Existing
  <2>1. posts[p] # None => p \in born
    BY DEF BornInv, Existing
  <2>2. (\E c \in Clients : At(c, "loaded") /\ call[c].id = p) => p \in born
    BY DEF BornInv
  <2> QED
    BY <1>1, <2>1, <2>2, PostAfter
<1>3. ASSUME NEW d \in Clients
      PROVE  /\ At(d, "seen")' => call'[d].saw.id \in born'
             /\ At(d, "loaded")' => call'[d].id \in born' /\ (call'[d].saw # None => call'[d].saw.id \in born')
  <2> DEFINE Goal == /\ At(d, "seen")' => call'[d].saw.id \in born'
                     /\ At(d, "loaded")' => /\ call'[d].id \in born'
                                            /\ call'[d].saw # None => call'[d].saw.id \in born'
  <2> SUFFICES Goal
    OBVIOUS
  <2>1. CASE call'[d] = call[d]
    BY <1>1, <2>1 DEF At, BornInv
  <2>2. CASE call'[d] = None
    BY <2>2 DEF At
  <2>3. CASE call'[d] # None /\ call'[d].pc \in {"reserved", "created", "stored"}
    BY <2>3 DEF At
  <2>4. ASSUME NEW p \in PostIds, posts[p] # None,
               call'[d] = [pc |-> "seen", saw |-> [id |-> p, row |-> posts[p]]]
        PROVE  Goal
    BY <1>1, <2>4 DEF At, BornInv, Existing
  <2>5. ASSUME NEW p \in PostIds, NEW op \in Ops, NEW saw \in Sight \cup {None}, NEW retried \in BOOLEAN,
               posts[p] # None,
               call'[d] = [pc |-> "loaded", op |-> op, id |-> p, row |-> posts[p], saw |-> saw,
                           retried |-> retried],
               saw # None => At(d, "seen") /\ saw = call[d].saw
        PROVE  Goal
    <3>1. call'[d].pc = "loaded" /\ call'[d].id = p /\ call'[d].saw = saw
      BY <2>5
    <3>2. p \in born'
      BY <1>1, <2>5 DEF BornInv, Existing
    <3>3. saw # None => saw.id \in born'
      BY <1>1, <2>5 DEF BornInv
    <3> QED
      BY <3>1, <3>2, <3>3 DEF At
  <2> HIDE DEF Goal
  <2>6. ASSUME Sees(d), posts' = posts PROVE Goal
    BY <2>4, <2>6 DEF Sees
  <2>7. ASSUME Loading(d), posts' = posts PROVE Goal
    BY <2>5, <2>7 DEF Loading
  <2> QED
    BY <2>1, <2>2, <2>3, <2>6, <2>7, CallAfter
<1> QED
  BY <1>2, <1>3 DEF BornInv

\* What a call holds of a post after a step it held before, or is the row that
\* is stored.
LEMMA CopyAfter ==
  ASSUME TypeOK, [Next]_vars, NEW d \in Clients, NEW p \in PostIds, NEW row,
         Saw(d, p, row)' \/ HasLoaded(d, p, row)'
  PROVE  \/ Saw(d, p, row) \/ HasLoaded(d, p, row)
         \/ posts[p] # None /\ posts' = posts /\ row = posts[p]
<1> DEFINE Goal == \/ Saw(d, p, row) \/ HasLoaded(d, p, row)
                   \/ posts[p] # None /\ posts' = posts /\ row = posts[p]
<1> SUFFICES Goal
  OBVIOUS
<1>0. At(d, "seen")' \/ At(d, "loaded")'
  BY DEF Saw, HasLoaded
<1>1. CASE call'[d] = call[d]
  BY <1>1 DEF Saw, HasLoaded, At
<1>2. CASE call'[d] = None \/ (call'[d] # None /\ call'[d].pc \in {"reserved", "created", "stored"})
  BY <1>0, <1>2 DEF At
<1>3. ASSUME NEW q \in PostIds, posts[q] # None, posts' = posts,
             call'[d] = [pc |-> "seen", saw |-> [id |-> q, row |-> posts[q]]]
      PROVE  Goal
  BY <1>3 DEF Saw, HasLoaded, At
<1>4. ASSUME NEW q \in PostIds, NEW op \in Ops, NEW saw \in Sight \cup {None}, NEW retried \in BOOLEAN,
             posts[q] # None, posts' = posts,
             call'[d] = [pc |-> "loaded", op |-> op, id |-> q, row |-> posts[q], saw |-> saw,
                         retried |-> retried],
             saw # None => At(d, "seen") /\ saw = call[d].saw
      PROVE  Goal
  <2>1. call'[d].pc = "loaded" /\ call'[d].id = q /\ call'[d].saw = saw /\ call'[d].row = posts[q]
    BY <1>4
  <2>2. CASE HasLoaded(d, p, row)'
    BY <1>4, <2>1, <2>2 DEF HasLoaded
  <2>3. CASE Saw(d, p, row)'
    BY <1>4, <2>1, <2>3 DEF Saw
  <2> QED
    BY <2>2, <2>3
<1> HIDE DEF Goal
<1>5. ASSUME Sees(d), posts' = posts PROVE Goal
  BY <1>3, <1>5 DEF Sees
<1>6. ASSUME Loading(d), posts' = posts PROVE Goal
  BY <1>4, <1>6 DEF Loading
<1> QED
  BY <1>1, <1>2, <1>5, <1>6, CallAfter

LEMMA CopyStep ==
  ASSUME TypeOK, BornInv, CopyInv, [Next]_vars
  PROVE  CopyInv'
<1> SUFFICES ASSUME NEW d \in Clients, NEW p \in PostIds, posts'[p] # None, p \notin revived',
                    NEW row \in Post, Saw(d, p, row)' \/ HasLoaded(d, p, row)'
             PROVE  /\ row.version <= posts'[p].version
                    /\ row.version = posts'[p].version => row = posts'[p]
  BY DEF CopyInv, Existing
<1>1. row.version \in Nat
  BY PostsAssumption DEF Post
<1>2. p \notin revived
  BY PostAfter
<1>3. CASE posts[p] # None /\ posts' = posts /\ row = posts[p]
  BY <1>1, <1>3
<1>4. CASE Saw(d, p, row) \/ HasLoaded(d, p, row)
  <2>1. p \in born
    BY <1>4 DEF Saw, HasLoaded, BornInv
  <2>2. CASE posts[p] = None
    BY <2>1, <2>2, PostAfter
  <2>3. CASE posts[p] # None
    <3>1. posts[p].version \in Nat
      BY <2>3, PostsAssumption DEF TypeOK, Post
    <3>2. row.version <= posts[p].version /\ (row.version = posts[p].version => row = posts[p])
      BY <1>2, <1>4, <2>3 DEF CopyInv, Existing
    <3>3. posts'[p] = posts[p] \/ posts'[p].version = posts[p].version + 1
      BY <2>1, PostAfter
    <3> QED
      BY <1>1, <3>1, <3>2, <3>3
  <2> QED
    BY <2>2, <2>3
<1> QED
  BY <1>3, <1>4, CopyAfter

LEMMA LoadStep ==
  ASSUME TypeOK, CopyInv, LoadInv, [Next]_vars
  PROVE  LoadInv'
<1> SUFFICES ASSUME NEW d \in Clients, At(d, "loaded")'
             PROVE  /\ (call'[d].saw # None /\ call'[d].saw.id = call'[d].id /\ call'[d].id \notin revived')
                         => call'[d].saw.row.version <= call'[d].row.version
                    /\ Transits(call'[d].op) => call'[d].row.status # Target(call'[d].op)
  BY DEF LoadInv, Transits, Target
<1> DEFINE Goal == /\ (call'[d].saw # None /\ call'[d].saw.id = call'[d].id /\ call'[d].id \notin revived')
                         => call'[d].saw.row.version <= call'[d].row.version
                   /\ Transits(call'[d].op) => call'[d].row.status # Target(call'[d].op)
<1>0. revived \subseteq revived'
  BY PostAfter
<1>1. CASE call'[d] = call[d]
  <2>1. At(d, "loaded")
    BY <1>1 DEF At
  <2> QED
    BY <1>0, <1>1, <2>1 DEF LoadInv
<1>2. CASE call'[d] = None \/ (call'[d] # None /\ call'[d].pc \in {"reserved", "created", "stored"})
  BY <1>2 DEF At
<1>3. ASSUME NEW q \in PostIds, call'[d] = [pc |-> "seen", saw |-> [id |-> q, row |-> posts[q]]]
      PROVE  Goal
  BY <1>3 DEF At
<1>4. ASSUME NEW q \in PostIds, NEW op \in Ops, NEW saw \in Sight \cup {None}, NEW retried \in BOOLEAN,
             posts[q] # None,
             call'[d] = [pc |-> "loaded", op |-> op, id |-> q, row |-> posts[q], saw |-> saw,
                         retried |-> retried],
             Proceeds(op, q, saw),
             saw # None => At(d, "seen") /\ saw = call[d].saw
      PROVE  Goal
  <2>1. /\ call'[d].id = q /\ call'[d].saw = saw /\ call'[d].row = posts[q] /\ call'[d].op = op
    BY <1>4
  <2>2. Transits(op) => posts[q].status # Target(op)
    BY <1>4 DEF Proceeds
  <2>3. ASSUME saw # None, saw.id = q, q \notin revived PROVE saw.row.version <= posts[q].version
    <3>1. Saw(d, q, saw.row) /\ saw.row \in Post
      BY <1>4, <2>3 DEF Saw, Sight
    <3> QED
      BY <1>4, <2>3, <3>1 DEF CopyInv, Existing
  <2> QED
    BY <1>0, <2>1, <2>2, <2>3
<1>5. ASSUME Sees(d), posts' = posts PROVE Goal
  BY <1>3, <1>5 DEF Sees
<1>6. ASSUME Loading(d), posts' = posts PROVE Goal
  BY <1>4, <1>6 DEF Loading
<1> QED
  BY <1>1, <1>2, <1>5, <1>6, CallAfter

\* A conditional write that goes through on a post never brought back finds the
\* very row its client saw, and the copy it loaded is that row too.
LEMMA GuardedWrite ==
  ASSUME TypeOK, CopyInv, LoadInv, NEW c \in Clients, At(c, "loaded"),
         posts[call[c].id] # None, ~Stale(c), call[c].id \notin revived
  PROVE  /\ (call[c].saw # None /\ call[c].saw.id = call[c].id)
              => posts[call[c].id] = call[c].saw.row /\ posts[call[c].id] = call[c].row
         /\ (call[c].saw = None /\ call[c].op # "edit") => posts[call[c].id] = call[c].row
<1> DEFINE p == call[c].id
           saw == call[c].saw
           row == call[c].row
<1>1. /\ p \in PostIds /\ row \in Post /\ row.version \in 1..MaxVersion
      /\ saw # None => saw.row \in Post /\ saw.row.version \in 1..MaxVersion
  BY LoadedTypes
<1>2. posts[p].version \in 1..MaxVersion
  BY <1>1 DEF TypeOK, Post
<1>3. Guard(c) \in {0, posts[p].version}
  BY DEF Stale
<1>4. row.version <= posts[p].version /\ (row.version = posts[p].version => row = posts[p])
  <2>1. HasLoaded(c, p, row)
    BY DEF HasLoaded
  <2> QED
    BY <1>1, <2>1 DEF CopyInv, Existing
<1>5. ASSUME saw # None, saw.id = p PROVE posts[p] = saw.row /\ posts[p] = row
  <2>1. saw.row.version = posts[p].version
    BY <1>1, <1>3, <1>5, PostsAssumption DEF Guard
  <2>2. Saw(c, p, saw.row)
    BY <1>5 DEF Saw
  <2>3. saw.row = posts[p]
    BY <1>1, <1>5, <2>1, <2>2 DEF CopyInv, Existing
  <2>4. saw.row.version <= row.version
    BY <1>5 DEF LoadInv
  <2>5. row.version = posts[p].version
    BY <1>1, <1>2, <1>4, <2>1, <2>4, PostsAssumption
  <2> QED
    BY <1>4, <2>3, <2>5
<1>6. ASSUME saw = None, call[c].op # "edit" PROVE posts[p] = row
  BY <1>1, <1>3, <1>4, <1>6, PostsAssumption DEF Guard
<1> QED
  BY <1>5, <1>6

LEMMA HistoryInit ==
  ASSUME Init
  PROVE  BornInv /\ CopyInv /\ LoadInv
  BY DEF Init, BornInv, CopyInv, LoadInv, Existing, At, Saw, HasLoaded

\* What the calls hold of the posts, with what the two action properties need.
HistoryInv == BornInv /\ CopyInv /\ LoadInv

LEMMA HistoryCorrect == Spec => [](TypeOK /\ HistoryInv)
<1>1. Init => HistoryInv
  BY HistoryInit DEF HistoryInv
<1>2. (TypeOK /\ Unique(idem)) /\ HistoryInv /\ [Next]_vars => HistoryInv'
  BY BornStep, CopyStep, LoadStep DEF HistoryInv
<1> QED
  BY <1>1, <1>2, TypeCorrect, PTL DEF Spec

\* The step that changes a post that exists: a save or the deletion by a call
\* that has loaded it, whose guard holds, and which ends.
LEMMA ChangeOfPost ==
  ASSUME TypeOK, BornInv, Next, NEW p \in Existing, posts'[p] # posts[p]
  PROVE  \E c \in Clients :
           /\ At(c, "loaded") /\ call[c].id = p /\ ~Stale(c) /\ Goes(c, None)
           /\ (\E slug \in Slugs : Edit(c, slug)) \/ Transition(c) \/ Delete(c)
<1> DEFINE Goal == \E c \in Clients :
                     /\ At(c, "loaded") /\ call[c].id = p /\ ~Stale(c) /\ Goes(c, None)
                     /\ (\E slug \in Slugs : Edit(c, slug)) \/ Transition(c) \/ Delete(c)
<1> SUFFICES Goal
  OBVIOUS
<1>0. p \in PostIds /\ posts[p] # None /\ p \in born
  BY DEF Existing, BornInv
<1>1. ASSUME NEW c \in Clients, NEW slug \in Slugs, Edit(c, slug) PROVE Goal
  <2>1. At(c, "loaded") /\ Goes(c, None)
    BY <1>1 DEF Edit
  <2>2. ~Refused(c, slug) /\ Save(c, [call[c].row EXCEPT !.slug = slug])
    BY <1>1 DEF Edit
  <2>3. call[c].id = p
    BY <1>0, <2>2 DEF Save, TypeOK
  <2> QED
    BY <1>1, <2>1, <2>2, <2>3 DEF Refused
<1>2. ASSUME NEW c \in Clients, Transition(c) PROVE Goal
  <2>1. At(c, "loaded") /\ Goes(c, None) /\ ~Stale(c)
    BY <1>2 DEF Transition, Refused
  <2>2. Save(c, [call[c].row EXCEPT !.status = Target(call[c].op)])
    BY <1>2 DEF Transition
  <2>3. call[c].id = p
    BY <1>0, <2>2 DEF Save, TypeOK
  <2> QED
    BY <1>2, <2>1, <2>3
<1>3. ASSUME NEW c \in Clients, Delete(c) PROVE Goal
  <2>1. At(c, "loaded") /\ Goes(c, None) /\ ~Stale(c)
    BY <1>3 DEF Delete
  <2>2. call[c].id = p
    BY <1>0, <1>3 DEF Delete, TypeOK
  <2> QED
    BY <1>3, <2>1, <2>2
<1>4. ASSUME NEW q \in PostIds, NEW slug, NewPost(q, slug) PROVE FALSE
  BY <1>0, <1>4 DEF NewPost, TypeOK
<1> HIDE DEF Goal
<1>5. ASSUME NEW c \in Clients, Write(c) PROVE Goal
  BY <1>1, <1>2, <1>3, <1>5 DEF Write, See, LoadSeen, LoadAny, Refuse
<1>6. ASSUME NEW c \in Clients, Make(c) PROVE FALSE
  BY <1>4, <1>6 DEF Make, Reserve, CreateKeyed, CreateUnkeyed, CreateFails, StoreKey, Release
<1> QED
  BY <1>5, <1>6 DEF Next, Restart

\* A conditional write lands only on the very row its client saw, however many
\* edits, transitions, deletions and revivals by other clients come between:
\* no update is lost, on any post whose versions were not started again
\* (service.go, dataplane/blog.go writePost; the guard of the upsert).
THEOREM UpdatesAreNotLost == Spec => NoLostUpdate
<1> DEFINE Keeps == \A c \in Clients, p \in Existing \ revived :
             (At(c, "loaded") /\ call[c].saw # None /\ call[c].id = p /\ call[c].saw.id = p
                /\ call'[c] = None /\ posts'[p] # posts[p])
               => posts[p] = call[c].saw.row
<1>1. TypeOK /\ HistoryInv /\ [Next]_vars => [Keeps]_vars
  <2> SUFFICES ASSUME TypeOK, HistoryInv, Next, NEW c \in Clients, NEW p \in Existing \ revived,
                      At(c, "loaded"), call[c].saw # None, call[c].id = p, call[c].saw.id = p,
                      call'[c] = None, posts'[p] # posts[p]
               PROVE  posts[p] = call[c].saw.row
    OBVIOUS
  <2>1. PICK d \in Clients : At(d, "loaded") /\ call[d].id = p /\ ~Stale(d) /\ Goes(d, None)
    BY ChangeOfPost DEF HistoryInv
  <2>2. d = c
    BY <2>1, GoesElsewhere DEF At
  <2>3. posts[p] # None
    BY DEF Existing
  <2> QED
    BY <2>1, <2>2, <2>3, GuardedWrite DEF HistoryInv
<1> QED
  BY <1>1, HistoryCorrect, PTL DEF Spec, NoLostUpdate

\* An event about a post is put in the outbox by a transition or a delete of a
\* call that has loaded the post.
LEMMA EventOfPost ==
  ASSUME TypeOK, Next, event' # None
  PROVE  \E c \in Clients : /\ At(c, "loaded")
                            /\ Transition(c) \/ Delete(c)
                            /\ event'.post = call[c].id
<1>1. \A c \in Clients : Transition(c) => At(c, "loaded") /\ event'.post = call[c].id
  BY DEF Transition
<1>2. \A c \in Clients : Delete(c) => At(c, "loaded") /\ event'.post = call[c].id
  BY DEF Delete
<1>3. \A c \in Clients : Write(c) => Transition(c) \/ Delete(c)
  BY DEF Write, See, LoadSeen, LoadAny, Edit, Refuse
<1>4. \A c \in Clients : ~Make(c)
  BY DEF Make, Reserve, CreateKeyed, CreateUnkeyed, NewPost, CreateFails, StoreKey, Release
<1> QED
  BY <1>1, <1>2, <1>3, <1>4 DEF Next, Restart

\* A write that goes through and is none of the exceptions has loaded the row
\* it replaces.
LEMMA WritesWhatItLoaded ==
  ASSUME TypeOK, HistoryInv, NEW c \in Clients, At(c, "loaded"), NEW p \in Existing, call[c].id = p,
         ~Stale(c), Goes(c, None), ~Overwrites(p)
  PROVE  call[c].row = posts[p]
<1>1. call'[c] = None
  BY GoesElsewhere
<1>2. posts[p] # None
  BY DEF Existing
<1>3. CASE p \in revived
  BY <1>1, <1>3 DEF Overwrites
<1>4. CASE p \notin revived
  BY <1>1, <1>2, <1>4, GuardedWrite DEF Overwrites, HistoryInv
<1> QED
  BY <1>3, <1>4

\* The events tell every change of status and every deletion, in the step that
\* makes it and with the version and the status stored, and tell nothing else:
\* for any number of writers, and but for the writes Overwrites names
\* (service.go transition, Delete).
THEOREM ChangesAreTold == Spec => EventsTellChanges
<1> DEFINE Tells(p) ==
       LET told == event' # None /\ event'.post = p
           changed == Shows(posts'[p]) # Shows(posts[p])
       IN \/ Overwrites(p)
          \/ ~told /\ ~changed
          \/ /\ told /\ changed
             /\ event'.shows = Shows(posts'[p])
             /\ IF posts'[p] = None THEN event'.wasPublished = (posts[p].status = "published")
                ELSE event'.version = posts'[p].version
<1>1. ASSUME TypeOK, HistoryInv, Next, NEW p \in Existing PROVE Tells(p)
  <2> SUFFICES ASSUME ~Overwrites(p) PROVE Tells(p)
    OBVIOUS
  <2>1. p \in PostIds /\ posts[p] # None /\ posts[p] \in Post /\ Shows(posts[p]) = posts[p].status
    BY <1>1 DEF Existing, TypeOK, Shows
  <2>2. ASSUME NEW c \in Clients, At(c, "loaded"), call[c].id = p, NEW slug \in Slugs, Edit(c, slug)
        PROVE  Tells(p)
    <3>1. event' = None
      BY <2>2 DEF Edit
    <3>2. CASE posts'[p] = posts[p]
      BY <3>1, <3>2
    <3>3. CASE posts'[p] # posts[p]
      <4>1. /\ ~Stale(c) /\ Goes(c, None)
            /\ Save(c, [call[c].row EXCEPT !.slug = slug])
        BY <2>2, <3>3 DEF Edit, Refused
      <4>2. call[c].row = posts[p]
        BY <1>1, <2>2, <4>1, WritesWhatItLoaded
      <4>3. /\ [call[c].row EXCEPT !.slug = slug] \in Post
            /\ [call[c].row EXCEPT !.slug = slug].status = call[c].row.status
        BY <2>1, <4>2 DEF Post
      <4>4. posts'[p] \in Post /\ posts'[p].status = call[c].row.status
        BY <1>1, <2>2, <4>1, <4>3, SaveType
      <4>5. posts'[p] # None
        BY <4>4, NoneAssumption
      <4> QED
        BY <2>1, <3>1, <4>2, <4>4, <4>5 DEF Shows
    <3> QED
      BY <3>2, <3>3
  <2>3. ASSUME NEW c \in Clients, At(c, "loaded"), call[c].id = p, Transition(c) PROVE Tells(p)
    <3> DEFINE t == Target(call[c].op)
    <3>1. /\ ~Stale(c) /\ Goes(c, None) /\ Transits(call[c].op)
          /\ Save(c, [call[c].row EXCEPT !.status = t])
          /\ event' = [post |-> p, shows |-> t, version |-> call[c].row.version + 1]
      BY <2>3 DEF Transition, Refused
    <3>2. call[c].row = posts[p]
      BY <1>1, <2>3, <3>1, WritesWhatItLoaded
    <3>3. t \in Statuses
      BY DEF Target, Statuses
    <3>4. /\ [call[c].row EXCEPT !.status = t] \in Post
          /\ [call[c].row EXCEPT !.status = t].status = t
      BY <2>1, <3>2, <3>3 DEF Post
    <3>5. posts'[p] \in Post /\ posts'[p].status = t /\ posts'[p].version = posts[p].version + 1
      BY <1>1, <2>1, <2>3, <3>1, <3>4, SaveType
    <3>6. posts'[p] # None
      BY <3>5, NoneAssumption
    <3>7. posts[p].status # t
      BY <1>1, <2>3, <3>1, <3>2 DEF HistoryInv, LoadInv
    <3>8. event' # None
      <4>1. call[c].row.version + 1 \in 1..MaxVersion + 1
        BY <2>1, <3>2, PostsAssumption DEF Post
      <4>2. event' \in Event
        BY <2>1, <3>1, <3>3, <4>1 DEF Event
      <4> QED
        BY <4>2, NoneAssumption
    <3> QED
      BY <2>1, <3>1, <3>2, <3>5, <3>6, <3>7, <3>8 DEF Shows
  <2>4. ASSUME NEW c \in Clients, At(c, "loaded"), call[c].id = p, Delete(c) PROVE Tells(p)
    <3>1. /\ ~Stale(c) /\ Goes(c, None) /\ posts'[p] = None
          /\ event' = [post |-> p, shows |-> "deleted", wasPublished |-> call[c].row.status = "published"]
      BY <1>1, <2>1, <2>4 DEF Delete, TypeOK
    <3>2. call[c].row = posts[p]
      BY <1>1, <2>4, <3>1, WritesWhatItLoaded
    <3>3. event' \in Event
      BY <2>1, <3>1 DEF Event
    <3>4. event' # None
      BY <3>3, NoneAssumption
    <3>5. posts[p].status # "deleted"
      BY <2>1 DEF Post, Statuses
    <3> QED
      BY <2>1, <3>1, <3>2, <3>4, <3>5 DEF Shows
  <2>5. CASE event' # None /\ event'.post = p
    <3>1. PICK c \in Clients : At(c, "loaded") /\ (Transition(c) \/ Delete(c)) /\ event'.post = call[c].id
      BY <1>1, <2>5, EventOfPost DEF Transition, Delete
    <3> QED
      BY <2>3, <2>4, <2>5, <3>1
  <2>6. CASE posts'[p] # posts[p]
    <3>1. PICK c \in Clients :
            /\ At(c, "loaded") /\ call[c].id = p
            /\ (\E slug \in Slugs : Edit(c, slug)) \/ Transition(c) \/ Delete(c)
      BY <1>1, <2>6, ChangeOfPost DEF HistoryInv
    <3> QED
      BY <2>2, <2>3, <2>4, <3>1
  <2>7. CASE ~(event' # None /\ event'.post = p) /\ posts'[p] = posts[p]
    BY <2>7
  <2> QED
    BY <2>5, <2>6, <2>7
<1>2. TypeOK /\ HistoryInv /\ [Next]_vars => [\A p \in Existing : Tells(p)]_vars
  BY <1>1
<1> QED
  BY <1>2, HistoryCorrect, PTL DEF Spec, EventsTellChanges
=============================================================================
