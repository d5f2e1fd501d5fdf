----------------------------- MODULE UndoProofs -----------------------------
(***************************************************************************)
(* The undo database keeps its promise for every number of indexes, ids,   *)
(* objects and sessions: proofs about UndoHistory.                         *)
(***************************************************************************)
EXTENDS UndoHistory, SequenceTheorems, TLAPS

-----------------------------------------------------------------------------
(* What the four ways to change an undo state do to the difference it      *)
(* describes.                                                              *)

\* The state begun by start_undo_session is a well-typed, empty difference.
LEMMA EmptyDiff ==
    /\ EmptyState \in UndoState
    /\ \A d \in DBs : Diff(EmptyState, d, d)
<1>1. EmptyState \in UndoState
  BY DEF EmptyState, UndoState
<1>2. ASSUME NEW d \in DBs PROVE Diff(EmptyState, d, d)
  BY DEF EmptyState, Diff, ObjDiff, NextDiff, DBs, Ids, Insts
<1> QED  BY <1>1, <1>2

\* on_create extends the difference by the object that takes the next id.
LEMMA CreateDiff ==
    ASSUME NEW u \in UndoState, NEW b \in DBs, NEW a \in DBs,
           Diff(u, b, a), WellFormed(a), WellFormed(b),
           NEW t \in Types, a.nxt[t] \in Insts, NEW o \in Object
    PROVE  LET id == <<t, a.nxt[t]>>
               c  == [obj |-> [a.obj EXCEPT ![id] = o],
                      nxt |-> [a.nxt EXCEPT ![t] = @ + 1]]
           IN  /\ on_create(u, id) \in UndoState
               /\ c \in DBs
               /\ Diff(on_create(u, id), b, c)
<1> DEFINE id == <<t, a.nxt[t]>>
           c  == [obj |-> [a.obj EXCEPT ![id] = o],
                  nxt |-> [a.nxt EXCEPT ![t] = @ + 1]]
           v  == on_create(u, id)
<1>1. id \in Ids /\ id[1] = t /\ id[2] = a.nxt[t] /\ o # NoObj /\ a.nxt[t] \in Nat
  BY ConstAssumption DEF Ids, DBs
<1>2. c \in DBs
  BY <1>1 DEF DBs
<1>3. v \in UndoState
  BY <1>1 DEF on_create, UndoState
<1>4. /\ v.old_values = u.old_values
      /\ v.removed = u.removed
      /\ v.new_ids = u.new_ids \cup {id}
      /\ v.old_index_next_ids = [s \in Types |-> IF s = id[1] /\ u.old_index_next_ids[s] = NoId
                                                 THEN id[2] ELSE u.old_index_next_ids[s]]
  BY DEF on_create, UndoState
<1>5. a.obj[id] = NoObj /\ b.obj[id] = NoObj /\ b.nxt[t] <= a.nxt[t]
  BY <1>1 DEF WellFormed, Diff, NextDiff, DBs
<1>6. ASSUME NEW i \in Ids PROVE ObjDiff(v, i, b, c)
  <2>1. ObjDiff(u, i, b, a)
    BY DEF Diff
  <2>2. CASE i = id
    <3>1. c.obj[i] = o
      BY <1>1, <2>2 DEF DBs
    <3> QED  BY <1>1, <1>4, <1>5, <2>1, <2>2, <3>1 DEF ObjDiff, UndoState
  <2>3. CASE i # id
    <3>1. c.obj[i] = a.obj[i]
      BY <1>1, <2>3 DEF DBs
    <3> QED  BY <1>4, <2>1, <2>3, <3>1 DEF ObjDiff
  <2> QED  BY <2>2, <2>3
<1>7. ASSUME NEW s \in Types PROVE NextDiff(v, s, b, c)
  <2>1. NextDiff(u, s, b, a)
    BY DEF Diff
  <2> QED  BY <1>1, <1>4, <2>1, ConstAssumption DEF NextDiff, DBs, UndoState
<1> QED  BY <1>2, <1>3, <1>6, <1>7 DEF Diff

\* on_modify keeps the first value it sees and nothing for a new object.
LEMMA ModifyDiff ==
    ASSUME NEW u \in UndoState, NEW b \in DBs, NEW a \in DBs,
           Diff(u, b, a), NEW id \in Ids, a.obj[id] # NoObj,
           NEW o \in Object, o.key = a.obj[id].key
    PROVE  LET c == [obj |-> [a.obj EXCEPT ![id] = o], nxt |-> a.nxt]
           IN  /\ on_modify(u, id, a.obj[id]) \in UndoState
               /\ c \in DBs
               /\ Diff(on_modify(u, id, a.obj[id]), b, c)
<1> DEFINE c == [obj |-> [a.obj EXCEPT ![id] = o], nxt |-> a.nxt]
           v == on_modify(u, id, a.obj[id])
<1>1. o # NoObj /\ c \in DBs /\ c.obj[id] = o
  BY ConstAssumption DEF DBs
<1>2. v \in UndoState
  BY DEF on_modify, UndoState, DBs
<1>3. /\ v.new_ids = u.new_ids
      /\ v.removed = u.removed
      /\ v.old_index_next_ids = u.old_index_next_ids
      /\ v.old_values = IF id \in u.new_ids \/ u.old_values[id] # NoObj
                        THEN u.old_values ELSE [u.old_values EXCEPT ![id] = a.obj[id]]
  BY DEF on_modify, UndoState
<1>4. ASSUME NEW i \in Ids PROVE ObjDiff(v, i, b, c)
  <2>1. ObjDiff(u, i, b, a)
    BY DEF Diff
  <2>2. CASE i = id
    BY <1>1, <1>3, <2>1, <2>2 DEF ObjDiff, UndoState
  <2>3. CASE i # id
    <3>1. c.obj[i] = a.obj[i]
      BY <2>3 DEF DBs
    <3>2. v.old_values[i] = u.old_values[i]
      BY <1>3, <2>3 DEF UndoState
    <3> QED  BY <1>3, <2>1, <3>1, <3>2 DEF ObjDiff
  <2> QED  BY <2>2, <2>3
<1>5. ASSUME NEW s \in Types PROVE NextDiff(v, s, b, c)
  BY <1>3 DEF Diff, NextDiff
<1> QED  BY <1>1, <1>2, <1>4, <1>5 DEF Diff

\* on_remove forgets a new object and keeps the oldest value of any other.
LEMMA RemoveDiff ==
    ASSUME NEW u \in UndoState, NEW b \in DBs, NEW a \in DBs,
           Diff(u, b, a), NEW id \in Ids, a.obj[id] # NoObj
    PROVE  LET c == [obj |-> [a.obj EXCEPT ![id] = NoObj], nxt |-> a.nxt]
           IN  /\ on_remove(u, id, a.obj[id]) \in UndoState
               /\ c \in DBs
               /\ Diff(on_remove(u, id, a.obj[id]), b, c)
<1> DEFINE c == [obj |-> [a.obj EXCEPT ![id] = NoObj], nxt |-> a.nxt]
           v == on_remove(u, id, a.obj[id])
<1>1. c \in DBs /\ c.obj[id] = NoObj
  BY DEF DBs
<1>2. v \in UndoState
  BY DEF on_remove, UndoState, DBs
<1>3. ObjDiff(u, id, b, a)
  BY DEF Diff
<1>4. v.old_index_next_ids = u.old_index_next_ids
  BY DEF on_remove, UndoState
<1>5. CASE id \in u.new_ids
  <2>1. /\ v.new_ids = u.new_ids \ {id}
        /\ v.old_values = u.old_values
        /\ v.removed = u.removed
    BY <1>5 DEF on_remove, UndoState
  <2>2. ASSUME NEW i \in Ids PROVE ObjDiff(v, i, b, c)
    <3>1. ObjDiff(u, i, b, a)
      BY DEF Diff
    <3>2. CASE i = id
      BY <1>1, <1>5, <2>1, <3>1, <3>2 DEF ObjDiff
    <3>3. CASE i # id
      <4>1. c.obj[i] = a.obj[i]
        BY <3>3 DEF DBs
      <4> QED  BY <2>1, <3>1, <3>3, <4>1 DEF ObjDiff
    <3> QED  BY <3>2, <3>3
  <2> QED  BY <1>1, <1>2, <1>4, <2>2 DEF Diff, NextDiff
<1>6. CASE id \notin u.new_ids /\ u.old_values[id] # NoObj
  <2>1. /\ v.new_ids = u.new_ids
        /\ v.old_values = [u.old_values EXCEPT ![id] = NoObj]
        /\ v.removed = [u.removed EXCEPT ![id] = u.old_values[id]]
    BY <1>6 DEF on_remove, UndoState
  <2>2. ASSUME NEW i \in Ids PROVE ObjDiff(v, i, b, c)
    <3>1. ObjDiff(u, i, b, a)
      BY DEF Diff
    <3>2. CASE i = id
      BY <1>1, <1>6, <2>1, <3>1, <3>2 DEF ObjDiff, UndoState
    <3>3. CASE i # id
      <4>1. c.obj[i] = a.obj[i] /\ v.old_values[i] = u.old_values[i] /\ v.removed[i] = u.removed[i]
        BY <2>1, <3>3 DEF DBs, UndoState
      <4> QED  BY <2>1, <3>1, <4>1 DEF ObjDiff
    <3> QED  BY <3>2, <3>3
  <2> QED  BY <1>1, <1>2, <1>4, <2>2 DEF Diff, NextDiff
<1>7. CASE id \notin u.new_ids /\ u.old_values[id] = NoObj
  <2>1. u.removed[id] = NoObj /\ b.obj[id] = a.obj[id]
    BY <1>3, <1>7 DEF ObjDiff
  <2>2. /\ v.new_ids = u.new_ids
        /\ v.old_values = u.old_values
        /\ v.removed = [u.removed EXCEPT ![id] = a.obj[id]]
    BY <1>7, <2>1 DEF on_remove, UndoState
  <2>3. ASSUME NEW i \in Ids PROVE ObjDiff(v, i, b, c)
    <3>1. ObjDiff(u, i, b, a)
      BY DEF Diff
    <3>2. CASE i = id
      BY <1>1, <1>7, <2>1, <2>2, <3>1, <3>2 DEF ObjDiff, UndoState
    <3>3. CASE i # id
      <4>1. c.obj[i] = a.obj[i] /\ v.removed[i] = u.removed[i]
        BY <2>2, <3>3 DEF DBs, UndoState
      <4> QED  BY <2>2, <3>1, <4>1 DEF ObjDiff
    <3> QED  BY <3>2, <3>3
  <2> QED  BY <1>1, <1>2, <1>4, <2>3 DEF Diff, NextDiff
<1> QED  BY <1>5, <1>6, <1>7

\* merge composes two differences into one, and its N/A cells are empty.
LEMMA MergeDiff ==
    ASSUME NEW p \in UndoState, NEW q \in UndoState,
           NEW x \in DBs, NEW y \in DBs, NEW z \in DBs,
           Diff(p, x, y), Diff(q, y, z), WellFormed(x)
    PROVE  /\ MergeStates(p, q) \in UndoState
           /\ Diff(MergeStates(p, q), x, z)
           /\ \A i \in Ids :
                /\ i \in q.new_ids =>
                      i \notin p.new_ids /\ p.old_values[i] = NoObj /\ p.removed[i] = NoObj
                /\ p.removed[i] # NoObj => q.old_values[i] = NoObj /\ q.removed[i] = NoObj
<1> DEFINE upd == [i \in Ids |-> IF q.old_values[i] # NoObj /\ i \notin p.new_ids
                                    /\ p.old_values[i] = NoObj
                                 THEN q.old_values[i] ELSE p.old_values[i]]
           new == p.new_ids \cup q.new_ids
           del == {i \in Ids : q.removed[i] # NoObj}
           m   == MergeStates(p, q)
<1>1. /\ m.old_values = [i \in Ids |-> IF i \in del \ new THEN NoObj ELSE upd[i]]
      /\ m.old_index_next_ids = MergedNext(p, q)
      /\ m.new_ids = new \ del
      /\ m.removed = [i \in Ids |-> IF i \notin del \ new THEN p.removed[i]
                                    ELSE IF upd[i] # NoObj THEN upd[i]
                                    ELSE q.removed[i]]
  BY DEF MergeStates
<1>2. m \in UndoState
  <2>1. upd \in [Ids -> Object \cup {NoObj}]
    BY DEF UndoState
  <2>2. MergedNext(p, q) \in [Types -> Nat \cup {NoId}]
    BY DEF UndoState, MergedNext
  <2>3. new \ del \in SUBSET Ids
    BY DEF UndoState
  <2>4. m.old_values \in [Ids -> Object \cup {NoObj}]
    BY <1>1, <2>1
  <2>5. m.removed \in [Ids -> Object \cup {NoObj}]
    BY <1>1, <2>1 DEF UndoState
  <2> HIDE DEF upd, new, del
  <2> QED  BY <1>1, <2>2, <2>3, <2>4, <2>5 DEF UndoState, MergeStates, upd, new, del
<1>3. ASSUME NEW i \in Ids
      PROVE  /\ ObjDiff(m, i, x, z)
             /\ i \in q.new_ids =>
                   i \notin p.new_ids /\ p.old_values[i] = NoObj /\ p.removed[i] = NoObj
             /\ p.removed[i] # NoObj => q.old_values[i] = NoObj /\ q.removed[i] = NoObj
  <2>1. ObjDiff(p, i, x, y) /\ ObjDiff(q, i, y, z)
    BY DEF Diff
  <2>2. /\ x.obj[i] # NoObj => i[2] < x.nxt[i[1]]
        /\ x.nxt[i[1]] <= y.nxt[i[1]]
        /\ x.nxt[i[1]] \in Nat /\ y.nxt[i[1]] \in Nat /\ i[2] \in Nat
    BY ConstAssumption DEF WellFormed, Diff, NextDiff, Ids, Insts, DBs
  <2>3. /\ i \in q.new_ids =>
             i \notin p.new_ids /\ p.old_values[i] = NoObj /\ p.removed[i] = NoObj
        /\ p.removed[i] # NoObj => q.old_values[i] = NoObj /\ q.removed[i] = NoObj
    BY <2>1, <2>2 DEF ObjDiff
  <2>4. /\ upd[i] = IF q.old_values[i] # NoObj /\ i \notin p.new_ids /\ p.old_values[i] = NoObj
                    THEN q.old_values[i] ELSE p.old_values[i]
        /\ i \in del <=> q.removed[i] # NoObj
        /\ i \in new <=> i \in p.new_ids \/ i \in q.new_ids
    OBVIOUS
  <2>5. /\ m.old_values[i] = IF i \in del /\ i \notin new THEN NoObj ELSE upd[i]
        /\ i \in m.new_ids <=> i \in new /\ i \notin del
        /\ m.removed[i] = IF i \notin del \/ i \in new THEN p.removed[i]
                          ELSE IF upd[i] # NoObj THEN upd[i] ELSE q.removed[i]
    BY <1>1
  <2> HIDE DEF upd, new, del, m
  <2>6. ObjDiff(m, i, x, z)
    BY <2>1, <2>2, <2>3, <2>4, <2>5 DEF ObjDiff
  <2> QED  BY <2>3, <2>6
<1>4. ASSUME NEW t \in Types PROVE NextDiff(m, t, x, z)
  <2>1. NextDiff(p, t, x, y) /\ NextDiff(q, t, y, z)
    BY DEF Diff
  <2>2. m.old_index_next_ids[t] = IF p.old_index_next_ids[t] = NoId
                                  THEN q.old_index_next_ids[t] ELSE p.old_index_next_ids[t]
    BY <1>1 DEF MergedNext
  <2>3. x.nxt[t] \in Nat /\ y.nxt[t] \in Nat /\ z.nxt[t] \in Nat
    BY DEF DBs
  <2> HIDE DEF m
  <2> QED  BY <2>1, <2>2, <2>3 DEF NextDiff
<1> QED  BY <1>2, <1>3, <1>4 DEF Diff

\* rollback_state turns the database a state leads up to into the one the
\* state began with.
LEMMA RollbackRestores ==
    ASSUME NEW u \in UndoState, NEW b \in DBs, NEW a \in DBs, Diff(u, b, a)
    PROVE  /\ RollbackObjects(u, a.obj) = b.obj
           /\ RollbackNext(u, a.nxt) = b.nxt
<1>1. ASSUME NEW i \in Ids PROVE RollbackObjects(u, a.obj)[i] = b.obj[i]
  <2>1. ObjDiff(u, i, b, a)
    BY DEF Diff
  <2>2. RollbackObjects(u, a.obj)[i] =
          IF u.removed[i] # NoObj THEN u.removed[i]
          ELSE IF i \in u.new_ids THEN NoObj
          ELSE IF u.old_values[i] # NoObj THEN u.old_values[i] ELSE a.obj[i]
    BY DEF RollbackObjects, ReinsertRemoved, RemoveNew, RestoreModified
  <2> QED  BY <2>1, <2>2 DEF ObjDiff
<1>2. ASSUME NEW t \in Types PROVE RollbackNext(u, a.nxt)[t] = b.nxt[t]
  BY DEF Diff, NextDiff, RollbackNext
<1>3. RollbackObjects(u, a.obj) = [i \in Ids |-> RollbackObjects(u, a.obj)[i]]
  BY DEF RollbackObjects, ReinsertRemoved
<1>4. RollbackNext(u, a.nxt) = [t \in Types |-> RollbackNext(u, a.nxt)[t]]
  BY DEF RollbackNext
<1>5. b.obj = [i \in Ids |-> b.obj[i]] /\ b.nxt = [t \in Types |-> b.nxt[t]]
  BY DEF DBs
<1> QED  BY <1>1, <1>2, <1>3, <1>4, <1>5

\* Nothing rollback_state does can throw.
LEMMA RollbackFits ==
    ASSUME NEW u \in UndoState, NEW b \in DBs, NEW a \in DBs,
           Diff(u, b, a), WellFormed(a), WellFormed(b)
    PROVE  RollbackCompletes(u, a.obj)
<1> DEFINE r    == RestoreModified(u, a.obj)
           kept == RemoveNew(u, r)
<1>1. ASSUME NEW i \in Ids
      PROVE  /\ u.old_values[i] # NoObj => a.obj[i] # NoObj
             /\ i \in u.new_ids => a.obj[i] # NoObj
             /\ r[i] # NoObj => a.obj[i] # NoObj /\ r[i].key = a.obj[i].key
             /\ u.removed[i] # NoObj => kept[i] = NoObj
  <2>1. ObjDiff(u, i, b, a)
    BY DEF Diff
  <2>2. /\ r[i] = IF u.old_values[i] # NoObj THEN u.old_values[i] ELSE a.obj[i]
        /\ kept[i] = IF i \in u.new_ids THEN NoObj ELSE r[i]
    BY DEF RestoreModified, RemoveNew
  <2> HIDE DEF r, kept
  <2> QED  BY <2>1, <2>2 DEF ObjDiff
<1>2. KeysUnique(r)
  <2> HIDE DEF r
  <2> QED  BY <1>1 DEF WellFormed, KeysUnique, SameIndexKey
<1>3. KeysUnique(ReinsertRemoved(u, kept))
  BY RollbackRestores DEF RollbackObjects, WellFormed
<1>4. u.new_ids \subseteq Ids
  BY DEF UndoState
<1> HIDE DEF r, kept
<1> QED  BY <1>1, <1>2, <1>3, <1>4 DEF RollbackCompletes, r, kept

-----------------------------------------------------------------------------
(* The two ways the stack loses states. *)

\* What undo(), merge() and pop_commit() rely on when they pop the newest
\* state: the front of a non-empty sequence.
LEMMA FrontFacts ==
    ASSUME NEW S, NEW s \in Seq(S), s # <<>>
    PROVE  /\ Len(s) \in Nat \ {0}
           /\ Last(s) = s[Len(s)] /\ Last(s) \in S
           /\ Front(s) \in Seq(S)
           /\ Len(Front(s)) = Len(s) - 1
           /\ \A k \in 1 .. Len(s) - 1 : Front(s)[k] = s[k]
<1>1. Len(s) \in Nat \ {0} /\ \A k \in 1 .. Len(s) : s[k] \in S
  BY EmptySeq, ElementOfSeq
<1>2. \A k \in 1 .. Len(s) - 1 : s[k] \in S
  BY <1>1
<1> DEFINE n == Len(s)
           f == SubSeq(s, 1, n - 1)
<1>3. /\ f \in Seq(S)
      /\ Len(f) = IF 1 <= n - 1 THEN n - 1 - 1 + 1 ELSE 0
      /\ \A k \in 1 .. n - 1 - 1 + 1 : f[k] = s[1 + k - 1]
  BY <1>1, <1>2, SubSeqProperties, n - 1 \in Int, 1 \in Int
<1>4. n \in Nat \ {0} /\ s[n] \in S
  BY <1>1
<1>5. Front(s) = f /\ Last(s) = s[n]
  BY DEF Front, Last
<1> HIDE DEF n, f
<1>6. Len(f) = n - 1
  BY <1>3, <1>4
<1>7. ASSUME NEW k \in 1 .. n - 1 PROVE f[k] = s[k]
  <2>1. k \in 1 .. n - 1 - 1 + 1 /\ 1 + k - 1 = k
    BY <1>4
  <2> QED  BY <1>3, <2>1
<1> QED  BY <1>3, <1>4, <1>5, <1>6, <1>7 DEF n

\* The stack on_create and its siblings begin when it is empty: a sequence
\* of one.
LEMMA SingletonFacts ==
    ASSUME NEW S, NEW x \in S
    PROVE  <<x>> \in Seq(S) /\ Len(<<x>>) = 1 /\ <<x>>[1] = x
OBVIOUS

\* What start_undo_session leaves of the stack: some oldest states dropped,
\* a new one appended.
LEMMA DropAppendFacts ==
    ASSUME NEW S, NEW s \in Seq(S), NEW e \in 0 .. Len(s), NEW x \in S
    PROVE  LET r == Append(SubSeq(s, e + 1, Len(s)), x)
           IN  /\ r \in Seq(S)
               /\ Len(r) = Len(s) - e + 1
               /\ \A k \in 1 .. Len(s) - e : r[k] = s[k + e]
               /\ r[Len(s) - e + 1] = x
<1> DEFINE d == SubSeq(s, e + 1, Len(s))
<1>1. Len(s) \in Nat /\ e \in Nat /\ e <= Len(s)
  BY LenProperties
<1>2. \A k \in e + 1 .. Len(s) : s[k] \in S
  BY <1>1, ElementOfSeq
<1>3. /\ d \in Seq(S)
      /\ Len(d) = IF e + 1 <= Len(s) THEN Len(s) - (e + 1) + 1 ELSE 0
      /\ \A k \in 1 .. Len(s) - (e + 1) + 1 : d[k] = s[(e + 1) + k - 1]
  BY <1>1, <1>2, SubSeqProperties, e + 1 \in Int, Len(s) \in Int
<1> HIDE DEF d
<1>4. Len(d) = Len(s) - e /\ \A k \in 1 .. Len(s) - e : d[k] = s[k + e]
  BY <1>1, <1>3
<1>5. /\ Append(d, x) \in Seq(S)
      /\ Len(Append(d, x)) = Len(d) + 1
      /\ \A k \in 1 .. Len(d) : Append(d, x)[k] = d[k]
      /\ Append(d, x)[Len(d) + 1] = x
  BY <1>3, AppendProperties
<1> QED  BY <1>1, <1>4, <1>5 DEF d

-----------------------------------------------------------------------------
(* The inductive invariant, one action at a time. *)

\* An undo database that was just constructed has no history.
LEMMA InitInv == HInit => HInv
<1> SUFFICES ASSUME HInit PROVE HInv
  OBVIOUS
<1>1. /\ stack = <<>> /\ snaps = <<>> /\ sessions = <<>> /\ disabled = FALSE
      /\ objects = [i \in Ids |-> NoObj] /\ next_id = [t \in Types |-> 0]
      /\ max_size = MaxSize
  BY DEF HInit, Init
<1>2. TypeOK
  BY <1>1, ConstAssumption, EmptySeq DEF TypeOK
<1>3. WellFormed(Now)
  BY <1>1 DEF WellFormed, KeysUnique, Now
<1> QED  BY <1>1, <1>2, <1>3, EmptySeq
         DEF HInv, HistoryDiff, AllWellFormed, OpenSessionsKept, DisabledMeansNoHistory

\* The database before the state that records the next change.
RecBase == IF stack = <<>> THEN Now ELSE Last(snaps)

\* The state a change is recorded in leads from RecBase to the present.
LEMMA TopDiff ==
    ASSUME HInv
    PROVE  /\ Now \in DBs /\ WellFormed(Now)
           /\ RecBase \in DBs /\ WellFormed(RecBase)
           /\ Last(Recording) \in UndoState
           /\ Diff(Last(Recording), RecBase, Now)
<1>1. Now \in DBs
  BY DEF HInv, TypeOK, Now, DBs
<1>2. WellFormed(Now)
  BY DEF HInv, AllWellFormed
<1>3. CASE stack = <<>>
  <2>1. Last(Recording) = EmptyState
    BY <1>3 DEF Recording, Last
  <2> QED  BY <1>1, <1>2, <1>3, <2>1, EmptyDiff DEF RecBase
<1>4. CASE stack # <<>>
  <2>1. /\ stack \in Seq(UndoState) /\ snaps \in Seq(DBs) /\ Len(snaps) = Len(stack)
    BY DEF HInv, TypeOK, HistoryDiff
  <2>2. Len(stack) \in Nat \ {0} /\ Last(stack) = stack[Len(stack)] /\ Last(stack) \in UndoState
    BY <1>4, <2>1, FrontFacts
  <2>3. snaps # <<>>
    BY <2>1, <2>2, EmptySeq
  <2>4. Last(snaps) = snaps[Len(stack)] /\ Last(snaps) \in DBs
    BY <2>1, <2>3, FrontFacts
  <2>5. Diff(Last(stack), Last(snaps), Now) /\ WellFormed(Last(snaps))
    BY <2>1, <2>2, <2>4 DEF HInv, HistoryDiff, AllWellFormed, After
  <2> QED  BY <1>1, <1>2, <1>4, <2>2, <2>4, <2>5 DEF RecBase, Recording
<1> QED  BY <1>3, <1>4

\* A change to the database that the top state accounts for.
LEMMA WriteStep ==
    ASSUME HInv, NEW v \in UndoState, Now' \in DBs, WellFormed(Now'),
           Diff(v, RecBase, Now'),
           stack' = IF disabled THEN stack ELSE ReplaceTop(Recording, v),
           snaps' = IF stack = <<>> /\ ~disabled THEN <<Now>> ELSE snaps,
           UNCHANGED <<sessions, disabled, max_size>>
    PROVE  HInv'
<1>1. /\ objects' \in [Ids -> Object \cup {NoObj}]
      /\ next_id' \in [Types -> Nat]
  <2>1. Now'.obj = objects' /\ Now'.nxt = next_id'
    BY DEF Now
  <2> QED  BY <2>1 DEF DBs
<1>2. /\ stack \in Seq(UndoState) /\ snaps \in Seq(DBs) /\ Len(snaps) = Len(stack)
      /\ sessions \in Seq(BOOLEAN) /\ disabled \in BOOLEAN /\ max_size \in Nat \ {0}
      /\ Len(sessions) <= Len(stack)
  BY DEF HInv, TypeOK, HistoryDiff, OpenSessionsKept
<1>3. CASE disabled
  <2>1. stack = <<>> /\ sessions = <<>> /\ snaps' = snaps /\ stack' = stack
    BY <1>3 DEF HInv, DisabledMeansNoHistory
  <2>2. Len(stack') = 0 /\ Len(snaps') = 0
    BY <1>2, <2>1, EmptySeq
  <2>3. TypeOK'
    BY <1>1, <1>2, <2>1 DEF TypeOK
  <2>4. HistoryDiff' /\ AllWellFormed'
    BY <2>2 DEF HistoryDiff, AllWellFormed
  <2>5. OpenSessionsKept' /\ DisabledMeansNoHistory'
    BY <2>1 DEF HInv, OpenSessionsKept, DisabledMeansNoHistory
  <2> QED  BY <2>3, <2>4, <2>5 DEF HInv
<1>4. CASE ~disabled /\ stack = <<>>
  <2>1. stack' = <<v>> /\ snaps' = <<Now>>
    BY <1>4 DEF ReplaceTop, Recording
  <2>2. Now \in DBs /\ WellFormed(Now) /\ RecBase = Now
    BY <1>4, TopDiff DEF RecBase
  <2>3. /\ stack' \in Seq(UndoState) /\ Len(stack') = 1 /\ stack'[1] = v
        /\ snaps' \in Seq(DBs) /\ Len(snaps') = 1 /\ snaps'[1] = Now
    BY <2>1, <2>2, SingletonFacts
  <2>4. TypeOK'
    BY <1>1, <1>2, <2>3 DEF TypeOK
  <2>5. HistoryDiff' /\ AllWellFormed'
    <3>1. After(1)' = Now'
      BY <2>3 DEF After
    <3>2. \A k \in 1 .. 1 : k = 1
      OBVIOUS
    <3> QED  BY <2>2, <2>3, <3>1, <3>2 DEF HistoryDiff, AllWellFormed
  <2>6. Len(sessions) = 0
    BY <1>2, <1>4, EmptySeq
  <2>7. OpenSessionsKept' /\ DisabledMeansNoHistory'
    BY <1>4, <2>3, <2>6 DEF OpenSessionsKept, DisabledMeansNoHistory
  <2> QED  BY <2>4, <2>5, <2>7 DEF HInv
<1>5. CASE ~disabled /\ stack # <<>>
  <2> DEFINE n == Len(stack)
  <2>1. stack' = [stack EXCEPT ![n] = v] /\ snaps' = snaps
    BY <1>5 DEF ReplaceTop, Recording
  <2>2. n \in Nat \ {0} /\ snaps # <<>>
    BY <1>2, <1>5, EmptySeq
  <2>3. RecBase = snaps[n]
    BY <1>2, <1>5, <2>2, FrontFacts DEF RecBase
  <2>4. /\ stack' \in Seq(UndoState) /\ Len(stack') = n /\ stack'[n] = v
        /\ \A k \in 1 .. n - 1 : stack'[k] = stack[k]
    BY <1>2, <2>1, <2>2, SMTT(30)
  <2>5. TypeOK'
    BY <1>1, <1>2, <2>1, <2>4 DEF TypeOK
  <2>6. ASSUME NEW k \in 1 .. n PROVE Diff(stack'[k], snaps'[k], After(k)')
    <3>1. CASE k = n
      BY <2>1, <2>3, <2>4, <3>1 DEF After
    <3>2. CASE k # n
      <4>1. Diff(stack[k], snaps[k], After(k))
        BY DEF HInv, HistoryDiff
      <4>2. After(k) = snaps[k + 1] /\ After(k)' = snaps'[k + 1] /\ stack'[k] = stack[k]
        BY <2>2, <2>4, <3>2 DEF After
      <4> QED  BY <2>1, <4>1, <4>2
    <3> QED  BY <3>1, <3>2
  <2>7. HistoryDiff' /\ AllWellFormed'
    BY <1>2, <2>1, <2>4, <2>6 DEF HInv, HistoryDiff, AllWellFormed
  <2>8. OpenSessionsKept' /\ DisabledMeansNoHistory'
    BY <1>5, <2>1, <2>4 DEF HInv, OpenSessionsKept, DisabledMeansNoHistory
  <2> QED  BY <2>5, <2>7, <2>8 DEF HInv
<1> QED  BY <1>2, <1>3, <1>4, <1>5

\* object_database's create, modify and remove keep the invariant.
LEMMA WriteInv == HInv /\ HWrite => HInv'
<1> SUFFICES ASSUME HInv, HWrite PROVE HInv'
  OBVIOUS
<1> DEFINE u == Last(Recording)
<1>1. snaps' = IF stack = <<>> /\ ~disabled THEN <<Now>> ELSE snaps
  BY DEF HWrite
<1>2. /\ Now \in DBs /\ WellFormed(Now) /\ RecBase \in DBs /\ WellFormed(RecBase)
      /\ u \in UndoState /\ Diff(u, RecBase, Now)
  BY TopDiff
<1>3. Now.obj = objects /\ Now.nxt = next_id /\ Now' = [obj |-> objects', nxt |-> next_id']
  BY DEF Now
<1>4. ASSUME NEW t \in Types, NEW k \in Keys, NEW w \in Vals, CreateObject(t, k, w)
      PROVE  HInv'
  <2> DEFINE id == <<t, next_id[t]>>
             o  == [key |-> k, val |-> w]
  <2>1. /\ next_id[t] \in Insts
        /\ \A i \in Ids : objects[i] # NoObj /\ i[1] = t => objects[i].key # k
        /\ objects' = [objects EXCEPT ![id] = o]
        /\ next_id' = [next_id EXCEPT ![t] = @ + 1]
        /\ stack' = IF disabled THEN stack ELSE ReplaceTop(Recording, on_create(u, id))
        /\ UNCHANGED <<sessions, disabled, max_size>>
    BY <1>4 DEF CreateObject
  <2>2. o \in Object /\ o.key = k
    BY DEF Object
  <2>3. /\ on_create(u, id) \in UndoState
        /\ Now' \in DBs
        /\ Diff(on_create(u, id), RecBase, Now')
    BY <1>2, <1>3, <2>1, <2>2, CreateDiff
  <2>4. id \in Ids /\ id[1] = t /\ id[2] = next_id[t] /\ next_id[t] \in Nat
    BY <1>2, <1>3, <2>1 DEF Ids, DBs
  <2>5. objects \in [Ids -> Object \cup {NoObj}] /\ next_id \in [Types -> Nat]
    BY <1>2, <1>3 DEF DBs
  <2>6. ASSUME NEW i \in Ids, objects'[i] # NoObj PROVE i[2] < next_id'[i[1]]
    <3>1. i[1] \in Types /\ i[2] \in Nat
      BY ConstAssumption DEF Ids, Insts
    <3>2. CASE i = id
      BY <2>1, <2>4, <2>5, <3>2
    <3>3. CASE i # id
      <4>1. objects[i] # NoObj
        BY <2>1, <2>5, <2>6, <3>3
      <4>2. i[2] < next_id[i[1]]
        BY <1>2, <1>3, <4>1 DEF WellFormed
      <4>3. next_id[i[1]] \in Nat /\ next_id'[i[1]] \in {next_id[i[1]], next_id[i[1]] + 1}
        BY <2>1, <2>5, <3>1
      <4> QED  BY <3>1, <4>2, <4>3
    <3> QED  BY <3>2, <3>3
  <2>7. KeysUnique(objects')
    <3>1. SUFFICES ASSUME NEW i \in Ids, NEW j \in Ids, i # j, i[1] = j[1],
                          objects'[i] # NoObj, objects'[j] # NoObj
                   PROVE  objects'[i].key # objects'[j].key
      BY DEF KeysUnique, SameIndexKey
    <3>2. CASE i = id
      BY <2>1, <2>2, <2>4, <2>5, <3>1, <3>2
    <3>3. CASE j = id
      BY <2>1, <2>2, <2>4, <2>5, <3>1, <3>3
    <3>4. CASE i # id /\ j # id
      <4>1. objects'[i] = objects[i] /\ objects'[j] = objects[j]
        BY <2>1, <2>5, <3>4
      <4> QED  BY <1>2, <1>3, <3>1, <4>1 DEF WellFormed, KeysUnique, SameIndexKey
    <3> QED  BY <3>2, <3>3, <3>4
  <2>8. WellFormed(Now')
    BY <1>3, <2>6, <2>7 DEF WellFormed
  <2> HIDE DEF u, id, o
  <2> QED  BY <1>1, <2>1, <2>3, <2>8, WriteStep
<1>5. ASSUME NEW id \in Ids, NEW w \in Vals, ModifyObject(id, w)
      PROVE  HInv'
  <2> DEFINE o == [key |-> objects[id].key, val |-> w]
  <2>1. /\ objects[id] # NoObj
        /\ objects' = [objects EXCEPT ![id] = o]
        /\ next_id' = next_id
        /\ stack' = IF disabled THEN stack
                    ELSE ReplaceTop(Recording, on_modify(u, id, objects[id]))
        /\ UNCHANGED <<sessions, disabled, max_size>>
    BY <1>5 DEF ModifyObject
  <2>2. objects \in [Ids -> Object \cup {NoObj}]
    BY <1>2, <1>3 DEF DBs
  <2>3. o \in Object /\ o.key = objects[id].key
    BY <2>1, <2>2 DEF Object
  <2>4. /\ on_modify(u, id, objects[id]) \in UndoState
        /\ Now' \in DBs
        /\ Diff(on_modify(u, id, objects[id]), RecBase, Now')
    BY <1>2, <1>3, <2>1, <2>3, ModifyDiff
  <2>5. ASSUME NEW i \in Ids, objects'[i] # NoObj
        PROVE  objects[i] # NoObj /\ objects'[i].key = objects[i].key
    <3>1. CASE i = id  BY <2>1, <2>2, <2>3, <3>1
    <3>2. CASE i # id  BY <2>1, <2>2, <2>5, <3>2
    <3> QED  BY <3>1, <3>2
  <2>6. WellFormed(Now')
    BY <1>2, <1>3, <2>1, <2>5 DEF WellFormed, KeysUnique, SameIndexKey
  <2> HIDE DEF u, o
  <2> QED  BY <1>1, <2>1, <2>4, <2>6, WriteStep
<1>6. ASSUME NEW id \in Ids, RemoveObject(id)
      PROVE  HInv'
  <2>1. /\ objects[id] # NoObj
        /\ objects' = [objects EXCEPT ![id] = NoObj]
        /\ next_id' = next_id
        /\ stack' = IF disabled THEN stack
                    ELSE ReplaceTop(Recording, on_remove(u, id, objects[id]))
        /\ UNCHANGED <<sessions, disabled, max_size>>
    BY <1>6 DEF RemoveObject
  <2>2. objects \in [Ids -> Object \cup {NoObj}]
    BY <1>2, <1>3 DEF DBs
  <2>3. /\ on_remove(u, id, objects[id]) \in UndoState
        /\ Now' \in DBs
        /\ Diff(on_remove(u, id, objects[id]), RecBase, Now')
    BY <1>2, <1>3, <2>1, RemoveDiff
  <2>4. ASSUME NEW i \in Ids, objects'[i] # NoObj
        PROVE  objects[i] # NoObj /\ objects'[i] = objects[i]
    BY <2>1, <2>2, <2>4
  <2>5. WellFormed(Now')
    BY <1>2, <1>3, <2>1, <2>4 DEF WellFormed, KeysUnique, SameIndexKey
  <2> HIDE DEF u
  <2> QED  BY <1>1, <2>1, <2>3, <2>5, WriteStep
<1> QED  BY <1>4, <1>5, <1>6 DEF HWrite

\* start_undo_session drops some of the oldest states and begins a new one.
LEMMA StartInv == HInv /\ HStart => HInv'
<1> SUFFICES ASSUME HInv, HStart PROVE HInv'
  OBVIOUS
<1> DEFINE n == Len(stack)
           m == Len(sessions)
           e == Excess(max_size')
<1>1. /\ stack \in Seq(UndoState) /\ snaps \in Seq(DBs) /\ Len(snaps) = n
      /\ sessions \in Seq(BOOLEAN) /\ disabled \in BOOLEAN /\ max_size \in Nat \ {0}
      /\ m <= n /\ n \in Nat /\ m \in Nat
  BY LenProperties DEF HInv, TypeOK, HistoryDiff, OpenSessionsKept
<1>2. /\ stack' = Append(SubSeq(stack, e + 1, n), EmptyState)
      /\ snaps' = Append(SubSeq(snaps, e + 1, Len(snaps)), Now)
      /\ disabled' = FALSE
      /\ UNCHANGED <<objects, next_id>>
  BY DEF HStart, StartUndoSession, PushProposal, Push
<1>3. PICK force \in BOOLEAN :
        /\ sessions' = Append(sessions, disabled /\ force)
        /\ max_size' \in Nat \ {0}
        /\ m - 1 < max_size'
        /\ force => max_size' >= n
        /\ ~force => \A s \in 1 .. m : ~sessions[s]
  <2>1. CASE StartUndoSession
    <3>1. WITNESS FALSE \in BOOLEAN
    <3> QED  BY <1>1, <2>1 DEF StartUndoSession, Push
  <2>2. CASE PushProposal
    <3>1. WITNESS TRUE \in BOOLEAN
    <3> QED  BY <1>1, <2>2 DEF PushProposal, Push
  <2> QED  BY <2>1, <2>2 DEF HStart
<1>4. e \in 0 .. n /\ n - e >= m /\ (force => e = 0)
  BY <1>1, <1>3 DEF Excess
<1>5. EmptyState \in UndoState /\ Now \in DBs /\ Diff(EmptyState, Now, Now) /\ Now' = Now
  BY <1>2, EmptyDiff, TopDiff DEF Now
<1> HIDE DEF e
<1>6. /\ stack' \in Seq(UndoState) /\ Len(stack') = n - e + 1
      /\ \A k \in 1 .. n - e : stack'[k] = stack[k + e]
      /\ stack'[n - e + 1] = EmptyState
  BY <1>1, <1>2, <1>4, <1>5, DropAppendFacts
<1>7. /\ snaps' \in Seq(DBs) /\ Len(snaps') = n - e + 1
      /\ \A k \in 1 .. n - e : snaps'[k] = snaps[k + e]
      /\ snaps'[n - e + 1] = Now
  BY <1>1, <1>2, <1>4, <1>5, DropAppendFacts
<1>8. /\ sessions' \in Seq(BOOLEAN) /\ Len(sessions') = m + 1
      /\ \A s \in 1 .. m : sessions'[s] = sessions[s]
      /\ sessions'[m + 1] = (disabled /\ force)
  BY <1>1, <1>3, AppendProperties, (disabled /\ force) \in BOOLEAN
<1>9. TypeOK'
  BY <1>1, <1>2, <1>3, <1>6, <1>7, <1>8 DEF HInv, TypeOK
<1>10. ASSUME NEW k \in 1 .. n - e + 1
       PROVE  Diff(stack'[k], snaps'[k], After(k)') /\ WellFormed(snaps'[k])
  <2>1. CASE k = n - e + 1
    <3>1. After(k)' = Now
      BY <1>5, <1>6, <2>1 DEF After
    <3> QED  BY <1>5, <1>6, <1>7, <2>1, <3>1 DEF HInv, AllWellFormed
  <2>2. CASE k # n - e + 1
    <3>1. k \in 1 .. n - e /\ k + e \in 1 .. n /\ k # Len(stack')
      BY <1>1, <1>4, <1>6, <2>2
    <3>2. Diff(stack[k + e], snaps[k + e], After(k + e)) /\ WellFormed(snaps[k + e])
      BY <1>1, <3>1 DEF HInv, HistoryDiff, AllWellFormed
    <3>3. After(k)' = snaps'[k + 1]
      BY <3>1 DEF After
    <3>4. snaps'[k + 1] = After(k + e)
      <4>1. CASE k = n - e
        BY <1>1, <1>4, <1>7, <4>1 DEF After
      <4>2. CASE k # n - e
        <5>1. k + 1 \in 1 .. n - e /\ k + e # n /\ (k + 1) + e = (k + e) + 1
          BY <1>1, <1>4, <3>1, <4>2
        <5> QED  BY <1>7, <5>1 DEF After
      <4> QED  BY <4>1, <4>2
    <3> QED  BY <1>6, <1>7, <3>1, <3>2, <3>3, <3>4
  <2> QED  BY <2>1, <2>2
<1>11. HistoryDiff' /\ AllWellFormed'
  BY <1>5, <1>6, <1>7, <1>10 DEF HInv, HistoryDiff, AllWellFormed
<1>12. OpenSessionsKept'
  BY <1>1, <1>4, <1>6, <1>8 DEF OpenSessionsKept
<1>13. DisabledMeansNoHistory'
  <2>1. ASSUME NEW s \in 1 .. m + 1, sessions'[s] PROVE s = 1 /\ n - e + 1 = m + 1
    <3>1. CASE s = m + 1
      <4>1. disabled /\ force
        BY <1>8, <2>1, <3>1
      <4>2. stack = <<>> /\ sessions = <<>>
        BY <4>1 DEF HInv, DisabledMeansNoHistory
      <4> QED  BY <1>4, <3>1, <4>1, <4>2, EmptySeq
    <3>2. CASE s # m + 1
      <4>1. s \in 1 .. m /\ sessions[s]
        BY <1>1, <1>8, <2>1, <3>2
      <4>2. force /\ s = 1 /\ n = m
        BY <1>3, <4>1 DEF HInv, DisabledMeansNoHistory
      <4> QED  BY <1>1, <1>4, <4>2
    <3> QED  BY <3>1, <3>2
  <2> QED  BY <1>2, <1>6, <1>8, <2>1 DEF DisabledMeansNoHistory
<1> QED  BY <1>9, <1>11, <1>12, <1>13 DEF HInv

\* Rolling the top state back brings back the newest copy.
LEMMA RollbackIsRestore ==
    ASSUME HInv, stack # <<>>,
           objects' = RollbackObjects(Last(stack), objects),
           next_id' = RollbackNext(Last(stack), next_id)
    PROVE  snaps # <<>> /\ Now' = Last(snaps)
<1>1. RecBase = Last(snaps) /\ Recording = stack
  BY DEF RecBase, Recording
<1>2. objects' = Last(snaps).obj /\ next_id' = Last(snaps).nxt /\ Last(snaps) \in DBs
  BY <1>1, TopDiff, RollbackRestores DEF Now
<1>3. Now' = [obj |-> objects', nxt |-> next_id']
  BY DEF Now
<1>4. snaps # <<>>
  BY EmptySeq DEF HInv, TypeOK, HistoryDiff
<1> QED  BY <1>2, <1>3, <1>4 DEF DBs

\* The session stack after ~session(), when the undo stack has lost a state.
LEMMA CloseFacts ==
    ASSUME HInv, sessions # <<>>, CloseSession, stack' \in Seq(UndoState),
           Len(stack') = Len(stack) - 1
    PROVE  /\ sessions' \in Seq(BOOLEAN) /\ disabled' \in BOOLEAN
           /\ OpenSessionsKept' /\ DisabledMeansNoHistory'
<1> DEFINE n == Len(stack)
           m == Len(sessions)
<1>1. sessions \in Seq(BOOLEAN) /\ m <= n /\ n \in Nat /\ m \in Nat
  BY LenProperties DEF HInv, TypeOK, OpenSessionsKept
<1>2. /\ m # 0 /\ Last(sessions) = sessions[m] /\ Last(sessions) \in BOOLEAN
      /\ sessions' \in Seq(BOOLEAN) /\ Len(sessions') = m - 1
      /\ \A s \in 1 .. m - 1 : sessions'[s] = sessions[s]
      /\ disabled' = Last(sessions)
  BY <1>1, FrontFacts DEF CloseSession
<1>3. OpenSessionsKept'
  BY <1>1, <1>2 DEF OpenSessionsKept
<1>4. ASSUME NEW s \in 1 .. m - 1, sessions'[s] PROVE s = 1 /\ Len(stack') = m - 1
  <2>1. s \in 1 .. m /\ sessions[s]
    BY <1>1, <1>2, <1>4
  <2> QED  BY <2>1 DEF HInv, DisabledMeansNoHistory
<1>5. ASSUME disabled' PROVE stack' = <<>> /\ sessions' = <<>>
  <2>1. m \in 1 .. m /\ sessions[m]
    BY <1>1, <1>2, <1>5
  <2>2. m = 1 /\ n = 1
    BY <2>1 DEF HInv, DisabledMeansNoHistory
  <2> QED  BY <1>2, <2>2, EmptySeq
<1> QED  BY <1>2, <1>3, <1>4, <1>5 DEF DisabledMeansNoHistory

\* Undoing a session and popping a committed state.
LEMMA RollbackInv ==
    ASSUME HInv, Undo \/ PopCommit, snaps' = Front(snaps)
    PROVE  HInv'
<1> DEFINE n == Len(stack)
<1>1. /\ stack \in Seq(UndoState) /\ snaps \in Seq(DBs) /\ Len(snaps) = n
      /\ sessions \in Seq(BOOLEAN) /\ max_size \in Nat \ {0}
      /\ Len(sessions) <= n /\ n \in Nat /\ Len(sessions) \in Nat
  BY LenProperties DEF HInv, TypeOK, HistoryDiff, OpenSessionsKept
<1>2. stack # <<>>
  BY <1>1, EmptySeq DEF Undo, PopCommit
<1>3. /\ objects' = RollbackObjects(Last(stack), objects)
      /\ next_id' = RollbackNext(Last(stack), next_id)
      /\ stack' = Front(stack)
      /\ max_size' = max_size
  BY DEF Undo, PopCommit
<1>4. snaps # <<>> /\ Now' = Last(snaps)
  BY <1>2, <1>3, RollbackIsRestore
<1>5. /\ n # 0 /\ stack' \in Seq(UndoState) /\ Len(stack') = n - 1
      /\ \A k \in 1 .. n - 1 : stack'[k] = stack[k]
  BY <1>1, <1>2, <1>3, FrontFacts
<1>6. /\ snaps' \in Seq(DBs) /\ Len(snaps') = n - 1
      /\ Last(snaps) = snaps[n] /\ Last(snaps) \in DBs
      /\ \A k \in 1 .. n - 1 : snaps'[k] = snaps[k]
  BY <1>1, <1>4, FrontFacts
<1>7. /\ sessions' \in Seq(BOOLEAN) /\ disabled' \in BOOLEAN
      /\ OpenSessionsKept' /\ DisabledMeansNoHistory'
  <2>1. CASE Undo
    BY <1>5, <2>1, CloseFacts DEF Undo
  <2>2. CASE PopCommit
    <3>1. sessions' = <<>> /\ disabled' = FALSE /\ Len(sessions') = 0
      BY <2>2, EmptySeq DEF PopCommit
    <3>2. sessions' \in Seq(BOOLEAN) /\ 1 .. Len(sessions') = {}
      BY <3>1, EmptySeq
    <3>3. OpenSessionsKept'
      BY <1>1, <1>5, <3>1 DEF OpenSessionsKept
    <3>4. DisabledMeansNoHistory'
      BY <3>1, <3>2 DEF DisabledMeansNoHistory
    <3> QED  BY <3>1, <3>2, <3>3, <3>4
  <2> QED  BY <2>1, <2>2
<1>8. TypeOK'
  <2>1. Now'.obj = objects' /\ Now'.nxt = next_id'
    BY DEF Now
  <2>2. objects' \in [Ids -> Object \cup {NoObj}] /\ next_id' \in [Types -> Nat]
    BY <1>4, <1>6, <2>1 DEF DBs
  <2> QED  BY <1>1, <1>3, <1>5, <1>6, <1>7, <2>2 DEF TypeOK
<1>9. ASSUME NEW k \in 1 .. n - 1
      PROVE  Diff(stack'[k], snaps'[k], After(k)') /\ WellFormed(snaps'[k])
  <2>1. k \in 1 .. n /\ k # n
    BY <1>1
  <2>2. Diff(stack[k], snaps[k], snaps[k + 1]) /\ WellFormed(snaps[k])
    BY <1>1, <2>1 DEF HInv, HistoryDiff, AllWellFormed, After
  <2>3. After(k)' = snaps[k + 1]
    <3>1. CASE k = n - 1
      BY <1>1, <1>4, <1>5, <1>6, <3>1 DEF After
    <3>2. CASE k # n - 1
      <4>1. k + 1 \in 1 .. n - 1 /\ k # Len(stack')
        BY <1>1, <1>5, <3>2
      <4> QED  BY <1>6, <4>1 DEF After
    <3> QED  BY <3>1, <3>2
  <2> QED  BY <1>5, <1>6, <2>2, <2>3
<1>10. WellFormed(Now')
  BY <1>1, <1>4, <1>5, <1>6 DEF HInv, AllWellFormed
<1> QED  BY <1>5, <1>6, <1>7, <1>8, <1>9, <1>10 DEF HInv, HistoryDiff, AllWellFormed

\* Merging a session into the one below it.
LEMMA MergeInv ==
    ASSUME HInv, Merge, snaps' = Front(snaps)
    PROVE  HInv'
<1> DEFINE n == Len(stack)
<1>1. /\ stack \in Seq(UndoState) /\ snaps \in Seq(DBs) /\ Len(snaps) = n
      /\ max_size \in Nat \ {0} /\ n \in Nat
  BY LenProperties DEF HInv, TypeOK, HistoryDiff
<1>2. /\ CloseSession /\ sessions # <<>> /\ n # 0
      /\ UNCHANGED <<objects, next_id, max_size>>
  BY DEF Merge
<1>3. Now' = Now /\ Now \in DBs /\ WellFormed(Now)
  BY <1>2, TopDiff DEF Now
<1>4. snaps # <<>>
  BY <1>1, <1>2, EmptySeq
<1>5. /\ snaps' \in Seq(DBs) /\ Len(snaps') = n - 1
      /\ \A k \in 1 .. n - 1 : snaps'[k] = snaps[k]
  BY <1>1, <1>4, FrontFacts
<1>6. CASE n = 1
  <2>1. stack' = <<>> /\ stack' \in Seq(UndoState) /\ Len(stack') = 0
    BY <1>6, EmptySeq DEF Merge
  <2>2. /\ sessions' \in Seq(BOOLEAN) /\ disabled' \in BOOLEAN
        /\ OpenSessionsKept' /\ DisabledMeansNoHistory'
    BY <1>2, <1>6, <2>1, CloseFacts
  <2>3. TypeOK'
    BY <1>1, <1>2, <1>5, <2>1, <2>2 DEF HInv, TypeOK
  <2> QED  BY <1>3, <1>5, <1>6, <2>1, <2>2, <2>3 DEF HInv, HistoryDiff, AllWellFormed
<1>7. CASE n # 1
  <2> DEFINE g == MergeStates(stack[n - 1], stack[n])
  <2>1. n - 1 \in 1 .. n /\ n \in 1 .. n /\ n - 1 # n
    BY <1>1, <1>2, <1>7
  <2>2. stack' = Append(SubSeq(stack, 1, n - 2), g)
    BY <1>1, <1>7 DEF Merge, Last
  <2>3. /\ stack[n - 1] \in UndoState /\ stack[n] \in UndoState
        /\ snaps[n - 1] \in DBs /\ snaps[n] \in DBs
    BY <1>1, <2>1, ElementOfSeq
  <2>4. /\ Diff(stack[n - 1], snaps[n - 1], snaps[n])
        /\ Diff(stack[n], snaps[n], Now)
        /\ WellFormed(snaps[n - 1])
    BY <1>1, <2>1 DEF HInv, HistoryDiff, AllWellFormed, After
  <2>5. g \in UndoState /\ Diff(g, snaps[n - 1], Now)
    BY <1>3, <2>3, <2>4, MergeDiff
  <2> HIDE DEF g
  <2>6. /\ stack' \in Seq(UndoState) /\ Len(stack') = n - 1
        /\ stack'[n - 1] = g
        /\ \A k \in 1 .. n - 2 : stack'[k] = stack[k]
    <3> DEFINE f == SubSeq(stack, 1, n - 2)
    <3>1. 1 \in Int /\ n - 2 \in Int /\ \A k \in 1 .. n - 2 : stack[k] \in UndoState
      BY <1>1, ElementOfSeq
    <3>2. /\ f \in Seq(UndoState)
          /\ Len(f) = IF 1 <= n - 2 THEN n - 2 - 1 + 1 ELSE 0
          /\ \A k \in 1 .. n - 2 - 1 + 1 : f[k] = stack[1 + k - 1]
      BY <3>1, SubSeqProperties
    <3> HIDE DEF f
    <3>3. Len(f) = n - 2 /\ \A k \in 1 .. n - 2 : f[k] = stack[k]
      BY <1>1, <1>2, <1>7, <3>2
    <3>4. /\ Append(f, g) \in Seq(UndoState) /\ Len(Append(f, g)) = Len(f) + 1
          /\ \A k \in 1 .. Len(f) : Append(f, g)[k] = f[k]
          /\ Append(f, g)[Len(f) + 1] = g
      BY <2>5, <3>2, AppendProperties
    <3>5. stack' = Append(f, g) /\ Len(f) + 1 = n - 1
      BY <1>1, <2>2, <3>3 DEF f
    <3> QED  BY <3>3, <3>4, <3>5
  <2>7. /\ sessions' \in Seq(BOOLEAN) /\ disabled' \in BOOLEAN
        /\ OpenSessionsKept' /\ DisabledMeansNoHistory'
    BY <1>2, <2>6, CloseFacts
  <2>8. TypeOK'
    BY <1>1, <1>2, <1>5, <2>6, <2>7 DEF HInv, TypeOK
  <2>9. ASSUME NEW k \in 1 .. n - 1
        PROVE  Diff(stack'[k], snaps'[k], After(k)') /\ WellFormed(snaps'[k])
    <3>1. CASE k = n - 1
      BY <1>3, <1>5, <2>4, <2>5, <2>6, <3>1 DEF After
    <3>2. CASE k # n - 1
      <4>1. k \in 1 .. n - 2 /\ k \in 1 .. n /\ k # n /\ k + 1 \in 1 .. n - 1 /\ k # Len(stack')
        BY <1>1, <2>6, <3>2
      <4>2. Diff(stack[k], snaps[k], snaps[k + 1]) /\ WellFormed(snaps[k])
        BY <1>1, <4>1 DEF HInv, HistoryDiff, AllWellFormed, After
      <4>3. After(k)' = snaps[k + 1]
        BY <1>5, <4>1 DEF After
      <4> QED  BY <1>5, <2>6, <4>1, <4>2, <4>3
    <3> QED  BY <3>1, <3>2
  <2> QED  BY <1>3, <1>5, <2>6, <2>7, <2>8, <2>9 DEF HInv, HistoryDiff, AllWellFormed
<1> QED  BY <1>6, <1>7

\* Steps that leave the database and the stack alone.
LEMMA KeepInv == HInv /\ HKeep => HInv'
<1> SUFFICES ASSUME HInv, HKeep PROVE HInv'
  OBVIOUS
<1>1. UNCHANGED <<objects, next_id, stack, snaps>>
  BY DEF HKeep, Commit, SetMaxSize, Disable, Enable
<1>2. /\ sessions \in Seq(BOOLEAN) /\ disabled \in BOOLEAN /\ max_size \in Nat \ {0}
      /\ stack \in Seq(UndoState) /\ Len(sessions) \in Nat /\ Len(stack) \in Nat
  BY LenProperties DEF HInv, TypeOK
<1>3. /\ sessions' \in Seq(BOOLEAN) /\ disabled' \in BOOLEAN /\ max_size' \in Nat \ {0}
      /\ OpenSessionsKept' /\ DisabledMeansNoHistory'
  <2>1. CASE Commit
    <3>1. sessions # <<>> /\ ~Last(sessions) /\ Len(sessions) = 1
      BY <2>1, EmptySeq DEF Commit
    <3>2. sessions' \in Seq(BOOLEAN) /\ Len(sessions') = 0 /\ disabled' = FALSE
          /\ max_size' = max_size
      BY <1>2, <2>1, <3>1, FrontFacts DEF Commit, CloseSession
    <3>3. OpenSessionsKept'
      BY <1>1, <1>2, <3>2 DEF OpenSessionsKept
    <3>4. 1 .. Len(sessions') = {}
      BY <3>2
    <3>5. DisabledMeansNoHistory'
      BY <3>2, <3>4 DEF DisabledMeansNoHistory
    <3> QED  BY <1>2, <3>2, <3>3, <3>5
  <2>2. CASE \E k \in 1 .. MaxSize : SetMaxSize(k)
    BY <1>1, <1>2, <2>2, ConstAssumption
       DEF HInv, SetMaxSize, OpenSessionsKept, DisabledMeansNoHistory
  <2>3. CASE Disable \/ Enable
    BY <1>1, <1>2, <2>3 DEF HInv, Disable, Enable, OpenSessionsKept, DisabledMeansNoHistory
  <2> QED  BY <2>1, <2>2, <2>3 DEF HKeep
<1>4. TypeOK'
  BY <1>1, <1>3 DEF HInv, TypeOK
<1>5. HistoryDiff' /\ AllWellFormed'
  BY <1>1 DEF HInv, HistoryDiff, AllWellFormed, After, Now
<1> QED  BY <1>3, <1>4, <1>5 DEF HInv

\* Nothing changes, nothing breaks.
LEMMA StutterInv == HInv /\ UNCHANGED hvars => HInv'
BY DEF hvars, HInv, TypeOK, HistoryDiff, AllWellFormed, OpenSessionsKept,
       DisabledMeansNoHistory, After, Now

-----------------------------------------------------------------------------
(* The results. *)

\* Every reachable state of the undo database satisfies the inductive
\* invariant: each undo_state is exactly the difference between the database
\* at its start and at the start of the next.
THEOREM InvHolds == HSpec => []HInv
<1>1. HInit => HInv
  BY InitInv
<1>2. HInv /\ [HNext]_hvars => HInv'
  <2>1. HInv /\ HEnd => HInv'
    BY RollbackInv, MergeInv DEF HEnd
  <2> QED  BY <2>1, WriteInv, StartInv, KeepInv, StutterInv DEF HNext
<1> QED  BY <1>1, <1>2, PTL DEF HSpec

\* Every piece of the undo database's state keeps its type.
THEOREM TypeCorrect == HSpec => []TypeOK
<1>1. HInv => TypeOK
  BY DEF HInv
<1> QED  BY <1>1, InvHolds, PTL

\* Rolling the stack back, newest state first, retraces every copy, and no
\* rollback can throw on the way; merge's N/A cells never occur.
LEMMA InvSuffices == HInv => HistoryRetraced /\ RollbackNeverThrows /\ MergeNeverNA
<1> SUFFICES ASSUME HInv PROVE HistoryRetraced /\ RollbackNeverThrows /\ MergeNeverNA
  OBVIOUS
<1>1. /\ stack \in Seq(UndoState) /\ snaps \in Seq(DBs) /\ Len(snaps) = Len(stack)
      /\ Len(stack) \in Nat
  BY LenProperties DEF HInv, TypeOK, HistoryDiff
<1>2. ASSUME NEW k \in 1 .. Len(stack)
      PROVE  /\ stack[k] \in UndoState /\ snaps[k] \in DBs /\ After(k) \in DBs
             /\ WellFormed(snaps[k]) /\ WellFormed(After(k))
             /\ Diff(stack[k], snaps[k], After(k))
  <2>1. stack[k] \in UndoState /\ snaps[k] \in DBs
    BY <1>1, ElementOfSeq
  <2>2. After(k) \in DBs /\ WellFormed(After(k))
    <3>1. CASE k = Len(stack)
      BY <3>1, TopDiff DEF After
    <3>2. CASE k # Len(stack)
      <4>1. k + 1 \in 1 .. Len(snaps)
        BY <1>1, <3>2
      <4> QED  BY <1>1, <3>2, <4>1, ElementOfSeq DEF HInv, AllWellFormed, After
    <3> QED  BY <3>1, <3>2
  <2> QED  BY <1>1, <2>1, <2>2 DEF HInv, HistoryDiff, AllWellFormed
<1>3. HistoryRetraced
  BY <1>1, <1>2, RollbackRestores DEF HistoryRetraced
<1>4. RollbackNeverThrows
  BY <1>2, RollbackFits DEF RollbackNeverThrows
<1>5. MergeNeverNA
  <2>1. SUFFICES ASSUME NEW k \in 2 .. Len(stack), NEW i \in Ids
        PROVE  /\ i \in stack[k].new_ids =>
                     /\ i \notin stack[k - 1].new_ids
                     /\ stack[k - 1].old_values[i] = NoObj
                     /\ stack[k - 1].removed[i] = NoObj
               /\ stack[k - 1].removed[i] # NoObj =>
                     stack[k].old_values[i] = NoObj /\ stack[k].removed[i] = NoObj
    BY DEF MergeNeverNA
  <2>2. k \in 1 .. Len(stack) /\ k - 1 \in 1 .. Len(stack) /\ k - 1 # Len(stack)
        /\ (k - 1) + 1 = k
    BY <1>1
  <2>3. After(k - 1) = snaps[k]
    BY <2>2 DEF After
  <2> DEFINE p == stack[k - 1]
             q == stack[k]
             x == snaps[k - 1]
             y == snaps[k]
             z == After(k)
  <2>4. /\ p \in UndoState /\ q \in UndoState /\ x \in DBs /\ y \in DBs /\ z \in DBs
        /\ Diff(p, x, y) /\ Diff(q, y, z) /\ WellFormed(x)
    BY <1>2, <2>2, <2>3
  <2> HIDE DEF p, q, x, y, z
  <2>5. /\ i \in q.new_ids =>
             i \notin p.new_ids /\ p.old_values[i] = NoObj /\ p.removed[i] = NoObj
        /\ p.removed[i] # NoObj => q.old_values[i] = NoObj /\ q.removed[i] = NoObj
    BY <2>4, MergeDiff
  <2> QED  BY <2>5 DEF p, q
<1> QED  BY <1>3, <1>4, <1>5

\* undo() and pop_commit() bring back exactly the database that the state
\* was begun on, for every history of changes, merges and sessions.
THEOREM UndoIsExact == HSpec => []HistoryRetraced
BY InvHolds, InvSuffices, PTL

\* rollback_state never throws, so undo() always enables recording again.
THEOREM UndoNeverThrows == HSpec => []RollbackNeverThrows
BY InvHolds, InvSuffices, PTL

\* The combinations merge() calls N/A and asserts against never occur.
THEOREM MergeIsCausal == HSpec => []MergeNeverNA
BY InvHolds, InvSuffices, PTL

\* However small the history is made, an open session keeps its state.
THEOREM SessionsKeepTheirState == HSpec => []OpenSessionsKept
<1>1. HInv => OpenSessionsKept
  BY DEF HInv
<1> QED  BY <1>1, InvHolds, PTL

\* The undo database implements a stack of complete copies.
THEOREM ImplementsSnapshots == HSpec => AbsSpec
<1>1. HInit => Abs!Init
  BY DEF HInit, Init, Abs!Init, Now, InitDB
<1>2. HInv /\ HInv' /\ [HNext]_hvars => [Abs!Next]_Abs!vars
  <2> SUFFICES ASSUME HInv, HInv', [HNext]_hvars PROVE [Abs!Next]_Abs!vars
    OBVIOUS
  <2>1. Now' \in DBs /\ snaps \in Seq(DBs) /\ stack \in Seq(UndoState)
        /\ Len(snaps) = Len(stack) /\ Len(stack) \in Nat
    BY LenProperties DEF HInv, TypeOK, HistoryDiff, Now, DBs
  <2>2. CASE HWrite
    BY <2>1, <2>2 DEF HWrite, Abs!Next, Abs!Write
  <2>3. CASE HStart
    <3>1. Excess(max_size') \in 0 .. Len(snaps)
      <4>1. max_size' \in Nat
        BY DEF HInv, TypeOK
      <4> QED  BY <2>1, <4>1 DEF Excess
    <3>2. Now' = Now
      BY <2>3 DEF HStart, StartUndoSession, PushProposal, Push, Now
    <3> QED  BY <2>3, <3>1, <3>2 DEF HStart, Abs!Next, Abs!Begin
  <2>4. CASE HEnd
    <3>1. stack # <<>>
      <4>1. CASE Undo
        BY <2>1, <4>1, EmptySeq DEF Undo, HInv, TypeOK, OpenSessionsKept
      <4>2. CASE Merge
        BY <4>2, EmptySeq DEF Merge
      <4>3. CASE PopCommit
        BY <4>3 DEF PopCommit
      <4> QED  BY <2>4, <4>1, <4>2, <4>3 DEF HEnd
    <3>2. snaps # <<>>
      BY <2>1, <3>1, EmptySeq
    <3>3. CASE Undo \/ PopCommit
      <4>1. Now' = Last(snaps)
        BY <3>1, <3>3, RollbackIsRestore DEF Undo, PopCommit
      <4> QED  BY <2>4, <3>2, <4>1 DEF HEnd, Abs!Next, Abs!Restore, Abs!Front, Abs!Last, Front, Last
    <3>4. CASE Merge
      <4>1. Now' = Now
        BY <3>4 DEF Merge, Now
      <4> QED  BY <2>4, <3>2, <4>1 DEF HEnd, Abs!Next, Abs!Forget, Abs!Front, Front
    <3> QED  BY <2>4, <3>3, <3>4 DEF HEnd
  <2>5. CASE HKeep \/ UNCHANGED hvars
    <3>1. Now' = Now /\ snaps' = snaps
      BY <2>5 DEF HKeep, Commit, SetMaxSize, Disable, Enable, hvars, Now
    <3> QED  BY <3>1 DEF Abs!vars
  <2> QED  BY <2>2, <2>3, <2>4, <2>5 DEF HNext
<1> QED  BY <1>1, <1>2, InvHolds, PTL DEF HSpec, AbsSpec, Abs!Spec

=============================================================================
