----------------------------- MODULE DiskProofs -----------------------------
(***************************************************************************)
(* What is on disk after a crash: proofs about ObjectStore and             *)
(* BlockDatabase.  A node that dies in flush starts again from one         *)
(* complete state, for every number of indexes and of flushes; and the     *)
(* block log returns what was stored last under a number, whatever was     *)
(* overwritten, held back by the stream or cut off, for every set of       *)
(* blocks.                                                                 *)
(***************************************************************************)
EXTENDS ObjectStore, BlockDatabase, FoldLemmas, SequenceTheorems

-----------------------------------------------------------------------------
(* The object files: the inductive invariant. *)

Files == [Indexes -> 0 .. MaxVersion \cup {NoFile, Partial}]
Dirs == [lock : BOOLEAN, file : Files]
Full(v) == [i \in Indexes |-> v]
Flushing == {"save", "rename_cur", "rename_tmp", "remove_old"}

\* Every variable has its shape, and only .tmp is ever locked.
StoreShape ==
    /\ cur \in Dirs \cup {NoDir} /\ old \in Dirs \cup {NoDir} /\ tmp \in Dirs \cup {NoDir}
    /\ cur # NoDir => ~cur.lock
    /\ old # NoDir => ~old.lock
    /\ mem \in Files
    /\ pc \in {"run", "down", "wipe", "broken"} \cup Flushing
    /\ left \subseteq Indexes
    /\ done \in 0 .. MaxVersion
    /\ torn \in BOOLEAN

\* A node that runs has one version of the state in memory.
OneVersion == pc \in {"run"} \cup Flushing => \E v \in 0 .. MaxVersion : mem = Full(v)

\* What has been saved so far is what is in memory, and all of it is there
\* before a directory is moved.
TmpFilled ==
    /\ pc = "save" => tmp # NoDir /\ \A i \in Indexes \ left : tmp.file[i] = mem[i]
    /\ pc \in {"rename_cur", "rename_tmp"} => tmp # NoDir /\ ~tmp.lock /\ tmp.file = mem

\* object_database is absent exactly when flush has just moved it away, ...
CurPlaced ==
    /\ pc = "rename_cur" => cur # NoDir
    /\ pc = "remove_old" => cur # NoDir

\* ... it holds the last flush when it is there, and .old does when it is not.
LastFlush ==
    ~torn /\ pc # "wipe" =>
        /\ cur # NoDir => cur.file = Full(done)
        /\ cur = NoDir /\ done > 0 => old # NoDir /\ old.file = Full(done)

StoreInv == StoreShape /\ OneVersion /\ TmpFilled /\ CurPlaced /\ LastFlush

-----------------------------------------------------------------------------

LEMMA Shapes ==
    /\ NoDir \notin Dirs
    /\ Nowhere \in Files
    /\ Genesis = Full(0)
    /\ \A v \in 0 .. MaxVersion : Full(v) \in Files
    /\ \A l \in BOOLEAN, f \in Files :
          Dir(l, f) \in Dirs /\ Dir(l, f).lock = l /\ Dir(l, f).file = f /\ Dir(l, f) # NoDir
BY StoreAssumption DEF Dirs, Files, Nowhere, Genesis, Full, Dir

LEMMA StoreInitInv == StoreInit => StoreInv
<1> SUFFICES ASSUME StoreInit PROVE StoreInv
  OBVIOUS
<1>1. Genesis = Full(0) /\ Full(0) \in Files /\ 0 \in 0 .. MaxVersion
  BY Shapes, StoreAssumption
<1>2. OneVersion
  BY <1>1 DEF StoreInit, OneVersion
<1>3. StoreShape
  BY <1>1 DEF StoreInit, StoreShape, Flushing
<1>4. TmpFilled /\ CurPlaced
  BY DEF StoreInit, TmpFilled, CurPlaced
<1>5. LastFlush
  BY DEF StoreInit, LastFlush
<1> QED  BY <1>2, <1>3, <1>4, <1>5 DEF StoreInv

\* flush keeps the invariant, step by step.
LEMMA FlushInv ==
    ASSUME StoreInv,
           \/ FlushBegin \/ Unlock \/ RenameCur \/ RenameTmp \/ FlushEnd
           \/ \E i \in Indexes : SaveBegin(i) \/ SaveEnd(i) \/ RemoveOld(i)
    PROVE  StoreInv'
<1> USE DEF StoreInv, Flushing
<1>1. CASE FlushBegin
  <2>1. tmp' \in Dirs /\ tmp' # NoDir
    BY <1>1, Shapes DEF FlushBegin, StoreShape, Dirs
  <2> QED  BY <1>1, <2>1 DEF FlushBegin, StoreShape, OneVersion, TmpFilled, CurPlaced, LastFlush
<1>2. CASE Unlock
  <2>1. tmp \in Dirs /\ tmp.file \in Files /\ mem \in Files
    BY <1>2 DEF Unlock, StoreShape, TmpFilled, Dirs
  <2>2. tmp.file = mem
    BY <1>2, <2>1 DEF Unlock, TmpFilled, Files
  <2>3. tmp' \in Dirs /\ tmp' # NoDir /\ ~tmp'.lock /\ tmp'.file = mem
    BY <1>2, <2>1, <2>2, Shapes DEF Unlock
  <2> QED  BY <1>2, <2>3 DEF Unlock, StoreShape, OneVersion, TmpFilled, CurPlaced, LastFlush
<1>3. CASE RenameCur
  BY <1>3, Shapes DEF RenameCur, StoreShape, OneVersion, TmpFilled, CurPlaced, LastFlush
<1>4. CASE RenameTmp
  <2>1. PICK v \in 0 .. MaxVersion : mem = Full(v)
    BY <1>4 DEF RenameTmp, OneVersion
  <2>2. done' = v
    BY <1>4, <2>1, StoreAssumption DEF RenameTmp, Full
  <2>3. cur' \in Dirs /\ cur' # NoDir /\ ~cur'.lock /\ cur'.file = Full(done')
    BY <1>4, <2>1, <2>2, Shapes DEF RenameTmp, TmpFilled, StoreShape
  <2> QED  BY <1>4, <2>2, <2>3 DEF RenameTmp, StoreShape, OneVersion, TmpFilled, CurPlaced, LastFlush
<1>5. CASE FlushEnd
  BY <1>5 DEF FlushEnd, StoreShape, OneVersion, TmpFilled, CurPlaced, LastFlush
<1>6. ASSUME NEW i \in Indexes, SaveBegin(i) PROVE StoreInv'
  <2>1. tmp \in Dirs /\ tmp.file \in Files /\ [tmp.file EXCEPT ![i] = Partial] \in Files
    BY <1>6 DEF SaveBegin, StoreShape, TmpFilled, Dirs, Files
  <2>2. tmp' \in Dirs /\ tmp' # NoDir /\ tmp'.file = [tmp.file EXCEPT ![i] = Partial]
    BY <1>6, <2>1, Shapes DEF SaveBegin
  <2>3. \A j \in Indexes \ left : tmp'.file[j] = mem[j]
    BY <1>6, <2>1, <2>2 DEF SaveBegin, TmpFilled, Files
  <2> QED  BY <1>6, <2>2, <2>3 DEF SaveBegin, StoreShape, OneVersion, TmpFilled, CurPlaced, LastFlush
<1>7. ASSUME NEW i \in Indexes, SaveEnd(i) PROVE StoreInv'
  <2>1. tmp \in Dirs /\ tmp.file \in Files /\ [tmp.file EXCEPT ![i] = mem[i]] \in Files
    BY <1>7 DEF SaveEnd, StoreShape, TmpFilled, Dirs, Files
  <2>2. tmp' \in Dirs /\ tmp' # NoDir /\ tmp'.file = [tmp.file EXCEPT ![i] = mem[i]]
    BY <1>7, <2>1, Shapes DEF SaveEnd
  <2>3. \A j \in Indexes \ left' : tmp'.file[j] = mem[j]
    BY <1>7, <2>1, <2>2 DEF SaveEnd, TmpFilled, Files
  <2> QED  BY <1>7, <2>2, <2>3 DEF SaveEnd, StoreShape, OneVersion, TmpFilled, CurPlaced, LastFlush
<1>8. ASSUME NEW i \in Indexes, RemoveOld(i) PROVE StoreInv'
  <2>1. old' \in Dirs /\ ~old'.lock
    BY <1>8 DEF RemoveOld, StoreShape, Dirs, Files
  <2> QED  BY <1>8, <2>1, Shapes DEF RemoveOld, StoreShape, OneVersion, TmpFilled, CurPlaced, LastFlush
<1> QED  BY <1>1, <1>2, <1>3, <1>4, <1>5, <1>6, <1>7, <1>8

\* So does a process that stops or dies anywhere and starts again.
LEMMA RestartInv ==
    ASSUME StoreInv,
           \/ Change \/ Stop \/ WipeBegin \/ WipeEnd \/ Load
           \/ \E i \in Indexes : WipeFile(i)
    PROVE  StoreInv'
<1> USE DEF StoreInv, Flushing
<1>1. CASE Change
  <2>1. PICK v \in 0 .. MaxVersion : mem = Full(v)
    BY <1>1 DEF Change, OneVersion
  <2>2. v + 1 \in 0 .. MaxVersion
    BY <1>1, <2>1, StoreAssumption DEF Change, Full
  <2>3. mem' = Full(v + 1)
    BY <1>1, <2>1 DEF Change, Full
  <2>4. mem' \in Files
    BY <2>2, <2>3, Shapes
  <2> QED  BY <1>1, <2>2, <2>3, <2>4 DEF Change, StoreShape, OneVersion, TmpFilled, CurPlaced, LastFlush
<1>2. CASE Stop
  BY <1>2, Shapes DEF Stop, StoreShape, OneVersion, TmpFilled, CurPlaced, LastFlush
<1>3. CASE WipeBegin
  BY <1>3 DEF WipeBegin, StoreShape, OneVersion, TmpFilled, CurPlaced, LastFlush
<1>4. CASE WipeEnd
  <2>1. 0 \in 0 .. MaxVersion /\ mem' = Full(0) /\ Full(0) \in Files
    BY <1>4, Shapes, StoreAssumption DEF WipeEnd
  <2>2. OneVersion'
    BY <2>1 DEF OneVersion
  <2>3. StoreShape'
    BY <1>4, <2>1 DEF WipeEnd, StoreShape
  <2>4. TmpFilled' /\ CurPlaced' /\ LastFlush'
    BY <1>4 DEF WipeEnd, TmpFilled, CurPlaced, LastFlush
  <2> QED  BY <2>2, <2>3, <2>4
<1>5. CASE Load
  <2>1. mem' \in Files
    BY <1>5, Shapes, StoreAssumption DEF Load, StoreShape, Dirs
  <2>2. pc' = "run" \/ pc' = "broken"
    BY <1>5 DEF Load
  <2>3. pc' = "run" => \E v \in 0 .. MaxVersion : mem' = Full(v)
    BY <1>5 DEF Load, Full
  <2> QED  BY <1>5, <2>1, <2>2, <2>3 DEF Load, StoreShape, OneVersion, TmpFilled, CurPlaced, LastFlush
<1>6. ASSUME NEW i \in Indexes, WipeFile(i) PROVE StoreInv'
  <2>1. cur' \in Dirs /\ ~cur'.lock
    BY <1>6 DEF WipeFile, StoreShape, Dirs, Files
  <2> QED  BY <1>6, <2>1, Shapes DEF WipeFile, StoreShape, OneVersion, TmpFilled, CurPlaced, LastFlush
<1> QED  BY <1>1, <1>2, <1>3, <1>4, <1>5, <1>6

LEMMA StoreStepInv == StoreInv /\ [StoreNext]_storeVars => StoreInv'
<1>1. ASSUME StoreInv, StoreNext PROVE StoreInv'
  BY <1>1, FlushInv, RestartInv DEF StoreNext
<1>2. ASSUME StoreInv, UNCHANGED storeVars PROVE StoreInv'
  BY <1>2 DEF storeVars, StoreInv, StoreShape, OneVersion, TmpFilled, CurPlaced, LastFlush
<1> QED  BY <1>1, <1>2

LEMMA StoreInvSound == StoreInv => StoreSound
<1> SUFFICES ASSUME StoreInv PROVE StoreSound
  OBVIOUS
<1>1. StoreTypeOK
  BY DEF StoreInv, StoreShape, StoreTypeOK, Dirs, Files
<1>2. LastFlushKept
  BY DEF StoreInv, LastFlush, LastFlushKept, Full
<1> QED  BY <1>1, <1>2 DEF StoreSound

-----------------------------------------------------------------------------

\* Wherever the process dies, some directory holds the whole of the last flush
\* that got through, and what is on disk has its shape: object_database::flush.
THEOREM StoreCorrect == StoreSpec => []StoreSound
<1>1. StoreInit => StoreInv
  BY StoreInitInv
<1>2. StoreInv /\ [StoreNext]_storeVars => StoreInv'
  BY StoreStepInv
<1>3. StoreInv => StoreSound
  BY StoreInvSound
<1> QED  BY <1>1, <1>2, <1>3, PTL DEF StoreSpec

\* object_database::open never mixes the files of two flushes: the node starts
\* from the last flush that got through or from genesis, unless a wipe was cut
\* short.
THEOREM LoadsOneFlush == StoreSpec => OneFlushLoaded
<1>1. StoreInit => StoreInv
  BY StoreInitInv
<1>2. StoreInv /\ [StoreNext]_storeVars => StoreInv'
  BY StoreStepInv
<1>3. StoreInv /\ [StoreNext]_storeVars
        => [pc = "down" /\ pc' \in {"run", "broken"} /\ ~torn =>
               mem' \in {[i \in Indexes |-> done], Genesis}]_storeVars
  <2> SUFFICES ASSUME StoreInv, StoreNext, pc = "down", pc' \in {"run", "broken"}, ~torn
               PROVE  mem' \in {[i \in Indexes |-> done], Genesis}
    BY DEF storeVars
  <2>1. Load
    BY DEF StoreNext, Change, FlushBegin, SaveBegin, SaveEnd, RemoveOld, WipeFile, Unlock,
           RenameCur, RenameTmp, FlushEnd, Stop, WipeBegin, WipeEnd, Load
  <2>2. cur # NoDir => cur.file = [i \in Indexes |-> done]
    BY DEF StoreInv, LastFlush, Full
  <2> QED  BY <2>1, <2>2 DEF Load
<1> QED  BY <1>1, <1>2, <1>3, PTL DEF StoreSpec, OneFlushLoaded

-----------------------------------------------------------------------------
(* The block log.  The cells of the file, the entries of the index and the *)
(* writes of the index that the stream holds back.                         *)

WriteStep(idx, w) == Write(idx, w.num, w.entry)
Writing == INSTANCE SequenceFolds WITH Op <- WriteStep

CellSet == Blocks \X Nat
FileSeqs == Seq(CellSet)
Ents == [pos : Int, size : Nat, id : Blocks \cup {None}]
Writes == [num : Nat \ {0}, entry : Ents]

LEMMA LogSizes ==
    /\ \A b \in Blocks : Size[b] \in Nat \ {0} /\ Num[b] \in Nat \ {0} /\ b # None
    /\ MaxCells \in Nat /\ Nums \subseteq Nat \ {0}
BY LogAssumption DEF Nums

LEMMA CellsOf ==
    ASSUME NEW b \in Blocks
    PROVE  /\ Cells(b) \in FileSeqs /\ Len(Cells(b)) = Size[b]
           /\ \A i \in 1 .. Size[b] : Cells(b)[i] = <<b, i>>
<1>1. Size[b] \in Nat \ {0}
  BY LogSizes
<1>2. \A i \in 1 .. Size[b] : <<b, i>> \in CellSet
  BY <1>1 DEF CellSet
<1> QED  BY <1>1, <1>2 DEF Cells, FileSeqs

\* A piece of a file, and of the file with more behind it.
LEMMA Piece ==
    ASSUME NEW f \in FileSeqs, NEW p \in Nat, NEW s \in Nat, p + s <= Len(f)
    PROVE  /\ Len(SubSeq(f, p + 1, p + s)) = s
           /\ SubSeq(f, p + 1, p + s) = [i \in 1 .. s |-> f[p + i]]
BY DEF FileSeqs

LEMMA UnpackedAppend ==
    ASSUME NEW f \in FileSeqs, NEW e \in Ents, NEW b \in Blocks, e.id # b
    PROVE  Unpacked(e, f \o Cells(b)) = Unpacked(e, f)
<1> DEFINE c == Cells(b)
<1>1. c \in FileSeqs /\ Len(c) = Size[b] /\ Size[b] \in Nat \ {0}
      /\ \A i \in 1 .. Size[b] : c[i] = <<b, i>>
  BY CellsOf, LogSizes
<1> HIDE DEF c
<1> DEFINE g == f \o c
<1>2. /\ g \in FileSeqs /\ Len(g) = Len(f) + Len(c) /\ Len(f) \in Nat
      /\ \A i \in 1 .. Len(f) + Len(c) : g[i] = IF i <= Len(f) THEN f[i] ELSE c[i - Len(f)]
  BY <1>1, ConcatProperties DEF FileSeqs
<1> HIDE DEF g
<1>3. PICK p \in Int, s \in Nat, x \in Blocks \cup {None}, n \in Nat, m \in Nat :
         p = e.pos /\ s = e.size /\ x = e.id /\ n = Len(f) /\ m = Len(g) /\ n <= m
  <2>1. e.pos \in Int /\ e.size \in Nat /\ e.id \in Blocks \cup {None}
    BY DEF Ents
  <2>2. PICK n \in Nat, m \in Nat : n = Len(f) /\ m = Len(g) /\ n <= m
    BY <1>1, <1>2
  <2> QED  BY <2>1, <2>2
<1>4. ASSUME x # None, ~ReadFails(e, f)
      PROVE  ~ReadFails(e, g) /\ SubSeq(g, p + 1, p + s) = SubSeq(f, p + 1, p + s)
  <2>1. p \in Nat /\ (s > 0 => p + s <= n)
    BY <1>3, <1>4 DEF ReadFails
  <2>2. ~ReadFails(e, g)
    BY <1>3, <2>1 DEF ReadFails
  <2>3. CASE s = 0
    <3>1. SubSeq(g, p + 1, p + s) = <<>> /\ SubSeq(f, p + 1, p + s) = <<>>
      BY <1>2, <2>1, <2>3 DEF FileSeqs
    <3> QED  BY <2>2, <3>1
  <2>4. CASE s > 0
    <3>1. p + s <= Len(f) /\ p + s <= Len(g)
      BY <1>3, <2>1, <2>4
    <3>2. /\ SubSeq(g, p + 1, p + s) = [i \in 1 .. s |-> g[p + i]]
          /\ SubSeq(f, p + 1, p + s) = [i \in 1 .. s |-> f[p + i]]
      BY <1>2, <2>1, <3>1, Piece
    <3>3. \A i \in 1 .. s : p + i \in 1 .. Len(f) + Len(c) /\ p + i <= Len(f)
      BY <1>1, <1>2, <2>1, <3>1
    <3>4. \A i \in 1 .. s : g[p + i] = f[p + i]
      BY <1>2, <3>3
    <3> QED  BY <2>2, <3>2, <3>4
  <2> QED  BY <2>3, <2>4
<1>5. ASSUME x # None, ReadFails(e, f), ~ReadFails(e, g)
      PROVE  SubSeq(g, p + 1, p + s) # Cells(x)
  <2> SUFFICES ASSUME SubSeq(g, p + 1, p + s) = Cells(x) PROVE FALSE
    OBVIOUS
  <2>1. p \in Nat /\ s > 0 /\ p + s <= m /\ p + s > n
    <3>1. ~(p < 0) /\ ~(s > 0 /\ p + s > m)
      BY <1>3, <1>5 DEF ReadFails
    <3>2. p < 0 \/ (s > 0 /\ p + s > n)
      BY <1>3, <1>5 DEF ReadFails
    <3>3. p >= 0
      BY <3>1
    <3>4. ~(p < 0)
      BY <3>1
    <3>5. s > 0 /\ p + s > n
      BY <3>2, <3>4
    <3> QED  BY <3>1, <3>3, <3>5
  <2>2. SubSeq(g, p + 1, p + s) = [i \in 1 .. s |-> g[p + i]] /\ Len(SubSeq(g, p + 1, p + s)) = s
    <3>1. p + s <= Len(g)
      BY <1>3, <2>1
    <3> QED  BY <1>2, <2>1, <3>1, Piece
  <2>3. x \in Blocks /\ Size[x] = s /\ \A i \in 1 .. s : Cells(x)[i] = <<x, i>>
    <3>1. x \in Blocks
      BY <1>5
    <3>2. Len(Cells(x)) = Size[x] /\ \A i \in 1 .. Size[x] : Cells(x)[i] = <<x, i>>
      BY <3>1, CellsOf
    <3>3. Size[x] = s
      BY <2>2, <3>2
    <3> QED  BY <3>1, <3>2, <3>3
  <2>4. g[p + s] = <<x, s>>
    <3>1. s \in 1 .. s
      BY <2>1
    <3>2. Cells(x)[s] = g[p + s]
      BY <2>2, <3>1
    <3> QED  BY <2>3, <3>1, <3>2
  <2>5. p + s \in 1 .. Len(f) + Len(c) /\ ~(p + s <= Len(f)) /\ (p + s) - Len(f) \in 1 .. Size[b]
    <3>1. PICK k \in Nat \ {0} : k = Size[b] /\ k = Len(c)
      BY <1>1
    <3>2. m = n + k
      BY <1>2, <1>3, <3>1
    <3>3. p + s \in 1 .. n + k /\ ~(p + s <= n) /\ (p + s) - n \in 1 .. k
      BY <2>1, <3>2
    <3> QED  BY <1>3, <3>1, <3>3
  <2>6. g[p + s] = c[(p + s) - Len(f)]
    BY <1>2, <2>5
  <2>7. g[p + s] = <<b, (p + s) - Len(f)>>
    BY <1>1, <2>5, <2>6
  <2> QED  BY <1>3, <2>4, <2>7
<1>6. Unpacked(e, g) = Unpacked(e, f)
  BY <1>3, <1>4, <1>5 DEF Unpacked
<1> QED  BY <1>6 DEF g, c

\* The block just written is read back.
LEMMA UnpackedNew ==
    ASSUME NEW f \in FileSeqs, NEW b \in Blocks
    PROVE  Unpacked(Entry(Len(f), Size[b], b), f \o Cells(b)) = b
<1> DEFINE c == Cells(b)
<1>1. c \in FileSeqs /\ Len(c) = Size[b] /\ Size[b] \in Nat \ {0} /\ b # None
      /\ c = [i \in 1 .. Size[b] |-> <<b, i>>]
      /\ \A i \in 1 .. Size[b] : c[i] = <<b, i>>
  BY CellsOf, LogSizes DEF Cells
<1> HIDE DEF c
<1> DEFINE g == f \o c
<1>2. /\ g \in FileSeqs /\ Len(g) = Len(f) + Len(c) /\ Len(f) \in Nat
      /\ \A i \in 1 .. Len(f) + Len(c) : g[i] = IF i <= Len(f) THEN f[i] ELSE c[i - Len(f)]
  BY <1>1, ConcatProperties DEF FileSeqs
<1> HIDE DEF g
<1>3. PICK p \in Nat, s \in Nat \ {0} : p = Len(f) /\ s = Size[b] /\ p + s = Len(g)
  BY <1>1, <1>2
<1>4. SubSeq(g, p + 1, p + s) = [i \in 1 .. s |-> g[p + i]]
  <2>1. p + s <= Len(g)
    BY <1>3
  <2> QED  BY <1>2, <2>1, Piece
<1>5. ASSUME NEW i \in 1 .. s PROVE g[p + i] = <<b, i>>
  <2>1. p + i \in 1 .. Len(f) + Len(c) /\ ~(p + i <= Len(f)) /\ (p + i) - Len(f) = i
    BY <1>1, <1>3
  <2> QED  BY <1>1, <1>2, <1>3, <2>1
<1>6. SubSeq(g, p + 1, p + s) = c
  BY <1>1, <1>3, <1>4, <1>5
<1>7. Unpacked(Entry(p, s, b), g) = b
  <2>1. Entry(p, s, b).pos = p /\ Entry(p, s, b).size = s /\ Entry(p, s, b).id = b
    BY DEF Entry
  <2>2. ~ReadFails(Entry(p, s, b), g)
    <3>1. ~(p < 0) /\ ~(p + s > Len(g))
      BY <1>3
    <3> QED  BY <2>1, <3>1 DEF ReadFails
  <2> QED  BY <1>1, <1>6, <2>1, <2>2 DEF Unpacked, c
<1> QED  BY <1>3, <1>7 DEF g, c

-----------------------------------------------------------------------------
(* The index. *)

LEMMA LargerOne ==
    ASSUME NEW x \in Int, NEW y \in Int
    PROVE  Max({x, y}) = IF x <= y THEN y ELSE x
<1>1. \E m \in {x, y} : \A z \in {x, y} : m >= z
  OBVIOUS
<1>2. Max({x, y}) \in {x, y} /\ \A z \in {x, y} : Max({x, y}) >= z
  BY <1>1 DEF Max
<1> QED  BY <1>2

LEMMA HoleIsNothing == Hole \in Ents /\ Hole.id = None /\ \A f : Unpacked(Hole, f) = None
BY DEF Hole, Entry, Ents, Unpacked

\* Entries lie under the number of the block they name.
Placed(idx) == \A k \in 1 .. Len(idx) : idx[k].id # None => Num[idx[k].id] = k

LEMMA WriteIndex ==
    ASSUME NEW idx \in Seq(Ents), NEW n \in Nat \ {0}, NEW e \in Ents
    PROVE  /\ Write(idx, n, e) \in Seq(Ents)
           /\ Len(Write(idx, n, e)) = IF n <= Len(idx) THEN Len(idx) ELSE n
           /\ Write(idx, n, e)[n] = e
           /\ \A k \in 1 .. Len(Write(idx, n, e)) :
                 k # n => Write(idx, n, e)[k] = IF k <= Len(idx) THEN idx[k] ELSE Hole
<1>1. PICK l \in Nat : l = Len(idx)
  OBVIOUS
<1>2. PICK m \in Nat : m = Max({n, Len(idx)}) /\ m = IF n <= l THEN l ELSE n
  BY <1>1, LargerOne
<1> DEFINE w == [k \in 1 .. m |-> IF k = n THEN e ELSE IF k <= Len(idx) THEN idx[k] ELSE Hole]
<1>3. Write(idx, n, e) = w
  BY <1>2 DEF Write
<1>4. \A k \in 1 .. m : (IF k = n THEN e ELSE IF k <= Len(idx) THEN idx[k] ELSE Hole) \in Ents
  BY <1>1, HoleIsNothing
<1>5. w \in Seq(Ents) /\ Len(w) = m
  BY <1>4
<1>6. n \in 1 .. m
  BY <1>2
<1>7. w[n] = e
  BY <1>6
<1> QED  BY <1>1, <1>2, <1>3, <1>5, <1>7

LEMMA WritePlaced ==
    ASSUME NEW idx \in Seq(Ents), Placed(idx), NEW n \in Nat \ {0}, NEW e \in Ents, e.id # None => Num[e.id] = n
    PROVE  Placed(Write(idx, n, e))
<1> DEFINE w == Write(idx, n, e)
<1>1. /\ w[n] = e
      /\ \A k \in 1 .. Len(w) : k # n => w[k] = IF k <= Len(idx) THEN idx[k] ELSE Hole
  BY WriteIndex
<1> HIDE DEF w
<1>2. ASSUME NEW k \in 1 .. Len(w), w[k].id # None PROVE Num[w[k].id] = k
  <2>1. CASE k = n
    BY <1>1, <1>2, <2>1
  <2>2. CASE k # n /\ k <= Len(idx)
    BY <1>1, <1>2, <2>2 DEF Placed
  <2>3. CASE k # n /\ ~(k <= Len(idx))
    BY <1>1, <1>2, <2>3, HoleIsNothing
  <2> QED  BY <2>1, <2>2, <2>3
<1>3. Placed(w)
  BY <1>2 DEF Placed
<1> QED  BY <1>3 DEF w

\* A write changes what is found under its number only.
LEMMA FetchedWrite ==
    ASSUME NEW idx \in Seq(Ents), NEW n \in Nat \ {0}, NEW e \in Ents, NEW f
    PROVE  /\ Fetched(n, Write(idx, n, e), f) = Unpacked(e, f)
           /\ \A k \in Nat \ {0} : k # n => Fetched(k, Write(idx, n, e), f) = Fetched(k, idx, f)
<1> DEFINE w == Write(idx, n, e)
<1>1. PICK l \in Nat, m \in Nat : l = Len(idx) /\ m = Len(w) /\ m = IF n <= l THEN l ELSE n
  <2>1. PICK l \in Nat : l = Len(idx)
    OBVIOUS
  <2>2. w \in Seq(Ents) /\ Len(w) = IF n <= Len(idx) THEN Len(idx) ELSE n
    BY WriteIndex
  <2> HIDE DEF w
  <2>3. PICK m \in Nat : m = Len(w)
    BY <2>2
  <2> QED  BY <2>1, <2>2, <2>3
<1>2. /\ w[n] = e
      /\ \A k \in 1 .. Len(w) : k # n => w[k] = IF k <= Len(idx) THEN idx[k] ELSE Hole
  BY ONLY WriteIndex, idx \in Seq(Ents), n \in Nat \ {0}, e \in Ents, ZenonT(60)
<1> HIDE DEF w
<1>3. Fetched(n, w, f) = Unpacked(e, f)
  BY <1>1, <1>2 DEF Fetched
<1>4. ASSUME NEW k \in Nat \ {0}, k # n PROVE Fetched(k, w, f) = Fetched(k, idx, f)
  <2>1. CASE k > m
    <3>1. k > Len(w) /\ k > Len(idx)
      BY <1>1, <2>1
    <3> QED  BY <3>1 DEF Fetched
  <2>2. CASE k <= m /\ k <= l
    <3>1. k \in 1 .. Len(w) /\ k <= Len(idx) /\ ~(k > Len(w)) /\ ~(k > Len(idx))
      BY <1>1, <2>2
    <3>2. w[k] = idx[k]
      BY <1>2, <1>4, <3>1
    <3> QED  BY <3>1, <3>2 DEF Fetched
  <2>3. CASE k <= m /\ k > l
    <3>1. k \in 1 .. Len(w) /\ ~(k <= Len(idx)) /\ ~(k > Len(w)) /\ k > Len(idx)
      BY <1>1, <2>3
    <3>2. w[k] = Hole
      BY <1>2, <1>4, <3>1
    <3> QED  BY <3>1, <3>2, HoleIsNothing DEF Fetched
  <2> QED  BY <1>1, <2>1, <2>2, <2>3
<1> QED  BY <1>3, <1>4 DEF w

\* What is found is a block of that number.
LEMMA FetchedBlock ==
    ASSUME NEW idx \in Seq(Ents), Placed(idx), NEW n \in Nat \ {0}, NEW f
    PROVE  /\ Fetched(n, idx, f) \in Blocks \cup {None}
           /\ Fetched(n, idx, f) # None => Num[Fetched(n, idx, f)] = n
<1>1. CASE n > Len(idx)
  BY <1>1 DEF Fetched
<1>2. CASE ~(n > Len(idx))
  <2>1. n \in 1 .. Len(idx)
    BY <1>2
  <2>2. idx[n] \in Ents
    BY <2>1
  <2>3. idx[n].id \in Blocks \cup {None}
    BY <2>2 DEF Ents
  <2>4. Fetched(n, idx, f) = idx[n].id \/ Fetched(n, idx, f) = None
    BY <1>2 DEF Fetched, Unpacked
  <2>5. idx[n].id # None => Num[idx[n].id] = n
    BY <2>1 DEF Placed
  <2> QED  BY <2>3, <2>4, <2>5
<1> QED  BY <1>1, <1>2

-----------------------------------------------------------------------------
(* What the streams hold back. *)

LEMMA FlushedFold ==
    /\ Flushed = Writing!Fold(index, ibuf)
    /\ Flushed' = Writing!Fold(index', ibuf')
BY DEF Flushed, WriteStep, Writing!Fold, FoldLeft, Writing!MapThenFoldSet, MapThenFoldSet,
       Max, Writing!Largest

LEMMA WritingClosed == Writing!Closed(Seq(Ents), Writes)
<1> SUFFICES ASSUME NEW idx \in Seq(Ents), NEW w \in Writes PROVE WriteStep(idx, w) \in Seq(Ents)
  BY DEF Writing!Closed
<1>1. w.num \in Nat \ {0} /\ w.entry \in Ents
  BY DEF Writes
<1> QED  BY <1>1, WriteIndex DEF WriteStep

LEMMA NoneAndOne ==
    ASSUME NEW S
    PROVE  /\ <<>> \in Seq(S) /\ Len(<<>>) = 0
           /\ \A x \in S : <<x>> \in Seq(S) /\ Len(<<x>>) = 1 /\ <<x>>[1] = x
OBVIOUS

\* Nothing or one write is held back.
LEMMA WritingOne ==
    ASSUME NEW idx \in Seq(Ents)
    PROVE  /\ Writing!Fold(idx, <<>>) = idx
           /\ \A w \in Writes : Writing!Fold(idx, <<w>>) = Write(idx, w.num, w.entry)
<1>1. PICK V : V = Seq(Ents) /\ idx \in V /\ Writing!Closed(V, Writes)
  BY WritingClosed
<1>2. ASSUME NEW s \in Seq(Writes)
      PROVE  \E g \in [0 .. Len(s) -> V] : Writing!FoldsTo(g, idx, s) /\ Writing!Fold(idx, s) = g[Len(s)]
  BY ONLY <1>1, s \in Seq(Writes), Writing!FoldSteps
<1>3. Writing!Fold(idx, <<>>) = idx
  <2>1. PICK e \in Seq(Writes) : e = <<>> /\ Len(e) = 0
    <3>1. <<>> \in Seq(Writes) /\ Len(<<>>) = 0
      BY NoneAndOne
    <3> QED  BY ONLY <3>1
  <2>2. PICK g \in [0 .. Len(e) -> V] : Writing!FoldsTo(g, idx, e) /\ Writing!Fold(idx, e) = g[Len(e)]
    BY <1>2
  <2>3. Writing!Fold(idx, e) = idx
    BY <2>1, <2>2 DEF Writing!FoldsTo
  <2> QED  BY <2>1, <2>3
<1>4. ASSUME NEW w \in Writes PROVE Writing!Fold(idx, <<w>>) = Write(idx, w.num, w.entry)
  <2>1. PICK e \in Seq(Writes) : e = <<w>> /\ Len(e) = 1 /\ e[1] = w
    <3>1. <<w>> \in Seq(Writes) /\ Len(<<w>>) = 1 /\ <<w>>[1] = w
      BY NoneAndOne
    <3> QED  BY ONLY <3>1
  <2>2. PICK g \in [0 .. Len(e) -> V] : Writing!FoldsTo(g, idx, e) /\ Writing!Fold(idx, e) = g[Len(e)]
    BY <1>2
  <2>3. g[0] = idx /\ \A i \in 1 .. Len(e) : g[i] = WriteStep(g[i - 1], e[i])
    BY <2>2 DEF Writing!FoldsTo
  <2>4. 1 \in 1 .. Len(e) /\ 1 - 1 = 0
    BY <2>1
  <2>5. g[1] = WriteStep(idx, w)
    <3>1. g[1] = WriteStep(g[1 - 1], e[1])
      BY <2>3, <2>4
    <3> QED  BY <2>1, <2>3, <2>4, <3>1
  <2> QED  BY <2>1, <2>2, <2>5 DEF WriteStep
<1> QED  BY <1>3, <1>4

-----------------------------------------------------------------------------
(* The block log: the inductive invariant. *)

\* At most one write to the index is held back, of the number touched last.
Held(buf, n) ==
    buf = <<>> \/ \E w \in Writes : buf = <<w>> /\ w.num = n /\ (w.entry.id # None => Num[w.entry.id] = n)

\* Shapes; and a process that does not run holds nothing back.
LogShape ==
    /\ blocks \in FileSeqs /\ (bbuf = <<>> \/ \E b \in Blocks : bbuf = Cells(b))
    /\ Len(Appended) <= MaxCells
    /\ index \in Seq(Ents) /\ Placed(index) /\ Held(ibuf, touched)
    /\ failed \in BOOLEAN /\ up \in BOOLEAN
    /\ todo \subseteq Nat \ {0}
    /\ latest \in [Nums -> Blocks \cup {None}]
    /\ ~up => bbuf = <<>> /\ ibuf = <<>>

LogInv == LogShape /\ FetchIsExact /\ OnlyLastAtRisk

\* The index once a seek has passed on what is held back.
LEMMA Passed ==
    ASSUME NEW idx \in Seq(Ents), Placed(idx), NEW n, NEW buf, Held(buf, n)
    PROVE  /\ Writing!Fold(idx, buf) \in Seq(Ents) /\ Placed(Writing!Fold(idx, buf))
           /\ \A f, k : k \in Nat \ {0} /\ k # n => Fetched(k, Writing!Fold(idx, buf), f) = Fetched(k, idx, f)
<1>1. CASE buf = <<>>
  BY <1>1, WritingOne
<1>2. ASSUME NEW w \in Writes, buf = <<w>>, w.num = n, w.entry.id # None => Num[w.entry.id] = n
      PROVE  /\ Writing!Fold(idx, buf) \in Seq(Ents) /\ Placed(Writing!Fold(idx, buf))
             /\ \A f, k : k \in Nat \ {0} /\ k # n => Fetched(k, Writing!Fold(idx, buf), f) = Fetched(k, idx, f)
  <2>1. w.num \in Nat \ {0} /\ w.entry \in Ents
    BY DEF Writes
  <2>2. Writing!Fold(idx, buf) = Write(idx, w.num, w.entry)
    BY <1>2, WritingOne
  <2>3. PICK m \in Nat \ {0}, e \in Ents : m = w.num /\ e = w.entry
    BY <2>1
  <2>4. Write(idx, m, e) \in Seq(Ents)
    BY WriteIndex
  <2>5. Placed(Write(idx, m, e))
    BY <1>2, <2>3, WritePlaced
  <2>6. \A f : \A k \in Nat \ {0} : k # m => Fetched(k, Write(idx, m, e), f) = Fetched(k, idx, f)
    BY FetchedWrite
  <2>7. Writing!Fold(idx, buf) = Write(idx, m, e) /\ m = n
    BY <1>2, <2>2, <2>3
  <2> QED  BY ONLY <2>4, <2>5, <2>6, <2>7
<1> QED  BY <1>1, <1>2 DEF Held

LEMMA FileAppended ==
    ASSUME NEW f \in FileSeqs, NEW buf, buf = <<>> \/ \E b \in Blocks : buf = Cells(b)
    PROVE  f \o buf \in FileSeqs /\ buf \in FileSeqs /\ Len(f \o buf) = Len(f) + Len(buf) /\ Len(buf) \in Nat
           /\ (buf = <<>> => f \o buf = f)
<1>1. buf \in FileSeqs
  <2>1. <<>> \in FileSeqs
    BY DEF FileSeqs
  <2> QED  BY <2>1, CellsOf
<1>2. f \o buf \in FileSeqs /\ Len(f \o buf) = Len(f) + Len(buf) /\ Len(buf) \in Nat
  <2>1. f \in Seq(CellSet) /\ buf \in Seq(CellSet)
    BY <1>1 DEF FileSeqs
  <2>2. f \o buf \in Seq(CellSet) /\ Len(f \o buf) = Len(f) + Len(buf)
    BY ONLY <2>1, ConcatProperties
  <2>3. Len(buf) \in Nat
    BY ONLY <2>1
  <2> QED  BY ONLY <2>2, <2>3 DEF FileSeqs
<1>3. buf = <<>> => f \o buf = f
  <2>1. f \in Seq(CellSet)
    BY DEF FileSeqs
  <2>2. f \o <<>> = f
    BY ONLY <2>1, ConcatEmptySeq
  <2> QED  BY ONLY <2>2
<1> QED  BY <1>1, <1>2, <1>3

\* The files as they will be read.
LEMMA FilesNow ==
    ASSUME LogInv
    PROVE  /\ Flushed \in Seq(Ents) /\ Placed(Flushed)
           /\ Appended \in FileSeqs /\ Len(Appended) \in Nat /\ Len(Appended) <= MaxCells
           /\ \A f, k : k \in Nat \ {0} /\ k # touched => Fetched(k, Flushed, f) = Fetched(k, index, f)
           /\ ibuf = <<>> => Flushed = index
           /\ bbuf = <<>> => Appended = blocks
<1> USE DEF LogInv, LogShape
<1>1. Flushed = Writing!Fold(index, ibuf) /\ index \in Seq(Ents) /\ Placed(index) /\ Held(ibuf, touched)
  BY FlushedFold
<1>2. /\ Flushed \in Seq(Ents) /\ Placed(Flushed)
      /\ \A f, k : k \in Nat \ {0} /\ k # touched => Fetched(k, Flushed, f) = Fetched(k, index, f)
  BY ONLY <1>1, Passed
<1>3. ibuf = <<>> => Flushed = index
  BY <1>1, WritingOne
<1>4. Appended \in FileSeqs /\ (bbuf = <<>> => Appended = blocks)
  BY FileAppended DEF Appended
<1>5. Len(Appended) \in Nat
  BY <1>4 DEF FileSeqs
<1> QED  BY <1>2, <1>3, <1>4, <1>5


-----------------------------------------------------------------------------
(* Finding the last block. *)

LEMMA LargestIn ==
    ASSUME NEW n \in Nat, NEW s \in SUBSET (0 .. n), s # {}
    PROVE  Max(s) \in s /\ \A y \in s : y <= Max(s)
<1>1. Max(s) = Writing!Largest(s)
  BY DEF Max, Writing!Largest
<1> QED  BY <1>1, Writing!LargestPicked

LEMMA SmallestIn ==
    ASSUME NEW S \in SUBSET Nat, S # {}
    PROVE  Min(S) \in S
<1> DEFINE R == {p \in Nat \X Nat : p[1] < p[2]}
<1>1. IsWellFoundedOn(R, Nat)
  BY NatLessThanWellFounded DEF OpToRel
<1> HIDE DEF R
<1>2. PICK x \in S : \A y \in S : ~ (<<y, x>> \in R)
  BY <1>1, WFMin
<1>3. \A y \in S : x <= y
  <2> SUFFICES ASSUME NEW y \in S, ~(x <= y) PROVE FALSE
    OBVIOUS
  <2>1. x \in Nat /\ y \in Nat /\ y < x
    OBVIOUS
  <2>2. <<y, x>> \in R
    BY <2>1 DEF R
  <2> QED  BY <1>2, <2>2
<1> QED  BY <1>3 DEF Min

\* The first k entries of an index.
LEMMA IndexPart ==
    ASSUME NEW idx \in Seq(Ents), Placed(idx), NEW k \in 0 .. Len(idx)
    PROVE  /\ SubSeq(idx, 1, k) \in Seq(Ents) /\ Placed(SubSeq(idx, 1, k)) /\ Len(SubSeq(idx, 1, k)) = k
           /\ \A i \in 1 .. k : SubSeq(idx, 1, k)[i] = idx[i]
<1>1. \A i \in 1 .. k : i \in 1 .. Len(idx) /\ idx[i] \in Ents
  OBVIOUS
<1>2. /\ SubSeq(idx, 1, k) \in Seq(Ents) /\ Len(SubSeq(idx, 1, k)) = k
      /\ \A i \in 1 .. k : SubSeq(idx, 1, k)[i] = idx[i]
  <2>1. PICK n \in Nat : n = k
    OBVIOUS
  <2>2. /\ SubSeq(idx, 1, n) \in Seq(Ents) /\ Len(SubSeq(idx, 1, n)) = IF 1 <= n THEN n - 1 + 1 ELSE 0
        /\ \A i \in 1 .. n - 1 + 1 : SubSeq(idx, 1, n)[i] = idx[1 + i - 1]
    <3>1. \A i \in 1 .. n : idx[i] \in Ents
      BY <1>1, <2>1
    <3> QED  BY <3>1, SubSeqProperties
  <2> QED  BY <2>1, <2>2
<1> QED  BY <1>1, <1>2 DEF Placed

LEMMA LastEntry ==
    ASSUME NEW idx \in Seq(Ents), Placed(idx), NEW f
    PROVE  /\ last_index_entry(idx, f).idx \in Seq(Ents)
           /\ Placed(last_index_entry(idx, f).idx)
           /\ last_index_entry(idx, f).fail \in BOOLEAN
<1> DEFINE l == last_index_entry(idx, f)
           S == {0} \cup {j \in 1 .. Len(idx) : Unpacked(idx[j], f) # None}
<1>1. Len(idx) \in Nat /\ S \in SUBSET (0 .. Len(idx)) /\ 0 \in S
  OBVIOUS
<1>2. PICK k \in 0 .. Len(idx) : k = LastReadable(idx, f) /\ k \in S
  <2>1. PICK n \in Nat : n = Len(idx) /\ S \in SUBSET (0 .. n) /\ S # {}
    BY <1>1
  <2> HIDE DEF S
  <2>2. Max(S) \in S
    BY <2>1, LargestIn
  <2>3. LastReadable(idx, f) = Max(S)
    BY DEF LastReadable, S
  <2> QED  BY <2>1, <2>2, <2>3
<1>3. /\ SubSeq(idx, 1, k) \in Seq(Ents) /\ Placed(SubSeq(idx, 1, k)) /\ Len(SubSeq(idx, 1, k)) = k
      /\ \A i \in 1 .. k : SubSeq(idx, 1, k)[i] = idx[i]
  BY IndexPart
<1>4. \/ l = [idx |-> <<>>, fail |-> TRUE]
      \/ l = [idx |-> SubSeq(idx, 1, k), fail |-> FALSE]
  BY <1>2 DEF last_index_entry
<1> HIDE DEF l
<1>5. CASE l = [idx |-> <<>>, fail |-> TRUE]
  <2>1. l.idx = <<>> /\ l.fail = TRUE
    BY <1>5
  <2>2. <<>> \in Seq(Ents) /\ Placed(<<>>)
    BY NoneAndOne DEF Placed
  <2> QED  BY <2>1, <2>2 DEF l
<1>6. CASE l = [idx |-> SubSeq(idx, 1, k), fail |-> FALSE]
  <2>1. l.idx = SubSeq(idx, 1, k) /\ l.fail = FALSE
    BY <1>6
  <2> QED  BY <1>3, <2>1 DEF l
<1> QED  BY <1>4, <1>5, <1>6

\* cutoff_blocks leaves entries under their numbers too.
LEMMA CutoffShape ==
    ASSUME NEW idx \in Seq(Ents), Placed(idx), NEW i, NEW f
    PROVE  /\ Cutoff(i, idx, f).idx \in Seq(Ents) /\ Placed(Cutoff(i, idx, f).idx)
           /\ Cutoff(i, idx, f).fail \in BOOLEAN
<1> DEFINE E(k) == IF k > i /\ Unpacked(idx[k], f) # None THEN [idx[k] EXCEPT !.size = 0] ELSE idx[k]
           w == [k \in 1 .. Len(idx) |-> E(k)]
<1>1. \A k \in 1 .. Len(idx) : idx[k] \in Ents
  OBVIOUS
<1>2. \A e \in Ents : [e EXCEPT !.size = 0] \in Ents /\ [e EXCEPT !.size = 0].id = e.id
  BY DEF Ents
<1>3. \A k \in 1 .. Len(idx) : E(k) \in Ents /\ E(k).id = idx[k].id
  BY <1>1, <1>2
<1> HIDE DEF E
<1>4. w \in Seq(Ents) /\ Len(w) = Len(idx) /\ \A k \in 1 .. Len(idx) : w[k] = E(k)
  BY <1>3
<1>5. Placed(w)
  BY <1>3, <1>4 DEF Placed
<1>6. Cutoff(i, idx, f) = last_index_entry(w, f)
  BY DEF Cutoff, E
<1> HIDE DEF w
<1> QED  BY <1>4, <1>5, <1>6, LastEntry


-----------------------------------------------------------------------------
(* The steps. *)

LEMMA LogInitInv == LogInit => LogInv
<1> SUFFICES ASSUME LogInit PROVE LogInv
  OBVIOUS
<1> USE DEF LogInit
<1>1. <<>> \in FileSeqs /\ <<>> \in Seq(Ents) /\ Placed(<<>>) /\ Len(<<>>) = 0 /\ Held(<<>>, touched)
  BY NoneAndOne DEF FileSeqs, Placed, Held
<1>2. Appended = <<>> /\ Flushed = <<>>
  <2>1. blocks \o bbuf = <<>>
    BY <1>1, FileAppended
  <2>2. Writing!Fold(index, <<>>) = index
    BY <1>1, WritingOne
  <2> QED  BY <2>1, <2>2, FlushedFold DEF Appended
<1>3. LogShape
  <2>1. Len(Appended) <= MaxCells
    BY <1>1, <1>2, LogSizes
  <2>2. latest \in [Nums -> Blocks \cup {None}]
    OBVIOUS
  <2> QED  BY <1>1, <2>1, <2>2 DEF LogShape
<1>4. \A n \in Nums : Fetched(n, <<>>, <<>>) = None
  BY <1>1, LogSizes DEF Fetched
<1> QED  BY <1>2, <1>3, <1>4 DEF LogInv, FetchIsExact, OnlyLastAtRisk

\* A block is stored: in the running node, or once more in a replay.
LEMMA PutInv ==
    ASSUME LogInv, NEW b \in Blocks, up, ~failed, Put(b), UNCHANGED up, todo' \in SUBSET (Nat \ {0})
    PROVE  LogInv'
<1> DEFINE e == Entry(Len(Appended), Size[b], b)
           w == [num |-> Num[b], entry |-> e]
<1>1. /\ Flushed \in Seq(Ents) /\ Placed(Flushed)
      /\ Appended \in FileSeqs /\ Len(Appended) \in Nat
  BY FilesNow
<1>2. Size[b] \in Nat \ {0} /\ Num[b] \in Nat \ {0} /\ b # None /\ Num[b] \in Nums /\ MaxCells \in Nat
  BY LogSizes DEF Nums
<1>3. e \in Ents /\ e.id = b
  BY <1>1, <1>2 DEF Entry, Ents
<1>4. /\ blocks' = Appended /\ bbuf' = Cells(b) /\ index' = Flushed /\ ibuf' = <<w>>
      /\ latest' = [latest EXCEPT ![Num[b]] = b] /\ touched' = Num[b]
      /\ failed' = failed /\ Len(Appended) + Size[b] <= MaxCells
  BY DEF Put, PutEntry
<1> HIDE DEF e
<1>5. w \in Writes /\ w.num = Num[b] /\ w.entry = e
  BY <1>2, <1>3 DEF Writes
<1> HIDE DEF w
<1>6. Appended' = Appended \o Cells(b)
  BY <1>4 DEF Appended
<1>7. Flushed' = Write(Flushed, Num[b], e)
  <2>1. Flushed' = Writing!Fold(Flushed, <<w>>)
    BY <1>4, FlushedFold
  <2> QED  BY <1>1, <1>5, <2>1, WritingOne
<1>8. latest \in [Nums -> Blocks \cup {None}]
  BY DEF LogInv, LogShape
<1>9. LogShape'
  <2>1. Len(Appended') <= MaxCells
    <3>1. Len(Appended \o Cells(b)) = Len(Appended) + Len(Cells(b)) /\ Len(Cells(b)) = Size[b]
      BY <1>1, CellsOf, FileAppended
    <3> QED  BY <1>1, <1>2, <1>4, <1>6, <3>1
  <2>2. Held(ibuf', touched')
    BY <1>3, <1>4, <1>5 DEF Held
  <2>3. latest' \in [Nums -> Blocks \cup {None}]
    BY <1>4, <1>8
  <2>4. failed' \in BOOLEAN /\ up' \in BOOLEAN /\ up'
    BY <1>4 DEF LogInv, LogShape
  <2> QED  BY <1>1, <1>4, <2>1, <2>2, <2>3, <2>4 DEF LogShape
<1>10. \A n \in Nums : Fetched(n, Flushed, Appended) = latest[n]
  BY DEF LogInv, FetchIsExact
<1>11. OnlyLastAtRisk'
  <2>1. ASSUME NEW n \in Nums, n # Num[b] PROVE Fetched(n, Flushed, Appended) = latest'[n]
    BY <1>4, <1>8, <1>10, <2>1
  <2> QED  BY <1>4, <2>1 DEF OnlyLastAtRisk
<1>12. FetchIsExact'
  <2>1. ASSUME NEW n \in Nums PROVE Fetched(n, Flushed', Appended') = latest'[n]
    <3>1. n \in Nat \ {0}
      BY LogSizes
    <3>2. CASE n = Num[b]
      <4>1. Fetched(n, Flushed', Appended') = Unpacked(e, Appended \o Cells(b))
        BY <1>1, <1>2, <1>3, <1>6, <1>7, <3>2, FetchedWrite
      <4>2. Unpacked(e, Appended \o Cells(b)) = b
        BY <1>1, UnpackedNew DEF e
      <4> QED  BY <1>2, <1>4, <1>8, <3>2, <4>1, <4>2
    <3>3. CASE n # Num[b]
      <4>1. Fetched(n, Flushed', Appended') = Fetched(n, Flushed, Appended \o Cells(b))
        <5>1. PICK m \in Nat \ {0} : m = Num[b] /\ Flushed \in Seq(Ents) /\ e \in Ents
          BY <1>1, <1>2, <1>3
        <5>2. \A k \in Nat \ {0} : k # m => Fetched(k, Write(Flushed, m, e), Appended \o Cells(b))
                                            = Fetched(k, Flushed, Appended \o Cells(b))
          <6>1. PICK g : g = Appended \o Cells(b)
            OBVIOUS
          <6>2. PICK q \in Seq(Ents), x \in Ents : q = Flushed /\ x = e
            BY <5>1
          <6>3. \A k \in Nat \ {0} : k # m => Fetched(k, Write(q, m, x), g) = Fetched(k, q, g)
            BY FetchedWrite, SMTT(30)
          <6> QED  BY ONLY <6>1, <6>2, <6>3
        <5> QED  BY <1>6, <1>7, <3>1, <3>3, <5>1, <5>2
      <4>2. Fetched(n, Flushed, Appended \o Cells(b)) = Fetched(n, Flushed, Appended)
        <5>1. CASE n > Len(Flushed)
          BY <5>1 DEF Fetched
        <5>2. CASE ~(n > Len(Flushed))
          <6>1. n \in 1 .. Len(Flushed)
            BY <1>1, <3>1, <5>2
          <6>2. Flushed[n] \in Ents /\ Flushed[n].id # b
            BY <1>1, <1>2, <3>3, <6>1 DEF Placed
          <6>3. Unpacked(Flushed[n], Appended \o Cells(b)) = Unpacked(Flushed[n], Appended)
            BY <1>1, <6>2, UnpackedAppend
          <6> QED  BY <5>2, <6>3 DEF Fetched
        <5> QED  BY <5>1, <5>2
      <4>3. latest'[n] = latest[n]
        BY <1>4, <1>8, <3>3
      <4> QED  BY <1>10, <4>1, <4>2, <4>3
    <3> QED  BY <3>2, <3>3
  <2> QED  BY <2>1 DEF FetchIsExact
<1> QED  BY <1>9, <1>11, <1>12 DEF LogInv

\* store on a stream that has failed.
LEMMA StoreFailedInv ==
    ASSUME LogInv, NEW b \in Blocks, StoreFailed(b)
    PROVE  LogInv'
<1>1. Flushed \in Seq(Ents) /\ Placed(Flushed)
  BY FilesNow
<1>2. /\ failed /\ up /\ UNCHANGED <<blocks, bbuf, failed, up, todo>> /\ index' = Flushed
  BY DEF StoreFailed, PutEntry
<1>3. /\ Held(ibuf', touched')
      /\ latest' \in [Nums -> Blocks \cup {None}]
  <2>0. latest \in [Nums -> Blocks \cup {None}] /\ Num[b] \in Nat \ {0} /\ Size[b] \in Nat
    BY LogSizes DEF LogInv, LogShape
  <2>1. CASE ibuf' = <<>> /\ UNCHANGED <<latest, touched>>
    BY <2>0, <2>1 DEF Held
  <2>2. CASE PutEntry(b, NoPos)
    <3> DEFINE w == [num |-> Num[b], entry |-> Entry(NoPos, Size[b], b)]
    <3>1. Entry(NoPos, Size[b], b) \in Ents /\ Entry(NoPos, Size[b], b).id = b
      BY <2>0 DEF Entry, Ents, NoPos
    <3>2. w \in Writes /\ w.num = Num[b] /\ w.entry.id = b
      BY <2>0, <3>1 DEF Writes
    <3>3. ibuf' = <<w>> /\ touched' = Num[b] /\ latest' = [latest EXCEPT ![Num[b]] = b]
      BY <2>2 DEF PutEntry
    <3> HIDE DEF w
    <3> QED  BY <2>0, <3>2, <3>3 DEF Held
  <2> QED  BY <2>1, <2>2 DEF StoreFailed
<1>4. Len(Appended') <= MaxCells
  BY <1>2 DEF LogInv, LogShape, Appended
<1>5. LogShape'
  BY <1>1, <1>2, <1>3, <1>4 DEF LogInv, LogShape
<1> QED  BY <1>2, <1>5 DEF LogInv, FetchIsExact, OnlyLastAtRisk

\* Both files as they are read: nothing is held back.
LEMMA SettledInv ==
    ASSUME LogInv, index' \in Seq(Ents), Placed(index'), ibuf' = <<>>, bbuf' = <<>>,
           blocks' \in FileSeqs, Len(blocks') <= MaxCells,
           failed' \in BOOLEAN, up' \in BOOLEAN, todo' \in SUBSET (Nat \ {0}),
           latest' \in [Nums -> Blocks \cup {None}],
           up' /\ ~failed' => \A n \in Nums : Fetched(n, index', blocks') = latest'[n]
    PROVE  LogInv'
<1>1. Flushed' = index'
  BY FlushedFold, WritingOne
<1>2. Appended' = blocks'
  BY FileAppended DEF Appended
<1>3. LogShape'
  BY <1>2 DEF LogShape, Held
<1> QED  BY <1>1, <1>2, <1>3 DEF LogInv, FetchIsExact, OnlyLastAtRisk


\* Seeks and fetches pass on what is held back.
LEMMA SeekInv ==
    ASSUME LogInv, SeekIndex
    PROVE  LogInv'
<1>1. /\ Flushed \in Seq(Ents) /\ Placed(Flushed) /\ Appended \in FileSeqs
      /\ \A f, k : k \in Nat \ {0} /\ k # touched => Fetched(k, Flushed, f) = Fetched(k, index, f)
  BY FilesNow
<1>2. index' = Flushed /\ ibuf' = <<>> /\ UNCHANGED <<blocks, bbuf, failed, up, todo, latest, touched>>
  BY DEF SeekIndex
<1>3. Flushed' = Flushed
  <2>1. Flushed' = Writing!Fold(Flushed, <<>>)
    BY <1>2, FlushedFold
  <2> QED  BY <1>1, <2>1, WritingOne
<1>4. Appended' = Appended
  BY <1>2 DEF Appended
<1>5. LogShape'
  BY <1>1, <1>2, <1>4 DEF LogInv, LogShape, Held
<1>6. FetchIsExact'
  BY <1>2, <1>3, <1>4 DEF LogInv, FetchIsExact
<1>7. OnlyLastAtRisk'
  <2>1. \A n \in Nums \ {touched} : Fetched(n, Flushed, blocks) = Fetched(n, index, blocks)
    BY <1>1, LogSizes
  <2> QED  BY <1>2, <2>1 DEF LogInv, OnlyLastAtRisk
<1> QED  BY <1>5, <1>6, <1>7 DEF LogInv

LEMMA FetchInv ==
    ASSUME LogInv, NEW n \in Nums, Fetch(n)
    PROVE  LogInv'
<1>1. /\ Flushed \in Seq(Ents) /\ Placed(Flushed)
      /\ Appended \in FileSeqs /\ Len(Appended) <= MaxCells
  BY FilesNow
<1>2. up /\ index' = Flushed /\ ibuf' = <<>> /\ UNCHANGED <<up, todo, latest, touched>>
  BY DEF Fetch
<1>3. CASE failed
  <2>1. UNCHANGED <<blocks, bbuf, failed>>
    BY <1>3 DEF Fetch
  <2>2. Appended' = Appended
    BY <2>1 DEF Appended
  <2>3. LogShape'
    BY <1>1, <1>2, <2>1, <2>2 DEF LogInv, LogShape, Held
  <2> QED  BY <1>3, <2>1, <2>3 DEF LogInv, FetchIsExact, OnlyLastAtRisk
<1>4. CASE ~failed
  <2>1. blocks' = Appended /\ bbuf' = <<>> /\ failed' = ReadFails(Flushed[n], Appended)
    BY <1>4 DEF Fetch
  <2>2. failed' \in BOOLEAN
    BY <2>1 DEF ReadFails
  <2>3. \A k \in Nums : Fetched(k, Flushed, Appended) = latest[k]
    BY <1>2, <1>4 DEF LogInv, FetchIsExact
  <2>4. up' \in BOOLEAN /\ todo' \in SUBSET (Nat \ {0}) /\ latest' \in [Nums -> Blocks \cup {None}]
    BY <1>2 DEF LogInv, LogShape
  <2> QED  BY <1>1, <1>2, <2>1, <2>2, <2>3, <2>4, SettledInv
<1> QED  BY <1>3, <1>4

\* However the process stops, and whatever of the files is left.
LEMMA StopInv ==
    ASSUME LogInv, NEW f \in FileSeqs, Len(f) <= MaxCells, Stopped(f), index' \in Seq(Ents), Placed(index')
    PROVE  LogInv'
<1>1. /\ up' = FALSE /\ blocks' = f /\ ibuf' = <<>> /\ bbuf' = <<>> /\ failed' = FALSE /\ todo' = {}
      /\ latest' = latest
  BY DEF Stopped
<1>2. latest' \in [Nums -> Blocks \cup {None}]
  BY <1>1 DEF LogInv, LogShape
<1> QED  BY <1>1, <1>2, SettledInv

\* The first k cells of a file.
LEMMA FilePart ==
    ASSUME NEW f \in FileSeqs, NEW k \in 0 .. Len(f)
    PROVE  SubSeq(f, 1, k) \in FileSeqs /\ Len(SubSeq(f, 1, k)) = k
<1>1. \A i \in 1 .. k : f[i] \in CellSet
  BY DEF FileSeqs
<1>2. PICK n \in Nat : n = k
  BY DEF FileSeqs
<1>3. SubSeq(f, 1, n) \in Seq(CellSet) /\ Len(SubSeq(f, 1, n)) = IF 1 <= n THEN n - 1 + 1 ELSE 0
  BY <1>1, <1>2, SubSeqProperties
<1> QED  BY <1>2, <1>3 DEF FileSeqs

LEMMA StopsInv ==
    ASSUME LogInv, Close \/ Die \/ PowerLoss
    PROVE  LogInv'
<1>1. /\ Flushed \in Seq(Ents) /\ Placed(Flushed) /\ Appended \in FileSeqs /\ Len(Appended) <= MaxCells
      /\ index \in Seq(Ents) /\ Placed(index) /\ blocks \in FileSeqs /\ MaxCells \in Nat
      /\ (bbuf = <<>> \/ \E b \in Blocks : bbuf = Cells(b))
  BY FilesNow, LogSizes DEF LogInv, LogShape
<1>2. /\ bbuf \in FileSeqs /\ Appended = blocks \o bbuf
      /\ Len(Appended) = Len(blocks) + Len(bbuf) /\ Len(bbuf) \in Nat /\ Len(blocks) \in Nat
  BY <1>1, FileAppended DEF Appended, FileSeqs
<1>3. CASE Close
  BY <1>1, <1>3, StopInv DEF Close
<1>4. CASE Die
  <2>1. PICK k \in 0 .. Len(bbuf) : Stopped(blocks \o SubSeq(bbuf, 1, k))
    BY <1>4 DEF Die
  <2>2. PICK s \in FileSeqs : s = SubSeq(bbuf, 1, k) /\ Len(s) = k
    BY <1>2, FilePart
  <2>3. blocks \in Seq(CellSet) /\ s \in Seq(CellSet)
    BY <1>1 DEF FileSeqs
  <2>4. blocks \o s \in Seq(CellSet) /\ Len(blocks \o s) = Len(blocks) + Len(s)
    BY ONLY <2>3, ConcatProperties
  <2>5. blocks \o s \in FileSeqs /\ Len(blocks \o s) <= MaxCells
    <3>1. Len(blocks \o s) <= MaxCells
      BY <1>1, <1>2, <2>2, <2>4
    <3> QED  BY <2>4, <3>1 DEF FileSeqs
  <2>6. index' = index
    BY <1>4 DEF Die
  <2> QED  BY <1>1, <2>1, <2>2, <2>5, <2>6, StopInv
<1>5. CASE PowerLoss
  <2>1. PICK k \in 0 .. Len(blocks) : Stopped(SubSeq(blocks, 1, k))
    BY <1>5 DEF PowerLoss
  <2>2. PICK s \in FileSeqs : s = SubSeq(blocks, 1, k) /\ Len(s) = k
    BY <1>1, FilePart
  <2>3. Len(s) <= MaxCells
    BY <1>1, <1>2, <2>1, <2>2
  <2>4. index' = index
    BY <1>5 DEF PowerLoss
  <2> QED  BY <1>1, <2>1, <2>2, <2>3, <2>4, StopInv
<1> QED  BY <1>3, <1>4, <1>5

\* What is found is taken for what ought to be there.
LEMMA Accepted ==
    ASSUME NEW idx \in Seq(Ents), Placed(idx), NEW f
    PROVE  /\ [n \in Nums |-> Fetched(n, idx, f)] \in [Nums -> Blocks \cup {None}]
           /\ \A n \in Nums : Fetched(n, idx, f) = [m \in Nums |-> Fetched(m, idx, f)][n]
<1>1. \A n \in Nums : Fetched(n, idx, f) \in Blocks \cup {None}
  BY FetchedBlock, LogSizes
<1> QED  BY <1>1

LEMMA StartupInv ==
    ASSUME LogInv, NEW first \in Nums, Startup(first)
    PROVE  LogInv'
<1> DEFINE l == last_index_entry(index, blocks)
<1>1. l.idx \in Seq(Ents) /\ Placed(l.idx) /\ l.fail \in BOOLEAN
  BY LastEntry DEF LogInv, LogShape
<1>2. /\ ~up /\ up' = TRUE /\ index' = l.idx /\ failed' = l.fail /\ todo' = first .. Len(l.idx)
      /\ latest' = [n \in Nums |-> Fetched(n, l.idx, Appended)]
      /\ UNCHANGED <<blocks, bbuf, ibuf>>
  BY DEF Startup, Accept
<1> HIDE DEF l
<1>3. bbuf = <<>> /\ ibuf = <<>> /\ blocks \in FileSeqs
  BY <1>2 DEF LogInv, LogShape
<1>4. Appended = blocks /\ Len(blocks) <= MaxCells
  BY <1>3, FilesNow
<1>5. todo' \in SUBSET (Nat \ {0})
  <2>1. first \in Nat \ {0} /\ Len(l.idx) \in Nat
    BY <1>1, LogSizes
  <2> QED  BY <1>2, <2>1
<1>6. /\ latest' \in [Nums -> Blocks \cup {None}]
      /\ \A n \in Nums : Fetched(n, index', blocks') = latest'[n]
  BY <1>1, <1>2, <1>4, Accepted
<1> QED  BY <1>1, <1>2, <1>3, <1>4, <1>5, <1>6, SettledInv

LEMMA ReplayInv ==
    ASSUME LogInv, Replay \/ ReplayGap
    PROVE  LogInv'
<1>1. /\ Flushed \in Seq(Ents) /\ Placed(Flushed)
      /\ Appended \in FileSeqs /\ Len(Appended) <= MaxCells
  BY FilesNow
<1>2. PICK i \in Nat \ {0} : i = Min(todo)
  <2>1. todo # {} /\ todo \in SUBSET Nat /\ todo \subseteq Nat \ {0}
    BY DEF Replay, ReplayGap, LogInv, LogShape
  <2>2. Min(todo) \in todo
    BY <2>1, SmallestIn
  <2> QED  BY <2>1, <2>2
<1>3. CASE Replay
  <2>1. PICK b : b = Fetched(i, Flushed, Appended)
    OBVIOUS
  <2>2. /\ up /\ ~failed /\ b # None /\ Put(b) /\ todo' = todo \ {Min(todo)} /\ UNCHANGED up
    BY <1>2, <1>3, <2>1 DEF Replay
  <2>3. b \in Blocks
    BY <1>1, <2>1, <2>2, FetchedBlock
  <2>4. todo' \in SUBSET (Nat \ {0})
    BY <2>2 DEF LogInv, LogShape
  <2> QED  BY <2>2, <2>3, <2>4, PutInv
<1>4. CASE ReplayGap
  <2> DEFINE c == Cutoff(i, Flushed, Appended)
  <2>1. c.idx \in Seq(Ents) /\ Placed(c.idx) /\ c.fail \in BOOLEAN
    BY <1>1, CutoffShape
  <2>2. /\ up /\ ibuf' = <<>> /\ todo' = {} /\ UNCHANGED up
        /\ latest' = [n \in Nums |-> Fetched(n, index', Appended)]
        /\ IF failed \/ ReadFails(Flushed[i], Appended)
           THEN index' = Flushed /\ failed' = TRUE
           ELSE index' = c.idx /\ failed' = c.fail
        /\ IF failed THEN UNCHANGED <<blocks, bbuf>> ELSE blocks' = Appended /\ bbuf' = <<>>
    BY <1>2, <1>4 DEF ReplayGap, Accept
  <2> HIDE DEF c
  <2>3. index' \in Seq(Ents) /\ Placed(index') /\ failed' \in BOOLEAN /\ (failed => failed' = TRUE)
    BY <1>1, <2>1, <2>2
  <2>4. latest' \in [Nums -> Blocks \cup {None}]
    BY <2>2, <2>3, Accepted
  <2>5. CASE failed
    <3>1. UNCHANGED <<blocks, bbuf>> /\ failed'
      BY <2>2, <2>3, <2>5
    <3>2. Appended' = Appended
      BY <3>1 DEF Appended
    <3>3. LogShape'
      BY <1>1, <2>2, <2>3, <2>4, <3>1, <3>2 DEF LogInv, LogShape, Held
    <3> QED  BY <3>1, <3>3 DEF LogInv, FetchIsExact, OnlyLastAtRisk
  <2>6. CASE ~failed
    <3>1. blocks' = Appended /\ bbuf' = <<>>
      BY <2>2, <2>6
    <3>2. \A n \in Nums : Fetched(n, index', blocks') = latest'[n]
      BY <2>2, <2>3, <3>1, Accepted
    <3>3. up' \in BOOLEAN /\ todo' \in SUBSET (Nat \ {0})
      BY <2>2 DEF LogInv, LogShape
    <3> QED  BY <1>1, <2>2, <2>3, <2>4, <3>1, <3>2, <3>3, SettledInv
  <2> QED  BY <2>5, <2>6
<1> QED  BY <1>3, <1>4

LEMMA LogStepInv == LogInv /\ [LogNext]_logVars => LogInv'
<1>1. ASSUME LogInv, NEW b \in Blocks, Store(b) PROVE LogInv'
  <2>1. up /\ ~failed /\ Put(b) /\ UNCHANGED up /\ todo' \in SUBSET (Nat \ {0})
    BY <1>1 DEF Store, LogInv, LogShape
  <2> QED  BY <1>1, <2>1, PutInv
<1>2. ASSUME LogInv, LogNext PROVE LogInv'
  BY <1>1, <1>2, StoreFailedInv, SeekInv, FetchInv, StartupInv, StopsInv, ReplayInv DEF LogNext
<1>3. ASSUME LogInv, UNCHANGED logVars PROVE LogInv'
  <2>1. Flushed' = Flushed /\ Appended' = Appended
    BY <1>3, FlushedFold DEF logVars, Appended
  <2> QED  BY <1>3, <2>1 DEF logVars, LogInv, LogShape, FetchIsExact, OnlyLastAtRisk
<1> QED  BY <1>2, <1>3

LEMMA LogInvSound == LogInv => LogSound
<1> SUFFICES ASSUME LogInv PROVE LogTypeOK
  BY DEF LogInv, LogSound
<1>1. Len(ibuf) <= 1
  <2>1. CASE ibuf = <<>>
    <3>1. Len(<<>>) = 0
      BY NoneAndOne
    <3> QED  BY <2>1, <3>1
  <2>2. CASE ibuf # <<>>
    <3>1. PICK w \in Writes : ibuf = <<w>>
      BY <2>2 DEF LogInv, LogShape, Held
    <3>2. Len(<<w>>) = 1
      BY NoneAndOne
    <3> QED  BY <3>1, <3>2
  <2> QED  BY <2>1, <2>2
<1> QED  BY <1>1 DEF LogInv, LogShape, Placed, LogTypeOK

\* Whatever is stored, overwritten, fetched and replayed, and however the
\* process or the machine dies: as long as the stream works, fetches return
\* what was stored last under a number, and a crash puts at most the number
\* written last at risk (store, fetch_by_number, last_index_entry,
\* cutoff_blocks).
THEOREM LogCorrect == LogSpec => []LogSound
<1>1. LogInv /\ [LogNext]_logVars => LogInv'
  BY LogStepInv
<1> QED  BY <1>1, LogInitInv, LogInvSound, PTL DEF LogSpec

=============================================================================
