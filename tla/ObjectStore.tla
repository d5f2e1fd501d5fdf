---------------------------- MODULE ObjectStore ----------------------------
(***************************************************************************)
(* The object database on disk: object_database::flush, wipe and open, and *)
(* the version check of database::open, with the process free to die       *)
(* between any two file operations.                                        *)
(*                                                                         *)
(* flush saves one file per index into object_database.tmp and then moves  *)
(* directories: object_database to .old, .tmp to object_database; .old     *)
(* goes last.  open reads object_database only.                            *)
(*                                                                         *)
(* Abstractions.  The state of the chain is a version number, and a file   *)
(* holds the version of its index that was saved, or part of one.  0 is    *)
(* the genesis state.  MaxVersion bounds the versions.                     *)
(***************************************************************************)
EXTENDS Integers, FiniteSets

CONSTANTS
    Indexes,    \* the indexes, each with a file of its own
    NoFile,     \* the file does not exist
    Partial,    \* the file is cut short
    NoDir,      \* the directory does not exist
    MaxVersion  \* bound: versions of the state

ASSUME StoreAssumption ==
    /\ Indexes # {}
    /\ MaxVersion \in Nat
    /\ NoFile \notin Nat /\ Partial \notin Nat /\ NoFile # Partial
    /\ NoDir \notin [lock : BOOLEAN, file : [Indexes -> 0 .. MaxVersion \cup {NoFile, Partial}]]

VARIABLES
    cur, old, tmp,  \* object_database, object_database.old, object_database.tmp
    mem,            \* the version of each index in memory
    pc,             \* what the process is doing
    left,           \* the indexes whose files are still to be saved or removed
    done,           \* history: the version of the last flush that got through
    torn            \* history: a wipe was cut short

storeVars == <<cur, old, tmp, mem, pc, left, done, torn>>

Dir(lock, file) == [lock |-> lock, file |-> file]
Nowhere == [i \in Indexes |-> NoFile]
Genesis == [i \in Indexes |-> 0]

\* rename() replaces an empty directory, and no other.
Free(d) == d = NoDir \/ d = Dir(FALSE, Nowhere)

StoreInit ==
    /\ cur = NoDir /\ old = NoDir /\ tmp = NoDir
    /\ mem = Genesis
    /\ pc = "run"
    /\ left = {}
    /\ done = 0
    /\ torn = FALSE

\* Blocks are applied: every index may change.
Change ==
    /\ pc = "run"
    /\ \A i \in Indexes : mem[i] < MaxVersion
    /\ mem' = [i \in Indexes |-> mem[i] + 1]
    /\ UNCHANGED <<cur, old, tmp, pc, left, done, torn>>

-----------------------------------------------------------------------------
(* flush *)

FlushBegin ==
    /\ pc = "run"
    /\ tmp' = Dir(TRUE, IF tmp = NoDir THEN Nowhere ELSE tmp.file)
    /\ pc' = "save"
    /\ left' = Indexes
    /\ UNCHANGED <<cur, old, mem, done, torn>>

\* index::save truncates the file, then writes it.
SaveBegin(i) ==
    /\ pc = "save"
    /\ i \in left
    /\ tmp.file[i] # Partial
    /\ tmp' = Dir(TRUE, [tmp.file EXCEPT ![i] = Partial])
    /\ UNCHANGED <<cur, old, mem, pc, left, done, torn>>

SaveEnd(i) ==
    /\ pc = "save"
    /\ i \in left
    /\ tmp.file[i] = Partial
    /\ tmp' = Dir(TRUE, [tmp.file EXCEPT ![i] = mem[i]])
    /\ left' = left \ {i}
    /\ UNCHANGED <<cur, old, mem, pc, done, torn>>

\* Mutant: the directories are moved while an index is still to be saved.
Unlock_Early ==
    /\ pc = "save"
    /\ Cardinality(left) <= 1
    /\ tmp' = Dir(FALSE, tmp.file)
    /\ pc' = IF cur # NoDir THEN "rename_cur" ELSE "rename_tmp"
    /\ left' = {}
    /\ UNCHANGED <<cur, old, mem, done, torn>>

\* Mutant: the lock is moved with the files.
Unlock_Keep ==
    /\ pc = "save"
    /\ left = {}
    /\ pc' = IF cur # NoDir THEN "rename_cur" ELSE "rename_tmp"
    /\ UNCHANGED <<cur, old, tmp, mem, left, done, torn>>

\* remove_all(lock)
Unlock ==
    /\ pc = "save"
    /\ left = {}
    /\ tmp' = Dir(FALSE, tmp.file)
    /\ pc' = IF cur # NoDir THEN "rename_cur" ELSE "rename_tmp"
    /\ UNCHANGED <<cur, old, mem, left, done, torn>>

\* The rename, and the copy fc::rename tries next, throw when .old is in the way.
RenameCur ==
    /\ pc = "rename_cur"
    /\ IF Free(old)
       THEN old' = cur /\ cur' = NoDir /\ pc' = "rename_tmp"
       ELSE pc' = "run" /\ UNCHANGED <<cur, old>>
    /\ UNCHANGED <<tmp, mem, left, done, torn>>

\* Mutant: .tmp takes the place of .old, which is then removed.
RenameTmp_Old ==
    /\ pc = "rename_tmp"
    /\ cur' = IF old = NoDir THEN tmp ELSE old
    /\ tmp' = NoDir
    /\ done' = mem[CHOOSE i \in Indexes : TRUE]
    /\ pc' = "remove_old"
    /\ left' = Indexes
    /\ UNCHANGED <<old, mem, torn>>

RenameTmp ==
    /\ pc = "rename_tmp"
    /\ cur' = tmp
    /\ tmp' = NoDir
    /\ done' = mem[CHOOSE i \in Indexes : TRUE]
    /\ pc' = "remove_old"
    /\ left' = Indexes
    /\ UNCHANGED <<old, mem, torn>>

\* remove_all removes file by file, and the directory last.
RemoveOld(i) ==
    /\ pc = "remove_old"
    /\ i \in left
    /\ old # NoDir
    /\ old' = [old EXCEPT !.file[i] = NoFile]
    /\ left' = left \ {i}
    /\ UNCHANGED <<cur, tmp, mem, pc, done, torn>>

FlushEnd ==
    /\ pc = "remove_old"
    /\ old = NoDir \/ left = {}
    /\ old' = NoDir
    /\ pc' = "run"
    /\ left' = {}
    /\ UNCHANGED <<cur, tmp, mem, done, torn>>

-----------------------------------------------------------------------------
(* The process dies or stops, and starts again. *)

Stop ==
    /\ pc # "down"
    /\ pc' = "down"
    /\ torn' = (torn \/ pc = "wipe")
    /\ left' = {}
    /\ mem' = Nowhere
    /\ UNCHANGED <<cur, old, tmp, done>>

\* open() when db_version differs, or --replay-blockchain: wipe first.
WipeBegin ==
    /\ pc = "down"
    /\ pc' = "wipe"
    /\ left' = Indexes
    /\ UNCHANGED <<cur, old, tmp, mem, done, torn>>

WipeFile(i) ==
    /\ pc = "wipe"
    /\ i \in left
    /\ cur # NoDir
    /\ cur' = [cur EXCEPT !.file[i] = NoFile]
    /\ left' = left \ {i}
    /\ UNCHANGED <<old, tmp, mem, pc, done, torn>>

WipeEnd ==
    /\ pc = "wipe"
    /\ cur = NoDir \/ left = {}
    /\ cur' = NoDir
    /\ left' = {}
    /\ mem' = Genesis
    /\ done' = 0
    /\ torn' = FALSE
    /\ pc' = "run"
    /\ UNCHANGED <<old, tmp>>

\* open: a missing file leaves its index empty, one cut short ends early; the
\* genesis state is made when nothing was found.  A node that has found some
\* indexes and not others is broken: it runs into objects that are not there.
Load ==
    /\ pc = "down"
    /\ mem' = IF cur = NoDir \/ cur.file = Nowhere \/ cur.lock THEN Genesis ELSE cur.file
    /\ pc' = IF \E v \in 0 .. MaxVersion : mem' = [i \in Indexes |-> v] THEN "run" ELSE "broken"
    /\ UNCHANGED <<cur, old, tmp, left, done, torn>>

StoreNext ==
    \/ Change
    \/ FlushBegin
    \/ \E i \in Indexes : SaveBegin(i) \/ SaveEnd(i) \/ RemoveOld(i) \/ WipeFile(i)
    \/ Unlock \/ RenameCur \/ RenameTmp \/ FlushEnd
    \/ Stop
    \/ WipeBegin \/ WipeEnd \/ Load

StoreSpec == StoreInit /\ [][StoreNext]_storeVars

-----------------------------------------------------------------------------
(* Properties. *)

\* Each directory holds files of known versions, and only .tmp a lock.
StoreTypeOK ==
    /\ \A d \in {cur, old, tmp} :
          d = NoDir \/ d.file \in [Indexes -> 0 .. MaxVersion \cup {NoFile, Partial}]
    /\ \A d \in {cur, old} : d = NoDir \/ ~d.lock
    /\ mem \in [Indexes -> 0 .. MaxVersion \cup {NoFile, Partial}]
    /\ left \subseteq Indexes

\* Wherever flush is interrupted, the node starts from one complete state:
\* that of the last flush that got through, or the genesis state (all blocks
\* are then replayed).  Files of two flushes never mix.  Only a wipe that was
\* cut short can leave some indexes empty and others full.
OneFlushLoaded ==
    [][pc = "down" /\ pc' \in {"run", "broken"} /\ ~torn =>
          mem' \in {[i \in Indexes |-> done], Genesis}]_storeVars

\* The disk never falls back by more than one flush: some directory holds all
\* of the last flush that got through, until a wipe takes it.
LastFlushKept ==
    done > 0 /\ pc # "wipe" /\ ~torn =>
        \E d \in {cur, old} : d # NoDir /\ d.file = [i \in Indexes |-> done]

\* Nothing that flush has saved is lost, and what is on disk has its shape.
StoreSound == StoreTypeOK /\ LastFlushKept

=============================================================================
