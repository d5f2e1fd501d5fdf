--------------------------- MODULE BlockDatabase ---------------------------
(***************************************************************************)
(* btcm::chain::block_database: the log of blocks on disk, and how open()  *)
(* and reindex() read it back after the process or the machine has died.   *)
(*                                                                         *)
(* Two files: _blocks, to which packed blocks are appended, and            *)
(* _block_num_to_pos, an array of index entries by block number.  Each is  *)
(* an fstream, which holds back the last write until it seeks again, so    *)
(* that the two files reach the disk in either order.                      *)
(*                                                                         *)
(* Abstractions.  A packed block is a sequence of cells, each of which     *)
(* knows its block, so that a piece of the file can be told from a block.  *)
(* The unused entry 0 of the index is left out.  MaxCells bounds the file. *)
(***************************************************************************)
EXTENDS Integers, SequencesExt, FiniteSetsExt

CONSTANTS
    Blocks,    \* all blocks
    Prev,      \* block_header::previous of each block, None for a first one
    Num,       \* num_from_id of each block's id
    Size,      \* the number of cells each block packs into
    None,      \* no block: the all-zero id, an invalid optional
    MaxCells   \* bound: length of the blocks file

ASSUME LogAssumption ==
    /\ Prev \in [Blocks -> Blocks \cup {None}]
    /\ Num \in [Blocks -> Nat \ {0}]
    /\ \A b \in Blocks : Num[b] = IF Prev[b] = None THEN 1 ELSE Num[Prev[b]] + 1
    /\ Size \in [Blocks -> Nat \ {0}]
    /\ None \notin Blocks
    /\ MaxCells \in Nat

VARIABLES
    blocks,    \* the blocks file
    bbuf,      \* cells written to _blocks and not yet passed on
    index,     \* the index file: an entry for each block number
    ibuf,      \* entries written to _block_num_to_pos and not yet passed on
    failed,    \* _blocks has its failbit set
    up,        \* the files are open
    todo,      \* the block numbers reindex has still to push again
    latest,    \* history: the block that ought to be found under each number
    touched    \* history: the number the last store was about

logVars == <<blocks, bbuf, index, ibuf, failed, up, todo, latest, touched>>

Nums  == {Num[b] : b \in Blocks}
Cells(b) == [i \in 1 .. Size[b] |-> <<b, i>>]

\* index_entry.  A position that could not be told is uint64_t(-1).
Entry(pos, size, id) == [pos |-> pos, size |-> size, id |-> id]
NoPos == -1
Hole  == Entry(0, 0, None)

\* The index with e written under number n; a gap up to it reads as zeros.
Write(idx, n, e) ==
    [k \in 1 .. Max({n, Len(idx)}) |->
        IF k = n THEN e ELSE IF k <= Len(idx) THEN idx[k] ELSE Hole]

\* The files once a seek has passed on what was held back.
Flushed == FoldLeft(LAMBDA idx, w : Write(idx, w.num, w.entry), index, ibuf)
Appended == blocks \o bbuf

-----------------------------------------------------------------------------
(* Reading. *)

\* The read runs past the end of the file or the seek is refused: failbit is
\* set, and stays set, because seekg clears only eofbit.
ReadFails(e, file) == e.pos < 0 \/ (e.size > 0 /\ e.pos + e.size > Len(file))

\* Mutant: the block's id is not compared with the entry's.
Unpacked_AnyId(e, file) ==
    LET fit == {b \in Blocks : ~ReadFails(e, file)
                               /\ SubSeq(file, e.pos + 1, e.pos + e.size) = Cells(b)}
    IN  IF fit = {} THEN None ELSE CHOOSE b \in fit : TRUE

\* The block an entry leads to, if what is there unpacks to the block it names.
Unpacked(e, file) ==
    IF e.id # None /\ ~ReadFails(e, file)
       /\ SubSeq(file, e.pos + 1, e.pos + e.size) = Cells(e.id)
    THEN e.id ELSE None

\* fetch_by_number, on given contents of the files.
Fetched(n, idx, file) == IF n > Len(idx) THEN None ELSE Unpacked(idx[n], file)

\* last_index_entry walks down from the end of the index, cutting off what it
\* cannot read.  A position of -1 passes the test against the file's size,
\* since the sum wraps around, and then the seek to it fails for good.
Wraps(e, file) == e.pos = NoPos /\ e.size > 0 /\ e.size - 1 <= Len(file)

LastReadable(idx, file) ==
    Max({0} \cup {k \in 1 .. Len(idx) : Unpacked(idx[k], file) # None})

\* Once the stream has failed in the walk no lower entry can be read either.
last_index_entry(idx, file) ==
    LET k == LastReadable(idx, file)
    IN  IF \E j \in k + 1 .. Len(idx) : Wraps(idx[j], file)
        THEN [idx |-> <<>>, fail |-> TRUE]
        ELSE [idx |-> SubSeq(idx, 1, k), fail |-> FALSE]

-----------------------------------------------------------------------------
(* Operations of the running node. *)

LogInit ==
    /\ blocks = <<>> /\ bbuf = <<>>
    /\ index = <<>> /\ ibuf = <<>>
    /\ failed = FALSE
    /\ up = TRUE
    /\ todo = {}
    /\ latest = [n \in Nums |-> None]
    /\ touched = 0

\* The writes of store: the entry of b, wherever the data goes.
PutEntry(b, pos) ==
    /\ index' = Flushed
    /\ ibuf' = <<[num |-> Num[b], entry |-> Entry(pos, Size[b], b)]>>
    /\ latest' = [latest EXCEPT ![Num[b]] = b]
    /\ touched' = Num[b]

\* Mutant: the writes of the last store are still held back after this one.
Put_NoSeek(b) ==
    /\ Len(Appended) + Size[b] <= MaxCells
    /\ bbuf' = bbuf \o Cells(b)
    /\ PutEntry(b, Len(Appended))
    /\ UNCHANGED <<blocks, failed>>

\* store
Put(b) ==
    /\ Len(Appended) + Size[b] <= MaxCells
    /\ blocks' = Appended
    /\ bbuf' = Cells(b)
    /\ PutEntry(b, Len(Appended))
    /\ UNCHANGED failed

\* The chain database stores a block above the one it builds on.
Follows(b) == Prev[b] # None => latest[Num[b] - 1] = Prev[b]

Store(b) ==
    /\ up /\ todo = {}
    /\ ~failed
    /\ Follows(b)
    /\ Put(b)
    /\ UNCHANGED <<up, todo>>

\* store on the failed stream: tellp says -1, and the write is refused or, in
\* newer standard libraries, ignored, and the entry written all the same.
StoreFailed(b) ==
    /\ up /\ todo = {}
    /\ failed
    /\ Follows(b)
    /\ \/ index' = Flushed /\ ibuf' = <<>> /\ UNCHANGED <<latest, touched>>
       \/ PutEntry(b, NoPos)
    /\ UNCHANGED <<blocks, bbuf, failed, up, todo>>

\* contains, fetch_block_id, and the early returns of the fetches: a seek in
\* the index alone.  An fstream may also pass writes on when it likes.
SeekIndex ==
    /\ up
    /\ ibuf # <<>>
    /\ index' = Flushed
    /\ ibuf' = <<>>
    /\ UNCHANGED <<blocks, bbuf, failed, up, todo, latest, touched>>

\* fetch_by_number, fetch_optional of the block the entry names, and reindex
\* while it only applies what it reads.
Fetch(n) ==
    /\ up
    /\ n <= Len(Flushed)
    /\ index' = Flushed
    /\ ibuf' = <<>>
    /\ IF failed THEN UNCHANGED <<blocks, bbuf, failed>>
       ELSE /\ blocks' = Appended
            /\ bbuf' = <<>>
            /\ failed' = ReadFails(Flushed[n], Appended)
    /\ UNCHANGED <<up, todo, latest, touched>>

-----------------------------------------------------------------------------
(* Stopping and starting. *)

\* The streams are gone, and the blocks file is left as f.
Stopped(f) ==
    /\ up
    /\ up' = FALSE
    /\ blocks' = f
    /\ ibuf' = <<>> /\ bbuf' = <<>>
    /\ failed' = FALSE
    /\ todo' = {}
    /\ UNCHANGED <<latest, touched>>

\* close
Close ==
    /\ todo = {}
    /\ index' = Flushed
    /\ Stopped(Appended)

\* The process dies: what the streams held back is lost, or some cells of it.
Die ==
    /\ \E k \in 0 .. Len(bbuf) : Stopped(blocks \o SubSeq(bbuf, 1, k))
    /\ UNCHANGED index

\* The machine dies: nothing was ever synced, and an append-only file loses
\* its tail first.
PowerLoss ==
    /\ \E k \in 0 .. Len(blocks) : Stopped(SubSeq(blocks, 1, k))
    /\ UNCHANGED index

\* From now on what can be read is what ought to be there.
Accept(idx) == latest' = [n \in Nums |-> Fetched(n, idx, Appended)] /\ touched' = 0

\* open() finds the last block, and reindex() is to push the blocks from first on.
Startup(first) ==
    LET l == last_index_entry(index, blocks)
    IN  /\ ~up
        /\ up' = TRUE
        /\ index' = l.idx
        /\ failed' = l.fail
        /\ todo' = first .. Len(l.idx)
        /\ Accept(l.idx)
        /\ UNCHANGED <<blocks, bbuf, ibuf>>

\* reindex_range reads a block and pushes it, which stores it once more.
Replay ==
    LET b == Fetched(Min(todo), Flushed, Appended)
    IN  /\ up /\ todo # {}
        /\ ~failed
        /\ b # None
        /\ Put(b)
        /\ todo' = todo \ {Min(todo)}
        /\ UNCHANGED up

\* cutoff_blocks(i): remove() the last block and look for the last one again,
\* which cuts off the entry just emptied, until none above the gap at i is left.
Cutoff(i, idx, file) ==
    last_index_entry([k \in 1 .. Len(idx) |->
                         IF k > i /\ Unpacked(idx[k], file) # None
                         THEN [idx[k] EXCEPT !.size = 0] ELSE idx[k]], file)

\* reindex_range cannot read a block.  If reading it has broken the stream,
\* no entry is readable any more, and cutoff_blocks finds nothing to drop.
ReplayGap ==
    LET i == Min(todo)
        c == Cutoff(i, Flushed, Appended)
    IN  /\ up /\ todo # {}
        /\ failed \/ Fetched(i, Flushed, Appended) = None
        /\ IF failed \/ ReadFails(Flushed[i], Appended)
           THEN index' = Flushed /\ failed' = TRUE
           ELSE index' = c.idx /\ failed' = c.fail
        /\ ibuf' = <<>>
        /\ IF failed THEN UNCHANGED <<blocks, bbuf>> ELSE blocks' = Appended /\ bbuf' = <<>>
        /\ todo' = {}
        /\ Accept(index')
        /\ UNCHANGED up

LogNext ==
    \/ \E b \in Blocks : Store(b) \/ StoreFailed(b)
    \/ SeekIndex
    \/ \E n \in Nums : Fetch(n) \/ Startup(n)
    \/ Close
    \/ Die
    \/ PowerLoss
    \/ Replay
    \/ ReplayGap

LogSpec == LogInit /\ [][LogNext]_logVars

-----------------------------------------------------------------------------
(* Properties. *)

\* The files and the buffers keep their shape: entries lie under the number
\* of the block they name, and at most one write per file is held back.
LogTypeOK ==
    /\ \A k \in 1 .. Len(index) : index[k].id # None => Num[index[k].id] = k
    /\ Len(ibuf) <= 1
    /\ bbuf = <<>> \/ \E b \in Blocks : bbuf = Cells(b)
    /\ Len(Appended) <= MaxCells
    /\ latest \in [Nums -> Blocks \cup {None}]
    /\ {failed, up} \subseteq BOOLEAN

\* As long as the stream works, what fetch_by_number finds is exactly what was
\* stored last under the number, or has been found to be there after the last
\* crash: a block that a switch overwrote, or cells
\* that another block has taken over, are never handed out.
FetchIsExact ==
    up /\ ~failed => \A n \in Nums : Fetched(n, Flushed, Appended) = latest[n]

\* When the process dies, only the number written last can come out
\* differently: each store makes the one before it safe, so a switch of forks
\* risks no more than one number (store's seeks).
OnlyLastAtRisk ==
    up /\ ~failed =>
        \A n \in Nums \ {touched} : Fetched(n, index, blocks) = latest[n]

\* The log hands out exactly what was stored last, and a crash at any moment
\* puts no more than the last number at risk.
LogSound == LogTypeOK /\ FetchIsExact /\ OnlyLastAtRisk

=============================================================================
