--------------------------- MODULE SnapshotStack ---------------------------
(***************************************************************************)
(* What the undo history promises its users: a stack of complete copies of *)
(* the database.  Nothing is said of how a copy is kept.                   *)
(***************************************************************************)
EXTENDS Integers, SequencesExt

CONSTANTS DBs,    \* the possible contents of the database
          InitDB  \* its contents at the start

VARIABLES db,     \* the contents of the database
          snaps   \* the copies kept, oldest first

vars == <<db, snaps>>

Init == db = InitDB /\ snaps = <<>>

\* The database changes; if no copy is kept, one may be taken first.
Write ==
    /\ db' \in DBs
    /\ \/ snaps' = snaps
       \/ snaps = <<>> /\ snaps' = <<db>>

\* Copies are dropped from the old end, and one of the present is added.
Begin ==
    /\ \E k \in 0 .. Len(snaps) :
          snaps' = Append(SubSeq(snaps, k + 1, Len(snaps)), db)
    /\ db' = db

\* The database returns to the newest copy.
Restore ==
    /\ snaps # <<>>
    /\ db' = Last(snaps)
    /\ snaps' = Front(snaps)

\* The newest copy is forgotten, and the changes made since it was taken now
\* belong to the one before it.
Forget ==
    /\ snaps # <<>>
    /\ snaps' = Front(snaps)
    /\ db' = db

Next == Write \/ Begin \/ Restore \/ Forget

Spec == Init /\ [][Next]_vars

=============================================================================
