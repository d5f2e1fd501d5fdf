---------------------------- MODULE UndoHistory ----------------------------
(***************************************************************************)
(* UndoDatabase with a history variable: the complete contents of the      *)
(* database at the moment each undo state was begun.  The code keeps only  *)
(* differences; the properties say that the differences are worth as much  *)
(* as the copies.                                                          *)
(***************************************************************************)
EXTENDS UndoDatabase

VARIABLE snaps   \* history: snaps[k] is the database when stack[k] was begun

hvars == <<objects, next_id, stack, sessions, disabled, max_size, snaps>>

Now == [obj |-> objects, nxt |-> next_id]

DBs    == [obj : [Ids -> Object \cup {NoObj}], nxt : [Types -> Nat]]
InitDB == [obj |-> [i \in Ids |-> NoObj], nxt |-> [t \in Types |-> 0]]

HInit == Init /\ snaps = <<>>

\* A change recorded on an empty stack begins an undo state.
HWrite ==
    /\ \/ \E t \in Types, k \in Keys, v \in Vals : CreateObject(t, k, v)
       \/ \E id \in Ids, v \in Vals : ModifyObject(id, v)
       \/ \E id \in Ids : RemoveObject(id)
    /\ snaps' = IF stack = <<>> /\ ~disabled THEN <<Now>> ELSE snaps

HStart ==
    /\ StartUndoSession \/ PushProposal
    /\ snaps' = Append(SubSeq(snaps, Excess(max_size') + 1, Len(snaps)), Now)

HEnd ==
    /\ Undo \/ Merge \/ PopCommit
    /\ snaps' = Front(snaps)

HKeep ==
    /\ \/ Commit
       \/ \E n \in 1 .. MaxSize : SetMaxSize(n)
       \/ Disable
       \/ Enable
    /\ snaps' = snaps

HNext == HWrite \/ HStart \/ HEnd \/ HKeep

HSpec == HInit /\ [][HNext]_hvars

-----------------------------------------------------------------------------
(* What an undo state says about the database before and after it. *)

\* One object: created, modified, removed or left alone since the state began.
ObjDiff(u, i, b, a) ==
    \/ /\ i \in u.new_ids /\ u.old_values[i] = NoObj /\ u.removed[i] = NoObj
       /\ b.obj[i] = NoObj /\ a.obj[i] # NoObj
       /\ b.nxt[i[1]] <= i[2]
    \/ /\ i \notin u.new_ids /\ u.old_values[i] # NoObj /\ u.removed[i] = NoObj
       /\ b.obj[i] = u.old_values[i] /\ a.obj[i] # NoObj
       /\ a.obj[i].key = u.old_values[i].key
    \/ /\ i \notin u.new_ids /\ u.old_values[i] = NoObj /\ u.removed[i] # NoObj
       /\ b.obj[i] = u.removed[i] /\ a.obj[i] = NoObj
    \/ /\ i \notin u.new_ids /\ u.old_values[i] = NoObj /\ u.removed[i] = NoObj
       /\ b.obj[i] = a.obj[i]

\* One index: ids only grow, and the first one handed out is remembered.
NextDiff(u, t, b, a) ==
    /\ b.nxt[t] <= a.nxt[t]
    /\ IF u.old_index_next_ids[t] = NoId
       THEN b.nxt[t] = a.nxt[t]
       ELSE u.old_index_next_ids[t] = b.nxt[t]

Diff(u, b, a) ==
    /\ \A i \in Ids : ObjDiff(u, i, b, a)
    /\ \A t \in Types : NextDiff(u, t, b, a)

\* The database stack[k] leads up to: the next copy, or the present.
After(k) == IF k = Len(stack) THEN Now ELSE snaps[k + 1]

WellFormed(d) ==
    /\ \A i \in Ids : d.obj[i] # NoObj => i[2] < d.nxt[i[1]]
    /\ KeysUnique(d.obj)

-----------------------------------------------------------------------------
\* Every piece of state keeps its type; in particular no sequence of
\* set_max_size calls makes the history length zero (undo_database::_max_size).
TypeOK ==
    /\ objects \in [Ids -> Object \cup {NoObj}]
    /\ next_id \in [Types -> Nat]
    /\ stack \in Seq(UndoState)
    /\ sessions \in Seq(BOOLEAN)
    /\ disabled \in BOOLEAN
    /\ max_size \in Nat \ {0}
    /\ snaps \in Seq(DBs)

\* Rolling back every state of the stack, newest first, retraces the copies:
\* each undo_state holds exactly what its copy needs, merges, removals of new
\* objects and reused ids included (undo_database::on_create, on_modify,
\* on_remove, merge).
HistoryRetraced ==
    /\ Len(snaps) = Len(stack)
    /\ \A k \in 1 .. Len(stack) :
          /\ RollbackObjects(stack[k], After(k).obj) = snaps[k].obj
          /\ RollbackNext(stack[k], After(k).nxt) = snaps[k].nxt

\* No state of the stack makes rollback_state throw half way: the objects it
\* looks up exist, the slots it inserts into are free and no unique index
\* refuses.  (A throw out of undo() leaves recording disabled for good.)
RollbackNeverThrows ==
    \A k \in 1 .. Len(stack) : RollbackCompletes(stack[k], After(k).obj)

\* Two neighbouring states never disagree in a way merge() calls N/A and
\* asserts against: new on top of anything, or a change of what is removed.
MergeNeverNA ==
    \A k \in 2 .. Len(stack) : \A i \in Ids :
        LET a == stack[k - 1]  b == stack[k]
        IN  /\ i \in b.new_ids =>
                  i \notin a.new_ids /\ a.old_values[i] = NoObj /\ a.removed[i] = NoObj
            /\ a.removed[i] # NoObj =>
                  b.old_values[i] = NoObj /\ b.removed[i] = NoObj

\* start_undo_session drops old states, but never one whose session is still
\* open, whatever set_max_size was given: every open session finds its state.
OpenSessionsKept == Len(sessions) <= Len(stack)

\* Recording is off only where there is nothing to take back.
DisabledMeansNoHistory ==
    /\ disabled => stack = <<>> /\ sessions = <<>>
    /\ \A s \in 1 .. Len(sessions) : sessions[s] => s = 1 /\ Len(stack) = Len(sessions)

(* A stack of complete copies: the copies kept, and the present. *)
Abs == INSTANCE SnapshotStack WITH db <- Now, snaps <- snaps

\* The undo database behaves as a stack of complete copies would: undo and
\* pop_commit return to the newest copy, merge forgets it, and start_undo_session
\* drops from the old end only.
AbsSpec == Abs!Spec

-----------------------------------------------------------------------------
(* The inductive invariant. *)

\* Each undo_state is the difference between two neighbouring copies.
HistoryDiff ==
    /\ Len(snaps) = Len(stack)
    /\ \A k \in 1 .. Len(stack) : Diff(stack[k], snaps[k], After(k))

\* The present and every copy is a database the indexes can hold.
AllWellFormed ==
    /\ WellFormed(Now)
    /\ \A k \in 1 .. Len(snaps) : WellFormed(snaps[k])

\* The inductive invariant: each undo_state of undo_database::_stack is exactly
\* the difference between the database at its start and at the start of the
\* next one, and every open session has its state.
HInv ==
    /\ TypeOK
    /\ HistoryDiff
    /\ AllWellFormed
    /\ OpenSessionsKept
    /\ DisabledMeansNoHistory

=============================================================================
