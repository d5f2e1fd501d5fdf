---------------------------- MODULE UndoDatabase ----------------------------
(***************************************************************************)
(* graphene::db: the in-memory object database (object_database,           *)
(* primary_index) and the undo history it keeps (undo_database).           *)
(*                                                                         *)
(* Every create, modify and remove of an object is reported to the undo    *)
(* database, which notes in the undo_state on top of its stack what is     *)
(* needed to take the change back.  Sessions push undo states; a session   *)
(* is undone, merged into the state below it, or committed, and committed  *)
(* states are popped one by one when blocks are unwound.                   *)
(*                                                                         *)
(* Abstractions.  An object is a record of a key, which a unique secondary *)
(* index covers and no modify changes, and a value.  The C++ maps of an    *)
(* undo_state are total functions in which NoObj and NoId mark an absent   *)
(* entry.  MaxInst bounds the ids an index hands out, MaxStack the undo   *)
(* states, which proposals nested in proposals could pile up without end.  *)
(***************************************************************************)
EXTENDS Integers, SequencesExt

CONSTANTS
    Types,     \* the indexes, one per (space, type) of object
    MaxInst,   \* bound: largest instance number an index hands out
    Keys,      \* values of the unique secondary key
    Vals,      \* values of the rest of an object
    NoObj,     \* no object
    NoId,      \* no entry in old_index_next_ids
    MaxStack,  \* bound: undo states under a proposal's session
    MaxSize    \* bound: largest argument of set_max_size

Insts  == 0 .. MaxInst
Ids    == Types \X Insts
Object == [key : Keys, val : Vals]

ASSUME ConstAssumption ==
    /\ MaxInst \in Nat
    /\ MaxStack \in Nat
    /\ MaxSize \in Nat \ {0}
    /\ NoObj \notin Object
    /\ NoId \notin Nat

VARIABLES
    objects,   \* the contents of the indexes
    next_id,   \* primary_index::_next_id of each index
    stack,     \* undo_database::_stack, oldest state first
    sessions,  \* disable_on_exit of each open session; the length is _active_sessions
    disabled,  \* undo_database::_disabled
    max_size   \* undo_database::_max_size

vars == <<objects, next_id, stack, sessions, disabled, max_size>>

UndoState ==
    [old_values         : [Ids -> Object \cup {NoObj}],
     old_index_next_ids : [Types -> Nat \cup {NoId}],
     new_ids            : SUBSET Ids,
     removed            : [Ids -> Object \cup {NoObj}]]

EmptyState ==
    [old_values         |-> [i \in Ids |-> NoObj],
     old_index_next_ids |-> [t \in Types |-> NoId],
     new_ids            |-> {},
     removed            |-> [i \in Ids |-> NoObj]]

-----------------------------------------------------------------------------
(* What a change adds to the undo state on top of the stack. *)

on_create(u, id) ==
    [u EXCEPT
       !.old_index_next_ids = [t \in Types |-> IF t = id[1] /\ u.old_index_next_ids[t] = NoId
                                               THEN id[2] ELSE u.old_index_next_ids[t]],
       !.new_ids = @ \cup {id}]

\* Mutant: every modification overwrites the value noted before.
on_modify_Last(u, id, old) ==
    IF id \in u.new_ids THEN u
    ELSE [u EXCEPT !.old_values = [u.old_values EXCEPT ![id] = old]]

on_modify(u, id, old) ==
    IF id \in u.new_ids \/ u.old_values[id] # NoObj
    THEN u
    ELSE [u EXCEPT !.old_values = [u.old_values EXCEPT ![id] = old]]

\* Mutant: the value at the removal is kept, not the one before the state.
on_remove_Current(u, id, old) ==
    IF id \in u.new_ids
    THEN [u EXCEPT !.new_ids = @ \ {id}]
    ELSE [u EXCEPT !.removed    = [u.removed EXCEPT ![id] = old],
                   !.old_values = [u.old_values EXCEPT ![id] = NoObj]]

\* Mutant: a removed object stays among the new ones.
on_remove_StillNew(u, id, old) ==
    IF id \in u.new_ids THEN u
    ELSE [u EXCEPT !.removed    = [u.removed EXCEPT
                                     ![id] = IF u.old_values[id] # NoObj
                                             THEN u.old_values[id] ELSE old],
                   !.old_values = [u.old_values EXCEPT ![id] = NoObj]]

on_remove(u, id, old) ==
    IF id \in u.new_ids
    THEN [u EXCEPT !.new_ids = @ \ {id}]
    ELSE IF u.old_values[id] # NoObj
    THEN [u EXCEPT !.removed    = [u.removed EXCEPT ![id] = u.old_values[id]],
                   !.old_values = [u.old_values EXCEPT ![id] = NoObj]]
    ELSE IF u.removed[id] # NoObj
    THEN u
    ELSE [u EXCEPT !.removed = [u.removed EXCEPT ![id] = old]]

\* An enabled undo database with an empty stack starts a state by itself.
Recording == IF stack = <<>> THEN <<EmptyState>> ELSE stack

ReplaceTop(s, u) == [s EXCEPT ![Len(s)] = u]

-----------------------------------------------------------------------------
(* rollback_state: four loops, in this order. *)

RestoreModified(u, obj) ==
    [i \in Ids |-> IF u.old_values[i] # NoObj THEN u.old_values[i] ELSE obj[i]]

RemoveNew(u, obj) ==
    [i \in Ids |-> IF i \in u.new_ids THEN NoObj ELSE obj[i]]

ReinsertRemoved(u, obj) ==
    [i \in Ids |-> IF u.removed[i] # NoObj THEN u.removed[i] ELSE obj[i]]

RollbackObjects(u, obj) ==
    ReinsertRemoved(u, RemoveNew(u, RestoreModified(u, obj)))

RollbackNext(u, nxt) ==
    [t \in Types |-> IF u.old_index_next_ids[t] # NoId
                     THEN u.old_index_next_ids[t] ELSE nxt[t]]

SameIndexKey(i, o, j, p) == i # j /\ i[1] = j[1] /\ o.key = p.key

\* The object set is one its unique secondary indexes can hold.
KeysUnique(obj) ==
    \A i, j \in Ids :
        obj[i] # NoObj /\ obj[j] # NoObj => ~SameIndexKey(i, obj[i], j, obj[j])

\* get_object of a vanished object, or an insert that violates uniqueness,
\* would throw out of the middle of rollback_state.
RollbackCompletes(u, obj) ==
    LET kept == RemoveNew(u, RestoreModified(u, obj))
    IN  /\ \A i \in Ids : u.old_values[i] # NoObj => obj[i] # NoObj
        /\ \A i \in u.new_ids : obj[i] # NoObj
        /\ KeysUnique(RestoreModified(u, obj))
        /\ \A i \in Ids : u.removed[i] # NoObj => kept[i] = NoObj
        /\ KeysUnique(ReinsertRemoved(u, kept))

-----------------------------------------------------------------------------
(* merge: the state on top (b) is folded into the one below it (a). *)

\* Mutant: the later next id wins.
MergedNext_Later(a, b) ==
    [t \in Types |-> IF b.old_index_next_ids[t] # NoId
                     THEN b.old_index_next_ids[t] ELSE a.old_index_next_ids[t]]

MergedNext(a, b) ==
    [t \in Types |-> IF a.old_index_next_ids[t] = NoId
                     THEN b.old_index_next_ids[t] ELSE a.old_index_next_ids[t]]

MergeStates(a, b) ==
    LET upd == [i \in Ids |-> IF b.old_values[i] # NoObj /\ i \notin a.new_ids
                                 /\ a.old_values[i] = NoObj
                              THEN b.old_values[i] ELSE a.old_values[i]]
        new == a.new_ids \cup b.new_ids
        del == {i \in Ids : b.removed[i] # NoObj}
    IN  [old_values         |-> [i \in Ids |-> IF i \in del \ new THEN NoObj ELSE upd[i]],
         old_index_next_ids |-> MergedNext(a, b),
         new_ids            |-> new \ del,
         removed            |-> [i \in Ids |-> IF i \notin del \ new THEN a.removed[i]
                                               ELSE IF upd[i] # NoObj THEN upd[i]
                                               ELSE b.removed[i]]]

-----------------------------------------------------------------------------
Init ==
    /\ objects = [i \in Ids |-> NoObj]
    /\ next_id = [t \in Types |-> 0]
    /\ stack = <<>>
    /\ sessions = <<>>
    /\ disabled = FALSE
    /\ max_size = MaxSize

\* Mutant: use_next_id() is forgotten.
CreateObject_SameId(t, k, v) ==
    LET id == <<t, next_id[t]>>
    IN  /\ objects[id] = NoObj
        /\ \A i \in Ids : objects[i] # NoObj /\ i[1] = t => objects[i].key # k
        /\ objects' = [objects EXCEPT ![id] = [key |-> k, val |-> v]]
        /\ stack' = IF disabled THEN stack
                    ELSE ReplaceTop(Recording, on_create(Last(Recording), id))
        /\ UNCHANGED <<next_id, sessions, disabled, max_size>>

\* object_database::create
CreateObject(t, k, v) ==
    LET id == <<t, next_id[t]>>
    IN  /\ next_id[t] \in Insts
        /\ \A i \in Ids : objects[i] # NoObj /\ i[1] = t => objects[i].key # k
        /\ objects' = [objects EXCEPT ![id] = [key |-> k, val |-> v]]
        /\ next_id' = [next_id EXCEPT ![t] = @ + 1]
        /\ stack' = IF disabled THEN stack
                    ELSE ReplaceTop(Recording, on_create(Last(Recording), id))
        /\ UNCHANGED <<sessions, disabled, max_size>>

\* object_database::modify
ModifyObject(id, v) ==
    /\ objects[id] # NoObj
    /\ objects' = [objects EXCEPT ![id] = [key |-> objects[id].key, val |-> v]]
    /\ stack' = IF disabled THEN stack
                ELSE ReplaceTop(Recording, on_modify(Last(Recording), id, objects[id]))
    /\ UNCHANGED <<next_id, sessions, disabled, max_size>>

\* object_database::remove
RemoveObject(id) ==
    /\ objects[id] # NoObj
    /\ objects' = [objects EXCEPT ![id] = NoObj]
    /\ stack' = IF disabled THEN stack
                ELSE ReplaceTop(Recording, on_remove(Last(Recording), id, objects[id]))
    /\ UNCHANGED <<next_id, sessions, disabled, max_size>>

\* Mutant: while( size() >= max_size() ).
Excess_OneMore(limit) == IF Len(stack) >= limit THEN Len(stack) - limit + 1 ELSE 0

\* How many states start_undo_session drops from the bottom of the stack.
Excess(limit) == IF Len(stack) > limit THEN Len(stack) - limit ELSE 0

\* start_undo_session, when it does start a session.
Push(force, limit) ==
    /\ stack' = Append(SubSeq(stack, Excess(limit) + 1, Len(stack)), EmptyState)
    /\ sessions' = Append(sessions, disabled /\ force)
    /\ disabled' = FALSE
    /\ UNCHANGED <<objects, next_id>>

\* A block's session, the pending session, or a transaction's session inside
\* it: callers nest these two deep, and never inside a proposal's session of a
\* replay, the only one that found recording disabled.
StartUndoSession ==
    /\ ~disabled
    /\ Len(sessions) < 2
    /\ \A s \in 1 .. Len(sessions) : ~sessions[s]
    /\ Push(FALSE, max_size)
    /\ UNCHANGED max_size

\* database::push_proposal makes room first, then opens its own session.
PushProposal ==
    /\ Len(stack) < MaxStack
    /\ disabled \/ sessions # <<>>
    /\ max_size' = IF Len(stack) >= max_size THEN Len(stack) + 1 ELSE max_size
    /\ Push(TRUE, max_size')

\* ~session() disables the undo database again if its session had enabled it.
CloseSession ==
    /\ sessions' = Front(sessions)
    /\ disabled' = Last(sessions)

\* undo_database::undo
Undo ==
    /\ ~disabled
    /\ sessions # <<>>
    /\ objects' = RollbackObjects(Last(stack), objects)
    /\ next_id' = RollbackNext(Last(stack), next_id)
    /\ stack' = Front(stack)
    /\ CloseSession
    /\ UNCHANGED max_size

\* Mutant: no special case for the only state of the stack.
Merge_KeepLast ==
    /\ sessions # <<>>
    /\ stack' = IF Len(stack) = 1 THEN stack
                ELSE Append(SubSeq(stack, 1, Len(stack) - 2),
                            MergeStates(stack[Len(stack) - 1], Last(stack)))
    /\ CloseSession
    /\ UNCHANGED <<objects, next_id, max_size>>

\* undo_database::merge
Merge ==
    /\ sessions # <<>>
    /\ \/ /\ Len(sessions) = 1
          /\ Len(stack) = 1
          /\ stack' = <<>>
       \/ /\ Len(stack) >= 2
          /\ stack' = Append(SubSeq(stack, 1, Len(stack) - 2),
                             MergeStates(stack[Len(stack) - 1], Last(stack)))
    /\ CloseSession
    /\ UNCHANGED <<objects, next_id, max_size>>

\* undo_database::commit: only the block session, which is outermost, commits.
Commit ==
    /\ Len(sessions) = 1
    /\ ~Last(sessions)
    /\ CloseSession
    /\ UNCHANGED <<objects, next_id, stack, max_size>>

\* undo_database::pop_commit
PopCommit ==
    /\ sessions = <<>>
    /\ stack # <<>>
    /\ objects' = RollbackObjects(Last(stack), objects)
    /\ next_id' = RollbackNext(Last(stack), next_id)
    /\ stack' = Front(stack)
    /\ disabled' = FALSE
    /\ UNCHANGED <<sessions, max_size>>

\* Mutant: head - irreversible without the + 1.
SetMaxSize_Short(n) ==
    /\ Len(sessions) = 1 \/ disabled
    /\ max_size' = n - 1
    /\ UNCHANGED <<objects, next_id, stack, sessions, disabled>>

\* update_global_dynamic_data sizes the history while a block is applied: in
\* the block's session, or in none while blocks are replayed.
SetMaxSize(n) ==
    /\ Len(sessions) = 1 \/ disabled
    /\ max_size' = n
    /\ UNCHANGED <<objects, next_id, stack, sessions, disabled>>

\* init_genesis and reindex turn recording off before any history exists.
Disable ==
    /\ stack = <<>>
    /\ sessions = <<>>
    /\ ~disabled
    /\ disabled' = TRUE
    /\ UNCHANGED <<objects, next_id, stack, sessions, max_size>>

Enable ==
    /\ disabled
    /\ disabled' = FALSE
    /\ UNCHANGED <<objects, next_id, stack, sessions, max_size>>

Next ==
    \/ \E t \in Types, k \in Keys, v \in Vals : CreateObject(t, k, v)
    \/ \E id \in Ids, v \in Vals : ModifyObject(id, v)
    \/ \E id \in Ids : RemoveObject(id)
    \/ StartUndoSession
    \/ PushProposal
    \/ Undo
    \/ Merge
    \/ Commit
    \/ PopCommit
    \/ \E n \in 1 .. MaxSize : SetMaxSize(n)
    \/ Disable
    \/ Enable

Spec == Init /\ [][Next]_vars

=============================================================================
