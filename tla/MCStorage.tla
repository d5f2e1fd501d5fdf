----------------------------- MODULE MCStorage -----------------------------
(***************************************************************************)
(* How a node keeps its data: in memory with an undo history, and on disk  *)
(* in the block log and the files of the object database.  The three share *)
(* nothing, so that a behaviour is about one of them.                      *)
(*                                                                         *)
(* There is one index with two instances, so that ids run out, are rolled  *)
(* back and are handed out again; keys and values are interchangeable.     *)
(* The log has two branches a1 a2 a3 and b2, the block that is overwritten *)
(* being longer than the others.                                           *)
(***************************************************************************)
EXTENDS UndoHistory, BlockDatabase, ObjectStore

VARIABLE part   \* what this behaviour is about

MCPrev == [b \in Blocks |-> CASE b = "a1" -> None [] b = "a3" -> "a2" [] OTHER -> "a1"]
MCNum  == [b \in Blocks |-> CASE b = "a1" -> 1 [] b \in {"a2", "b2"} -> 2 [] OTHER -> 3]
MCSize == [b \in Blocks |-> IF b = "a2" THEN 2 ELSE 1]

Symmetry == Permutations(Keys) \cup Permutations(Vals)

\* The parts a behaviour is not about stay as they begin.
MCInit == part \in {"undo", "log", "store"} /\ HInit /\ LogInit /\ StoreInit

MCNext ==
  \/ part = "undo" /\ HNext /\ UNCHANGED <<part, logVars, storeVars>>
  \/ part = "log" /\ LogNext /\ UNCHANGED <<part, hvars, storeVars>>
  \/ part = "store" /\ StoreNext /\ UNCHANGED <<part, hvars, logVars>>

MCSpec == MCInit /\ [][MCNext]_<<part, hvars, logVars, storeVars>>

=============================================================================
