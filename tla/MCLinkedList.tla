---------------------------- MODULE MCLinkedList ----------------------------
(***************************************************************************)
(* LinkedList with five cells, hence at most five pushes, and any number   *)
(* of pops among them.  The cells are interchangeable.                     *)
(***************************************************************************)
EXTENDS LinkedList, TLC

CellSymmetry == Permutations(Nodes)
=============================================================================
