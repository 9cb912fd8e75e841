---------------------------- MODULE MCLayoutSync ----------------------------
(***************************************************************************)
(* A small instance of LayoutSync for TLC.                                 *)
(***************************************************************************)
EXTENDS LayoutSync, TLC

\* Pages are interchangeable.
Symmetry == Permutations(Page)
=============================================================================
