----------------------------- MODULE MCSessions -----------------------------
(***************************************************************************)
(* Small instances of Sessions for TLC.                                    *)
(***************************************************************************)
EXTENDS Sessions, TLC

\* Request slots are interchangeable.
Symmetry == Permutations(Req)
=============================================================================
