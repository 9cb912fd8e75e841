------------------------------- MODULE MCAuth -------------------------------
(***************************************************************************)
(* Small instances of Auth for TLC.                                        *)
(***************************************************************************)
EXTENDS Auth, TLC

\* Requests, passkeys and tokens are interchangeable.
Symmetry == Permutations(Req) \cup Permutations(Passkey) \cup Permutations(Token)
=============================================================================
