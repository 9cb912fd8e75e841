----------------------------- MODULE MCArbiter -----------------------------
(***************************************************************************)
(* A small instance of Arbiter for TLC.                                    *)
(***************************************************************************)
EXTENDS Arbiter, TLC

\* Clients, connection slots and sizes are interchangeable.
Symmetry == Permutations(Client) \cup Permutations(Conn) \cup Permutations(Dims)

\* At most one connection of the three is a passive one.
OnePassive == Cardinality({c \in Registered : ~Follows(c)}) <= 1
============================================================================
