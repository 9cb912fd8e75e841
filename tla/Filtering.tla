------------------------------ MODULE Filtering ------------------------------
(***************************************************************************)
(* What Array.prototype.filter of the pages, and a DELETE of rows on the   *)
(* daemon, leave of a list, and what flatMap makes of lists.  They are     *)
(* recursive functions, not operators, so that they can be proved about    *)
(* (PageProofs).                                                           *)
(***************************************************************************)
EXTENDS Integers, SequencesExt

\* The elements of s that are in S, in the order of s.
Filter(s, S) ==
  LET upTo[i \in 0 .. Len(s)] ==
        IF i = 0 THEN <<>> ELSE IF s[i] \in S THEN Append(upTo[i - 1], s[i]) ELSE upTo[i - 1]
  IN  upTo[Len(s)]

\* The lists of ss, one after the other.
Flattened(ss) ==
  LET upTo[i \in 0 .. Len(ss)] == IF i = 0 THEN <<>> ELSE upTo[i - 1] \o ss[i]
  IN  upTo[Len(ss)]
=============================================================================
