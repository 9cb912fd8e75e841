-------------------------- MODULE SessionLifecycle --------------------------
(***************************************************************************)
(* What the session API promises of a session, as the pages that list it   *)
(* see it: it appears running, dies at most once, goes at most once and    *)
(* never comes back; the ids come in order and one at a time.              *)
(***************************************************************************)
EXTENDS Integers

CONSTANT Id        \* session ids, integers
VARIABLE shown     \* id -> "unborn" | "running" | "dead" | "gone"

Init == shown = [i \in Id |-> "unborn"]

Becomes(i, status) == shown' = [shown EXCEPT ![i] = status]

Appears(i) ==
  /\ shown[i] = "unborn"
  /\ \A j \in Id : j < i => shown[j] # "unborn"
  /\ Becomes(i, "running")

Dies(i) == shown[i] = "running" /\ Becomes(i, "dead")

\* Dismissed, or its create undone.
Goes(i) == shown[i] \in {"running", "dead"} /\ Becomes(i, "gone")

Next == \E i \in Id : Appears(i) \/ Dies(i) \/ Goes(i)

Spec == Init /\ [][Next]_shown
=============================================================================
