----------------------------- MODULE PaneReader -----------------------------
(***************************************************************************)
(* The dialog that shows a session's text: web/src/grid/PaneTextReader.tsx. *)
(* Every load is a request of its own; the one before it is aborted, but   *)
(* what was already on its way still arrives.  A text is the number of     *)
(* changes the pane had seen when the daemon captured it.                  *)
(***************************************************************************)
EXTENDS Integers, FiniteSets

CONSTANTS
  MaxLoads,  \* bound on the loads and the ends of readers
  MaxOutput  \* bound on the changes of the pane

ASSUME PaneReaderAssumption == MaxLoads \in Nat \ {0} /\ MaxOutput \in Nat

VARIABLES
  output,      \* changes of the pane so far
  open,        \* the dialog is mounted
  generation,  \* generationRef
  loads,       \* requests not answered
  snapshot,    \* the text on screen; None before the first
  failed,      \* requestError
  refreshing,  \* refreshing
  raw,         \* showRaw
  copying,     \* texts on their way to the clipboard
  copyStatus   \* copyStatus, and the clipboard it speaks of

readerVars == <<output, open, generation, loads, snapshot, failed, refreshing, raw, copying, copyStatus>>

None == -1
Text == 0 .. MaxOutput
Load == [generation : 1 .. MaxLoads, aborted : BOOLEAN, text : Text \cup {None}]

\* What a load is told to drop when another one, or the end, replaces it.
Aborted == {[l EXCEPT !.aborted = TRUE] : l \in loads}

----------------------------------------------------------------------------

\* load: at mount, Refresh and Retry.
Start_AbortsLast ==
  /\ generation < MaxLoads
  /\ generation' = generation + 1
  /\ loads' = Aborted \cup {[generation |-> generation + 1, aborted |-> TRUE, text |-> None]}
  /\ refreshing' = (snapshot # None)
  /\ failed' = FALSE
  /\ copyStatus' = ""
Start ==
  /\ generation < MaxLoads
  /\ generation' = generation + 1
  /\ loads' = Aborted \cup {[generation |-> generation + 1, aborted |-> FALSE, text |-> None]}
  /\ refreshing' = (snapshot # None)
  /\ failed' = FALSE
  /\ copyStatus' = ""

Open ==
  /\ ~open /\ open' = TRUE
  /\ Start
  /\ UNCHANGED <<output, snapshot, raw, copying>>

\* The button is disabled while a text is being replaced, not while the first loads.
Refresh ==
  /\ open /\ ~refreshing
  /\ Start
  /\ UNCHANGED <<output, open, snapshot, raw, copying>>

\* The daemon captures the pane; an aborted request may have reached it.
Capture(l) ==
  /\ l.text = None
  /\ loads' = (loads \ {l}) \cup {[l EXCEPT !.text = output]}
  /\ UNCHANGED <<output, open, generation, snapshot, failed, refreshing, raw, copying, copyStatus>>

Outdated_Never(l) == FALSE
Outdated(l) == l.aborted \/ l.generation # generation

TextLands(l) ==
  /\ l.text # None
  /\ loads' = loads \ {l}
  /\ IF Outdated(l) THEN UNCHANGED <<snapshot, refreshing>>
     ELSE snapshot' = l.text /\ refreshing' = FALSE
  /\ UNCHANGED <<output, open, generation, failed, raw, copying, copyStatus>>

LoadFails(l) ==
  /\ loads' = loads \ {l}
  /\ IF Outdated(l) THEN UNCHANGED <<failed, refreshing>>
     ELSE failed' = TRUE /\ refreshing' = FALSE
  /\ UNCHANGED <<output, open, generation, snapshot, raw, copying, copyStatus>>

\* Raw: only where unwrapping changed something, which some texts have.
ToggleRaw ==
  /\ open /\ snapshot # None
  /\ raw' = ~raw
  /\ copyStatus' = ""
  /\ UNCHANGED <<output, open, generation, loads, snapshot, failed, refreshing, copying>>

\* copyAll, up to the clipboard and after it.
Copy ==
  /\ open /\ snapshot # None
  /\ copying' = copying \cup {snapshot}
  /\ UNCHANGED <<output, open, generation, loads, snapshot, failed, refreshing, raw, copyStatus>>

Copied(t, ok) ==
  /\ t \in copying /\ copying' = copying \ {t}
  /\ copyStatus' = IF ~open THEN copyStatus ELSE IF ok THEN "copied" ELSE "unavailable"
  /\ UNCHANGED <<output, open, generation, loads, snapshot, failed, refreshing, raw>>

\* close: by its buttons or Escape, and by the view that unmounts it.
Close ==
  /\ open /\ open' = FALSE
  /\ generation < MaxLoads
  /\ generation' = generation + 1
  /\ loads' = Aborted
  /\ snapshot' = None /\ failed' = FALSE /\ raw' = FALSE /\ copyStatus' = "" /\ refreshing' = FALSE
  /\ UNCHANGED <<output, copying>>

Output ==
  /\ output < MaxOutput
  /\ output' = output + 1
  /\ UNCHANGED <<open, generation, loads, snapshot, failed, refreshing, raw, copying, copyStatus>>

----------------------------------------------------------------------------

ReaderInit ==
  /\ output = 0 /\ open = FALSE /\ generation = 0 /\ loads = {}
  /\ snapshot = None /\ failed = FALSE /\ refreshing = FALSE /\ raw = FALSE
  /\ copying = {} /\ copyStatus = ""

ReaderNext ==
  \/ Open \/ Refresh \/ ToggleRaw \/ Copy \/ Close \/ Output
  \/ \E l \in loads : Capture(l) \/ TextLands(l) \/ LoadFails(l)
  \/ \E t \in copying, ok \in BOOLEAN : Copied(t, ok)

ReaderSpec == ReaderInit /\ [][ReaderNext]_readerVars

----------------------------------------------------------------------------
(* Properties *)

ReaderTypeOK ==
  /\ output \in Text /\ generation \in 0 .. MaxLoads
  /\ loads \in SUBSET Load
  /\ snapshot \in Text \cup {None} /\ copying \in SUBSET Text
  /\ copyStatus \in {"", "copied", "unavailable"}
  /\ {open, failed, refreshing, raw} \subseteq BOOLEAN

\* While the reader says that it loads, a request is under way that will end it:
\* no refusal to take an answer leaves it waiting for nobody.
LoadingEnds ==
  open /\ (refreshing \/ (snapshot = None /\ ~failed))
    => \E l \in loads : ~l.aborted /\ l.generation = generation

\* Answers may overtake each other, but the text on screen is never replaced by one
\* that the daemon captured before it.
TextNeverGoesBack ==
  [][snapshot' # None => snapshot' >= snapshot]_readerVars
=============================================================================
