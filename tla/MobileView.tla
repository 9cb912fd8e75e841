----------------------------- MODULE MobileView -----------------------------
(***************************************************************************)
(* The one-session view of a narrow page: MobileSessionView.tsx,           *)
(* mobileModel.ts, MobileCompose.tsx and MobileSessionCreator.tsx in       *)
(* web/src/grid.  The page hands it the layout and the sessions that run;  *)
(* it keeps which of them is on screen while both change underneath, while *)
(* a created session is still to be listed, and while a DELETE is out.     *)
(* An effect of React runs in the step that changed what it depends on.    *)
(***************************************************************************)
EXTENDS Integers, SequencesExt, Filtering

CONSTANTS
  Phone,       \* sessions, in the order the servers list them
  PhoneTiles,  \* the orders of the tiles the page may show
  FontSizes,   \* MOBILE_FONT_SIZES
  MaxTaps      \* bound on the steps of the view

PhoneSessions == ToSet(Phone)

ASSUME MobileViewAssumption ==
  /\ Phone \in Seq(PhoneSessions) /\ IsInjective(Phone) /\ "" \notin PhoneSessions
  /\ PhoneTiles \subseteq Seq(PhoneSessions) /\ \A t \in PhoneTiles : IsInjective(t)
  /\ FontSizes # {} /\ MaxTaps \in Nat

VARIABLES
  tiles, running,  \* the page's layout, and the sessions it lists as running
  over,            \* the sessions that ended
  selection,       \* the key, "" for none, and the index it had
  pending,         \* pendingSelectionKey
  creatorOpen,     \* creatorOpen
  creating,        \* created sessions whose POST is not answered
  terminating,     \* sessions whose DELETE is not answered
  deleting,        \* the button is disabled
  fontSize,        \* fontSize, and in localStorage
  compose,         \* MobileCompose of the session on screen
  connected,       \* its terminal takes input
  pasted,          \* drafts the terminal took
  taps

\* Recorded to state the properties: the session the user or a creation put on screen.
VARIABLE wanted

phone == <<tiles, running, over>>
mobileVars == <<phone, selection, pending, creatorOpen, creating, terminating, deleting,
                fontSize, compose, connected, pasted, taps, wanted>>

Tap == taps < MaxTaps /\ taps' = taps + 1
NoDraft == [open |-> FALSE, draft |-> FALSE, status |-> ""]

----------------------------------------------------------------------------
(* mobileModel.ts *)

\* orderMobileSessions: placed ones as they are placed, then the others.
orderMobileSessions(t, r) ==
  LET first == Filter(t, r)
  IN  first \o Filter(Phone, r \ ToSet(first))
sessions == orderMobileSessions(tiles, running)

IndexOf(s, list) == IF s \in ToSet(list) THEN CHOOSE i \in DOMAIN list : list[i] = s ELSE 0
At(i, list) == [key |-> IF list = <<>> THEN "" ELSE list[i], index |-> i]

\* reconcileMobileSelection: the same session, or else whatever has its place.
Reconciled_ByIndex(sel, list) == At(Min({Max({1, sel.index}), Max({1, Len(list)})}), list)
Reconciled(sel, list) ==
  IF list = <<>> THEN At(1, list)
  ELSE IF sel.key \in ToSet(list) THEN At(IndexOf(sel.key, list), list)
  ELSE At(Min({sel.index, Len(list)}), list)

OnPhone == Reconciled(selection, sessions).key

----------------------------------------------------------------------------

\* The effect of new sessions or a new pending key: a created session goes on
\* screen once it is listed; then the view is the one of the session on screen.
Follow(sel, awaited, list) ==
  /\ IF awaited # {} /\ awaited \subseteq ToSet(list)
     THEN /\ selection' = At(IndexOf(CHOOSE s \in awaited : TRUE, list), list)
          /\ pending' = {}
     ELSE /\ selection' = Reconciled(sel, list)
          /\ pending' = awaited
  /\ IF selection'.key = OnPhone THEN UNCHANGED <<compose, connected>>
     ELSE compose' = NoDraft /\ connected' = FALSE

Put(sel) ==
  /\ Follow(sel, pending, sessions)
  /\ wanted' = {selection'.key}
  /\ UNCHANGED <<phone, creatorOpen, creating, terminating, deleting, fontSize, pasted>>

\* moveSelection.
Moved(offset) ==
  LET i == Reconciled(selection, sessions).index + offset
  IN  At(Max({1, Min({Len(sessions), i})}), sessions)

\* A swipe across the header, and the slider's keys.
Swipe(dx, dy) ==
  /\ Tap
  /\ ~creatorOpen /\ sessions # <<>>
  /\ dx * dx >= 48 * 48 /\ dx * dx > dy * dy
  /\ Put(Moved(IF dx < 0 THEN 1 ELSE -1))

SliderKey(offset) ==
  /\ Tap
  /\ ~creatorOpen /\ sessions # <<>>
  /\ Put(Moved(offset))

SetCreator(open) ==
  /\ Tap
  /\ creatorOpen = ~open /\ creatorOpen' = open
  /\ UNCHANGED <<phone, selection, pending, creating, terminating, deleting, fontSize, compose,
                 connected, pasted, wanted>>

\* The creator launches; one launch at a time while it is open.
Create(s) ==
  /\ Tap
  /\ creatorOpen /\ s \in PhoneSessions \ (running \cup over \cup creating \cup pending)
  /\ creating' = creating \cup {s}
  /\ UNCHANGED <<phone, selection, pending, creatorOpen, terminating, deleting, fontSize, compose,
                 connected, pasted, wanted>>

\* created: also when the creator was closed meanwhile.
Created(s) ==
  /\ Tap
  /\ s \in creating /\ creating' = creating \ {s}
  /\ creatorOpen' = FALSE
  /\ Follow(selection, {s}, sessions)
  /\ wanted' = {s}
  /\ UNCHANGED <<phone, terminating, deleting, fontSize, pasted>>

CreateFails(s) ==
  /\ Tap
  /\ s \in creating /\ creating' = creating \ {s}
  /\ UNCHANGED <<phone, selection, pending, creatorOpen, terminating, deleting, fontSize, compose,
                 connected, pasted, wanted>>

\* terminateSelected: the confirmation blocks, so the session is the one on screen.
terminateSelected ==
  /\ Tap
  /\ ~creatorOpen /\ sessions # <<>> /\ ~deleting
  /\ deleting' = TRUE
  /\ terminating' = terminating \cup {OnPhone}
  /\ UNCHANGED <<phone, selection, pending, creatorOpen, creating, fontSize, compose, connected,
                 pasted, wanted>>

Terminated(s) ==
  /\ Tap
  /\ s \in terminating /\ terminating' = terminating \ {s}
  /\ deleting' = FALSE
  /\ UNCHANGED <<phone, selection, pending, creatorOpen, creating, fontSize, compose, connected,
                 pasted, wanted>>

changeFontSize(size) ==
  /\ Tap
  /\ ~creatorOpen /\ size # fontSize
  /\ fontSize' = size
  /\ UNCHANGED <<phone, selection, pending, creatorOpen, creating, terminating, deleting, compose,
                 connected, pasted, wanted>>

\* What the page hands over: its layout and the sessions that run.
ListsLand(t, r) ==
  /\ Tap
  /\ <<t, r>> # <<tiles, running>> /\ r \cap over = {}
  /\ tiles' = t /\ running' = r /\ over' = over \cup (running \ r)
  /\ Follow(selection, pending, orderMobileSessions(t, r))
  /\ wanted' = IF pending # {} /\ pending \subseteq r THEN pending ELSE wanted
  /\ UNCHANGED <<creatorOpen, creating, terminating, deleting, fontSize, pasted>>

----------------------------------------------------------------------------
(* MobileCompose: a draft for the session on screen, remounted with it *)

Draft(c) ==
  /\ ~creatorOpen /\ sessions # <<>>
  /\ compose' = c
  /\ UNCHANGED <<phone, selection, pending, creatorOpen, creating, terminating, deleting, fontSize,
                 connected, wanted>>

ToggleCompose ==
  /\ Tap /\ Draft([compose EXCEPT !.open = ~@, !.status = ""]) /\ UNCHANGED pasted
TypeDraft ==
  /\ Tap /\ compose.open /\ ~compose.draft
  /\ Draft([compose EXCEPT !.draft = TRUE, !.status = ""]) /\ UNCHANGED pasted

\* insert: the draft stays when the terminal does not take it; Enter goes after it
\* and may fail on its own.
Insert(sendEnter, entered) ==
  /\ Tap /\ compose.open /\ compose.draft
  /\ IF ~connected
     THEN Draft([compose EXCEPT !.status = "Draft not sent."]) /\ UNCHANGED pasted
     ELSE /\ pasted' = pasted + 1
          /\ IF sendEnter /\ ~entered
             THEN Draft([compose EXCEPT !.draft = FALSE, !.status = "Enter was not sent."])
             ELSE Draft([compose EXCEPT !.draft = FALSE, !.open = FALSE, !.status = ""])

Connect(up) ==
  /\ Tap
  /\ sessions # <<>> /\ connected = ~up /\ connected' = up
  /\ UNCHANGED <<phone, selection, pending, creatorOpen, creating, terminating, deleting, fontSize,
                 compose, pasted, wanted>>

----------------------------------------------------------------------------

MobileInit ==
  /\ tiles \in PhoneTiles /\ running \in SUBSET PhoneSessions /\ over = {}
  /\ selection = At(1, orderMobileSessions(tiles, running)) /\ pending = {}
  /\ creatorOpen = FALSE /\ creating = {}
  /\ terminating = {} /\ deleting = FALSE
  /\ fontSize \in FontSizes
  /\ compose = NoDraft /\ connected = FALSE /\ pasted = 0
  /\ taps = 0
  /\ wanted = {}

MobileNext ==
  \/ \E dx, dy \in {-60, -48, 0, 60} : Swipe(dx, dy)
  \/ \E offset \in {-Len(sessions), -1, 1, Len(sessions)} : SliderKey(offset)
  \/ \E open \in BOOLEAN : SetCreator(open) \/ Connect(open)
  \/ \E s \in PhoneSessions : Create(s) \/ Created(s) \/ CreateFails(s) \/ Terminated(s)
  \/ terminateSelected \/ ToggleCompose \/ TypeDraft
  \/ \E size \in FontSizes : changeFontSize(size)
  \/ \E t \in PhoneTiles, r \in SUBSET PhoneSessions : ListsLand(t, r)
  \/ \E sendEnter, entered \in BOOLEAN : Insert(sendEnter, entered)

MobileSpec == MobileInit /\ [][MobileNext]_mobileVars

----------------------------------------------------------------------------
(* Properties *)

\* The state's shape; a created session that is listed does not wait, and the
\* button is disabled as long as the last DELETE asked for is out.
MobileTypeOK ==
  /\ tiles \in PhoneTiles /\ running \subseteq PhoneSessions /\ over \subseteq PhoneSessions
  /\ selection \in [key : PhoneSessions \cup {""}, index : 1 .. Max({1, Len(Phone)})]
  /\ pending \subseteq PhoneSessions \ running /\ Cardinality(pending) <= 1
  /\ creating \subseteq PhoneSessions /\ terminating \subseteq PhoneSessions
  /\ deleting = (terminating # {})
  /\ fontSize \in FontSizes /\ creatorOpen \in BOOLEAN /\ connected \in BOOLEAN
  /\ compose \in [open : BOOLEAN, draft : BOOLEAN,
                   status : {"", "Draft not sent.", "Enter was not sent."}]
  /\ taps \in 0 .. MaxTaps /\ pasted \in 0 .. MaxTaps

\* "Selection must follow asynchronous session-list changes while retaining the
\* current key" (MobileSessionView.tsx:61): the session the user moved to or
\* created is the one on screen for as long as it runs, from the moment it is
\* listed; and the session on screen gives way, while it runs, to no other.
StaysOnSession ==
  /\ [](wanted \cap running \subseteq {OnPhone})
  /\ [][\/ OnPhone \notin running'
        \/ OnPhone' \in {OnPhone} \cup wanted']_mobileVars
=============================================================================
