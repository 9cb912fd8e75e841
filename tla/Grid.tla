-------------------------------- MODULE Grid --------------------------------
(***************************************************************************)
(* The grid of one page: web/src/grid/GridPage.tsx with GridDividers,      *)
(* ColumnStepper, DirFilterBar and EmptyTile.  What is on screen is        *)
(* derived from the shared layout, the session lists, the directories the  *)
(* browser shows and the arrangement it keeps for each of them; every edit *)
(* is translated back to the layout.  A handler runs on the last render,   *)
(* so it is one step; only the answers to DELETE and POST come later.      *)
(* The requests of the layout and of the lists are LayoutSync's and        *)
(* SessionsSync's: here their answers land.                                *)
(***************************************************************************)
EXTENDS Layout

CONSTANTS
  Session, Server, Local,
  ServerOf, DirOf,     \* of every session; directories are 1 .. their number
  FirstLayouts,        \* the layouts the daemon may have
  FirstDirs,           \* the selections the browser may have stored
  Delta,               \* how far a divider may be dragged
  MaxSteps             \* bound on the steps

ASSUME GridAssumption ==
  /\ IsFiniteSet(Session) /\ NoTile \notin Session
  /\ ServerOf \in [Session -> Server] /\ DirOf \in [Session -> Nat \ {0}]
  /\ FirstDirs \subseteq SUBSET Range(DirOf)
  /\ Delta \subseteq Int /\ MaxSteps \in Nat
  /\ \A l \in FirstLayouts :
       /\ WellFormed(l)
       /\ l.tiles \in Seq(Session \cup {NoTile})
       /\ l.rowSizes \in Seq(Int) /\ l.colSizes \in Seq(Seq(Int))
       /\ Count(l.tiles) + MaxSteps <= Unit  \* no step adds more than a tile

VARIABLES
  layout,     \* layout and layoutRef
  known,      \* sessionsByServer: the status of every session
  loaded,     \* loadedSessionServers
  status,     \* statusByServer
  servers,    \* the servers in the browser's list
  selected,   \* selectedDirs, in memory and in localStorage; {} for all
  stored,     \* localStorage: the arrangement of each directory, if any
  overlay,    \* the one in effect, if any
  maximized, editing,  \* maximizedKey, editingKey
  reader,     \* paneTextTarget
  launching,  \* sessions whose POST is not answered
  closing,    \* DELETEs not answered: one tile's, or a directory's
  drag, hold, \* the divider being dragged, and the reflow hold
  narrow,     \* the viewport shows the mobile view
  steps

\* Recorded to state the properties: sessions the user or another page asked to
\* take off the grid.
VARIABLE asked

lists == <<known, loaded, status, servers, launching>>
choice == <<selected, stored, overlay>>
keys == <<editing, reader>>
dividers == <<drag, hold>>
gridVars == <<layout, lists, choice, maximized, keys, closing, dividers, narrow, steps, asked>>

Dir == Range(DirOf)
Step == steps < MaxSteps /\ steps' = steps + 1

----------------------------------------------------------------------------
(* What a render derives *)

On(S) == {s \in Session : ServerOf[s] \in S}
Running == {s \in Session : known[s] = "running"}
Ended == {s \in Session : known[s] = "ended"}

\* dirButtons: the directories of running sessions.
dirs == {DirOf[s] : s \in Running \cap On(servers)}
activeDirs == effectiveDirs(selected, dirs)
activeSolo == IF Cardinality(activeDirs) = 1 THEN CHOOSE d \in activeDirs : TRUE ELSE 0

\* A session the lists do not have has no directory to match.
Shown == IF activeDirs = {} THEN Session
         ELSE {s \in Running \cup Ended : DirOf[s] \in activeDirs}
Screen(l, arrangement) ==
  LET filtered == filterLayout(l, Shown)
  IN  IF arrangement = {} THEN filtered
      ELSE applyOverlay(filtered, CHOOSE o \in arrangement : TRUE)
OnScreen == Screen(layout, overlay)
View == OnScreen.view

\* realIndex: the stored index of a slot; 0 for an empty one under a filter.
realIndex(i) == IF activeDirs = {} THEN i
                ELSE IF i \in DOMAIN OnScreen.map THEN OnScreen.map[i] ELSE 0

\* endedByServer: only a list that loaded, of a server in touch, tells.
EndedOn(v) == IF v \in servers \cap loaded /\ status[v] \in {"", "open"}
              THEN endedTiles(layout, On({v}), Running) ELSE {}

\* What the header offers, and what an empty tile does.
attachable == (Running \cap On(servers)) \ Placed(layout)
unplaced == {s \in attachable : activeDirs # {} => DirOf[s] \in activeDirs}
EmptyTile == IF NoTile \in ToSet(View.tiles) THEN attachable ELSE {}

\* The stored indices of the tiles that can be clicked.
Clickable == ToSet(OnScreen.map)

----------------------------------------------------------------------------
(* Layout and arrangement *)

adoptLayout_KeepMaximized(l) == layout' = l /\ UNCHANGED maximized
adoptLayout(l) ==
  /\ layout' = l
  /\ maximized' = maximized \cap Placed(l)

\* The effect of a new solo: its arrangement is loaded.
loadOverlay ==
  overlay' = IF activeSolo' = activeSolo THEN overlay
             ELSE IF activeSolo' = 0 THEN {} ELSE stored'[activeSolo']

\* editOverlay, seeded with what is on screen.
Overlay == CHOOSE o \in IF overlay = {} THEN {seedOverlay(View)} ELSE overlay : TRUE
editOverlay(o) ==
  /\ overlay' = {o}
  /\ stored' = [stored EXCEPT ![activeSolo] = {o}]
  /\ UNCHANGED <<layout, maximized>>

\* Presentation edits belong to the soloed directory, all others to the layout.
Arranged(o, l) ==
  /\ IF activeSolo # 0 THEN editOverlay(o) ELSE adoptLayout(l) /\ UNCHANGED <<stored, overlay>>
  /\ UNCHANGED <<lists, selected, keys, closing, narrow, asked>>

SetColumns(n) ==
  /\ Step /\ ~narrow
  /\ n \in {View.cols - 1, View.cols + 1} \cap 1 .. MAX_COLS
  /\ Arranged([Overlay EXCEPT !.cols = n], setCols(layout, n))
  /\ UNCHANGED dividers

\* A drop: the index was taken when the drag began and may name any slot by now.
\* Under a solo it reorders the arrangement, and otherwise the layout.
Drop_ViewIndex(from, to) ==
  /\ Step /\ ~narrow
  /\ from # to /\ (activeDirs # {} => Most(from, to) <= Count(View.tiles))
  /\ Arranged([Overlay EXCEPT !.order = Swapped(orderOf(View), from, to)],
              swapTiles(layout, from, to))
  /\ UNCHANGED dividers
Drop(from, to) ==
  /\ Step /\ ~narrow
  /\ from # to /\ (activeDirs # {} => Most(from, to) <= Count(View.tiles))
  /\ Arranged(IF activeSolo = 0 THEN {} ELSE [Overlay EXCEPT !.order = Swapped(orderOf(View), from, to)],
              swapTiles(layout, realIndex(from), realIndex(to)))
  /\ UNCHANGED dividers

----------------------------------------------------------------------------
(* Dividers *)

Handles == {[axis |-> "row", row |-> 1, boundary |-> b] : b \in 1 .. View.rows - 1}
             \cup {[axis |-> "col", row |-> r, boundary |-> b] : r \in 1 .. View.rows, b \in 1 .. View.cols - 1}

Sized(h, sizes) ==
  IF h.axis = "row" THEN setRowSizes(View, sizes) ELSE setColSizes(View, h.row, sizes)
\* The view is a filtered grid: only its sizes are taken over.
Resized_Whole(l) == Arranged([Overlay EXCEPT !.rowSizes = l.rowSizes, !.colSizes = l.colSizes], l)
Resized(l) == Arranged([Overlay EXCEPT !.rowSizes = l.rowSizes, !.colSizes = l.colSizes],
                       adoptSizes(layout, l))

\* beginReflowHold: the terminals keep their size until the drag is over.
StartDrag(h) ==
  /\ Step /\ ~narrow
  /\ h \in Handles
  /\ drag' = {[handle |-> h, moved |-> FALSE,
               start |-> IF h.axis = "row" THEN View.rowSizes ELSE View.colSizes[h.row]]}
  /\ hold' = TRUE
  /\ UNCHANGED <<layout, maximized, lists, choice, keys, closing, narrow, asked>>

\* The pointer stays captured by the handle it went down on, so a handle that is
\* no longer rendered gives neither moves nor the end.
MoveDrag(d, delta) ==
  /\ Step
  /\ d.handle \in Handles
  /\ drag' = {[d EXCEPT !.moved = TRUE]}
  /\ LET l == Sized(d.handle, resizeTracks(d.start, d.handle.boundary, delta))
         o == [Overlay EXCEPT !.rowSizes = l.rowSizes, !.colSizes = l.colSizes]
     IN  IF activeSolo # 0 THEN overlay' = {o} /\ UNCHANGED <<layout, maximized>>
         ELSE adoptLayout(adoptSizes(layout, l)) /\ UNCHANGED overlay
  /\ UNCHANGED <<lists, selected, stored, hold, keys, closing, narrow, asked>>

EndDrag(d, delta) ==
  /\ Step
  /\ d.handle \in Handles
  /\ drag' = {} /\ hold' = FALSE
  /\ IF d.moved THEN Resized(Sized(d.handle, resizeTracks(d.start, d.handle.boundary, delta)))
     ELSE UNCHANGED <<layout, maximized, lists, choice, keys, closing, narrow, asked>>

\* A double click.
ResetTracks(h) ==
  /\ Step /\ ~narrow
  /\ h \in Handles
  /\ Resized(Sized(h, equalSizes(IF h.axis = "row" THEN View.rows ELSE View.cols)))
  /\ UNCHANGED dividers

\* Crossing the mobile breakpoint unmounts the dividers, and the hold with them.
SetNarrow ==
  /\ Step
  /\ narrow' = ~narrow
  /\ drag' = {} /\ hold' = (hold /\ drag = {})
  /\ UNCHANGED <<layout, maximized, lists, choice, keys, closing, asked>>

----------------------------------------------------------------------------
(* Which directories show *)

\* The effects of a new selection: it is stored, and the solo's arrangement loaded.
Select(chosen) ==
  /\ selected' = chosen
  /\ UNCHANGED <<layout, maximized, lists, stored, keys, closing, dividers, narrow, asked>>
  /\ loadOverlay

toggleDir(d) ==
  /\ Step /\ ~narrow
  /\ d \in dirs
  /\ Select(IF selected = {d} THEN {} ELSE {d})

addDir(d) ==
  /\ Step /\ ~narrow
  /\ d \in dirs /\ activeDirs # {} /\ d \notin activeDirs
  /\ Select(selected \cup {d})

\* Ctrl+Alt with an arrow or 0; not while the reader is open.
RotateDirs(step) ==
  /\ Step
  /\ reader = {}
  /\ LET next == IF step = 0 THEN 0 ELSE cycleSolo(activeSolo, dirs, step)
     IN  Select({next} \ {0})

\* showDir, as a new tile asks for it.
showDir(d) == selected' = IF d \in selected THEN selected ELSE {}

----------------------------------------------------------------------------
(* Tiles *)

attachSession(s) ==
  /\ Step /\ ~narrow
  /\ s \in unplaced \cup EmptyTile
  /\ showDir(DirOf[s])
  /\ adoptLayout(addTile(layout, s))
  /\ asked' = asked \ {s}
  /\ UNCHANGED <<lists, stored, keys, closing, dividers, narrow>>
  /\ loadOverlay

\* A POST leaves, for a session nobody has seen.
Launch(s) ==
  /\ Step /\ ~narrow
  /\ known[s] = "absent" /\ s \notin Placed(layout) /\ ServerOf[s] \in servers
  /\ launching' = launching \cup {s}
  /\ UNCHANGED <<layout, maximized, known, loaded, status, servers, choice, keys, closing,
                 dividers, narrow, asked>>

\* Its answer: the list may have shown the session before, and it may have a tile.
placeSession(s) ==
  /\ Step
  /\ s \in launching
  /\ launching' = launching \ {s}
  /\ showDir(DirOf[s])
  /\ adoptLayout(addTile(layout, s))
  /\ asked' = asked \ {s}
  /\ UNCHANGED <<known, loaded, status, servers, stored, keys, closing, dividers, narrow>>
  /\ loadOverlay

\* remove, dismiss, and the close button of a terminal: by the index it has.
Dismiss(i) ==
  /\ Step /\ ~narrow
  /\ i \in Clickable
  /\ asked' = asked \cup {layout.tiles[i]}
  /\ adoptLayout(removeTile(layout, i))
  /\ UNCHANGED <<lists, choice, keys, closing, dividers, narrow>>

DismissAll(v) ==
  /\ Step
  /\ EndedOn(v) # {}
  /\ asked' = asked \cup EndedOn(v)
  /\ adoptLayout(removeTilesWhere(layout, EndedOn(v)))
  /\ UNCHANGED <<lists, choice, keys, closing, dividers, narrow>>

\* terminateSession, up to the DELETE: it keeps the index the tile has now.
\* "of" is the layout of that moment, for the properties.
Terminate(i) ==
  /\ Step /\ ~narrow
  /\ i \in Clickable /\ ServerOf[layout.tiles[i]] \in servers
  /\ closing' = closing \cup {[at |-> i, doomed |-> {layout.tiles[i]}, dir |-> 0, of |-> layout]}
  /\ asked' = asked \cup {layout.tiles[i]}
  /\ UNCHANGED <<layout, maximized, lists, choice, keys, dividers, narrow>>

\* closeDir, up to the DELETEs.
CloseDir(d) ==
  /\ Step /\ ~narrow
  /\ LET doomed == {s \in Running \cap On(servers) : DirOf[s] = d}
     IN  /\ doomed # {}
         /\ closing' = closing \cup {[at |-> 0, doomed |-> doomed, dir |-> d, of |-> layout]}
         /\ asked' = asked \cup doomed
  /\ UNCHANGED <<layout, maximized, lists, choice, keys, dividers, narrow>>

\* Answered or failed, it is all the same: the tile goes, whatever has its index
\* now; a directory's tiles go by their names.
Without_ByIndex(c) ==
  IF c.dir = 0 THEN removeTile(layout, c.at)
  ELSE packAfterRemoval(layout, [j \in DOMAIN layout.tiles |->
         IF j \in DOMAIN c.of.tiles /\ c.of.tiles[j] \in c.doomed THEN NoTile ELSE layout.tiles[j]])
Without(c) == IF c.dir = 0 THEN removeTile(layout, c.at) ELSE removeTilesWhere(layout, c.doomed)

Closed(c) ==
  /\ Step
  /\ c \in closing
  /\ closing' = closing \ {c}
  /\ adoptLayout(Without(c))
  /\ selected' = selected \ {c.dir}
  /\ UNCHANGED <<lists, stored, keys, dividers, narrow, asked>>
  /\ loadOverlay

----------------------------------------------------------------------------
(* Keys of a tile *)

ToggleMaximized(s) ==
  /\ Step /\ ~narrow
  /\ s \in Placed(View)
  /\ maximized' = IF maximized = {s} THEN {} ELSE {s}
  /\ UNCHANGED <<layout, lists, choice, keys, closing, dividers, narrow, asked>>

Escape ==
  /\ UNCHANGED steps
  /\ maximized # {} /\ maximized' = {}
  /\ UNCHANGED <<layout, lists, choice, keys, closing, dividers, narrow, asked>>

\* TileTitle: a double click, and Enter, Escape or leaving the input.  A new label
\* goes to renameSession, whose answer is a list.
StartRename(s) ==
  /\ Step /\ ~narrow
  /\ s \in Placed(View) /\ editing' = {s} /\ UNCHANGED reader
  /\ UNCHANGED <<layout, maximized, lists, choice, closing, dividers, narrow, asked>>

StopRename ==
  /\ UNCHANGED steps
  /\ editing \cap Placed(View) # {} /\ editing' = {} /\ UNCHANGED reader
  /\ UNCHANGED <<layout, maximized, lists, choice, closing, dividers, narrow, asked>>

OpenReader(s) ==
  /\ Step /\ ~narrow
  /\ s \in Placed(View) \cap Running /\ reader' = {s} /\ UNCHANGED editing
  /\ UNCHANGED <<layout, maximized, lists, choice, closing, dividers, narrow, asked>>

CloseReader ==
  /\ UNCHANGED steps
  /\ reader # {} /\ reader' = {} /\ UNCHANGED editing
  /\ UNCHANGED <<layout, maximized, lists, choice, closing, dividers, narrow, asked>>

----------------------------------------------------------------------------
(* What lands *)

\* A list: sessions start and end.  The first one loads the server.
LandSessions(v, s) ==
  /\ Step
  /\ ServerOf[s] = v
  /\ known' = [known EXCEPT ![s] = CASE @ = "absent" -> "running" [] @ = "running" -> "ended"
                                     [] OTHER -> "absent"]
  /\ loaded' = loaded \cup {v}
  /\ UNCHANGED <<layout, maximized, status, servers, launching, selected, stored, keys, closing,
                 dividers, narrow, asked>>
  /\ loadOverlay

\* A layout another page stored.
LandLayout(l) ==
  /\ Step
  /\ adoptLayout(normalize(l.tiles, l.cols, l.rowSizes, l.colSizes))
  /\ asked' = asked \cup (Placed(layout) \ Placed(l))
  /\ UNCHANGED <<lists, choice, keys, closing, dividers, narrow>>

Status(v, st) ==
  /\ Step
  /\ v \in servers
  /\ status' = [status EXCEPT ![v] = st]
  /\ UNCHANGED <<layout, maximized, known, loaded, servers, launching, choice, keys, closing,
                 dividers, narrow, asked>>

\* The banner of a server whose token is dead.
RemoveServer(v) ==
  /\ Step
  /\ v \in servers \ {Local} /\ status[v] = "auth-expired"
  /\ servers' = servers \ {v}
  /\ UNCHANGED <<layout, maximized, known, loaded, status, launching, selected, stored, keys, closing,
                 dividers, narrow, asked>>
  /\ loadOverlay

----------------------------------------------------------------------------

GridInit ==
  /\ layout \in FirstLayouts
  /\ known = [s \in Session |-> IF s \in Placed(layout) THEN "running" ELSE "absent"]
  /\ loaded = Server
  /\ status = [v \in Server |-> ""]
  /\ servers = Server
  /\ selected \in FirstDirs
  /\ stored = [d \in Dir |-> {}] /\ overlay = {}
  /\ maximized = {} /\ editing = {} /\ reader = {}
  /\ launching = {} /\ closing = {}
  /\ drag = {} /\ hold = FALSE
  /\ narrow = FALSE
  /\ steps = 0
  /\ asked = {}

GridNext ==
  \/ \E n \in 1 .. MAX_COLS : SetColumns(n)
  \/ \E a, b \in DOMAIN View.tiles : Drop(a, b)
  \/ \E h \in Handles : StartDrag(h) \/ ResetTracks(h)
  \/ \E d \in drag, delta \in Delta : MoveDrag(d, delta) \/ EndDrag(d, delta)
  \/ SetNarrow \/ Escape \/ StopRename \/ CloseReader
  \/ \E d \in Dir : toggleDir(d) \/ addDir(d) \/ CloseDir(d)
  \/ \E step \in {-1, 0, 1} : RotateDirs(step)
  \/ \E s \in Session : \/ attachSession(s) \/ Launch(s) \/ placeSession(s)
                        \/ ToggleMaximized(s) \/ StartRename(s) \/ OpenReader(s)
  \/ \E i \in DOMAIN layout.tiles : Dismiss(i) \/ Terminate(i)
  \/ \E c \in closing : Closed(c)
  \/ \E v \in Server : DismissAll(v) \/ RemoveServer(v)
  \/ \E v \in Server, st \in {"open", "auth-expired"} : Status(v, st)
  \/ \E s \in Session : LandSessions(ServerOf[s], s)
  \/ \E l \in FirstLayouts : LandLayout(l)

GridSpec == GridInit /\ [][GridNext]_gridVars

----------------------------------------------------------------------------
(* Properties *)

Overlays == [cols : 1 .. MAX_COLS, order : Seq(Session), rowSizes : Seq(1 .. Unit),
             colSizes : Seq(Seq(1 .. Unit))]
Drag == [handle : [axis : {"row", "col"}, row : Nat, boundary : Nat], moved : BOOLEAN,
         start : Seq(1 .. Unit)]

\* The state's shape; the layout, and what is on screen, in normal form.
GridTypeOK ==
  /\ WellFormed(layout) /\ WellFormed(View)
  /\ ToSet(layout.tiles) \subseteq Session \cup {NoTile}
  /\ known \in [Session -> {"absent", "running", "ended"}]
  /\ loaded \subseteq Server /\ servers \subseteq Server
  /\ status \in [Server -> {"", "open", "auth-expired", "unreachable"}]
  /\ selected \subseteq Dir
  /\ stored \in [Dir -> SUBSET Overlays] /\ overlay \in SUBSET Overlays
  /\ \A one \in {maximized, editing, reader} :
       one \subseteq Session /\ Cardinality(one) <= 1
  /\ maximized \subseteq Placed(layout)
  /\ launching \subseteq Session /\ asked \subseteq Session
  /\ drag \in SUBSET Drag /\ Cardinality(drag) <= 1
  /\ hold \in BOOLEAN /\ narrow \in BOOLEAN /\ steps \in 0 .. MaxSteps

\* A tile leaves the grid only when its session was removed, dismissed, terminated
\* or closed with its directory, or another page took it off; where it was put back
\* before its DELETE was answered, the answer takes it off all the same.  The code
\* has one exception: a DELETE that is answered after the layout changed takes off
\* whichever tile has the index by then (GridPage.tsx:569).
TilesGoByIntent ==
  [][\/ Placed(layout) \ Placed(layout') \subseteq asked' \cup UNION {c.doomed : c \in closing \ closing'}
     \/ \E c \in closing \ closing' : c.dir = 0 /\ c.of # layout]_gridVars

\* Steps that arrange what is there.
Rearranged ==
  /\ layout' # layout \/ overlay' # overlay
  /\ UNCHANGED <<lists, selected, keys, closing, narrow, asked>>
Arrange ==
  \/ \E n \in 1 .. MAX_COLS : SetColumns(n)
  \/ \E a, b \in DOMAIN View.tiles : Drop(a, b)
  \/ \E h \in Handles : ResetTracks(h)
  \/ \E d \in drag, delta \in Delta : MoveDrag(d, delta) \/ EndDrag(d, delta)

Copies(l, s) == Cardinality({i \in DOMAIN l.tiles : l.tiles[i] = s})

\* "A view, not state the daemon knows about": arranging a filtered grid loses no
\* tile and leaves the hidden ones where they are in the stored layout; under a
\* solo it does not touch the stored layout at all.
LeavesHidden ==
  /\ activeSolo # 0 => layout' = layout
  /\ \A s \in Session : Copies(layout', s) = Copies(layout, s)
  /\ \A i \in DOMAIN layout.tiles :
       layout.tiles[i] \in Session \ Shown => layout'.tiles[i] = layout.tiles[i]
HiddenTilesStay == [][Rearranged /\ ~LeavesHidden => ~Arrange]_gridVars

\* A drop exchanges the two tiles on screen and moves no other, whether the order
\* on screen is the stored one, a part of it, or a directory's own.  The code has one
\* exception: a directory's order names a session once, so where one has two tiles (a
\* tile is added for a created session whether or not it got one before its POST was
\* answered, GridPage.tsx:450) they stay together.
DropSwapsTheTwo ==
  [][Rearranged /\ (activeSolo # 0 => \A s \in Shown : Copies(layout, s) <= 1) =>
       \A a, b \in 1 .. Count(View.tiles) :
         Drop(a, b) => Screen(layout', overlay').view.tiles = Swapped(View.tiles, a, b)]_gridVars
=============================================================================
