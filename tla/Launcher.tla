------------------------------ MODULE Launcher ------------------------------
(***************************************************************************)
(* Choosing where a new session runs: web/src/grid/useSessionLauncher.ts,  *)
(* DirPicker.tsx, SessionLauncherFields.tsx, and the two places that hold  *)
(* them, HeaderLauncher.tsx and MobileSessionCreator.tsx.  Every question  *)
(* is put to the daemon that is chosen and may be answered when another    *)
(* one is.  A place is a configured root and the names below it; an        *)
(* optional value is a set.  The model is of one mount: a launcher opened  *)
(* again starts afresh, and answers to the one before do not reach it.     *)
(***************************************************************************)
EXTENDS Integers, SequencesExt, FiniteSetsExt, Filtering

CONSTANTS
  Host, Nowhere,  \* the servers in the browser's list, and none
  ToolsOf,        \* of every host, the ids of its tools
  RootPath,       \* of every host, the paths of its roots, whose ids are their positions
  Listings,       \* of hosts and places, the names in them
  VisibleOn,      \* of every host, the directories on the grid, by name
  FirstRecent,    \* of every host, the places its daemon remembers, latest first
  Targets,        \* directories of sessions a launcher may be opened beside
  Dotted,         \* names that start with a dot
  Needles,        \* what a filter may find: sets of names
  RecentLimit,    \* recentLimit
  MaxMoves        \* bound on the steps

Place == [dirId : Nat, subdir : Seq(STRING)]
ASSUME LauncherAssumption ==
  /\ Nowhere \notin Host
  /\ ToolsOf \in [Host -> Seq(Nat)]
  /\ RootPath \in [Host -> Seq(Seq(STRING))] /\ VisibleOn \in [Host -> Seq(Seq(STRING))]
  /\ \A l \in Listings : l.names \in Seq(STRING)
  /\ FirstRecent \in [Host -> Seq(Place)] /\ \A h \in Host : IsInjective(FirstRecent[h])
  /\ \A t \in Targets : t.host \in Host /\ t.dir \in Seq(STRING)
  /\ RecentLimit \in Nat

VARIABLES
  desktop,     \* HeaderLauncher, or MobileSessionCreator
  target,      \* targetServerId and targetDir
  hosts,       \* servers
  chosen,      \* serverId and serverRef
  config,      \* the host whose tools and dirs were set
  toolId, history, loading, busy,
  launchError, \* error is not ""
  held,        \* picking, or the creator is mounted
  place,       \* at
  children, childrenOf, filter, highlight,
  calls,       \* requests not answered
  remembered,  \* the places every daemon remembers
  moves

\* Recorded to state the properties: what every daemon ever remembered, and whether the
\* picker is still below a place it was at when another server was chosen.
VARIABLES ever, carried

picker == <<place, children, childrenOf, filter, highlight, carried>>
model == <<config, toolId, history, loading, busy, launchError>>
launcherVars == <<desktop, target, hosts, chosen, model, held, picker, calls, remembered, ever, moves>>

\* What the daemon answers of a place: nothing, when it has no names.
ChildrenOf(h, p) ==
  LET of == {l \in Listings : l.host = h /\ l.at = p}
  IN  IF of = {} THEN <<>> ELSE (CHOOSE l \in of : TRUE).names

Move == moves < MaxMoves /\ moves' = moves + 1

----------------------------------------------------------------------------
(* What a render derives *)

tools == IF config = Nowhere THEN <<>> ELSE ToolsOf[config]
roots == IF config = Nowhere THEN {} ELSE DOMAIN RootPath[config]  \* dirs, in order of their ids

server == {chosen} \cap hosts
unconfigured == ~loading /\ ~launchError /\ (tools = <<>> \/ roots = {})
InUse == (desktop \/ held) /\ server # {}
canLaunch == ~loading /\ ~busy /\ toolId > 0 /\ roots # {}
Mounted == held /\ server # {} /\ (desktop \/ (~loading /\ ~unconfigured))

joinSubdir(p, name) == [p EXCEPT !.subdir = Append(@, name)]
dropLast(p) == IF p.subdir = <<>> THEN {} ELSE {[p EXCEPT !.subdir = Front(@)]}
fullPath(p) == (IF p.dirId \in roots THEN RootPath[config][p.dirId] ELSE <<>>) \o p.subdir

\* splitUnderDir: under the root that leaves the least of the path.
splitUnderDir(path) ==
  LET above == {d \in roots : IsPrefix(RootPath[config][d], path)}
      Length(d) == Len(RootPath[config][d])
      best == CHOOSE d \in above : \A e \in above : Length(e) <= Length(d)
  IN  IF above = {} THEN {}
      ELSE {[dirId |-> best, subdir |-> SubSeq(path, Length(best) + 1, Len(path))]}

\* The header's picker always knows the grid's directories and opens on the
\* landing view; the creator's opens beside the session on screen.
start == UNION {splitUnderDir(t.dir) : t \in {u \in target : ~desktop /\ u.host = chosen}}

Row(kind, p) == [kind |-> kind, at |-> p]
RowsOf(kind, list) == [i \in DOMAIN list |-> Row(kind, list[i])]
OfRoot(d, list) == Filter(list, {p \in ToSet(list) : p.dirId = d})
recents == Flattened([d \in 1 .. Cardinality(roots) |-> OfRoot(d, history)])

\* groups, one after the other.
groups ==
  IF place # {} THEN LET p == CHOOSE q \in place : TRUE
                     IN  [i \in DOMAIN children |-> Row("child", joinSubdir(p, children[i]))]
  ELSE LET shown == IF desktop THEN Filter(VisibleOn[chosen], {d \in ToSet(VisibleOn[chosen]) : splitUnderDir(d) # {}}) ELSE <<>>
           others == Filter(recents, {p \in ToSet(recents) : fullPath(p) \notin ToSet(shown)})
       IN  [i \in DOMAIN shown |-> Row("current", CHOOSE p \in splitUnderDir(shown[i]) : TRUE)]
           \o RowsOf("recent", SubSeq(others, 1, Min({Len(others), RecentLimit})))
           \o [d \in 1 .. Cardinality(roots) |-> Row("place", [dirId |-> d, subdir |-> <<>>])]

\* visible and flat: names with a dot come when the filter asks for them.
Label(row) == IF row.kind = "child" THEN {Last(row.at.subdir)} ELSE ToSet(fullPath(row.at))
Fits(row) ==
  /\ \/ row.kind = "current" \/ (filter # {} /\ filter \subseteq Dotted)
     \/ fullPath(row.at) = <<>> \/ Last(fullPath(row.at)) \notin Dotted
  /\ filter # {} => Label(row) \cap filter # {}
flat == Filter(groups, {row \in ToSet(groups) : Fits(row)})
spot == {flat[i] : i \in {highlight} \cap DOMAIN flat}
loadingChildren == place # {} /\ childrenOf # place

----------------------------------------------------------------------------
(* Requests and effects *)

Call(kind, host, at) == 
  [kind |-> kind, host |-> host, at |-> at, stale |-> FALSE, handled |-> FALSE, answer |-> {}]

\* The cleanups of effects.
Stale(cs, kinds) == {IF c.kind \in kinds THEN [c EXCEPT !.stale = TRUE] ELSE c : c \in cs}

FreshPicker(at, still) ==
  /\ place' = at /\ children' = <<>> /\ childrenOf' = {} /\ filter' = {} /\ highlight' = 0
  /\ carried' = still

\* The effect that reads a place: after a mount, a new place or a new server.
Ask(cs, at, host) == Stale(cs, {"children"}) \cup {Call("children", host, at) : p \in at}

\* What React does of the picker after a step that is not the picker's own.
Settled(cs) ==
  \/ /\ Mounted' /\ ~Mounted
     /\ FreshPicker(start', FALSE)
     /\ calls' = Ask(cs, start', chosen')
  \/ /\ ~Mounted'
     /\ FreshPicker({}, FALSE)
     /\ calls' = Stale(cs, {"children"})
  \/ /\ Mounted' /\ Mounted
     /\ calls' = IF chosen' = chosen THEN cs ELSE Ask(cs, place, chosen')
     /\ carried' = (carried \/ (chosen' # chosen /\ place # {}))
     /\ UNCHANGED <<place, children, childrenOf, filter, highlight>>

\* selectServer: by the field, which is there when there are two.
Picked(h, kinds) ==
  /\ Move /\ InUse /\ Cardinality(hosts) > 1
  /\ h \in (hosts \ {chosen})
  /\ chosen' = h
  /\ config' = Nowhere /\ toolId' = 0 /\ history' = <<>> /\ launchError' = FALSE /\ loading' = TRUE
  /\ UNCHANGED <<desktop, target, hosts, held, busy, remembered, ever>>
  /\ Settled(Stale(calls, kinds) \cup {Call("config", h, {})})
selectServer_KeepHistory(h) == Picked(h, {"config"})
selectServer(h) == Picked(h, {"config", "history"})

selectTool(t) ==
  /\ Move /\ InUse /\ ~loading /\ ~unconfigured
  /\ t \in ToSet(tools) \ {toolId}
  /\ toolId' = t /\ launchError' = FALSE
  /\ UNCHANGED <<desktop, target, hosts, chosen, config, history, loading, busy, held, remembered, ever>>
  /\ Settled(calls)

OpenPicker ==
  /\ Move /\ desktop /\ ~held /\ server # {} /\ canLaunch
  /\ held' = TRUE
  /\ UNCHANGED <<desktop, target, hosts, chosen, model, remembered, ever>>
  /\ Settled(calls)

\* onClose, the scrim, onCancel: the creator is unmounted for good.
ClosePicker ==
  /\ Move /\ held
  /\ held' = FALSE
  /\ UNCHANGED <<desktop, target, hosts, chosen, model, remembered, ever>>
  /\ Settled(IF desktop THEN calls ELSE Stale(calls, {"config", "history"}))

\* The page's list loses a server: a launcher that had chosen it shows nothing.
RemoveHost(h) ==
  /\ Move /\ h \in hosts /\ Cardinality(hosts) > 1
  /\ hosts' = hosts \ {h}
  /\ UNCHANGED <<desktop, target, chosen, model, held, remembered, ever>>
  /\ Settled(calls)

----------------------------------------------------------------------------
(* The picker's own steps *)

Browse == Move /\ Mounted /\ UNCHANGED <<desktop, target, hosts, chosen, held, remembered, ever>>

\* navigate: the place it is at is read only if it is another one.
navigate_Unasked(next) == Browse /\ FreshPicker(next, carried /\ next # {}) /\ UNCHANGED <<model, calls>>
navigate(next) ==
  /\ Browse
  /\ FreshPicker(next, carried /\ next # {})
  /\ calls' = IF next = place THEN calls ELSE Ask(calls, next, chosen)
  /\ UNCHANGED model

Drill == \E i \in DOMAIN flat : navigate({flat[i].at})
GoUp == \E p \in place : navigate(dropLast(p))
crumbs == \E p \in place, n \in 0 .. 2 :
  n <= Len(p.subdir) /\ navigate({[p EXCEPT !.subdir = SubSeq(@, 1, n)]})
Places == navigate({})

\* move, by the arrow keys; the mouse takes the highlight away.
Highlight(step) ==
  /\ Browse
  /\ IF step = 0 THEN highlight' = 0
     ELSE /\ flat # <<>>
          /\ highlight' = IF highlight = 0 THEN (IF step > 0 THEN 1 ELSE Len(flat))
                          ELSE 1 + ((highlight - 1 + step + Len(flat)) % Len(flat))
  /\ UNCHANGED <<model, calls, place, children, childrenOf, filter, carried>>

SetFilter(f) ==
  /\ Browse /\ f # filter
  /\ filter' = f /\ highlight' = 0
  /\ UNCHANGED <<model, calls, place, children, childrenOf, carried>>

Except(p, list) == Filter(list, ToSet(list) \ {p})

\* The row is gone at once and the daemon is told.
forget(p) ==
  /\ Browse
  /\ history' = Except(p, history)
  /\ calls' = calls \cup {[Call("forget", chosen, {p}) EXCEPT
                            !.answer = {OfRoot(p.dirId, history)}]}
  /\ UNCHANGED <<config, toolId, loading, busy, launchError, picker>>

\* launch: a row's name, the place itself, or Enter for either.
launch(p) ==
  /\ Browse /\ canLaunch
  /\ busy' = TRUE /\ launchError' = FALSE
  /\ calls' = calls \cup {Call("launch", chosen, {p})}
  /\ UNCHANGED <<config, toolId, history, loading, picker>>

----------------------------------------------------------------------------
(* The daemons, and their answers *)

\* A daemon launches only into a root of its own.
Launches(c) == \A p \in c.at : p.dirId \in DOMAIN RootPath[c.host]

\* RecordSubdir, DeleteSubdir and ListSubdirs.
HostHandles(c) ==
  /\ ~c.handled
  /\ remembered' = [remembered EXCEPT ![c.host] =
       LET p == CHOOSE q \in c.at : TRUE
       IN  IF c.kind = "forget" THEN Except(p, @)
           ELSE IF c.kind = "launch" /\ Launches(c) /\ p.subdir # <<>> THEN <<p>> \o Except(p, @) ELSE @]
  /\ ever' = ever \cup {<<c.host, p>> : p \in ToSet(remembered'[c.host])}
  /\ calls' = (calls \ {c}) \cup {[c EXCEPT !.handled = TRUE,
                  !.answer = IF c.kind = "history" THEN {remembered[c.host]} ELSE @]}
  /\ UNCHANGED <<desktop, target, hosts, chosen, model, held, picker, moves>>

Answered(c, kind) == c.kind = kind /\ UNCHANGED <<desktop, target, hosts, chosen, remembered, ever, moves>>
Discard(c) == calls' = calls \ {c} /\ UNCHANGED <<model, held, picker>>

ConfigLands(c, ok) ==
  /\ Answered(c, "config")
  /\ IF c.stale THEN Discard(c)
     ELSE /\ config' = (IF ok THEN c.host ELSE Nowhere)
          /\ toolId' = (IF ok /\ tools' # <<>> THEN tools'[1] ELSE toolId)
          /\ launchError' = ~ok /\ loading' = FALSE
          /\ UNCHANGED <<history, busy, held>>
          /\ Settled((calls \ {c}) \cup {Call("history", h, {}) : h \in IF roots' = {} THEN {} ELSE server})

\* A root whose question fails has no history.
HistoryLands(c, failing) ==
  /\ Answered(c, "history") /\ c.handled
  /\ IF c.stale THEN Discard(c)
     ELSE /\ history' = LET list == CHOOSE l \in c.answer : TRUE
                        IN  Filter(list, {p \in ToSet(list) : p.dirId \notin failing})
          /\ calls' = calls \ {c}
          /\ UNCHANGED <<config, toolId, loading, busy, launchError, held, picker>>

ChildrenLand(c, ok) ==
  /\ Answered(c, "children")
  /\ IF c.stale THEN Discard(c)
     ELSE /\ children' = (IF ok THEN ChildrenOf(c.host, CHOOSE p \in c.at : TRUE) ELSE <<>>)
          /\ childrenOf' = c.at
          /\ calls' = calls \ {c}
          /\ UNCHANGED <<model, held, place, filter, highlight, carried>>

\* A failed forget puts back what the root had, unless another server is chosen.
ForgetLands(c, ok) ==
  /\ Answered(c, "forget") /\ (ok => c.handled)
  /\ IF ok \/ chosen # c.host \/ ~(desktop \/ held) THEN Discard(c)
     ELSE /\ history' = LET p == CHOOSE q \in c.at : TRUE
                        IN  (CHOOSE list \in c.answer : TRUE) \o Filter(history, {q \in ToSet(history) : q.dirId # p.dirId})
          /\ launchError' = TRUE
          /\ UNCHANGED <<config, toolId, loading, busy, held>>
          /\ Settled(calls \ {c})

\* The sessions are the page's from here; the picker is closed.
Launched(c, ok) ==
  /\ Answered(c, "launch") /\ (ok => c.handled /\ Launches(c))
  /\ IF ~(desktop \/ held) THEN Discard(c)
     ELSE /\ busy' = FALSE
          /\ launchError' = (launchError \/ ~ok)
          /\ held' = (held /\ ~ok)
          /\ history' = LET p == CHOOSE q \in c.at : TRUE
                        IN  IF ok /\ p.subdir # <<>> /\ chosen = c.host
                            THEN <<p>> \o Except(p, history) ELSE history
          /\ UNCHANGED <<config, toolId, loading>>
          /\ Settled((IF desktop \/ ~ok THEN calls ELSE Stale(calls, {"config", "history"})) \ {c})

----------------------------------------------------------------------------

LauncherInit ==
  /\ desktop \in BOOLEAN
  /\ target \in {{}} \cup {t \in {{u} : u \in Targets} : ~desktop}
  /\ hosts = Host
  /\ chosen \in (IF target = {} THEN Host ELSE {t.host : t \in target})
  /\ config = Nowhere /\ toolId = 0 /\ history = <<>> /\ loading = TRUE /\ busy = FALSE
  /\ launchError = FALSE /\ held = ~desktop
  /\ place = {} /\ children = <<>> /\ childrenOf = {} /\ filter = {} /\ highlight = 0
  /\ calls = {Call("config", chosen, {})}
  /\ remembered = FirstRecent
  /\ ever = UNION {{<<h, p>> : p \in ToSet(FirstRecent[h])} : h \in Host}
  /\ carried = FALSE /\ moves = 0

LauncherNext ==
  \/ \E h \in Host : selectServer(h) \/ RemoveHost(h)
  \/ \E h \in Host : \E t \in ToSet(ToolsOf[h]) : selectTool(t)
  \/ OpenPicker \/ ClosePicker
  \/ Drill \/ GoUp \/ crumbs \/ Places
  \/ \E step \in -1 .. 1 : Highlight(step)
  \/ \E f \in Needles : SetFilter(f)
  \/ \E i \in DOMAIN flat : flat[i].kind = "recent" /\ forget(flat[i].at)
  \/ \E p \in {flat[i].at : i \in DOMAIN flat} \cup place : launch(p)
  \/ \E c \in calls :
       \/ c.kind \in {"history", "forget", "launch"} /\ HostHandles(c)
       \/ \E ok \in BOOLEAN : ConfigLands(c, ok) \/ ChildrenLand(c, ok) \/ ForgetLands(c, ok) \/ Launched(c, ok)
       \/ \E failing \in SUBSET roots : HistoryLands(c, failing)

LauncherSpec == LauncherInit /\ [][LauncherNext]_launcherVars

----------------------------------------------------------------------------
(* Properties *)

LauncherTypeOK ==
  /\ hosts \subseteq Host /\ chosen \in Host /\ config \in Host \cup {Nowhere}
  /\ toolId \in {0} \cup ToSet(tools)
  /\ ToSet(history) \subseteq Place /\ place \subseteq Place /\ childrenOf \subseteq Place
  /\ Cardinality(place) <= 1 /\ IsInjective(history)
  /\ \A c \in calls : c.host \in Host /\ c.at \subseteq Place
  /\ {desktop, loading, busy, launchError, held, carried} \subseteq BOOLEAN

\* Whatever is answered late, what the launcher offers is the chosen server's: its
\* tools and roots, directories that server was launched into, places below its roots
\* and the names in the place shown.  One exception: a desktop picker that is at a place
\* when another server is chosen stays there (DirPicker.tsx:76-77, 90-110).  Until it
\* is back at the places its root is the old server's, whose id the new daemon may take
\* for a root of its own; and the old names are offered until the new are read.
NothingOfAnotherServer ==
  /\ config \in {Nowhere, chosen}
  /\ \A p \in ToSet(history) : <<chosen, p>> \in ever
  /\ \A p \in place :
       /\ carried \/ p.dirId \in DOMAIN RootPath[chosen]
       /\ childrenOf = place =>
            \/ children \in {<<>>, ChildrenOf(chosen, p)}
            \/ carried /\ \E c \in calls : c.kind = "children" /\ ~c.stale /\ c.host = chosen /\ c.at = place

\* A launcher that says it loads waits for an answer that will be taken.
Waiting ==
  \/ (desktop \/ held) /\ loading /\ ~\E c \in calls : c.kind = "config" /\ ~c.stale
  \/ Mounted /\ loadingChildren /\ ~\E c \in calls : c.kind = "children" /\ ~c.stale /\ c.at = place

\* Only a click on the crumb of the place it is at, which empties the list and asks
\* for nothing, leaves the picker waiting for nobody.
LoadingIsAnswered == [][Waiting' => Waiting \/ (place' = place /\ calls' = calls)]_launcherVars

=============================================================================
