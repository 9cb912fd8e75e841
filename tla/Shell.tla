------------------------------- MODULE Shell -------------------------------
(***************************************************************************)
(* What surrounds the views of a tab: web/src/App.tsx with LoginPage.tsx,  *)
(* SetupPage.tsx and ConnectPage.tsx, the requests of webauthn.ts, the     *)
(* browser's list of servers (servers.ts, ServersPanel.tsx) and the        *)
(* requests for a token that go from tab to tab.  The daemon may be down,  *)
(* not set up, not signed in to, or replaced by another build at any time. *)
(***************************************************************************)
EXTENDS Integers, FiniteSets

CONSTANTS
  Origin,     \* origins of other daemons
  MaxBuild,   \* bound on the builds of the daemon
  MaxEntry,   \* bound on the entries ever added to the list of servers
  MaxTurns    \* bound on the steps

ASSUME ShellAssumption ==
  /\ "none" \notin Origin
  /\ MaxBuild \in Nat \ {0} /\ MaxEntry \in Nat

VARIABLES
  up, build, setupDone, signedIn,  \* the daemon, and this browser's cookie
  loadedBuild,  \* the build whose assets the tab runs
  startup,    \* startup.kind
  health,     \* health: whether it said setupPending, if it was answered
  checking,   \* the request of check that is out
  setupPath,  \* window.location.pathname is "/setup"
  route,      \* the hash, as far as App tells it apart
  ceremony,   \* register or login: the request that is out
  signError,
  seen, staleBuild, dismissed,     \* useStaleBuild; 0 for null
  entries,    \* localStorage: id, origin and token of every server
  panel,      \* ServersPanel or the grid: the ids it lists
  popups,     \* consent popups: of which server, and the token posted back
  added,      \* the ids ever given
  turns

shellVars == <<up, build, setupDone, signedIn, loadedBuild, startup, health, checking, setupPath, route,
               ceremony, signError, seen, staleBuild, dismissed, entries, panel, popups, added, turns>>

system == <<up, build, setupDone, signedIn>>
starting == <<startup, health, checking>>
notice == <<seen, staleBuild, dismissed>>
signing == <<ceremony, signError>>
registry == <<entries, panel, popups, added>>

Turn == turns < MaxTurns /\ turns' = turns + 1

\* What App renders.
Page ==
  IF setupPath \/ health = {TRUE} THEN "setup"
  ELSE IF startup = "unauthed" THEN "login"
  ELSE IF startup \in {"unreachable", "error"} THEN "problem"
  ELSE IF startup = "loading" THEN "loading" ELSE route

InShell == Page \in {"grid", "settings", "connect"}

----------------------------------------------------------------------------
(* Startup *)

\* problem: no answer, or one that says it went wrong.
problem(kinds) == startup' \in kinds

HealthAnswered ==
  /\ Turn /\ checking = "healthz"
  /\ \/ /\ up
        /\ health' = {~setupDone} /\ checking' = "me"
        /\ UNCHANGED startup
     \/ /\ problem({"unreachable", "error"})
        /\ health' = {} /\ checking' = "none"
  /\ UNCHANGED <<system, loadedBuild, setupPath, route, signing, notice, registry>>

\* Only the daemon's own word makes it a matter of signing in.
MeAnswered ==
  /\ Turn /\ checking = "me" /\ checking' = "none"
  /\ \/ up /\ startup' = IF signedIn THEN "ready" ELSE "unauthed"
     \/ problem({"unreachable", "error"})
  /\ UNCHANGED <<system, loadedBuild, health, setupPath, route, signing, notice, registry>>

retry ==
  /\ Turn /\ Page = "problem"
  /\ startup' = "loading" /\ checking' = "healthz"
  /\ UNCHANGED <<system, loadedBuild, health, setupPath, route, signing, notice, registry>>

\* A link, or the address bar; a view that is left keeps nothing.
onHash(r) ==
  /\ Turn /\ r # route
  /\ route' = r
  /\ panel' = IF r = "connect" THEN {} ELSE {e.id : e \in entries}
  /\ UNCHANGED <<system, loadedBuild, starting, setupPath, signing, notice, entries, popups, added>>

\* The tab is loaded, or loaded again, with the daemon's present assets.
Loads(path, r) ==
  /\ setupPath' = path /\ route' = r
  /\ loadedBuild' = build
  /\ startup' = "loading" /\ health' = {} /\ checking' = "healthz"
  /\ ceremony' = "none" /\ signError' = FALSE
  /\ seen' = 0 /\ staleBuild' = 0 /\ dismissed' = 0
  /\ panel' = {e.id : e \in entries} /\ popups' = {}
ReloadTab ==
  /\ Turn /\ up
  /\ Loads(setupPath, route)
  /\ UNCHANGED <<system, entries, added>>

----------------------------------------------------------------------------
(* Signing in and setting up *)

\* onLogin and onSetup: begin, the authenticator, finish.
Begin ==
  /\ Turn /\ Page \in {"login", "setup"} /\ ceremony = "none"
  /\ ceremony' = "begin"
  /\ UNCHANGED <<system, loadedBuild, starting, setupPath, route, signError, notice, registry>>

CeremonyBegun ==
  /\ Turn /\ ceremony = "begin"
  /\ \/ up /\ (Page = "setup" => ~setupDone) /\ ceremony' = "finish" /\ UNCHANGED signError
     \/ ceremony' = "none" /\ signError' = TRUE
  /\ UNCHANGED <<system, loadedBuild, starting, setupPath, route, notice, registry>>

\* A login keeps a consent page that was asked for; a setup starts at the grid.
Finished ==
  /\ Turn /\ ceremony = "finish"
  /\ \/ /\ up /\ (Page = "setup" => ~setupDone)
        /\ setupDone' = TRUE /\ signedIn' = TRUE
        /\ Loads(FALSE, IF Page = "login" /\ route = "connect" THEN "connect" ELSE "grid")
        /\ UNCHANGED <<up, build, entries, added>>
     \/ /\ ceremony' = "none" /\ signError' = TRUE
        /\ UNCHANGED <<system, loadedBuild, starting, setupPath, route, notice, registry>>

----------------------------------------------------------------------------
(* The update notice *)

\* onHello: the first build a tab hears of is the one it takes for its own.
Hello ==
  /\ Turn /\ up /\ signedIn /\ InShell /\ build # 0
  /\ seen' = build
  /\ staleBuild' = IF seen \in {0, build} THEN staleBuild ELSE build
  /\ UNCHANGED <<system, loadedBuild, starting, setupPath, route, signing, dismissed, registry>>

stale == staleBuild \notin {0, dismissed}
dismiss ==
  /\ Turn /\ InShell /\ stale
  /\ dismissed' = staleBuild
  /\ UNCHANGED <<system, loadedBuild, starting, setupPath, route, signing, seen, staleBuild, registry>>

----------------------------------------------------------------------------
(* The list of servers *)

\* An id is a random UUID: none is given twice.
addServer(o) ==
  /\ Turn /\ InShell /\ route = "settings"
  /\ added < MaxEntry /\ added' = added + 1
  /\ entries' = entries \cup {[id |-> added', origin |-> o, token |-> "none"]}
  /\ panel' = {e.id : e \in entries'}
  /\ UNCHANGED <<system, loadedBuild, starting, setupPath, route, signing, notice, popups>>

removeServer(id) ==
  /\ Turn /\ InShell /\ id \in panel
  /\ entries' = {e \in entries : e.id # id}
  /\ panel' = {e.id : e \in entries'}
  /\ UNCHANGED <<system, loadedBuild, starting, setupPath, route, signing, notice, popups, added>>

\* connectServer: a popup and a listener for its message.  A blocked popup, or one
\* that is closed or denied, takes the listener with it.
connectServer(e) ==
  /\ Turn /\ InShell /\ e.id \in panel
  /\ popups' = popups \cup {[id |-> e.id, origin |-> e.origin, token |-> "none"]}
  /\ UNCHANGED <<system, loadedBuild, starting, setupPath, route, signing, notice, entries, panel, added>>

PopupClosed(p) ==
  /\ Turn /\ popups' = popups \ {p}
  /\ UNCHANGED <<system, loadedBuild, starting, setupPath, route, signing, notice, entries, panel, added>>

\* approve, on the other daemon's page: its token is posted to the tab that asked.
approve(p) ==
  /\ Turn /\ p.token = "none"
  /\ popups' = (popups \ {p}) \cup {[p EXCEPT !.token = p.origin]}
  /\ UNCHANGED <<system, loadedBuild, starting, setupPath, route, signing, notice, entries, panel, added>>

\* onMsg: every listener takes what comes from its server's origin.
onMsg(p) ==
  /\ Turn /\ p.token # "none"
  /\ LET listeners == {q.id : q \in {q \in popups : q.origin = p.origin}}
     IN  entries' = {IF e.id \in listeners THEN [e EXCEPT !.token = p.token] ELSE e : e \in entries}
  /\ popups' = {q \in popups : q.origin # p.origin}
  /\ panel' = IF route = "grid" THEN {e.id : e \in entries'} ELSE panel
  /\ UNCHANGED <<system, loadedBuild, starting, setupPath, route, signing, notice, added>>

----------------------------------------------------------------------------
(* The daemon *)

Restart(b) ==
  /\ Turn /\ up' = ~up
  /\ build' = (IF up THEN build ELSE b)
  /\ UNCHANGED <<setupDone, signedIn, loadedBuild, starting, setupPath, route, signing, notice, registry>>

SessionExpires ==
  /\ Turn /\ signedIn /\ signedIn' = FALSE
  /\ UNCHANGED <<up, build, setupDone, loadedBuild, starting, setupPath, route, signing, notice, registry>>

----------------------------------------------------------------------------

ShellInit ==
  /\ up = TRUE /\ build \in {0, 1} /\ setupDone \in BOOLEAN /\ signedIn \in {FALSE, setupDone}
  /\ loadedBuild = build
  /\ startup = "loading" /\ health = {} /\ checking = "healthz"
  /\ setupPath \in {FALSE, ~setupDone} /\ route \in {"grid", "connect"}
  /\ ceremony = "none" /\ signError = FALSE
  /\ seen = 0 /\ staleBuild = 0 /\ dismissed = 0
  /\ entries = {} /\ panel = {} /\ popups = {}
  /\ added = 0 /\ turns = 0

ShellNext ==
  \/ HealthAnswered \/ MeAnswered \/ retry \/ ReloadTab
  \/ \E r \in {"grid", "settings", "connect"} : onHash(r)
  \/ Begin \/ CeremonyBegun \/ Finished
  \/ Hello \/ dismiss
  \/ \E o \in Origin : addServer(o)
  \/ \E id \in 1 .. MaxEntry : removeServer(id)
  \/ \E e \in entries : connectServer(e)
  \/ \E p \in popups : PopupClosed(p) \/ approve(p) \/ onMsg(p)
  \/ \E b \in 1 .. MaxBuild : Restart(b)
  \/ SessionExpires

ShellSpec == ShellInit /\ [][ShellNext]_shellVars

----------------------------------------------------------------------------
(* Properties *)

\* The state's shape; a page that says it loads has a request out that will end it.
ShellTypeOK ==
  /\ {up, setupDone, signedIn, setupPath, signError} \subseteq BOOLEAN
  /\ {build, loadedBuild, seen, staleBuild, dismissed} \subseteq 0 .. MaxBuild
  /\ startup \in {"loading", "ready", "unauthed", "unreachable", "error"}
  /\ health \subseteq BOOLEAN /\ checking \in {"none", "healthz", "me"}
  /\ startup = "loading" <=> checking # "none"
  /\ route \in {"grid", "settings", "connect"} /\ ceremony \in {"none", "begin", "finish"}
  /\ entries \subseteq [id : 1 .. MaxEntry, origin : Origin, token : Origin \cup {"none"}]
  /\ panel \subseteq 1 .. MaxEntry
  /\ popups \subseteq [id : 1 .. MaxEntry, origin : Origin, token : Origin \cup {"none"}]
  /\ added \in 0 .. MaxEntry

\* A token is only ever sent to the daemon that minted it, whatever was approved,
\* removed or added meanwhile.
TokensStayHome == \A e \in entries : e.token \in {"none", e.origin}

=============================================================================
