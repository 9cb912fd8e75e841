--------------------------------- MODULE Parts ---------------------------------
(***************************************************************************)
(* The components that share no state, side by side.  Of the page's views  *)
(* App.tsx renders one at a time, a view that is left is unmounted with    *)
(* all its state, and what two views have in common (the lists, the        *)
(* layout, the daemon) each module takes as an environment that does       *)
(* whatever it may; the daemon's certificates nothing else touches.  What  *)
(* one component does can then not reach the state of another, so a        *)
(* behaviour of the whole is, for each of them, one of its own with the    *)
(* others at rest where they begin.  The layout and lists a page shares    *)
(* with others, its events and its terminals' sizes are in LayoutSync,     *)
(* SessionsSync, EventHub and Arbiter.                                     *)
(***************************************************************************)
EXTENDS Grid, MobileView, PaneReader, Launcher, Settings, Shell, Terminal,
        Pki

VARIABLE part  \* the component that moves

partsVars == <<part, gridVars, mobileVars, readerVars, launcherVars, settingsVars, shellVars,
             terminalVars, pkiVars>>

Component == {"grid", "mobile", "reader", "launcher", "settings", "shell", "terminal",
              "pki"}

----------------------------------------------------------------------------

\* A component that does not move is at rest in one of the states it may begin in.
GridAtRest == layout = (CHOOSE l \in FirstLayouts : TRUE) /\ selected = {}
MobileAtRest == tiles = (CHOOSE t \in PhoneTiles : TRUE) /\ running = {} /\ fontSize = Min(FontSizes)
LauncherAtRest == desktop /\ target = {} /\ chosen = (CHOOSE h \in Host : TRUE)
SettingsAtRest == tab = "tools"
ShellAtRest == build = 0 /\ setupDone /\ ~signedIn /\ ~setupPath /\ route = "grid"
PkiAtRest == names = (CHOOSE n \in Names : TRUE)
TerminalAtRest == life = [s \in SessionId |-> Unborn]

PartsInit ==
  /\ part \in Component
  /\ GridInit /\ (part = "grid" \/ GridAtRest)
  /\ MobileInit /\ (part = "mobile" \/ MobileAtRest)
  /\ ReaderInit
  /\ LauncherInit /\ (part = "launcher" \/ LauncherAtRest)
  /\ SettingsInit /\ (part = "settings" \/ SettingsAtRest)
  /\ ShellInit /\ (part = "shell" \/ ShellAtRest)
  /\ TerminalInit /\ (part = "terminal" \/ TerminalAtRest)
  /\ PkiInit /\ (part = "pki" \/ PkiAtRest)

PartsNext ==
  /\ UNCHANGED part
  /\ \/ /\ part = "grid" /\ GridNext
        /\ UNCHANGED <<mobileVars, readerVars, launcherVars, settingsVars, shellVars, terminalVars, pkiVars>>
     \/ /\ part = "mobile" /\ MobileNext
        /\ UNCHANGED <<gridVars, readerVars, launcherVars, settingsVars, shellVars, terminalVars, pkiVars>>
     \/ /\ part = "reader" /\ ReaderNext
        /\ UNCHANGED <<gridVars, mobileVars, launcherVars, settingsVars, shellVars, terminalVars, pkiVars>>
     \/ /\ part = "launcher" /\ LauncherNext
        /\ UNCHANGED <<gridVars, mobileVars, readerVars, settingsVars, shellVars, terminalVars, pkiVars>>
     \/ /\ part = "settings" /\ SettingsNext
        /\ UNCHANGED <<gridVars, mobileVars, readerVars, launcherVars, shellVars, terminalVars, pkiVars>>
     \/ /\ part = "shell" /\ ShellNext
        /\ UNCHANGED <<gridVars, mobileVars, readerVars, launcherVars, settingsVars, terminalVars, pkiVars>>
     \/ /\ part = "terminal" /\ TerminalNext
        /\ UNCHANGED <<gridVars, mobileVars, readerVars, launcherVars, settingsVars, shellVars, pkiVars>>
     \/ /\ part = "pki" /\ PkiNext
        /\ UNCHANGED <<gridVars, mobileVars, readerVars, launcherVars, settingsVars, shellVars, terminalVars>>

\* Terminals go on by themselves, and have nothing to go on with at rest; for the other
\* components nothing is promised.
PartsSpec == PartsInit /\ [][PartsNext]_partsVars /\ TerminalFairness

----------------------------------------------------------------------------
(* Properties; those of one component are stated in its module *)

\* The state of the component that moves keeps its shape.
PartsTypeOK ==
  /\ part \in Component
  /\ part = "grid" => GridTypeOK
  /\ part = "mobile" => MobileTypeOK
  /\ part = "reader" => ReaderTypeOK
  /\ part = "launcher" => LauncherTypeOK
  /\ part = "settings" => SettingsTypeOK
  /\ part = "shell" => ShellTypeOK
  /\ part = "terminal" => TerminalTypeOK
  /\ part = "pki" => PkiTypeOK

\* What belongs to one server is never offered, or sent, for another, whatever is
\* answered, approved, removed or added meanwhile; a picker left open while another
\* server is chosen, which keeps its place (DirPicker.tsx:76-77), is the exception.
ServersKeepApart == NothingOfAnotherServer /\ TokensStayHome
=============================================================================
