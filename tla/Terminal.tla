-------------------------------- MODULE Terminal --------------------------------
(***************************************************************************)
(* The connection of a tile to its session: web/src/term/TerminalTile.tsx  *)
(* and handlePTY of internal/server/ws.go.  The tiles show sessions of one *)
(* daemon and share the question that tells what a closed socket means.    *)
(* What a connection does for the size of the window is Arbiter's; bytes   *)
(* of the terminal are left out.  Of internal/server/sessions.go there is  *)
(* what becomes of a session's row and of what tmux has, who does it being *)
(* Sessions'; the daemon answers or does not, as a whole.                  *)
(***************************************************************************)
EXTENDS Integers

CONSTANTS
  Tile, SessionId,
  SessionOf,    \* of every tile
  FirstBackoff, \* the first wait before a reconnect: 500 ms
  MaxBackoff    \* and the longest: 10 s

ASSUME TerminalAssumption ==
  /\ SessionOf \in [Tile -> SessionId]
  /\ FirstBackoff \in Nat \ {0} /\ MaxBackoff \in Nat /\ FirstBackoff <= MaxBackoff

VARIABLES
  life,       \* of every session: its row, what tmux has, and who is about to mark it
  reachable,  \* the daemon answers
  authed,   \* and takes the tiles' credentials
  handler,    \* the daemon's end of a tile's socket
  coming,     \* what is on its way to the tile, which gets open before exit before close
  state,      \* state: what the tile shows
  waits,      \* what its effect waits for; "none" when the tile is not mounted
  backoff,    \* backoff
  lookup      \* sessionsLookups: the question that is out

\* Recorded to state the properties, beside astray: tiles whose last exit frame was
\* sent before the session was in tmux, or on a tmux that failed; tiles whose last
\* question had been answered before they asked it.
VARIABLES misled, late

world == <<life, reachable, authed>>
ghosts == <<misled, late>>
terminalVars == <<world, handler, coming, state, waits, backoff, lookup, ghosts>>

\* The row is there before tmux has the session.  Whoever finds tmux without a session
\* whose row runs (doubted) marks the row dead, as of that finding; astray records that
\* the finding was from before tmux had it, or that the row went though its kill failed.
SessionRow == {"none", "running", "dead", "deleted"}
Life == [row : SessionRow, tmux : {"later", "on", "gone"}, doubted : BOOLEAN, astray : BOOLEAN]
Unborn == [row |-> "none", tmux |-> "later", doubted |-> FALSE, astray |-> FALSE]
LifeOf(t) == life[SessionOf[t]]

Final == {"exited", "missing", "auth"}

NoLookup == [stage |-> "none", kind |-> "none", rows |-> [s \in SessionId |-> "none"]]

----------------------------------------------------------------------------
(* The tile *)

\* connect: a new socket, and nothing of the one before reaches the tile.
Connected(t) ==
  /\ state' = [state EXCEPT ![t] = "connecting"]
  /\ waits' = [waits EXCEPT ![t] = "upgrade"]
  /\ handler' = [handler EXCEPT ![t] = "none"]
  /\ coming' = [coming EXCEPT ![t] = {}]
  /\ misled' = misled \ {t} /\ late' = late \ {t}
  /\ UNCHANGED <<world, lookup>>

\* The effect: a mount, or the reconnect button of a tile that was not signed in.
Mount(t) ==
  /\ waits[t] = "none" /\ LifeOf(t).row # "none"
  /\ backoff' = [backoff EXCEPT ![t] = FirstBackoff]
  /\ Connected(t)

Reconnect(t) ==
  /\ waits[t] = "stopped" /\ state[t] = "auth"
  /\ backoff' = [backoff EXCEPT ![t] = FirstBackoff]
  /\ Connected(t)

\* Its cleanup; answers to the lookup it waits for find it closed.
Unmount(t) ==
  /\ waits[t] # "none"
  /\ state' = [state EXCEPT ![t] = "connecting"]
  /\ waits' = [waits EXCEPT ![t] = "none"]
  /\ handler' = [handler EXCEPT ![t] = "none"]
  /\ coming' = [coming EXCEPT ![t] = {}]
  /\ misled' = misled \ {t} /\ late' = late \ {t}
  /\ UNCHANGED <<world, backoff, lookup>>

Hears(t, frame) ==
  /\ waits[t] = "socket" /\ frame \in coming[t]
  /\ frame \in {"exit", "close"} => "open" \notin coming[t]
  /\ frame = "close" => "exit" \notin coming[t]

onopen(t) ==
  /\ Hears(t, "open")
  /\ state' = [state EXCEPT ![t] = "open"]
  /\ backoff' = [backoff EXCEPT ![t] = FirstBackoff]
  /\ coming' = [coming EXCEPT ![t] = @ \ {"open"}]
  /\ UNCHANGED <<world, handler, waits, lookup, ghosts>>

\* The exit frame is final: the tile closes its end.
onmessage(t) ==
  /\ Hears(t, "exit")
  /\ state' = [state EXCEPT ![t] = "exited"]
  /\ waits' = [waits EXCEPT ![t] = "stopped"]
  /\ handler' = [handler EXCEPT ![t] = "none"]
  /\ coming' = [coming EXCEPT ![t] = {}]
  /\ UNCHANGED <<world, backoff, lookup, ghosts>>

\* Another tile of the page asks, for a session of its own.
OthersAsk ==
  /\ lookup.stage = "none"
  /\ lookup' = [lookup EXCEPT !.stage = "asked"]
  /\ UNCHANGED <<world, handler, coming, state, waits, backoff, ghosts>>

\* classifyClose asks for the list, or joins whoever already asked.
onclose(t) ==
  /\ Hears(t, "close")
  /\ state' = [state EXCEPT ![t] = "offline"]
  /\ waits' = [waits EXCEPT ![t] = "lookup"]
  /\ coming' = [coming EXCEPT ![t] = {}]
  /\ lookup' = IF lookup.stage = "none" THEN [lookup EXCEPT !.stage = "asked"] ELSE lookup
  /\ late' = IF lookup.stage = "answered" THEN late \cup {t} ELSE late
  /\ UNCHANGED <<world, handler, backoff, misled>>

\* What the list says of a session; only of a running one the tile tries again.
Verdict(s) ==
  IF lookup.kind # "ok" THEN lookup.kind
  ELSE IF lookup.rows[s] = "running" THEN "retry"
  ELSE IF lookup.rows[s] = "dead" THEN "exited" ELSE "missing"

\* A lookup that failed would end the tries.
Retrying_IfListed(t) ==
  IF Verdict(SessionOf[t]) = "retry" /\ lookup.kind = "ok" THEN "timer" ELSE "stopped"
Retrying(t) == IF Verdict(SessionOf[t]) = "retry" THEN "timer" ELSE "stopped"

\* The answer wakes every tile that waits for it.
LookupLands ==
  /\ lookup.stage = "answered"
  /\ lookup' = NoLookup
  /\ LET Waits(t) == waits[t] = "lookup"
         Retries(t) == Verdict(SessionOf[t]) = "retry"
     IN  /\ waits' = [t \in Tile |-> IF Waits(t) THEN Retrying(t) ELSE waits[t]]
         /\ backoff' = [t \in Tile |->
              IF ~Waits(t) \/ ~Retries(t) THEN backoff[t]
              ELSE IF 2 * backoff[t] < MaxBackoff THEN 2 * backoff[t] ELSE MaxBackoff]
         /\ state' = [t \in Tile |->
              IF Waits(t) /\ ~Retries(t) THEN Verdict(SessionOf[t]) ELSE state[t]]
  /\ UNCHANGED <<world, handler, coming, ghosts>>

Timer(t) == waits[t] = "timer" /\ UNCHANGED backoff /\ Connected(t)

----------------------------------------------------------------------------
(* The daemon *)

\* handlePTY up to the upgrade: refused unless signed in, and for a running row.
Upgrade(t) ==
  /\ waits[t] = "upgrade" /\ reachable
  /\ waits' = [waits EXCEPT ![t] = "socket"]
  /\ IF authed /\ LifeOf(t).row = "running"
     THEN /\ handler' = [handler EXCEPT ![t] = "upgraded"]
          /\ coming' = [coming EXCEPT ![t] = {"open"}]
     ELSE /\ coming' = [coming EXCEPT ![t] = {"close"}]
          /\ UNCHANGED handler
  /\ UNCHANGED <<world, state, backoff, lookup, ghosts>>

\* Attach: tmux ends the client at once when it has no such session.
Attach(t) ==
  /\ handler[t] = "upgraded"
  /\ handler' = [handler EXCEPT ![t] = IF LifeOf(t).tmux = "on" THEN "attached" ELSE "detached"]
  /\ UNCHANGED <<world, coming, state, waits, backoff, lookup, ghosts>>

\* The PTY ends with the session.
PTYEnds(t) ==
  /\ handler[t] = "attached" /\ LifeOf(t).tmux # "on"
  /\ handler' = [handler EXCEPT ![t] = "detached"]
  /\ UNCHANGED <<world, coming, state, waits, backoff, lookup, ghosts>>

\* Or a detach, or the death of the attach client, while the session lives on.
Detach(t) ==
  /\ handler[t] = "attached"
  /\ handler' = [handler EXCEPT ![t] = "detached"]
  /\ UNCHANGED <<world, coming, state, waits, backoff, lookup, ghosts>>

\* IsAlive, which a failing tmux answers with no.
ExitFrames_Always(gone) == {"exit", "close"}
ExitFrames(gone) == IF gone THEN {"exit", "close"} ELSE {"close"}

sendExitIfGone(t, fails) ==
  /\ handler[t] = "detached"
  /\ handler' = [handler EXCEPT ![t] = "none"]
  /\ coming' = [coming EXCEPT ![t] = @ \cup ExitFrames(fails \/ LifeOf(t).tmux # "on")]
  /\ misled' = IF fails \/ LifeOf(t).tmux = "later" THEN misled \cup {t} ELSE misled
  /\ UNCHANGED <<world, state, waits, backoff, lookup, late>>

\* GET /api/sessions.
HandleList ==
  /\ lookup.stage = "asked" /\ reachable
  /\ lookup' = [stage |-> "answered", kind |-> IF authed THEN "ok" ELSE "auth",
                rows |-> IF authed THEN [s \in SessionId |-> life[s].row] ELSE NoLookup.rows]
  /\ UNCHANGED <<world, handler, coming, state, waits, backoff, ghosts>>

----------------------------------------------------------------------------
(* What fails: a daemon that is down or restarts, and the network *)

\* A request, or a new socket, that gets no answer; or whose answer is lost.
ListFails ==
  /\ lookup.stage # "none" /\ ~reachable
  /\ lookup' = [NoLookup EXCEPT !.stage = "answered", !.kind = "retry"]
  /\ UNCHANGED <<world, handler, coming, state, waits, backoff, ghosts>>

UpgradeFails(t) ==
  /\ waits[t] = "upgrade" /\ ~reachable
  /\ waits' = [waits EXCEPT ![t] = "socket"]
  /\ coming' = [coming EXCEPT ![t] = {"close"}]
  /\ UNCHANGED <<world, handler, state, backoff, lookup, ghosts>>

\* The socket is closed, or reset; the last frames may be lost with it.
Lose(t) ==
  /\ waits[t] = "socket" /\ (~reachable \/ handler[t] = "silent")
  /\ handler' = [handler EXCEPT ![t] = "none"]
  /\ \E kept \in {{}, coming[t] \cap {"open"}, coming[t]} :
       coming' = [coming EXCEPT ![t] = kept \cup {"close"}]
  /\ UNCHANGED <<world, state, waits, backoff, lookup, ghosts>>

\* Or it is dead without a word: the daemon's pings find out, the tile has nothing
\* that would.
FallSilent(t) ==
  /\ waits[t] = "socket" /\ handler[t] \in {"upgraded", "attached", "detached"}
  /\ handler' = [handler EXCEPT ![t] = "silent"]
  /\ coming' = [coming EXCEPT ![t] = {}]
  /\ UNCHANGED <<world, state, waits, backoff, lookup, ghosts>>

SetReachable ==
  /\ reachable' = ~reachable
  /\ UNCHANGED <<life, authed, handler, coming, state, waits, backoff, lookup, ghosts>>

SetAuthed ==
  /\ authed' = ~authed
  /\ UNCHANGED <<life, reachable, handler, coming, state, waits, backoff, lookup, ghosts>>

----------------------------------------------------------------------------
(* The session *)

Becomes(s, l) ==
  /\ life' = [life EXCEPT ![s] = l]
  /\ UNCHANGED <<reachable, authed, handler, coming, state, waits, backoff, lookup, ghosts>>

\* handleCreateSession: the row, then tmux, whatever became of the row in between.
InsertRow(s) == life[s].row = "none" /\ Becomes(s, [life[s] EXCEPT !.row = "running"])
NewSession(s) ==
  /\ life[s].row # "none" /\ life[s].tmux = "later"
  /\ Becomes(s, [life[s] EXCEPT !.tmux = "on"])

\* A failed start takes the row back, or fails to.
NewSessionFails(s) ==
  /\ life[s].row # "none" /\ life[s].tmux = "later"
  /\ \E r \in {life[s].row, "deleted"} : Becomes(s, [life[s] EXCEPT !.tmux = "gone", !.row = r])

\* rollback, for the failure of a later one of the group: a kill that fails is ignored.
RollBack(s) ==
  /\ life[s].row # "none" /\ life[s].tmux # "later"
  /\ Becomes(s, [life[s] EXCEPT !.row = "deleted", !.astray = @ \/ life[s].tmux = "on"])

\* The session ends, or is killed.
Ends(s) == life[s].tmux = "on" /\ Becomes(s, [life[s] EXCEPT !.tmux = "gone"])

\* handleKillSession, to which no session is as good as a killed one, and Reconcile.
FindGone(s) ==
  /\ life[s].row = "running" /\ life[s].tmux # "on"
  /\ Becomes(s, [life[s] EXCEPT !.doubted = TRUE, !.astray = @ \/ life[s].tmux = "later"])

MarkDead(s) ==
  /\ life[s].doubted
  /\ Becomes(s, [life[s] EXCEPT !.doubted = FALSE, !.row = IF @ = "running" THEN "dead" ELSE @])

\* handleDismissSession.
DismissRow(s) == life[s].row = "dead" /\ Becomes(s, [life[s] EXCEPT !.row = "deleted"])

Live(s) ==
  \/ InsertRow(s) \/ NewSession(s) \/ NewSessionFails(s) \/ RollBack(s) \/ Ends(s)
  \/ FindGone(s) \/ MarkDead(s) \/ DismissRow(s)

----------------------------------------------------------------------------

TerminalInit ==
  /\ life \in [SessionId -> {Unborn, [Unborn EXCEPT !.row = "running", !.tmux = "on"]}]
  /\ reachable = TRUE /\ authed = TRUE
  /\ handler = [t \in Tile |-> "none"] /\ coming = [t \in Tile |-> {}]
  /\ state = [t \in Tile |-> "connecting"] /\ waits = [t \in Tile |-> "none"]
  /\ backoff = [t \in Tile |-> FirstBackoff]
  /\ lookup = NoLookup
  /\ misled = {} /\ late = {}

\* What a tile, its socket and the daemon do without being asked.
Serve(t) ==
  \/ onopen(t) \/ onmessage(t) \/ onclose(t) \/ Timer(t)
  \/ Upgrade(t) \/ UpgradeFails(t) \/ Attach(t) \/ PTYEnds(t)
  \/ \E fails \in BOOLEAN : sendExitIfGone(t, fails)
Answer == HandleList \/ ListFails \/ LookupLands

TerminalNext ==
  \/ \E t \in Tile : \/ Mount(t) \/ Reconnect(t) \/ Unmount(t)
                     \/ Serve(t)
                     \/ Detach(t) \/ Lose(t) \/ FallSilent(t)
  \/ Answer \/ OthersAsk
  \/ SetReachable \/ SetAuthed
  \/ \E s \in SessionId : Live(s)

\* The browser and the daemon go on with what they have begun, timers fire, and a
\* request is answered or fails.
TerminalFairness == WF_terminalVars(Answer) /\ \A t \in Tile : WF_terminalVars(Serve(t))

TerminalSpec == TerminalInit /\ [][TerminalNext]_terminalVars
TerminalFairSpec == TerminalSpec /\ TerminalFairness

----------------------------------------------------------------------------
(* Properties *)

TerminalTypeOK ==
  /\ life \in [SessionId -> Life] /\ {reachable, authed} \subseteq BOOLEAN
  /\ handler \in [Tile -> {"none", "upgraded", "attached", "detached", "silent"}]
  /\ state \in [Tile -> {"connecting", "open", "offline"} \cup Final]
  /\ waits \in [Tile -> {"none", "upgrade", "socket", "lookup", "timer", "stopped"}]
  /\ \A t \in Tile :
       /\ coming[t] \subseteq {"open", "exit", "close"}
       /\ "exit" \in coming[t] => "close" \in coming[t]
       /\ coming[t] # {} => waits[t] = "socket"
       /\ waits[t] = "stopped" <=> state[t] \in Final
       /\ backoff[t] \in FirstBackoff .. MaxBackoff
  /\ lookup.stage \in {"none", "asked", "answered"} /\ lookup.kind \in {"none", "ok", "auth", "retry"}
  /\ lookup.rows \in [SessionId -> SessionRow]
  /\ misled \subseteq Tile /\ late \subseteq Tile

\* "Exit" is final to the browser, and "only a session tmux no longer has earns it"
\* (ws.go:176): a tile says that its session ended, or is not there, only when that
\* is so and stays so.  The code has five exceptions: an exit frame sent before tmux
\* had the session (ws.go:186), one sent because tmux failed (ws.go:181), an answer
\* from before the session, shared by a tile that came after it (TerminalTile.tsx:64),
\* a row marked dead by one who found tmux without a session it was still to have
\* (sessions.go:387, 544), and a row that a rollback deleted although it could not
\* kill the session (sessions.go:259).
EndIsTrue ==
  \A t \in Tile :
    LET Over == LifeOf(t).tmux = "gone" \/ LifeOf(t).astray IN
    /\ state[t] = "exited" /\ t \notin misled => Over
    /\ state[t] = "missing" /\ t \notin late => LifeOf(t).row = "deleted" /\ Over

\* A daemon that is back is found: no tile stays connecting or "retrying", however
\* long the daemon was away, however often the attach ended and whatever became of
\* the session; it opens, or says why it will not.  Only a socket that died without
\* a word is not noticed.
Reconnects ==
  \A t \in Tile :
    <>[]reachable /\ (<>[]authed \/ <>[]~authed)
      => []<>(state[t] \in {"open"} \cup Final \/ waits[t] = "none" \/ handler[t] = "silent")
=============================================================================
