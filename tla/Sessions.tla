------------------------------ MODULE Sessions ------------------------------
(***************************************************************************)
(* The life of a session: internal/server/sessions.go on top of            *)
(* internal/store/sessions.go (the rows) and internal/tmuxmgr/manager.go   *)
(* (the tmux sessions).                                                    *)
(*                                                                         *)
(* A session is a row and a tmux session named after the row's id, and no  *)
(* lock spans the two: each SQL statement and each tmux command is an      *)
(* action of its own.  Handlers run concurrently with each other, with the *)
(* reconcile tick and with tmux sessions that end; tmux commands and SQL   *)
(* statements may fail; the daemon may crash between any two of them.      *)
(* Rows and tmux sessions survive a crash, requests and the tick do not.   *)
(***************************************************************************)
EXTENDS Integers, FiniteSets

CONSTANTS
  MaxId,       \* bound on the ids AUTOINCREMENT gives out
  Req,         \* slots for requests being handled
  MaxGroup,    \* bound on the commands of a tool
  MaxCrashes,  \* bound on the crashes of the daemon
  MayFail      \* TRUE: tmux commands and SQL statements may fail

ASSUME SessionsAssumption ==
  /\ MaxId \in Nat /\ MaxGroup \in Nat \ {0} /\ MaxCrashes \in Nat /\ MayFail \in BOOLEAN

Id == 1 .. MaxId

VARIABLES
  row,      \* sessions table: id -> "none" | "running" | "dead"
  nextId,   \* sqlite_sequence: the next id
  old,      \* rows whose created_at is reconcileGrace ago or more
  tmux,     \* ids whose name tmux has a session by
  req,      \* request slot -> what its handler is doing
  pass,     \* the reconcile tick
  crashes

\* What the code does not keep, recorded to state its properties.
VARIABLES
  held,    \* names tmux had before the database did (it was moved aside)
  raced,   \* sessions killed, or missed grace after their row, before they were started
  undone,  \* ids of creates that answer with an error
  debris   \* sessions whose undoing failed halfway

store == <<row, nextId, old>>
history == <<held, raced, undone, debris>>
vars == <<store, tmux, req, pass, crashes, history>>

----------------------------------------------------------------------------
(* State *)

\* What a handler does next, and for a create: how many sessions it has left to
\* start, whether its tool is a group, the session it is at, the ones it started.
Request == [op : {"none", "insert", "probe", "giveWay", "label", "start", "respawn",
                  "killFresh", "dropRow", "undoTmux", "undoRow",
                  "kill", "markKilled", "dismiss"},
            left : 0 .. MaxGroup, group : BOOLEAN, id : 0 .. MaxId, created : SUBSET Id]

Idle == [op |-> "none", left |-> 0, group |-> FALSE, id |-> 0, created |-> {}]

Pass == [at : {"waiting", "listing", "marking"}, running : SUBSET Id, doomed : SUBSET Id]
NoPass == [at |-> "waiting", running |-> {}, doomed |-> {}]

\* The state's shape; an id that is not yet given out has no row.
TypeOK ==
  /\ row \in [Id -> {"none", "running", "dead"}]
  /\ nextId \in 1 .. MaxId + 1
  /\ \A i \in Id : i >= nextId => row[i] = "none"
  /\ old \in SUBSET Id
  /\ tmux \in SUBSET Id
  /\ req \in [Req -> Request]
  /\ pass \in Pass
  /\ crashes \in 0 .. MaxCrashes
  /\ held \in SUBSET Id /\ raced \in SUBSET Id /\ undone \in SUBSET Id /\ debris \in SUBSET Id

\* tmux may already have sessions by names that this database will come to.
Init ==
  /\ row = [i \in Id |-> "none"]
  /\ nextId = 1
  /\ old = {}
  /\ tmux \in SUBSET Id
  /\ req = [r \in Req |-> Idle]
  /\ pass = NoPass
  /\ crashes = 0
  /\ held = tmux
  /\ raced = {} /\ undone = {} /\ debris = {}

\* Sessions with a row that a create is about to start.
Coming == {req[r].id : r \in {q \in Req : req[q].op \in {"probe", "label", "start"}}}

First(S) == CHOOSE i \in S : \A j \in S : i <= j

To(r, op) == [req EXCEPT ![r].op = op]
Answered(r) == [req EXCEPT ![r] = Idle]

\* AUTOINCREMENT: an id is never given out again.
NextId_AfterRowsLeft == Cardinality({i \in Id : row[i] # "none"}) + 2
NextId == nextId + 1

\* SQL: an UPDATE or a DELETE of a row that is gone changes nothing.
WithStatus_Upsert(i, status) == [row EXCEPT ![i] = status]
WithStatus(i, status) == [row EXCEPT ![i] = IF @ = "none" THEN "none" ELSE status]
Without(i) == [row EXCEPT ![i] = "none"]

----------------------------------------------------------------------------
(* handleCreateSession: per command a row, its label, a tmux session *)

CreateRequest(r, n) ==
  /\ req[r] = Idle
  /\ req' = [req EXCEPT ![r] = [Idle EXCEPT !.op = "insert", !.left = n, !.group = n > 1]]
  /\ UNCHANGED <<store, tmux, pass, crashes, history>>

\* The rest of an answer that is an error: rollback of what the group created.
RolledBack_Forgotten(r, created) == Answered(r)
RolledBack(r, created) ==
  [req EXCEPT ![r] = IF created = {} THEN Idle
                     ELSE [@ EXCEPT !.op = "undoTmux", !.id = 0, !.created = created]]

\* The create fails, with these ids and the ones of the group so far.
Undone(r, ids) ==
  /\ req' = RolledBack(r, req[r].created)
  /\ undone' = undone \cup req[r].created \cup ids

\* Store.CreateSession: one transaction; from here on the row is visible.
InsertRow(r) ==
  /\ req[r].op = "insert"
  /\ \/ /\ nextId \in Id
        /\ row' = [row EXCEPT ![nextId] = "running"]
        /\ nextId' = NextId
        /\ req' = [req EXCEPT ![r].op = "probe", ![r].id = nextId]
        /\ undone' = undone
     \/ /\ MayFail
        /\ Undone(r, {})
        /\ UNCHANGED <<row, nextId>>
  /\ UNCHANGED <<old, tmux, pass, crashes, held, raced, debris>>

\* createSessionRow's IsAlive, which takes a failing tmux for a free name.
Probe(r) ==
  /\ req[r].op = "probe"
  /\ \/ /\ req[r].id \in tmux
        /\ req' = To(r, "giveWay")
     \/ /\ req[r].id \notin tmux \/ MayFail
        /\ req' = To(r, IF req[r].group THEN "label" ELSE "start")
  /\ UNCHANGED <<store, tmux, pass, crashes, history>>

\* The name is held: the row gives way, and the loop tries the next id.
GiveWay_KillsHolder(r) ==
  /\ req[r].op = "giveWay"
  /\ tmux' = tmux \ {req[r].id}
  /\ req' = To(r, IF req[r].group THEN "label" ELSE "start")
  /\ UNCHANGED <<store, pass, crashes, history>>
GiveWay(r) ==
  /\ req[r].op = "giveWay"
  /\ \/ /\ row' = Without(req[r].id)
        /\ req' = To(r, "insert")
        /\ undone' = undone
     \/ /\ MayFail
        /\ Undone(r, {})
        /\ UNCHANGED row
  /\ UNCHANGED <<nextId, old, tmux, pass, crashes, held, raced, debris>>

\* SetSessionLabel, of a group's session: an error too when the row is gone.
LabelRow(r) ==
  /\ req[r].op = "label"
  /\ \/ /\ row[req[r].id] # "none"
        /\ req' = To(r, "start")
     \/ /\ MayFail \/ row[req[r].id] = "none"
        /\ req' = To(r, "dropRow")
  /\ UNCHANGED <<store, tmux, pass, crashes, history>>

\* Manager.CreateSession, new-session: an error too when tmux has the name.
StartTmux(r) ==
  /\ req[r].op = "start"
  /\ \/ /\ req[r].id \notin tmux
        /\ tmux' = tmux \cup {req[r].id}
        /\ req' = To(r, "respawn")
     \/ /\ MayFail \/ req[r].id \in tmux
        /\ req' = To(r, "dropRow")
        /\ UNCHANGED tmux
  /\ UNCHANGED <<store, pass, crashes, history>>

\* Manager.CreateSession, respawn-pane (a tool without a command has none, and so
\* no error); the last command's answer is 201.
Respawn(r) ==
  /\ req[r].op = "respawn"
  /\ \/ req' = IF req[r].left = 1 THEN Answered(r)
               ELSE [req EXCEPT ![r].op = "insert", ![r].id = 0, ![r].left = @ - 1,
                                ![r].created = @ \cup {req[r].id}]
     \/ /\ MayFail \/ req[r].id \notin tmux
        /\ req' = To(r, "killFresh")
  /\ UNCHANGED <<store, tmux, pass, crashes, history>>

\* The session that could not be respawned goes, if tmux lets it.
KillFresh(r) ==
  /\ req[r].op = "killFresh"
  /\ req' = To(r, "dropRow")
  /\ \/ tmux' = tmux \ {req[r].id} /\ debris' = debris
     \/ MayFail /\ tmux' = tmux /\ debris' = debris \cup {req[r].id}
  /\ UNCHANGED <<store, pass, crashes, held, raced, undone>>

\* The row of the session that failed goes.
DropRow(r) ==
  /\ req[r].op = "dropRow"
  /\ Undone(r, {req[r].id})
  /\ \/ row' = Without(req[r].id) /\ debris' = debris
     \/ MayFail /\ row' = row /\ debris' = debris \cup {req[r].id}
  /\ UNCHANGED <<nextId, old, tmux, pass, crashes, held, raced>>

\* rollback: for each session created, KillSession and DeleteSession, errors ignored.
UndoTmux(r) ==
  LET i == First(req[r].created)
  IN  /\ req[r].op = "undoTmux"
      /\ req' = To(r, "undoRow")
      /\ \/ tmux' = tmux \ {i} /\ debris' = debris
         \/ MayFail /\ tmux' = tmux /\ debris' = debris \cup {i}
      /\ UNCHANGED <<store, pass, crashes, held, raced, undone>>

UndoRow(r) ==
  LET i == First(req[r].created)
  IN  /\ req[r].op = "undoRow"
      /\ req' = RolledBack(r, req[r].created \ {i})
      /\ \/ row' = Without(i) /\ debris' = debris
         \/ MayFail /\ row' = row /\ debris' = debris \cup {i}
      /\ UNCHANGED <<nextId, old, tmux, pass, crashes, held, raced, undone>>

----------------------------------------------------------------------------
(* handleKillSession and handleDismissSession *)

\* GetSession, whatever the status it reads.
KillRequest(r, i) ==
  /\ req[r] = Idle
  /\ row[i] # "none"
  /\ req' = [req EXCEPT ![r] = [Idle EXCEPT !.op = "kill", !.id = i]]
  /\ UNCHANGED <<store, tmux, pass, crashes, history>>

\* Manager.KillSession: a session that is not there counts as success, any other
\* error is the answer.
KillTmux(r) ==
  LET i == req[r].id
  IN  /\ req[r].op = "kill"
      /\ \/ /\ req' = To(r, "markKilled")
            /\ tmux' = tmux \ {i}
            /\ held' = held \ {i}
            /\ raced' = IF i \in Coming THEN raced \cup {i} ELSE raced
         \/ /\ MayFail
            /\ req' = Answered(r)
            /\ UNCHANGED <<tmux, held, raced>>
      /\ UNCHANGED <<store, pass, crashes, undone, debris>>

MarkKilled(r) ==
  /\ req[r].op = "markKilled"
  /\ req' = Answered(r)
  /\ \/ row' = WithStatus(req[r].id, "dead")
     \/ MayFail /\ row' = row
  /\ UNCHANGED <<nextId, old, tmux, pass, crashes, history>>

\* GetSession; a running session is not dismissed (409).
DismissRequest(r, i) ==
  /\ req[r] = Idle
  /\ row[i] = "dead"
  /\ req' = [req EXCEPT ![r] = [Idle EXCEPT !.op = "dismiss", !.id = i]]
  /\ UNCHANGED <<store, tmux, pass, crashes, history>>

DismissRow(r) ==
  /\ req[r].op = "dismiss"
  /\ req' = Answered(r)
  /\ \/ row' = Without(req[r].id)
     \/ MayFail /\ row' = row
  /\ UNCHANGED <<nextId, old, tmux, pass, crashes, history>>

----------------------------------------------------------------------------
(* Reconcile, one pass at a time *)

ReadRows ==
  /\ pass.at = "waiting"
  /\ pass' = [at |-> "listing", running |-> {i \in Id : row[i] = "running"}, doomed |-> {}]
  /\ UNCHANGED <<store, tmux, req, crashes, history>>

\* The rows whose session tmux has not, but for those created within the grace.
Doomed_NoGrace(alive) == pass.running \ alive
Doomed_Inverted(alive) == (pass.running \ alive) \ old
Doomed(alive) == (pass.running \ alive) \cap old

\* Nothing to mark, and the pass is over.
Marking(doomed) ==
  IF doomed = {} THEN NoPass ELSE [NoPass EXCEPT !.at = "marking", !.doomed = doomed]

ListTmux ==
  LET doomed == Doomed(tmux)
  IN  /\ pass.at = "listing"
      /\ pass' = Marking(doomed)
      /\ raced' = raced \cup (doomed \cap old \cap Coming)
      /\ UNCHANGED <<store, tmux, req, crashes, held, undone, debris>>

\* tmux cannot say: the pass ends before it marks anything.
AfterListError_TakenForNone == Marking(Doomed({}))
AfterListError == NoPass

ListFails ==
  /\ MayFail
  /\ pass.at = "listing"
  /\ pass' = AfterListError
  /\ UNCHANGED <<store, tmux, req, crashes, history>>

MarkDead ==
  LET i == First(pass.doomed)
  IN  /\ pass.at = "marking"
      /\ row' = WithStatus(i, "dead")
      /\ pass' = Marking(pass.doomed \ {i})
      /\ UNCHANGED <<nextId, old, tmux, req, crashes, history>>

MarkFails ==
  /\ MayFail
  /\ pass.at = "marking"
  /\ pass' = NoPass
  /\ UNCHANGED <<store, tmux, req, crashes, history>>

----------------------------------------------------------------------------
(* The world outside *)

\* reconcileGrace passes.
Ages(i) ==
  /\ row[i] = "running" /\ i \notin old
  /\ old' = old \cup {i}
  /\ UNCHANGED <<row, nextId, tmux, req, pass, crashes, history>>

\* A session is ended by what runs in it, or by somebody at the tmux prompt.
TmuxEnds(i) ==
  /\ i \in tmux
  /\ tmux' = tmux \ {i}
  /\ held' = held \ {i}
  /\ UNCHANGED <<store, req, pass, crashes, raced, undone, debris>>

\* Sessions a rollback has still to undo.
Undoing == UNION {req[r].created : r \in {q \in Req : req[q].op \in {"undoTmux", "undoRow"}}}

\* The daemon goes down and comes back; a new pass is the first thing it does.
\* A create it cut short never answers.
Crash ==
  /\ crashes < MaxCrashes
  /\ crashes' = crashes + 1
  /\ req' = [r \in Req |-> Idle]
  /\ pass' = NoPass
  /\ undone' = undone \ Undoing
  /\ UNCHANGED <<store, tmux, held, raced, debris>>

----------------------------------------------------------------------------

Step(r) ==
  \/ InsertRow(r) \/ Probe(r) \/ GiveWay(r) \/ LabelRow(r) \/ StartTmux(r) \/ Respawn(r)
  \/ KillFresh(r) \/ DropRow(r) \/ UndoTmux(r) \/ UndoRow(r)
  \/ KillTmux(r) \/ MarkKilled(r) \/ DismissRow(r)

Next ==
  \/ \E r \in Req, n \in 1 .. MaxGroup : CreateRequest(r, n)
  \/ \E r \in Req, i \in Id : KillRequest(r, i) \/ DismissRequest(r, i)
  \/ \E r \in Req : Step(r)
  \/ ReadRows \/ ListTmux \/ ListFails \/ MarkDead \/ MarkFails
  \/ \E i \in Id : Ages(i) \/ TmuxEnds(i)
  \/ Crash

Spec == Init /\ [][Next]_vars

\* The ticker keeps ticking, time passes, and neither tmux nor SQLite fails forever.
Fairness ==
  /\ WF_vars(ReadRows) /\ SF_vars(ListTmux) /\ SF_vars(MarkDead)
  /\ \A i \in Id : WF_vars(Ages(i))

FairSpec == Spec /\ Fairness

----------------------------------------------------------------------------
(* Properties *)

\* "...would orphan a live tmux session with no UI handle to it": every session
\* that tmux runs is listed as running, but for the ones of an earlier database,
\* those whose undoing failed, and those killed, or looked for after the grace,
\* before they were started.
NoUnreachableSession ==
  \A i \in tmux : row[i] = "running" \/ i \in held \cup debris \cup raced

\* A group is all-or-nothing: once a create has answered with an error, none of its
\* sessions is there, neither row nor tmux session, whatever kills, passes and
\* dismissals met it on the way, unless undoing one failed.
NoHalfGroup ==
  \A i \in undone \ (debris \cup Undoing) : row[i] = "none" /\ (i \in tmux => i \in held)

\* No row does not mean junk: a tmux session that an earlier database left is
\* ended by itself or by a user who kills the row that had its name for a moment,
\* and by nothing that a create, its rollback or a pass does.
HeldLeftRunning ==
  [][\A i \in held \cap (tmux \ tmux') :
       TmuxEnds(i) \/ \E r \in Req : KillTmux(r) /\ req[r].id = i]_vars

\* A session that ended while its row says running does not stay so: the row is
\* marked dead or goes, unless tmux has the session after all.
DeathNoticed ==
  \A i \in Id : (row[i] = "running" /\ i \notin tmux)
                  ~> (row[i] # "running" \/ i \in tmux)

\* What a browser sees of a session's row.
Shown == [i \in Id |-> IF i >= nextId THEN "unborn" ELSE IF row[i] = "none" THEN "gone" ELSE row[i]]
Lifecycle == INSTANCE SessionLifecycle WITH shown <- Shown
RowsFollowLifecycle == Lifecycle!Spec

\* sessions.go:384, an error "is real, and marking the row dead anyway would orphan
\* a live tmux session": a row is dead only when its tmux session is gone.
DeadMeansGone == \A i \in Id : row[i] = "dead" => i \notin tmux
=============================================================================
