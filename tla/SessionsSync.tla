---------------------------- MODULE SessionsSync ----------------------------
(***************************************************************************)
(* web/src/grid/GridPage.tsx, fetchSessions: how a page's session list     *)
(* follows one daemon's.  Every frame of interest on the events socket, a  *)
(* return to the tab and the mount ask for the list; at most one request   *)
(* is out at a time, and what is asked for meanwhile is one follow-up.     *)
(* The daemon's list is its version: how often it changed.  Not every      *)
(* change is broadcast: a launch shows its rows before it says so, and one *)
(* that is undone never says so.                                           *)
(***************************************************************************)
EXTENDS EventHub

CONSTANT MaxVersion  \* bound on the changes of the daemon's list

ASSUME SessionsSyncAssumption == MaxVersion \in Nat

VARIABLES
  version,    \* the daemon's list
  starting,   \* rows of launches that are not over: not broadcast, and visible
  announced,  \* history: the list when the last change was broadcast, or a hello sent
  shown,      \* the page's list
  fetches,    \* requests that are out: each where it is, and the answer it got
  queued,     \* inFlight.queued: a follow-up is wanted
  missed      \* the last request failed, and nothing has asked again since

daemon == <<version, starting, announced>>
page == <<shown, fetches, queued, missed>>
vars == <<hub, daemon, page>>

NoAnswer == -1
Fetch == [at : {"sent", "answered"}, list : -1 .. MaxVersion]

\* The state's shape.
TypeOK ==
  /\ HubTypeOK
  /\ version \in 0 .. MaxVersion
  /\ starting \in 0 .. version /\ announced \in 0 .. version
  /\ shown \in 0 .. MaxVersion
  /\ fetches \in SUBSET Fetch
  /\ queued \in BOOLEAN /\ missed \in BOOLEAN

NewFetch == [at |-> "sent", list |-> NoAnswer]

\* Mounted: refreshSessions(true) is out, the socket is not yet.
Init ==
  /\ HubInit
  /\ version = 0 /\ starting = 0 /\ announced = 0 /\ shown = 0
  /\ fetches = {NewFetch}
  /\ queued = FALSE /\ missed = FALSE

----------------------------------------------------------------------------
(* The daemon *)

Write == version < MaxVersion /\ version' = version + 1

\* A kill, a dismissal, a rename, a death that a pass saw, another branch: a row
\* changes, and what changed it broadcasts next.
Change ==
  /\ Write
  /\ owed' = owed + 1
  /\ announced' = version'
  /\ UNCHANGED <<starting, link, chan, wire, drops, page>>

\* handleCreateSession: a row shows as soon as it is inserted.
Insert ==
  /\ Write
  /\ starting' = starting + 1
  /\ UNCHANGED <<announced, hub, page>>

\* Every session of a launch that succeeds is broadcast, once all have started.
Launched == \E n \in 1 .. starting :
  /\ starting' = starting - n
  /\ owed' = owed + n
  /\ announced' = version
  /\ UNCHANGED <<version, link, chan, wire, drops, page>>

\* A launch that fails, or a name that tmux holds: the row goes without a word, or
\* stays without one when its deletion fails too.
RollBack ==
  /\ starting > 0
  /\ starting' = starting - 1
  /\ Write \/ UNCHANGED version
  /\ UNCHANGED <<announced, hub, page>>

\* A launch labels its row; a rename stores the label and answers 500 when it cannot
\* read the row again; a git pass forgets a directory that was not live when it began.
Silently ==
  /\ Write
  /\ UNCHANGED <<starting, announced, hub, page>>

\* handleListSessions.
Answer(f) ==
  /\ f.at = "sent"
  /\ fetches' = (fetches \ {f}) \cup {[at |-> "answered", list |-> version]}
  /\ UNCHANGED <<hub, daemon, shown, queued, missed>>

----------------------------------------------------------------------------
(* The page *)

\* fetchSessions: one request at a time, or none was asked for in vain.
Request_EachTime == fetches' = fetches \cup {NewFetch} /\ queued' = queued
Request ==
  IF fetches # {} THEN queued' = TRUE /\ fetches' = fetches
                  ELSE queued' = queued /\ fetches' = {NewFetch}

\* onServerEvent: hello, session_* and git_changed.
Receive ==
  /\ wire > 0
  /\ wire' = wire - 1
  /\ Request
  /\ missed' = FALSE
  /\ UNCHANGED <<owed, link, chan, drops, daemon, shown>>

\* The user comes back to the tab, renames, kills or launches.
Refresh ==
  /\ Request
  /\ missed' = FALSE
  /\ UNCHANGED <<hub, daemon, shown>>

\* fetchSessions' finally: the follow-up goes out.
FollowUp_Dropped(f) == fetches' = fetches \ {f} /\ queued' = FALSE
FollowUp(f) ==
  /\ fetches' = (fetches \ {f}) \cup (IF queued THEN {NewFetch} ELSE {})
  /\ queued' = FALSE

Land(f) ==
  /\ f.at = "answered"
  /\ shown' = f.list
  /\ FollowUp(f)
  /\ missed' = FALSE
  /\ UNCHANGED <<hub, daemon>>

\* A request that fails keeps the last known list.
Fail(f) ==
  /\ drops < MaxDrops
  /\ drops' = drops + 1
  /\ FollowUp(f)
  /\ missed' = ~queued
  /\ UNCHANGED <<owed, link, chan, wire, daemon, shown>>

----------------------------------------------------------------------------

\* A hello makes the page ask, whatever changed before it; launches end with the daemon.
Heard(A) == A /\ announced' = version /\ UNCHANGED <<version, starting, page>>
Crashes == DaemonRestarts /\ starting' = 0 /\ UNCHANGED <<version, announced, page>>
Quietly(A) == A /\ UNCHANGED <<daemon, page>>

Next ==
  \/ Quietly(Connect \/ Subscribe \/ Broadcast \/ Forward \/ Close \/ FallSilent \/ GoStale)
  \/ Heard(Hello) \/ Crashes
  \/ Change \/ Insert \/ Launched \/ RollBack \/ Silently
  \/ \E f \in fetches : Answer(f) \/ Land(f) \/ Fail(f)
  \/ Receive \/ Refresh

Spec == Init /\ [][Next]_vars

\* The daemon's goroutines and the page's event loop and timers run, and requests
\* that are not lost are answered.
Fairness ==
  /\ WF_vars(Quietly(Connect)) /\ WF_vars(Quietly(Subscribe)) /\ WF_vars(Heard(Hello))
  /\ WF_vars(Quietly(Broadcast)) /\ WF_vars(Quietly(Forward)) /\ WF_vars(Quietly(GoStale))
  /\ WF_vars(Receive)
  /\ WF_vars(\E f \in fetches : Answer(f))
  /\ WF_vars(\E f \in fetches : Land(f))

FairSpec == Spec /\ Fairness

----------------------------------------------------------------------------
(* Properties *)

\* Answers are applied in the order the daemon gave them: the list a page shows is
\* never replaced by an older one, whatever asked for it (one request at a time).
ListNeverGoesBack == [][shown' >= shown]_vars

\* An event lost to a full channel, a closed socket or a restart is no loss: while
\* a page's list is older than the last one a change was broadcast of, something that
\* will make it ask again is still to come, or its last request failed.  What it may
\* miss until then is what nothing broadcasts: the rows of a launch under way or
\* undone, and a label whose rename answered an error.
StaleIsOwed ==
  \/ shown >= announced
  \/ missed
  \/ owed > 0 \/ link # "open" \/ chan > 0 \/ wire > 0
  \/ queued
  \/ \E f \in fetches : f.at = "sent" \/ f.list >= announced

\* And it does come: once the daemon's list no longer changes and the network no
\* longer fails, the page shows every change that was broadcast, unless its last
\* request failed.
PageConverges == <>[](shown >= announced \/ missed)
=============================================================================
