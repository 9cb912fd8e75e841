------------------------- MODULE SessionsSyncProofs -------------------------
(***************************************************************************)
(* A page that misses a change that was broadcast is owed a refetch, and   *)
(* its list never goes back: for every capacity of the hub's channels and  *)
(* every number of failures.                                               *)
(***************************************************************************)
EXTENDS SessionsSync, TLAPS

\* One request is out at a time, and its answer is no older than what is shown.
OneFetch ==
  /\ \A f, g \in fetches : f = g
  /\ \A f \in fetches : f.at = "answered" => shown <= f.list /\ f.list <= version
  /\ shown <= version
  /\ missed => fetches = {}

\* Nothing is on the wire before hello.
HelloFirst == link \in {"down", "upgraded", "subscribed"} => wire = 0

IInv == TypeOK /\ OneFetch /\ HelloFirst /\ StaleIsOwed

LEMMA NewFetchType == NewFetch \in Fetch /\ NewFetch.at = "sent"
BY SessionsSyncAssumption DEF NewFetch, Fetch, NoAnswer

LEMMA InitIInv == ASSUME Init PROVE IInv
<1> USE EventHubAssumption, SessionsSyncAssumption, NewFetchType DEF Init, HubInit
<1>1. TypeOK
  <2>1. HubTypeOK
    BY DEF HubTypeOK, Links
  <2>2. version \in 0 .. MaxVersion /\ shown \in 0 .. MaxVersion
    OBVIOUS
  <2>3. fetches \in SUBSET Fetch
    OBVIOUS
  <2>4. queued \in BOOLEAN /\ missed \in BOOLEAN
    OBVIOUS
  <2> QED
    BY <2>1, <2>2, <2>3, <2>4 DEF TypeOK
<1>2. OneFetch /\ HelloFirst
  BY DEF OneFetch, HelloFirst
<1>3. StaleIsOwed
  BY DEF StaleIsOwed
<1> QED
  BY <1>1, <1>2, <1>3 DEF IInv

\* The hub and the network: whatever they lose, the page is owed another hello.
LEMMA HubStep ==
  ASSUME IInv,
         \/ Quietly(Connect \/ Subscribe \/ Broadcast \/ Forward \/ Close \/ FallSilent \/ GoStale)
         \/ Heard(Hello) \/ Crashes
  PROVE  IInv'
<1> USE EventHubAssumption DEF IInv, daemon, page, Quietly, Heard, Crashes
<1>0. /\ UNCHANGED <<version, page>>
      /\ announced' \in 0 .. version
      /\ starting' \in {starting, 0}
  BY DEF TypeOK
<1>1. OneFetch'
  BY <1>0 DEF OneFetch
<1>2. HubTypeOK' /\ HelloFirst'
  <2> USE DEF HelloFirst, HubTypeOK, Links, TypeOK
  <2>1. CASE Connect \/ Subscribe \/ Hello
    BY <2>1 DEF Connect, Subscribe, Hello
  <2>2. CASE Broadcast
    BY <2>2 DEF Broadcast, Sent, Subscribed
  <2>3. CASE Forward
    BY <2>3 DEF Forward
  <2>4. CASE Close \/ DaemonRestarts \/ FallSilent \/ GoStale
    BY <2>4 DEF Close, DaemonRestarts, FallSilent, GoStale, Disconnected
  <2> QED
    BY <2>1, <2>2, <2>3, <2>4
<1>3. TypeOK'
  BY <1>0, <1>2, SessionsSyncAssumption DEF TypeOK
<1>4. StaleIsOwed'
  <2>1. CASE Heard(Hello)
    BY <2>1 DEF StaleIsOwed, TypeOK, HubTypeOK, Hello
  <2>2. CASE UNCHANGED announced
    BY <2>2, <1>0
       DEF StaleIsOwed, TypeOK, HubTypeOK, Connect, Subscribe, Broadcast, Subscribed, Sent,
           Forward, Close, DaemonRestarts, FallSilent, GoStale, Disconnected, Hello
  <2> QED
    BY <2>1, <2>2
<1> QED
  BY <1>1, <1>2, <1>3, <1>4

\* What the daemon does: a change that is broadcast is owed from its start, and the
\* others announce nothing.
LEMMA DaemonStep ==
  ASSUME IInv, Change \/ Insert \/ Launched \/ RollBack \/ Silently
  PROVE  IInv'
<1> USE SessionsSyncAssumption DEF IInv, page, hub
<1>1. /\ UNCHANGED <<page, link, chan, wire, drops>>
      /\ version' \in 0 .. MaxVersion /\ version' >= version
      /\ starting' \in 0 .. version' /\ owed' \in Nat /\ owed' >= owed
      /\ \/ announced' = announced
         \/ announced' = version' /\ owed' > 0
  <2> USE DEF TypeOK, HubTypeOK, Write
  <2>1. CASE Change \/ Silently \/ Insert
    BY <2>1 DEF Change, Silently, Insert
  <2>2. CASE Launched
    BY <2>2 DEF Launched
  <2>3. CASE RollBack
    BY <2>3 DEF RollBack
  <2> QED
    BY <2>1, <2>2, <2>3
<1>2. TypeOK'
  BY <1>1 DEF TypeOK, HubTypeOK
<1>3. OneFetch' /\ HelloFirst'
  BY <1>1 DEF OneFetch, TypeOK, Fetch, HelloFirst
<1>4. StaleIsOwed'
  BY <1>1 DEF StaleIsOwed, TypeOK, HubTypeOK
<1> QED
  BY <1>2, <1>3, <1>4

LEMMA AnswerStep == ASSUME IInv, NEW f \in fetches, Answer(f) PROVE IInv'
<1> USE SessionsSyncAssumption DEF IInv, Answer, hub, daemon
<1>1. fetches = {f} /\ fetches' = {[at |-> "answered", list |-> version]}
  BY DEF OneFetch
<1>2. TypeOK'
  <2>1. [at |-> "answered", list |-> version] \in Fetch
    BY DEF TypeOK, Fetch
  <2> QED
    BY <1>1, <2>1 DEF TypeOK, HubTypeOK
<1>3. OneFetch' /\ HelloFirst'
  BY <1>1 DEF OneFetch, TypeOK, HelloFirst
<1>4. StaleIsOwed'
  <2>1. [at |-> "answered", list |-> version] \in fetches'
    BY <1>1
  <2>2. version' = version /\ announced' = announced
    BY DEF daemon
  <2>3. \E g \in fetches' : g.list >= announced'
    <3>1. version >= announced'
      BY <2>2 DEF TypeOK
    <3>2. WITNESS [at |-> "answered", list |-> version] \in fetches'
    <3> QED
      BY <3>1
  <2> QED
    BY <2>3 DEF StaleIsOwed
<1> QED
  BY <1>2, <1>3, <1>4

\* Asking, for whatever reason, leaves a request out or a follow-up queued.
LEMMA RequestStep ==
  ASSUME IInv, Receive \/ Refresh
  PROVE  IInv'
<1> USE DEF IInv, hub, daemon
<1>1. /\ Request /\ missed' = FALSE
      /\ UNCHANGED <<owed, link, chan, drops, daemon, shown>>
      /\ wire' = wire \/ (wire > 0 /\ wire' = wire - 1)
  BY DEF Receive, Refresh
<1>2. /\ fetches' = fetches \/ (fetches = {} /\ fetches' = {NewFetch})
      /\ (queued' = queued) \/ (queued' = TRUE)
      /\ queued' = TRUE \/ NewFetch \in fetches'
  BY <1>1 DEF Request
<1>3. TypeOK'
  <2>1. HubTypeOK'
    BY <1>1, EventHubAssumption DEF TypeOK, HubTypeOK
  <2>2. fetches' \in SUBSET Fetch
    BY <1>2, NewFetchType DEF TypeOK
  <2>3. queued' \in BOOLEAN /\ missed' \in BOOLEAN
    BY <1>1, <1>2 DEF TypeOK
  <2> QED
    BY <1>1, <2>1, <2>2, <2>3 DEF TypeOK
<1>4. OneFetch'
  BY <1>1, <1>2, NewFetchType DEF OneFetch
<1>5. HelloFirst'
  BY <1>1 DEF HelloFirst
<1>6. StaleIsOwed'
  BY <1>1, <1>2, NewFetchType DEF StaleIsOwed
<1> QED
  BY <1>3, <1>4, <1>5, <1>6

\* What a request that is over leaves: the follow-up, if one was queued.
LEMMA FollowUpLeaves ==
  ASSUME IInv, NEW f \in fetches, FollowUp(f)
  PROVE  /\ fetches = {f}
         /\ fetches' = IF queued THEN {NewFetch} ELSE {}
         /\ queued' = FALSE
         /\ NewFetch \in Fetch /\ NewFetch.at = "sent"
BY NewFetchType DEF IInv, OneFetch, FollowUp

LEMMA LandStep == ASSUME IInv, NEW f \in fetches, Land(f) PROVE IInv' /\ shown' >= shown
<1> USE DEF IInv, Land, hub, daemon
<1>1. /\ fetches = {f}
      /\ fetches' = IF queued THEN {NewFetch} ELSE {}
      /\ queued' = FALSE
      /\ NewFetch \in Fetch /\ NewFetch.at = "sent"
  BY FollowUpLeaves
<1>2. f.at = "answered" /\ shown' = f.list /\ shown <= f.list /\ f.list <= version
  BY DEF OneFetch
<1>3. f.list \in 0 .. MaxVersion /\ shown \in Int
  BY <1>2, SessionsSyncAssumption DEF TypeOK, Fetch
<1>4. TypeOK'
  BY <1>1, <1>2, <1>3 DEF TypeOK, HubTypeOK
<1>5. OneFetch' /\ HelloFirst'
  BY <1>1, <1>2, <1>3 DEF OneFetch, HelloFirst, TypeOK
<1>6. StaleIsOwed'
  <2>1. CASE queued
    BY <2>1, <1>1 DEF StaleIsOwed
  <2>2. CASE ~queued /\ shown >= announced
    BY <2>2, <1>2, <1>3 DEF StaleIsOwed, TypeOK
  <2>3. CASE ~queued /\ ~(shown >= announced)
    <3>1. ~missed
      BY <1>1 DEF OneFetch
    <3>2. f.list >= announced \/ owed > 0 \/ link # "open" \/ chan > 0 \/ wire > 0
      BY <2>3, <3>1, <1>1, <1>2 DEF StaleIsOwed
    <3> QED
      BY <3>2, <1>2 DEF StaleIsOwed
  <2> QED
    BY <2>1, <2>2, <2>3
<1> QED
  BY <1>2, <1>3, <1>4, <1>5, <1>6

LEMMA FailStep == ASSUME IInv, NEW f \in fetches, Fail(f) PROVE IInv'
<1> USE EventHubAssumption DEF IInv, Fail, daemon
<1>1. /\ fetches = {f}
      /\ fetches' = IF queued THEN {NewFetch} ELSE {}
      /\ queued' = FALSE
      /\ NewFetch \in Fetch /\ NewFetch.at = "sent"
  BY FollowUpLeaves
<1>2. TypeOK'
  <2>1. HubTypeOK'
    BY DEF TypeOK, HubTypeOK
  <2>2. fetches' \in SUBSET Fetch
    BY <1>1 DEF TypeOK
  <2>3. missed' = ~queued
    OBVIOUS
  <2>4. queued' \in BOOLEAN /\ missed' \in BOOLEAN
    BY <1>1, <2>3
  <2> QED
    BY <2>1, <2>2, <2>4 DEF TypeOK
<1>3. OneFetch' /\ HelloFirst'
  BY <1>1 DEF OneFetch, TypeOK, HelloFirst
<1>4. StaleIsOwed'
  BY <1>1 DEF StaleIsOwed, TypeOK
<1> QED
  BY <1>2, <1>3, <1>4

----------------------------------------------------------------------------

\* IInv is inductive.
THEOREM Invariance == Spec => []IInv
<1>1. Init => IInv
  BY InitIInv
<1>2. IInv /\ [Next]_vars => IInv'
  <2> SUFFICES ASSUME IInv, [Next]_vars PROVE IInv'
    OBVIOUS
  <2>1. CASE \/ Quietly(Connect \/ Subscribe \/ Broadcast \/ Forward \/ Close \/ FallSilent
                         \/ GoStale)
             \/ Heard(Hello) \/ Crashes
    BY <2>1, HubStep
  <2>2. CASE Change \/ Insert \/ Launched \/ RollBack \/ Silently
    BY <2>2, DaemonStep
  <2>3. CASE \E f \in fetches : Answer(f) \/ Land(f) \/ Fail(f)
    BY <2>3, AnswerStep, LandStep, FailStep
  <2>4. CASE Receive \/ Refresh
    BY <2>4, RequestStep
  <2>5. CASE UNCHANGED vars
    BY <2>5 DEF vars, hub, daemon, page, IInv, TypeOK, HubTypeOK, OneFetch, HelloFirst, StaleIsOwed
  <2> QED
    BY <2>1, <2>2, <2>3, <2>4, <2>5 DEF Next
<1> QED
  BY <1>1, <1>2, PTL DEF Spec

\* The hub may drop events, the socket may die, the daemon may restart, a launch may
\* be undone: a page that has not seen a change that was broadcast still has a reason
\* to ask again coming, or its last request failed.  Full channels are harmless
\* because they are full.
THEOREM StalePageIsOwed == Spec => []StaleIsOwed
<1>1. IInv => StaleIsOwed
  BY DEF IInv
<1> QED
  BY <1>1, Invariance, PTL

\* Every variable keeps its type.
THEOREM TypeCorrect == Spec => []TypeOK
<1>1. IInv => TypeOK
  BY DEF IInv
<1> QED
  BY <1>1, Invariance, PTL

\* No page's list is replaced by an older one.
THEOREM NeverGoesBack == Spec => ListNeverGoesBack
<1>1. IInv /\ [Next]_vars => [shown' >= shown]_vars
  <2> SUFFICES ASSUME IInv, Next PROVE shown' >= shown
    OBVIOUS
  <2>1. CASE \E f \in fetches : Land(f)
    BY <2>1, LandStep
  <2>2. CASE shown' = shown
    BY <2>2 DEF IInv, TypeOK
  <2>3. shown' = shown \/ \E f \in fetches : Land(f)
    BY DEF Next, page, Quietly, Heard, Crashes, Change, Insert, Launched, RollBack, Silently,
           Answer, Fail, Receive, Refresh
  <2> QED
    BY <2>1, <2>2, <2>3
<1> QED
  BY <1>1, Invariance, PTL DEF Spec, ListNeverGoesBack
=============================================================================
