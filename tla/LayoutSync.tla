----------------------------- MODULE LayoutSync -----------------------------
(***************************************************************************)
(* The shared grid layout: web/src/grid/GridPage.tsx (persist, flushLayout, *)
(* refreshLayout) on every page, handleGetLayout and handlePutLayout in    *)
(* internal/server/sessions.go.  Pages edit the layout without asking, PUT *)
(* the whole of it one write at a time, and fetch it whenever the daemon   *)
(* says it changed; what an answer may not undo is decided when it lands.  *)
(* A layout is the number of the edit that made it, 0 the one at the start. *)
(***************************************************************************)
EXTENDS Integers, SequencesExt

CONSTANTS
  Page,
  MaxEdits,  \* bound on the edits of all pages
  MaxGets,   \* bound on the fetches the pages have out
  MaxFails   \* bound on the requests that fail

ASSUME LayoutSyncAssumption ==
  MaxEdits \in Nat /\ MaxGets \in Nat /\ MaxFails \in Nat

VARIABLES
  commits,  \* layouts SetLayout has stored, in order; the row is the last
  owed,     \* broadcasts of layout_changed still to come
  told,     \* pages with a layout_changed or a hello on its way
  shown,    \* layoutRef
  serial,   \* layoutEditSerial
  pending,  \* pendingWrite: a set of at most one layout
  puts,     \* writes in flight; writeInFlight when there is one
  strays,   \* layouts of writes a page gave up on that the daemon may still get
  gets,     \* fetches in flight; answers may overtake each other
  edits,    \* edits made by all pages
  fails     \* requests that failed

\* Recorded to state the properties.
VARIABLES
  mine,  \* page -> its edits
  lost   \* edits whose PUT failed before the daemon stored them

daemon == <<commits, owed, told>>
page == <<shown, serial, pending, puts, gets>>
vars == <<daemon, page, strays, edits, fails, mine, lost>>

----------------------------------------------------------------------------

Layout == 0 .. MaxEdits
Put == [layout : Layout, at : {"sent", "stored"}]
Get == [serial : Nat, writing : BOOLEAN, at : {"sent", "answered"}, layout : Layout]

\* The state's shape; one write in flight, and nothing waits without it.
TypeOK ==
  /\ commits \in Seq(Layout)
  /\ owed \in Nat
  /\ told \in SUBSET Page
  /\ shown \in [Page -> Layout]
  /\ serial \in [Page -> 0 .. MaxEdits]
  /\ pending \in [Page -> SUBSET Layout]
  /\ puts \in [Page -> SUBSET Put]
  /\ \A p \in Page : Cardinality(puts[p]) <= 1 /\ (puts[p] = {} => pending[p] = {})
  /\ gets \in [Page -> SUBSET Get]
  /\ strays \in SUBSET Layout
  /\ edits \in 0 .. MaxEdits /\ fails \in 0 .. MaxFails
  /\ mine \in [Page -> SUBSET Layout] /\ lost \in SUBSET Layout

Init ==
  /\ commits = <<>> /\ owed = 0 /\ told = Page
  /\ shown = [p \in Page |-> 0]
  /\ serial = [p \in Page |-> 0]
  /\ pending = [p \in Page |-> {}]
  /\ puts = [p \in Page |-> {}]
  /\ gets = [p \in Page |-> {}]
  /\ strays = {}
  /\ edits = 0 /\ fails = 0
  /\ mine = [p \in Page |-> {}]
  /\ lost = {}

Saved == IF commits = <<>> THEN 0 ELSE Last(commits)

\* A page has a write under way.
Writing(p) == puts[p] # {} \/ pending[p] # {}

----------------------------------------------------------------------------
(* Writes *)

Sending(layouts) == {[layout |-> l, at |-> "sent"] : l \in layouts}

\* flushLayout, when these layouts wait and these writes are in flight.
Flush_AtOnce(p, waiting, inFlight) ==
  /\ puts' = [puts EXCEPT ![p] = inFlight \cup Sending(waiting)]
  /\ pending' = [pending EXCEPT ![p] = {}]
Flush(p, waiting, inFlight) ==
  /\ puts' = [puts EXCEPT ![p] = IF inFlight = {} THEN Sending(waiting) ELSE inFlight]
  /\ pending' = [pending EXCEPT ![p] = IF inFlight = {} THEN {} ELSE waiting]

\* persist: the newest layout replaces the one that waits.
Edit(p) ==
  LET l == edits + 1
  IN  /\ l \in Layout
      /\ edits' = l
      /\ shown' = [shown EXCEPT ![p] = l]
      /\ mine' = [mine EXCEPT ![p] = @ \cup {l}]
      /\ serial' = [serial EXCEPT ![p] = @ + 1]
      /\ Flush(p, {l}, puts[p])
      /\ UNCHANGED <<daemon, gets, strays, fails, lost>>

\* handlePutLayout: SetLayout, then the broadcast, then the answer.
SetLayout(l) ==
  /\ commits' = Append(commits, l)
  /\ owed' = owed + 1

StorePut(p, w) ==
  /\ w.at = "sent"
  /\ puts' = [puts EXCEPT ![p] = (@ \ {w}) \cup {[w EXCEPT !.at = "stored"]}]
  /\ SetLayout(w.layout)
  /\ UNCHANGED <<told, shown, serial, pending, gets, strays, edits, fails, mine, lost>>

StoreStray(l) ==
  /\ strays' = strays \ {l}
  /\ SetLayout(l)
  /\ UNCHANGED <<told, page, edits, fails, mine, lost>>

Broadcast ==
  /\ owed > 0
  /\ owed' = owed - 1
  /\ told' = Page
  /\ UNCHANGED <<commits, page, strays, edits, fails, mine, lost>>

PutAnswered(p, w) ==
  /\ w.at = "stored"
  /\ Flush(p, pending[p], puts[p] \ {w})
  /\ UNCHANGED <<daemon, shown, serial, gets, strays, edits, fails, mine, lost>>

\* The page swallows the error and goes on with what waits; a request that did
\* not reach the daemon so far may still do.
PutFails(p, w) ==
  /\ fails < MaxFails
  /\ fails' = fails + 1
  /\ IF w.at = "stored" THEN UNCHANGED <<lost, strays>>
     ELSE /\ lost' = lost \cup {w.layout}
          /\ strays' \in {strays, strays \cup {w.layout}}
  /\ Flush(p, pending[p], puts[p] \ {w})
  /\ UNCHANGED <<daemon, shown, serial, gets, edits, mine>>

----------------------------------------------------------------------------
(* Fetches *)

\* refreshLayout, up to the request.
Ask(p) ==
  /\ Cardinality(UNION {{q} \X gets[q] : q \in Page}) < MaxGets
  /\ gets' = [gets EXCEPT ![p] = @ \cup {[serial |-> serial[p], writing |-> Writing(p),
                                         at |-> "sent", layout |-> 0]}]

\* onServerEvent: layout_changed and hello.
Receive(p) ==
  /\ p \in told
  /\ told' = told \ {p}
  /\ Ask(p)
  /\ UNCHANGED <<commits, owed, shown, serial, pending, puts, strays, edits, fails, mine, lost>>

\* The user comes back to the tab.
Resync(p) ==
  /\ Ask(p)
  /\ UNCHANGED <<daemon, shown, serial, pending, puts, strays, edits, fails, mine, lost>>

\* handleGetLayout.
ServeGet(p, g) ==
  /\ g.at = "sent"
  /\ gets' = [gets EXCEPT ![p] = (@ \ {g}) \cup {[g EXCEPT !.at = "answered", !.layout = Saved]}]
  /\ UNCHANGED <<daemon, shown, serial, pending, puts, strays, edits, fails, mine, lost>>

\* An answer that may predate a local edit is dropped.
Outdated_SerialOnly(p, g) == g.serial # serial[p]
Outdated(p, g) == g.writing \/ Writing(p) \/ g.serial # serial[p]

\* "{}", no layout stored yet, is not adopted either.
LandGet(p, g) ==
  /\ g.at = "answered"
  /\ gets' = [gets EXCEPT ![p] = @ \ {g}]
  /\ shown' = IF Outdated(p, g) \/ g.layout = 0 THEN shown
              ELSE [shown EXCEPT ![p] = g.layout]
  /\ UNCHANGED <<daemon, serial, pending, puts, strays, edits, fails, mine, lost>>

GetFails(p, g) ==
  /\ fails < MaxFails
  /\ fails' = fails + 1
  /\ gets' = [gets EXCEPT ![p] = @ \ {g}]
  /\ UNCHANGED <<daemon, shown, serial, pending, puts, strays, edits, mine, lost>>

----------------------------------------------------------------------------

Next ==
  \/ Broadcast
  \/ \E l \in strays : StoreStray(l)
  \/ \E p \in Page : Edit(p) \/ Receive(p) \/ Resync(p)
  \/ \E p \in Page : \E w \in puts[p] : StorePut(p, w) \/ PutAnswered(p, w) \/ PutFails(p, w)
  \/ \E p \in Page : \E g \in gets[p] : ServeGet(p, g) \/ LandGet(p, g) \/ GetFails(p, g)

Spec == Init /\ [][Next]_vars

\* Requests are answered and events arrive.
Fairness ==
  /\ WF_vars(Broadcast)
  /\ \A p \in Page :
       /\ SF_vars(Receive(p))
       /\ WF_vars(\E w \in puts[p] : StorePut(p, w)) /\ WF_vars(\E w \in puts[p] : PutAnswered(p, w))
       /\ WF_vars(\E g \in gets[p] : ServeGet(p, g)) /\ WF_vars(\E g \in gets[p] : LandGet(p, g))

FairSpec == Spec /\ Fairness

----------------------------------------------------------------------------
(* Properties *)

\* When a layout was stored, in the order of the SetLayout calls; a page's last edit.
StoredAt(l) == {n \in 1 .. Len(commits) : commits[n] = l}
LastEdit(p) == Max({0} \cup mine[p])

\* "Adopting it would undo the edit on screen": a fetched layout that a page takes
\* over was stored no earlier than the page's own last edit, whatever the order in
\* which fetches, writes and their answers meet (unless that edit's PUT failed).
NoEditUndone ==
  [][\A p \in Page :
       shown'[p] # shown[p] /\ mine'[p] = mine[p] /\ LastEdit(p) \notin {0} \cup lost
         => \E n \in StoredAt(LastEdit(p)), m \in StoredAt(shown'[p]) : n <= m]_vars

\* "The newest layout is always the last one persisted": a page's layouts are
\* stored in the order it made them, unless their PUTs failed, and once it has no write under way its last
\* edit has been stored, unless the PUT failed.
NewestPersistedLast ==
  \A p \in Page :
    /\ \A n, m \in 1 .. Len(commits) :
         n < m /\ {commits[n], commits[m]} \subseteq mine[p] \ lost => commits[n] < commits[m]
    /\ ~Writing(p) /\ mine[p] # {} => LastEdit(p) \in ToSet(commits) \cup lost

\* "Our own PUT's layout_changed broadcast brings a fresh fetch afterwards"
\* (GridPage.tsx:349): so dropping an answer leaves no page behind, and once nobody
\* edits any more every page shows the layout the daemon has.
PagesAgree == <>[](\A p \in Page : Saved = 0 \/ shown[p] = Saved)
=============================================================================
