-------------------------- MODULE LayoutSyncProofs --------------------------
(***************************************************************************)
(* A page's layouts are stored in the order it made them, the last one     *)
(* last, and no fetch undoes an edit: for every number of pages, edits and *)
(* failures, and every number of fetches a page has out.                   *)
(***************************************************************************)
EXTENDS LayoutSync, FiniteSetTheorems, TLAPS

Sole(S) == S = {} \/ \E x \in S : S = {x}

Shape ==
  /\ commits \in Seq(Layout) /\ owed \in Nat /\ told \in SUBSET Page
  /\ shown \in [Page -> Layout] /\ serial \in [Page -> 0 .. MaxEdits]
  /\ pending \in [Page -> SUBSET Layout] /\ puts \in [Page -> SUBSET Put]
  /\ gets \in [Page -> SUBSET Get]
  /\ strays \in SUBSET Layout /\ edits \in 0 .. MaxEdits /\ fails \in 0 .. MaxFails
  /\ mine \in [Page -> SUBSET Layout] /\ lost \in SUBSET Layout
  /\ \A p \in Page : Sole(puts[p]) /\ Sole(pending[p]) /\ (puts[p] = {} => pending[p] = {})

\* A layout is one edit of one page; what is written was edited before.
Numbered ==
  /\ \A p \in Page : serial[p] <= edits /\ mine[p] \subseteq 1 .. edits
  /\ \A p, q \in Page : p # q => mine[p] \cap mine[q] = {}
  /\ \A p \in Page : pending[p] \subseteq mine[p] /\ \A w \in puts[p] : w.layout \in mine[p]
  /\ strays \subseteq lost /\ lost \subseteq 1 .. edits
  /\ \A n \in 1 .. Len(commits) : commits[n] \in 1 .. edits

\* What is stored, what is in flight and what waits are in the page's order.
Stored(l) == \E n \in 1 .. Len(commits) : commits[n] = l
Kept(p) == mine[p] \ lost
Ordered(p) ==
  /\ \A n, m \in 1 .. Len(commits) :
       n < m /\ commits[n] \in Kept(p) /\ commits[m] \in Kept(p) => commits[n] < commits[m]
  /\ \A w \in puts[p] :
       /\ w.layout \notin lost
       /\ \A n \in 1 .. Len(commits) : commits[n] \in Kept(p) => commits[n] <= w.layout
       /\ w.at = "sent" => ~Stored(w.layout)
       /\ w.at = "stored" => Stored(w.layout)
       /\ \A l \in pending[p] : w.layout < l
  /\ \A l \in pending[p] : l \notin lost /\ ~Stored(l)

\* A page's last edit waits, or else is in flight, or else was stored or lost.
Newest(p, l) == l \in mine[p] /\ \A k \in mine[p] : k <= l
Placed(p, l) ==
  IF pending[p] # {} THEN l \in pending[p]
  ELSE IF puts[p] # {} THEN \E w \in puts[p] : w.layout = l
  ELSE l \in lost \/ Stored(l)
Heading(p) == mine[p] # {} => \E l \in mine[p] : Newest(p, l) /\ Placed(p, l)

\* A fetch that will be adopted found the page's last edit stored before its answer.
StoredBefore(l, k) ==
  \E n, m \in 1 .. Len(commits) : n <= m /\ commits[n] = l /\ commits[m] = k
Fetched(p, g) ==
  /\ g.serial <= serial[p]
  /\ ~g.writing /\ g.serial = serial[p] =>
       /\ ~Writing(p)
       /\ g.at = "answered" /\ g.layout # 0 =>
            \A l \in mine[p] : Newest(p, l) => l \in lost \/ StoredBefore(l, g.layout)
Fetches == \A p \in Page : \A g \in gets[p] : Fetched(p, g)

IInv ==
  /\ Shape /\ Numbered
  /\ \A p \in Page : Ordered(p) /\ Heading(p)
  /\ Fetches

----------------------------------------------------------------------------
(* The initial state *)

LEMMA InitIInv == ASSUME Init PROVE IInv
<1> USE LayoutSyncAssumption DEF Init
<1>1. Shape
  BY DEF Shape, Sole, Layout, Put, Get
<1>2. Numbered
  BY DEF Numbered
<1>3. ASSUME NEW p \in Page PROVE Ordered(p) /\ Heading(p)
  BY DEF Ordered, Heading, Stored
<1>4. Fetches
  BY DEF Fetches
<1> QED
  BY <1>1, <1>2, <1>3, <1>4 DEF IInv

----------------------------------------------------------------------------
(* Steps that write nothing *)

written == <<commits, serial, pending, puts, strays, edits, mine, lost>>

LEMMA Untouched ==
  ASSUME IInv, UNCHANGED written
  PROVE  Numbered' /\ (\A p \in Page : (Ordered(p) /\ Heading(p))')
<1> USE DEF IInv, written
<1>1. Numbered'
  BY DEF Numbered
<1>2. ASSUME NEW p \in Page PROVE (Ordered(p) /\ Heading(p))'
  <2>1. \A l : Stored(l)' <=> Stored(l)
    BY DEF Stored
  <2>2. Kept(p)' = Kept(p)
    BY DEF Kept
  <2>3. Ordered(p)'
    BY <2>1, <2>2 DEF Ordered
  <2>4. Heading(p)'
    BY <2>1 DEF Heading, Newest, Placed
  <2> QED
    BY <2>3, <2>4
<1> QED
  BY <1>1, <1>2

LEMMA FetchedKept ==
  ASSUME UNCHANGED written, NEW p \in Page, NEW g, Fetched(p, g)
  PROVE  Fetched(p, g)'
BY DEF Fetched, written, Writing, Newest, StoredBefore

LEMMA BroadcastStep == ASSUME IInv, Broadcast PROVE IInv'
<1> USE DEF IInv, Broadcast, page
<1>1. Shape'
  BY DEF Shape
<1>2. UNCHANGED written
  BY DEF written
<1>3. Fetches'
  BY <1>2, FetchedKept DEF Fetches
<1> QED
  BY <1>1, <1>2, <1>3, Untouched

\* A fetch begins: the page is writing, or its last edit is stored or lost already.
LEMMA AskStep ==
  ASSUME IInv, NEW p \in Page, Receive(p) \/ Resync(p)
  PROVE  IInv'
<1> USE DEF IInv, daemon
<1>0. PICK new : new = [serial |-> serial[p], writing |-> Writing(p), at |-> "sent", layout |-> 0]
  OBVIOUS
<1>1. /\ gets' = [gets EXCEPT ![p] = @ \cup {new}]
      /\ UNCHANGED <<shown, fails, owed>> /\ told' \in SUBSET Page
  BY <1>0 DEF Receive, Resync, Ask, Shape
<1>2. UNCHANGED written
  BY DEF Receive, Resync, written
<1>3. new \in Get
  <2>1. serial[p] \in Nat /\ 0 \in Layout /\ Writing(p) \in BOOLEAN
    BY LayoutSyncAssumption DEF Shape, Layout, Writing
  <2> QED
    BY <1>0, <2>1 DEF Get
<1>4. Shape'
  BY <1>1, <1>2, <1>3 DEF Shape, written
<1>5. Fetched(p, new)'
  <2>1. /\ new.serial = serial[p] /\ new.writing = Writing(p) /\ new.at = "sent"
        /\ serial[p] <= serial[p]
    BY <1>0, LayoutSyncAssumption DEF Shape
  <2>2. new.at # "answered"
    BY <2>1
  <2>3. Fetched(p, new)
    BY <2>1, <2>2 DEF Fetched
  <2> QED
    BY <1>2, <2>3, FetchedKept
<1>6. Fetches'
  <2> SUFFICES ASSUME NEW q \in Page, NEW g \in gets'[q] PROVE Fetched(q, g)'
    BY DEF Fetches
  <2>1. CASE g \in gets[q]
    BY <2>1, <1>2, FetchedKept DEF Fetches
  <2>2. CASE g \notin gets[q]
    BY <2>2, <1>1, <1>5 DEF Shape
  <2> QED
    BY <2>1, <2>2
<1> QED
  BY <1>2, <1>4, <1>6, Untouched

\* The answer comes after everything that is stored.
LEMMA ServeGetStep ==
  ASSUME IInv, NEW p \in Page, NEW g \in gets[p], ServeGet(p, g)
  PROVE  IInv'
<1> USE DEF IInv, ServeGet, daemon
<1> DEFINE done == [g EXCEPT !.at = "answered", !.layout = Saved]
<1>1. gets' = [gets EXCEPT ![p] = (@ \ {g}) \cup {done}]
  OBVIOUS
<1>2. UNCHANGED written
  BY DEF written
<1>3. g \in Get
  BY DEF Shape
<1>4. Saved \in Layout
  <2>1. commits \in Seq(Layout)
    BY DEF Shape
  <2>2. commits # <<>> => commits[Len(commits)] \in Layout
    BY <2>1
  <2>3. 0 \in Layout
    BY LayoutSyncAssumption DEF Layout
  <2> QED
    BY <2>2, <2>3 DEF Saved, Last
<1>5. done \in Get
  BY <1>3, <1>4 DEF Get
<1>6. Shape'
  BY <1>1, <1>5 DEF Shape
<1>7. /\ done.serial = g.serial /\ done.writing = g.writing
      /\ done.at = "answered" /\ done.layout = Saved
  BY <1>3 DEF Get
<1>8. Fetched(p, done)
  <2>1. Fetched(p, g)
    BY DEF Fetches
  <2>2. ASSUME ~done.writing, done.serial = serial[p], done.layout # 0,
               NEW l \in mine[p], Newest(p, l)
        PROVE  l \in lost \/ StoredBefore(l, done.layout)
    <3>1. ~Writing(p)
      BY <2>1, <2>2, <1>7 DEF Fetched
    <3>2. PICK k \in mine[p] : Newest(p, k) /\ Placed(p, k)
      BY DEF Heading
    <3>3. k = l
      BY <3>2, <2>2 DEF Newest, Shape, Layout
    <3>4. l \in lost \/ Stored(l)
      BY <3>1, <3>2, <3>3 DEF Placed, Writing
    <3>5. CASE Stored(l)
      <4>1. PICK n \in 1 .. Len(commits) : commits[n] = l
        BY <3>5 DEF Stored
      <4>2. Len(commits) \in Nat /\ commits # <<>>
        BY <4>1 DEF Shape
      <4>3. done.layout = commits[Len(commits)]
        BY <1>7, <4>2 DEF Saved, Last
      <4>4. Len(commits) \in 1 .. Len(commits) /\ n <= Len(commits)
        BY <4>1, <4>2
      <4> QED
        BY <4>1, <4>3, <4>4 DEF StoredBefore
    <3> QED
      BY <3>4, <3>5
  <2>3. done.serial <= serial[p]
    BY <2>1, <1>7 DEF Fetched
  <2>4. ~done.writing /\ done.serial = serial[p] => ~Writing(p)
    BY <2>1, <1>7 DEF Fetched
  <2> HIDE DEF done
  <2> QED
    BY <2>2, <2>3, <2>4 DEF Fetched
<1>9. Fetches'
  <2> SUFFICES ASSUME NEW q \in Page, NEW h \in gets'[q] PROVE Fetched(q, h)'
    BY DEF Fetches
  <2>1. CASE h \in gets[q]
    BY <2>1, <1>2, FetchedKept DEF Fetches
  <2>2. CASE h \notin gets[q]
    <3>1. q = p /\ h = done
      BY <2>2, <1>1 DEF Shape
    <3> QED
      BY <3>1, <1>2, <1>8, FetchedKept
  <2> QED
    BY <2>1, <2>2
<1> QED
  BY <1>2, <1>6, <1>9, Untouched

LEMMA GetEndsStep ==
  ASSUME IInv, NEW p \in Page, NEW g \in gets[p], LandGet(p, g) \/ GetFails(p, g)
  PROVE  IInv'
<1> USE DEF IInv, LandGet, GetFails, daemon
<1>1. UNCHANGED written
  BY DEF written
<1>2. gets' = [gets EXCEPT ![p] = @ \ {g}]
  OBVIOUS
<1>3. g \in Get
  BY DEF Shape
<1>4. Shape'
  <2>1. shown' \in [Page -> Layout]
    BY <1>3 DEF Shape, Get
  <2>2. fails' \in 0 .. MaxFails
    BY LayoutSyncAssumption DEF Shape
  <2>3. gets' \in [Page -> SUBSET Get]
    BY <1>2 DEF Shape
  <2> QED
    BY <1>1, <2>1, <2>2, <2>3 DEF Shape, written
<1>5. Fetches'
  <2>1. \A q \in Page : gets'[q] \subseteq gets[q]
    BY <1>2 DEF Shape
  <2> QED
    BY <1>1, <2>1, FetchedKept DEF Fetches
<1> QED
  BY <1>1, <1>4, <1>5, Untouched

----------------------------------------------------------------------------
(* Steps of another page's write *)

\* A page is untouched by another's edits and failures: their layouts are not its own.
LEMMA OtherPage ==
  ASSUME IInv, NEW q \in Page, commits' = commits,
         mine'[q] = mine[q], puts'[q] = puts[q], pending'[q] = pending[q], serial'[q] = serial[q],
         lost \subseteq lost', lost' \cap mine[q] \subseteq lost
  PROVE  (Ordered(q) /\ Heading(q))' /\ \A g : Fetched(q, g) => Fetched(q, g)'
<1> USE DEF IInv
<1>1. \A l : Stored(l)' <=> Stored(l)
  BY DEF Stored
<1>2. Kept(q)' = Kept(q)
  BY DEF Kept
<1>3. /\ \A w \in puts[q] : w.layout \notin lost'
      /\ \A l \in pending[q] : l \notin lost'
  BY DEF Ordered, Numbered
<1>4. Ordered(q)'
  BY <1>1, <1>2, <1>3 DEF Ordered
<1>5. Heading(q)'
  BY <1>1 DEF Heading, Newest, Placed
<1>6. \A l, k : StoredBefore(l, k)' <=> StoredBefore(l, k)
  BY DEF StoredBefore
<1>7. ASSUME NEW g, Fetched(q, g) PROVE Fetched(q, g)'
  BY <1>6, <1>7 DEF Fetched, Writing, Newest
<1> QED
  BY <1>4, <1>5, <1>7

LEMMA Committed ==
  ASSUME Shape, NEW l \in Layout, SetLayout(l)
  PROVE  /\ commits' \in Seq(Layout) /\ Len(commits) \in Nat
         /\ Len(commits') = Len(commits) + 1 /\ commits'[Len(commits) + 1] = l
         /\ \A n \in 1 .. Len(commits) : commits'[n] = commits[n]
BY DEF Shape, SetLayout

LEMMA CommittedIsStored ==
  ASSUME Shape, NEW l \in Layout, SetLayout(l)
  PROVE  /\ \A k : Stored(k)' <=> Stored(k) \/ k = l
         /\ \A k, j : StoredBefore(k, j) => StoredBefore(k, j)'
<1>1. \A n \in 1 .. Len(commits') : n \in 1 .. Len(commits) \/ n = Len(commits) + 1
  BY Committed
<1>2. /\ 1 .. Len(commits) \subseteq 1 .. Len(commits')
      /\ Len(commits) + 1 \in 1 .. Len(commits')
  BY Committed
<1>3. \A k : Stored(k)' <=> Stored(k) \/ k = l
  BY <1>1, <1>2, Committed DEF Stored
<1>4. \A k, j : StoredBefore(k, j) => StoredBefore(k, j)'
  BY <1>2, Committed DEF StoredBefore
<1> QED
  BY <1>3, <1>4

\* A page whose own layout is not the one stored now, or is one it gave up on.
LEMMA CommitOfOther ==
  ASSUME IInv, NEW q \in Page, NEW l \in Layout, SetLayout(l),
         l \notin Kept(q),
         UNCHANGED <<mine, pending, lost, serial>>, puts'[q] = puts[q]
  PROVE  (Ordered(q) /\ Heading(q))' /\ \A g : Fetched(q, g) => Fetched(q, g)'
<1> USE DEF IInv
<1>1. Kept(q)' = Kept(q)
  BY DEF Kept
<1>2. /\ \A w \in puts[q] : w.layout # l
      /\ \A k \in pending[q] : k # l
  BY DEF Kept, Numbered, Ordered
<1>3. \A n \in 1 .. Len(commits') :
        commits'[n] \in Kept(q) => n \in 1 .. Len(commits) /\ commits'[n] = commits[n]
  BY Committed
<1>4. Ordered(q)'
  <2>1. \A n, m \in 1 .. Len(commits') :
          n < m /\ commits'[n] \in Kept(q) /\ commits'[m] \in Kept(q) => commits'[n] < commits'[m]
    BY <1>3 DEF Ordered
  <2>2. ASSUME NEW w \in puts[q]
        PROVE  /\ w.layout \notin lost /\ \A k \in pending[q] : w.layout < k
               /\ \A n \in 1 .. Len(commits') : commits'[n] \in Kept(q) => commits'[n] <= w.layout
               /\ w.at = "sent" => ~Stored(w.layout)'
               /\ w.at = "stored" => Stored(w.layout)'
    BY <1>2, <1>3, CommittedIsStored DEF Ordered
  <2>3. \A k \in pending[q] : k \notin lost /\ ~Stored(k)'
    BY <1>2, CommittedIsStored DEF Ordered
  <2> QED
    BY <1>1, <2>1, <2>2, <2>3 DEF Ordered
<1>5. Heading(q)'
  BY CommittedIsStored DEF Heading, Newest, Placed
<1>6. ASSUME NEW g, Fetched(q, g) PROVE Fetched(q, g)'
  BY <1>6, CommittedIsStored DEF Fetched, Writing, Newest
<1> QED
  BY <1>4, <1>5, <1>6

LEMMA NumberedAfterCommit ==
  ASSUME Shape, Numbered, NEW l \in 1 .. edits, l \in Layout, SetLayout(l)
  PROVE  \A n \in 1 .. Len(commits') : commits'[n] \in 1 .. edits
<1>1. \A n \in 1 .. Len(commits') : n \in 1 .. Len(commits) \/ n = Len(commits) + 1
  BY Committed
<1> QED
  BY <1>1, Committed DEF Numbered

LEMMA StoreStrayStep == ASSUME IInv, NEW l \in strays, StoreStray(l) PROVE IInv'
<1> USE DEF IInv, StoreStray, page
<1>1. l \in Layout /\ l \in lost /\ l \in 1 .. edits
  BY DEF Shape, Numbered
<1>2. Shape'
  BY <1>1, Committed DEF Shape, SetLayout
<1>3. Numbered'
  BY <1>1, NumberedAfterCommit DEF Numbered
<1>4. ASSUME NEW q \in Page
      PROVE  (Ordered(q) /\ Heading(q))' /\ \A g : Fetched(q, g) => Fetched(q, g)'
  BY <1>1, CommitOfOther DEF Kept
<1>5. Fetches'
  BY <1>4 DEF Fetches
<1> QED
  BY <1>2, <1>3, <1>4, <1>5

----------------------------------------------------------------------------
(* Steps of a page's own write *)

\* A page has one write in flight.
LEMMA OnePut ==
  ASSUME Shape, NEW p \in Page, NEW w \in puts[p]
  PROVE  puts[p] = {w} /\ w \in Put
BY DEF Shape, Sole

LEMMA StorePutStep ==
  ASSUME IInv, NEW p \in Page, NEW w \in puts[p], StorePut(p, w)
  PROVE  IInv'
<1> USE DEF IInv, StorePut
<1>1. PICK done : done = [w EXCEPT !.at = "stored"]
  OBVIOUS
<1>2. done \in Put /\ done.layout = w.layout /\ done.at = "stored"
  BY <1>1, OnePut DEF Put
<1>3. puts' = [puts EXCEPT ![p] = {done}]
  BY <1>1, OnePut
<1>4. w.layout \in Layout /\ w.layout \in mine[p] /\ w.layout \in 1 .. edits
  BY OnePut DEF Put, Numbered
<1>5. Shape'
  <2>1. puts' \in [Page -> SUBSET Put]
    <3>1. puts \in [Page -> SUBSET Put] /\ {done} \in SUBSET Put
      BY <1>2 DEF Shape
    <3> QED
      BY <1>3, <3>1
  <2>2. ASSUME NEW q \in Page PROVE Sole(puts'[q]) /\ (puts'[q] = {} => pending[q] = {})
    <3>1. CASE q = p
      BY <1>3, <3>1 DEF Shape, Sole
    <3>2. CASE q # p
      BY <1>3, <3>2 DEF Shape
    <3> QED
      BY <3>1, <3>2
  <2>3. commits' \in Seq(Layout)
    BY <1>4, Committed
  <2>4. owed' \in Nat
    BY DEF Shape, SetLayout
  <2> QED
    BY <2>1, <2>2, <2>3, <2>4 DEF Shape
<1>6. Numbered'
  <2>1. \A q \in Page : \A v \in puts'[q] : v.layout \in mine[q]
    BY <1>2, <1>3, <1>4 DEF Shape, Numbered
  <2> QED
    BY <1>4, <2>1, NumberedAfterCommit DEF Numbered
<1>7. ASSUME NEW q \in Page, q # p
      PROVE  (Ordered(q) /\ Heading(q))' /\ \A g : Fetched(q, g) => Fetched(q, g)'
  <2>1. w.layout \notin Kept(q)
    BY <1>4, <1>7 DEF Kept, Numbered
  <2>2. puts'[q] = puts[q]
    BY <1>3, <1>7 DEF Shape
  <2> QED
    BY <1>4, <1>7, <2>1, <2>2, CommitOfOther
<1>8. Ordered(p)'
  <2>1. Kept(p)' = Kept(p) /\ puts'[p] = {done} /\ pending'[p] = pending[p]
    BY <1>3 DEF Kept, Shape
  <2>2. /\ w.layout \notin lost /\ ~Stored(w.layout)
        /\ \A n \in 1 .. Len(commits) : commits[n] \in Kept(p) => commits[n] <= w.layout
        /\ \A l \in pending[p] : w.layout < l
    BY DEF Ordered
  <2>3. \A n \in 1 .. Len(commits) : commits[n] \in Kept(p) => commits[n] < w.layout
    <3>1. \A n \in 1 .. Len(commits) : commits[n] # w.layout
      BY <2>2 DEF Stored
    <3>2. Kept(p) \subseteq Nat /\ w.layout \in Nat
      BY <1>4 DEF Shape, Kept, Layout
    <3> QED
      BY <2>2, <3>1, <3>2
  <2>4. \A n \in 1 .. Len(commits') :
          \/ n \in 1 .. Len(commits) /\ commits'[n] = commits[n]
          \/ n = Len(commits) + 1 /\ commits'[n] = w.layout
    BY <1>4, Committed
  <2>5. \A n, m \in 1 .. Len(commits') :
          n < m /\ commits'[n] \in Kept(p) /\ commits'[m] \in Kept(p) => commits'[n] < commits'[m]
    BY <1>4, <2>3, <2>4, Committed DEF Ordered
  <2>6. \A n \in 1 .. Len(commits') : commits'[n] \in Kept(p) => commits'[n] <= w.layout
    BY <1>4, <2>2, <2>4 DEF Layout
  <2>7. \A k : Stored(k)' <=> Stored(k) \/ k = w.layout
    BY <1>4, CommittedIsStored
  <2>8. \A l \in pending[p] : l \notin lost /\ ~Stored(l)'
    <3>1. \A l \in pending[p] : l # w.layout
      BY <1>4, <2>2 DEF Shape, Layout
    <3> QED
      BY <2>7, <3>1 DEF Ordered
  <2> QED
    BY <1>2, <2>1, <2>2, <2>5, <2>6, <2>7, <2>8 DEF Ordered
<1>9. Heading(p)'
  <2>1. puts[p] = {w} /\ puts'[p] = {done}
    BY <1>3, OnePut DEF Shape
  <2>2. \A l : Placed(p, l) => Placed(p, l)'
    BY <1>2, <2>1 DEF Placed
  <2> QED
    BY <2>2 DEF Heading, Newest
<1>10. \A g : Fetched(p, g) => Fetched(p, g)'
  <2>1. puts[p] # {} /\ puts'[p] # {}
    BY <1>3 DEF Shape
  <2> QED
    BY <2>1 DEF Fetched, Writing
<1>11. Fetches'
  BY <1>7, <1>10 DEF Fetches
<1> QED
  BY <1>5, <1>6, <1>7, <1>8, <1>9, <1>11

\* The new layout is in flight, or waits behind the one that is.
LEMMA EditStep == ASSUME IInv, NEW p \in Page, Edit(p) PROVE IInv'
<1> USE LayoutSyncAssumption DEF IInv, Edit, daemon
<1>1. PICK l : l = edits + 1
  OBVIOUS
<1>2. /\ l \in Layout /\ edits' = l /\ l \in Nat /\ edits \in Nat /\ edits < l
      /\ l \notin lost /\ ~Stored(l) /\ \A q \in Page : l \notin mine[q]
      /\ \A q \in Page : \A k \in mine[q] : k < l
  BY <1>1 DEF Shape, Numbered, Stored, Layout
<1>3. mine' = [mine EXCEPT ![p] = @ \cup {l}] /\ serial' = [serial EXCEPT ![p] = @ + 1]
  BY <1>1
<1>4. PICK new : new = [layout |-> l, at |-> "sent"]
  OBVIOUS
<1>5. new \in Put /\ new.layout = l /\ new.at = "sent" /\ Sending({l}) = {new}
  BY <1>2, <1>4 DEF Put, Sending
<1>6. \/ puts[p] = {} /\ puts' = [puts EXCEPT ![p] = {new}] /\ pending' = [pending EXCEPT ![p] = {}]
      \/ puts[p] # {} /\ puts' = puts /\ pending' = [pending EXCEPT ![p] = {l}]
  <2>1. /\ puts' = [puts EXCEPT ![p] = IF puts[p] = {} THEN {new} ELSE puts[p]]
        /\ pending' = [pending EXCEPT ![p] = IF puts[p] = {} THEN {} ELSE {l}]
    BY <1>1, <1>5 DEF Flush
  <2> QED
    BY <2>1 DEF Shape
<1>7. Shape'
  <2>1. shown' \in [Page -> Layout] /\ mine' \in [Page -> SUBSET Layout] /\ edits' \in 0 .. MaxEdits
    BY <1>1, <1>2, <1>3 DEF Shape, Layout
  <2>2. serial' \in [Page -> 0 .. MaxEdits]
    BY <1>1, <1>2, <1>3 DEF Shape, Numbered, Layout
  <2>3. puts' \in [Page -> SUBSET Put]
    BY <1>5, <1>6 DEF Shape
  <2>5. pending' \in [Page -> SUBSET Layout]
    <3>1. {} \in SUBSET Layout /\ {l} \in SUBSET Layout
      BY <1>2
    <3>2. pending \in [Page -> SUBSET Layout]
      BY DEF Shape
    <3> QED
      BY <1>6, <3>1, <3>2
  <2>4. \A q \in Page : Sole(puts'[q]) /\ Sole(pending'[q]) /\ (puts'[q] = {} => pending'[q] = {})
    BY <1>6 DEF Shape, Sole
  <2> QED
    BY <2>1, <2>2, <2>3, <2>4, <2>5 DEF Shape
<1>8. Numbered'
  <2>1. \A q \in Page : serial'[q] <= edits' /\ mine'[q] \subseteq 1 .. edits'
    <3>1. l \in 1 .. edits' /\ 1 .. edits \subseteq 1 .. edits'
      BY <1>1, <1>2
    <3> QED
      BY <1>1, <1>2, <1>3, <3>1 DEF Shape, Numbered
  <2>2. \A q, r \in Page : q # r => mine'[q] \cap mine'[r] = {}
    BY <1>2, <1>3 DEF Shape, Numbered
  <2>3. \A q \in Page : pending'[q] \subseteq mine'[q] /\ \A w \in puts'[q] : w.layout \in mine'[q]
    BY <1>3, <1>5, <1>6 DEF Shape, Numbered
  <2>4. \A n \in 1 .. Len(commits) : commits[n] \in 1 .. edits'
    BY <1>1, <1>2 DEF Numbered
  <2>5. lost \subseteq 1 .. edits'
    BY <1>1, <1>2 DEF Numbered
  <2> QED
    BY <2>1, <2>2, <2>3, <2>4, <2>5 DEF Numbered
<1>9. ASSUME NEW q \in Page, q # p
      PROVE  (Ordered(q) /\ Heading(q))' /\ \A g : Fetched(q, g) => Fetched(q, g)'
  <2>1. mine'[q] = mine[q] /\ puts'[q] = puts[q] /\ pending'[q] = pending[q] /\ serial'[q] = serial[q]
    BY <1>3, <1>6, <1>9 DEF Shape
  <2> QED
    BY <1>9, <2>1, OtherPage
<1>10. /\ mine'[p] = mine[p] \cup {l} /\ serial'[p] = serial[p] + 1
       /\ \/ puts[p] = {} /\ pending[p] = {} /\ puts'[p] = {new} /\ pending'[p] = {}
          \/ puts[p] # {} /\ puts'[p] = puts[p] /\ pending'[p] = {l}
  BY <1>3, <1>6 DEF Shape
<1>11. Ordered(p)'
  <2>1. \A n \in 1 .. Len(commits) : commits[n] \in Kept(p)' => commits[n] \in Kept(p) /\ commits[n] < l
    BY <1>2, <1>10 DEF Kept, Stored
  <2>2. \A n, m \in 1 .. Len(commits) :
          n < m /\ commits[n] \in Kept(p)' /\ commits[m] \in Kept(p)' => commits[n] < commits[m]
    BY <2>1 DEF Ordered
  <2>3. Kept(p) \subseteq Nat
    BY DEF Kept, Shape, Layout
  <2>4. \A k : Stored(k)' <=> Stored(k)
    BY DEF Stored
  <2>5. CASE puts[p] = {}
    BY <1>2, <1>5, <1>10, <2>1, <2>2, <2>3, <2>4, <2>5 DEF Ordered
  <2>6. CASE puts[p] # {}
    <3>1. ASSUME NEW w \in puts[p]
          PROVE  /\ w.layout \notin lost /\ w.layout < l
                 /\ \A n \in 1 .. Len(commits) : commits[n] \in Kept(p)' => commits[n] <= w.layout
                 /\ w.at = "sent" => ~Stored(w.layout)
                 /\ w.at = "stored" => Stored(w.layout)
      BY <1>2, <2>1 DEF Ordered, Numbered
    <3> QED
      BY <1>2, <1>10, <2>2, <2>4, <2>6, <3>1 DEF Ordered
  <2> QED
    BY <2>5, <2>6
<1>12. Heading(p)'
  <2>1. Newest(p, l)'
    BY <1>2, <1>10 DEF Newest, Shape, Layout
  <2>2. Placed(p, l)'
    BY <1>5, <1>10 DEF Placed
  <2> QED
    BY <2>1, <2>2, <1>10 DEF Heading
<1>13. \A g \in gets[p] : Fetched(p, g)'
  <2>1. \A g \in gets[p] : g.serial \in Nat /\ g.serial <= serial[p] /\ serial[p] \in Nat
    BY DEF Fetches, Fetched, Shape, Get
  <2>2. \A g \in gets[p] : g.serial <= serial'[p] /\ g.serial # serial'[p]
    BY <1>10, <2>1
  <2> QED
    BY <2>2 DEF Fetched
<1>14. Fetches'
  BY <1>9, <1>13 DEF Fetches
<1> QED
  BY <1>7, <1>8, <1>9, <1>11, <1>12, <1>14

\* A write ends: the layout that waits, if any, is sent.
LEMMA PutEndsStep ==
  ASSUME IInv, NEW p \in Page, NEW w \in puts[p], PutAnswered(p, w) \/ PutFails(p, w)
  PROVE  IInv'
<1> USE LayoutSyncAssumption DEF IInv, daemon
<1>1. /\ UNCHANGED <<commits, owed, told, shown, serial, gets, edits, mine>>
      /\ Flush(p, pending[p], puts[p] \ {w})
  BY DEF PutAnswered, PutFails
<1>2. puts[p] \ {w} = {} /\ w \in Put
  BY OnePut
<1>3. /\ puts' = [puts EXCEPT ![p] = Sending(pending[p])]
      /\ pending' = [pending EXCEPT ![p] = {}]
  BY <1>1, <1>2 DEF Flush
<1>4. /\ lost \subseteq lost' /\ lost' \subseteq lost \cup {w.layout}
      /\ w.at = "sent" => w.layout \in lost'
      /\ strays' \subseteq lost'
  <2>1. strays \subseteq lost
    BY DEF Numbered
  <2>2. CASE PutAnswered(p, w)
    BY <2>1, <2>2 DEF PutAnswered
  <2>3. CASE PutFails(p, w)
    BY <2>1, <2>3 DEF PutFails
  <2> QED
    BY <2>2, <2>3
<1>5. w.layout \in mine[p] /\ w.layout \in 1 .. edits /\ w.layout \in Layout
  BY <1>2 DEF Put, Numbered
<1>6. \A v \in Sending(pending[p]) : v \in Put /\ v.at = "sent" /\ v.layout \in pending[p]
  BY DEF Sending, Put, Shape
<1>7. Shape'
  <2>1. puts' \in [Page -> SUBSET Put]
    <3>1. puts \in [Page -> SUBSET Put] /\ Sending(pending[p]) \in SUBSET Put
      BY <1>6 DEF Shape
    <3> QED
      BY <1>3, <3>1
  <2>2. pending' \in [Page -> SUBSET Layout] /\ lost' \in SUBSET Layout /\ strays' \in SUBSET Layout
    BY <1>3, <1>4, <1>5 DEF Shape
  <2>3. fails' \in 0 .. MaxFails
    BY DEF PutAnswered, PutFails, Shape
  <2>4. ASSUME NEW q \in Page
        PROVE  Sole(puts'[q]) /\ Sole(pending'[q]) /\ (puts'[q] = {} => pending'[q] = {})
    <3>1. CASE q = p
      <4>1. puts'[p] = Sending(pending[p]) /\ pending'[p] = {} /\ Sole(pending[p])
        BY <1>3 DEF Shape
      <4>2. Sole(Sending(pending[p]))
        BY <4>1 DEF Sole, Sending
      <4> QED
        BY <3>1, <4>1, <4>2 DEF Sole
    <3>2. CASE q # p
      BY <1>3, <3>2 DEF Shape
    <3> QED
      BY <3>1, <3>2
  <2> QED
    BY <1>1, <2>1, <2>2, <2>3, <2>4 DEF Shape
<1>8. Numbered'
  <2>1. \A q \in Page : pending'[q] \subseteq mine[q] /\ \A v \in puts'[q] : v.layout \in mine[q]
    BY <1>3, <1>6 DEF Shape, Numbered
  <2>2. lost' \subseteq 1 .. edits
    BY <1>4, <1>5 DEF Numbered
  <2> QED
    BY <1>1, <1>4, <2>1, <2>2 DEF Numbered
<1>9. ASSUME NEW q \in Page, q # p
      PROVE  (Ordered(q) /\ Heading(q))' /\ \A g : Fetched(q, g) => Fetched(q, g)'
  <2>1. mine'[q] = mine[q] /\ puts'[q] = puts[q] /\ pending'[q] = pending[q] /\ serial'[q] = serial[q]
    BY <1>1, <1>3, <1>9 DEF Shape
  <2>2. lost' \cap mine[q] \subseteq lost
    BY <1>4, <1>5, <1>9 DEF Numbered
  <2> QED
    BY <1>1, <1>4, <1>9, <2>1, <2>2, OtherPage
<1>10. puts'[p] = Sending(pending[p]) /\ pending'[p] = {}
  BY <1>3 DEF Shape
<1>11. Ordered(p)'
  <2>1. Kept(p)' \subseteq Kept(p)
    BY <1>1, <1>4 DEF Kept
  <2>2. \A l : Stored(l)' <=> Stored(l)
    BY <1>1 DEF Stored
  <2>3. \A n, m \in 1 .. Len(commits) :
          n < m /\ commits[n] \in Kept(p)' /\ commits[m] \in Kept(p)' => commits[n] < commits[m]
    BY <2>1 DEF Ordered
  <2>4. ASSUME NEW v \in puts'[p]
        PROVE  /\ v.at = "sent" /\ v.layout \notin lost' /\ ~Stored(v.layout)
               /\ \A n \in 1 .. Len(commits) : commits[n] \in Kept(p)' => commits[n] <= v.layout
    <3>1. v.at = "sent" /\ v.layout \in pending[p]
      BY <1>6, <1>10
    <3>2. w.layout < v.layout /\ v.layout \notin lost /\ ~Stored(v.layout)
      BY <3>1 DEF Ordered
    <3>3. w.layout \in Nat /\ v.layout \in Nat /\ Kept(p) \subseteq Nat
      BY <1>5, <3>1 DEF Shape, Layout, Kept
    <3>4. \A n \in 1 .. Len(commits) : commits[n] \in Kept(p) => commits[n] <= w.layout
      BY DEF Ordered
    <3>5. \A n \in 1 .. Len(commits) : commits[n] \in Kept(p)' => commits[n] <= v.layout
      BY <2>1, <3>2, <3>3, <3>4
    <3>6. v.layout \notin lost'
      BY <1>4, <3>2, <3>3
    <3> QED
      BY <3>1, <3>2, <3>5, <3>6
  <2> QED
    BY <1>1, <1>10, <2>2, <2>3, <2>4 DEF Ordered
<1>12. Heading(p)'
  <2> SUFFICES ASSUME mine[p] # {} PROVE \E l \in mine[p] : Newest(p, l)' /\ Placed(p, l)'
    BY <1>1 DEF Heading
  <2>1. PICK l \in mine[p] : Newest(p, l) /\ Placed(p, l)
    BY DEF Heading
  <2>2. Newest(p, l)'
    BY <1>1, <2>1 DEF Newest
  <2>3. CASE pending[p] # {}
    <3>1. l \in pending[p]
      BY <2>1, <2>3 DEF Placed
    <3>2. [layout |-> l, at |-> "sent"] \in puts'[p]
      BY <1>10, <3>1 DEF Sending
    <3>3. \E v \in puts'[p] : v.layout = l
      BY <3>2
    <3> QED
      BY <1>10, <2>2, <3>3 DEF Placed
  <2>4. CASE pending[p] = {}
    <3>1. w.layout = l
      BY <2>1, <2>4, OnePut DEF Placed
    <3>2. l \in lost' \/ Stored(l)'
      BY <1>1, <1>2, <1>4, <3>1 DEF Ordered, Put, Stored
    <3>3. puts'[p] = {}
      BY <1>10, <2>4 DEF Sending
    <3> QED
      BY <1>10, <2>2, <3>2, <3>3 DEF Placed
  <2> QED
    BY <2>3, <2>4
<1>13. \A g \in gets[p] : Fetched(p, g)'
  <2>1. Writing(p)
    BY DEF Writing
  <2>2. \A g \in gets[p] : g.serial <= serial[p] /\ ~(~g.writing /\ g.serial = serial[p])
    BY <2>1 DEF Fetches, Fetched
  <2> QED
    BY <1>1, <2>2 DEF Fetched
<1>14. Fetches'
  BY <1>1, <1>9, <1>13 DEF Fetches
<1> QED
  BY <1>7, <1>8, <1>9, <1>11, <1>12, <1>14

----------------------------------------------------------------------------
(* The theorems *)

LEMMA NextIInv == ASSUME IInv, [Next]_vars PROVE IInv'
<1>1. CASE Broadcast
  BY <1>1, BroadcastStep
<1>2. CASE \E l \in strays : StoreStray(l)
  BY <1>2, StoreStrayStep
<1>3. CASE \E p \in Page : Edit(p) \/ Receive(p) \/ Resync(p)
  BY <1>3, EditStep, AskStep
<1>4. CASE \E p \in Page : \E w \in puts[p] : StorePut(p, w) \/ PutAnswered(p, w) \/ PutFails(p, w)
  BY <1>4, StorePutStep, PutEndsStep
<1>5. CASE \E p \in Page : \E g \in gets[p] : ServeGet(p, g) \/ LandGet(p, g) \/ GetFails(p, g)
  BY <1>5, ServeGetStep, GetEndsStep
<1>6. CASE UNCHANGED vars
  <2>1. UNCHANGED <<daemon, page, strays, edits, fails, mine, lost>>
    BY <1>6 DEF vars
  <2>2. UNCHANGED written /\ UNCHANGED <<owed, told, shown, gets, fails>>
    BY <2>1 DEF written, daemon, page
  <2>3. Shape'
    BY <2>2 DEF IInv, Shape, written
  <2>4. Fetches'
    BY <2>2, FetchedKept DEF IInv, Fetches
  <2> QED
    BY <2>2, <2>3, <2>4, Untouched DEF IInv
<1> QED
  BY <1>1, <1>2, <1>3, <1>4, <1>5, <1>6 DEF Next

\* The inductive invariant of the shared layout holds in every reachable state.
THEOREM Invariance == Spec => []IInv
<1>1. Init => IInv
  BY InitIInv
<1>2. IInv /\ [Next]_vars => IInv'
  BY NextIInv
<1> QED
  BY <1>1, <1>2, PTL DEF Spec

\* The shape of the state: flushLayout keeps one write in flight per page, and no
\* layout waits while none is.
THEOREM TypeCorrect == Spec => []TypeOK
<1>1. IInv => TypeOK
  <2> SUFFICES ASSUME IInv PROVE TypeOK
    OBVIOUS
  <2>1. ASSUME NEW p \in Page PROVE Cardinality(puts[p]) <= 1
    <3>1. puts[p] = {} \/ \E w \in puts[p] : puts[p] = {w}
      BY DEF IInv, Shape, Sole
    <3>2. Cardinality({}) = 0
      BY FS_EmptySet
    <3>3. \A w : Cardinality({w}) = 1
      BY FS_Singleton
    <3>4. Cardinality(puts[p]) = 0 \/ Cardinality(puts[p]) = 1
      BY <3>1, <3>2, <3>3
    <3> QED
      BY <3>4
  <2> QED
    BY <2>1 DEF IInv, Shape, TypeOK
<1> QED
  BY <1>1, Invariance, PTL

\* The newest of a page's layouts is the one LastEdit names.
LEMMA LastEditIsNewest ==
  ASSUME IInv, NEW p \in Page
  PROVE  /\ mine[p] = {} => LastEdit(p) = 0
         /\ mine[p] # {} => Newest(p, LastEdit(p)) /\ Placed(p, LastEdit(p))
<1>1. CASE mine[p] = {}
  <2>1. {0} \cup mine[p] = {0}
    BY <1>1
  <2>2. Max({0}) = 0
    BY DEF Max
  <2> QED
    BY <1>1, <2>1, <2>2 DEF LastEdit
<1>2. CASE mine[p] # {}
  <2>1. PICK l \in mine[p] : Newest(p, l) /\ Placed(p, l)
    BY <1>2 DEF IInv, Heading
  <2>2. mine[p] \subseteq Nat
    BY DEF IInv, Shape, Layout
  <2>3. \A k \in {0} \cup mine[p] : k \in Nat /\ l >= k
    BY <2>1, <2>2 DEF Newest
  <2>4. Max({0} \cup mine[p]) = l
    BY <2>1, <2>3 DEF Max
  <2> QED
    BY <1>2, <2>1, <2>4 DEF LastEdit
<1> QED
  BY <1>1, <1>2

\* persist and flushLayout: whatever order edits, writes, answers and failures come
\* in, a page's layouts are stored in the order it made them, and when nothing of
\* its own is under way its last edit has been stored, or its PUT failed.
THEOREM NewestLast == Spec => []NewestPersistedLast
<1>1. IInv => NewestPersistedLast
  <2> SUFFICES ASSUME IInv, NEW p \in Page
               PROVE  /\ \A n, m \in 1 .. Len(commits) :
                           n < m /\ {commits[n], commits[m]} \subseteq mine[p] \ lost
                             => commits[n] < commits[m]
                      /\ ~Writing(p) /\ mine[p] # {} => LastEdit(p) \in ToSet(commits) \cup lost
    BY DEF NewestPersistedLast
  <2>1. \A n, m \in 1 .. Len(commits) :
          n < m /\ {commits[n], commits[m]} \subseteq mine[p] \ lost => commits[n] < commits[m]
    BY DEF IInv, Ordered, Kept
  <2>2. ASSUME ~Writing(p), mine[p] # {} PROVE LastEdit(p) \in ToSet(commits) \cup lost
    <3>1. LastEdit(p) \in lost \/ Stored(LastEdit(p))
      BY <2>2, LastEditIsNewest DEF Placed, Writing
    <3>2. Stored(LastEdit(p)) => LastEdit(p) \in ToSet(commits)
      BY DEF Stored, ToSet
    <3> QED
      BY <3>1, <3>2
  <2> QED
    BY <2>1, <2>2
<1> QED
  BY <1>1, Invariance, PTL

\* refreshLayout: a fetched layout that replaces what a page shows was stored no
\* earlier than the page's own last edit, unless the PUT of that edit failed.
THEOREM FetchUndoesNoEdit == Spec => NoEditUndone
<1> DEFINE Adopts ==
      \A p \in Page :
        shown'[p] # shown[p] /\ mine'[p] = mine[p] /\ LastEdit(p) \notin {0} \cup lost
          => \E n \in StoredAt(LastEdit(p)), m \in StoredAt(shown'[p]) : n <= m
<1>1. IInv /\ [Next]_vars => [Adopts]_vars
  <2> SUFFICES ASSUME IInv, Next, NEW p \in Page, shown'[p] # shown[p], mine'[p] = mine[p],
                      LastEdit(p) \notin {0} \cup lost
               PROVE  \E n \in StoredAt(LastEdit(p)), m \in StoredAt(shown'[p]) : n <= m
    BY DEF vars
  <2>1. ASSUME NEW q \in Page, Edit(q) PROVE FALSE
    <3>1. q # p => shown'[p] = shown[p]
      BY <2>1 DEF Edit, IInv, Shape
    <3>2. mine[p] \subseteq 1 .. edits /\ edits \in Nat
      BY LayoutSyncAssumption DEF IInv, Shape, Numbered
    <3>3. edits + 1 \notin mine[p]
      BY <3>2
    <3>4. q = p => edits + 1 \in mine'[p]
      BY <2>1 DEF Edit, IInv, Shape
    <3> QED
      BY <3>1, <3>3, <3>4
  <2>2. PICK q \in Page : \E g \in gets[q] : LandGet(q, g)
    BY <2>1 DEF Next, Broadcast, StoreStray, Receive, Resync, StorePut, PutAnswered, PutFails,
                ServeGet, GetFails, page
  <2>3. PICK g \in gets[q] : LandGet(q, g)
    BY <2>2
  <2>4. /\ q = p /\ shown'[p] = g.layout /\ g.at = "answered" /\ g.layout # 0
        /\ ~g.writing /\ g.serial = serial[p]
    BY <2>3 DEF LandGet, Outdated, IInv, Shape
  <2>5. Newest(p, LastEdit(p)) /\ LastEdit(p) \in mine[p]
    BY LastEditIsNewest DEF Newest
  <2>6. Fetched(p, g)
    BY <2>4 DEF IInv, Fetches
  <2>7. StoredBefore(LastEdit(p), g.layout)
    BY <2>4, <2>5, <2>6 DEF Fetched
  <2> QED
    BY <2>4, <2>7 DEF StoredBefore, StoredAt
<1>2. NoEditUndone <=> [][Adopts]_vars
  BY DEF NoEditUndone
<1> QED
  BY <1>1, <1>2, Invariance, PTL DEF Spec
=============================================================================
