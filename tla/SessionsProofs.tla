----------------------------- MODULE SessionsProofs -----------------------------
(***************************************************************************)
(* No session runs out of reach, no failed create leaves a part of its     *)
(* group, no session of an earlier database is ended by a create, and rows *)
(* follow SessionLifecycle: for every number of ids, requests, commands of *)
(* a tool and crashes, whatever fails.                                     *)
(***************************************************************************)
EXTENDS Sessions, WellFoundedInduction, TLAPS

\* What a handler may be doing: creating the session it is at, undoing what it
\* created, or about to change the row of another's.
Own == {"probe", "giveWay", "label", "start", "respawn", "killFresh", "dropRow"}
Undo == {"undoTmux", "undoRow"}
Marks == {"kill", "markKilled", "dismiss"}

\* The sessions that are a request's to undo.
MineOf(q) == q.created \cup {i \in {q.id} : q.op \in Own}

Given(i) == i \in Id /\ i < nextId

\* What a request is at fits what it does.
Fits(q) ==
  /\ q.op \in Own \cup Marks => Given(q.id)
  /\ q.op \in Own \cup {"insert"} => q.left > 0
  /\ \A i \in q.created : Given(i)
  /\ q.op \in Undo <=> (q.created # {} /\ q.op \notin Own \cup {"insert"})
  /\ q.op \in Own => q.id \notin q.created

\* What a create has found out still holds: a session by its name that it has not
\* started is an earlier database's, one that it has started is not; what it has
\* undone is gone.
Knows(q) ==
  /\ q.op \in {"probe", "giveWay", "label", "start"} /\ q.id \in tmux => q.id \in held
  /\ q.op \in {"respawn", "killFresh"} => q.id \notin held
  /\ q.created \cap held = {}
  /\ q.op = "dropRow" /\ q.id \in tmux => q.id \in held \cup debris
  /\ q.op = "undoRow" /\ First(q.created) \in tmux => First(q.created) \in debris
  /\ q.op \notin Undo => MineOf(q) \cap undone = {}

\* No session is two requests' to undo.
Separate == \A r, s \in Req : r # s => MineOf(req[r]) \cap MineOf(req[s]) = {}

\* A session whose row does not say running, or soon will not: tmux has it not, nor
\* will it get it, unless the property has an excuse.
Dying(i) ==
  \/ Given(i) /\ row[i] # "running"
  \/ i \in pass.doomed
  \/ \E r \in Req : req[r].op \in {"markKilled", "dismiss"} /\ req[r].id = i
Cold(i) ==
  /\ i \in tmux => i \in held \cup debris \cup raced
  /\ i \in Coming => i \in raced
DyingIsCold == \A i \in Id : Dying(i) => Cold(i)

\* What an earlier database left is in tmux; a name that is not given out is only its.
Earlier == held \subseteq tmux /\ \A i \in tmux : Given(i) \/ i \in held

Passing ==
  /\ \A i \in pass.running \cup pass.doomed : Given(i)
  /\ pass.at = "marking" <=> pass.doomed # {}

GivenUndone == \A i \in undone : Given(i)

IInv ==
  /\ TypeOK /\ Earlier /\ Separate /\ DyingIsCold /\ NoHalfGroup /\ GivenUndone /\ Passing
  /\ \A r \in Req : Fits(req[r]) /\ Knows(req[r])

----------------------------------------------------------------------------
(* Facts about sets and records *)

\* Of ids that there are, First is one.
LEMMA FirstIsOf == ASSUME NEW S \in SUBSET Id, S # {} PROVE First(S) \in S
<1> DEFINE R == {p \in Nat \X Nat : p[1] < p[2]}
<1>1. S \subseteq Nat
  BY SessionsAssumption DEF Id
<1>2. R = OpToRel(<, Nat)
  BY Zenon DEF OpToRel
<1>3. IsWellFoundedOn(R, Nat)
  BY Zenon, <1>2, NatLessThanWellFounded
<1>4. \A j, k \in Nat : j < k => <<j, k>> \in R
  OBVIOUS
<1> HIDE DEF R
<1>5. PICK i \in S : \A j \in S : ~(<<j, i>> \in R)
  BY <1>1, <1>3, WFMin
<1>6. ASSUME NEW j \in S PROVE i <= j
  <2>1. i \in Nat /\ j \in Nat
    BY <1>1
  <2>2. ~(j < i)
    BY <2>1, <1>4, <1>5
  <2> QED
    BY <2>1, <2>2
<1> QED
  BY <1>6 DEF First

Ops == Own \cup Undo \cup Marks \cup {"none", "insert"}

LEMMA RequestFields ==
  ASSUME NEW q \in Request
  PROVE  /\ q.op \in Ops /\ q.left \in 0 .. MaxGroup /\ q.group \in BOOLEAN
         /\ q.id \in 0 .. MaxId /\ q.created \in SUBSET Id
BY DEF Request, Ops, Own, Undo, Marks

LEMMA IdleRequest ==
  /\ Idle \in Request
  /\ Idle.op = "none" /\ Idle.id = 0 /\ Idle.created = {} /\ Idle.left = 0 /\ Idle.group = FALSE
BY SessionsAssumption DEF Idle, Request

LEMMA RequestWithOp ==
  ASSUME NEW q \in Request, NEW op \in Ops
  PROVE  LET n == [q EXCEPT !.op = op]
         IN  /\ n \in Request
             /\ n.op = op /\ n.id = q.id /\ n.created = q.created /\ n.left = q.left
BY DEF Request, Ops, Own, Undo, Marks

LEMMA IdIsInt == Id \subseteq Nat /\ MaxId \in Nat /\ \A i \in Id : i \in 0 .. MaxId
BY SessionsAssumption DEF Id

----------------------------------------------------------------------------
(* What any step leaves as it was *)

\* Ids and excuses only become more; what an earlier database left, only less.
World ==
  /\ nextId <= nextId'
  /\ held' = held \cap tmux'
  /\ debris \subseteq debris' /\ raced \subseteq raced'

LEMMA GivenKept ==
  ASSUME TypeOK, TypeOK', World, NEW i, Given(i)
  PROVE  Given(i)'
BY IdIsInt DEF TypeOK, World, Given, Id

\* A request that does nothing, while no session of its own starts or is given up.
LEMMA OthersKept ==
  ASSUME IInv, TypeOK', World, NEW s \in Req, req'[s] = req[s],
         \A i \in MineOf(req[s]) : (i \in tmux' => i \in tmux) /\ (i \in undone' => i \in undone)
  PROVE  (Fits(req[s]) /\ Knows(req[s]))'
<1> DEFINE q == req[s]
<1>1. Fits(q) /\ Knows(q) /\ q \in Request /\ TypeOK
  BY DEF IInv, TypeOK
<1>2. \A i : Given(i) => Given(i)'
  BY <1>1, GivenKept
<1>3. Fits(req[s])'
  BY <1>1, <1>2 DEF Fits
<1>4. /\ q.op \in Own => q.id \in MineOf(q)
      /\ q.created \subseteq MineOf(q)
      /\ q.op \in Undo => First(q.created) \in MineOf(q)
  BY <1>1, FirstIsOf, RequestFields DEF MineOf, Fits
<1>5. Knows(req[s])'
  BY <1>1, <1>4 DEF Knows, World, Own, Undo
<1> QED
  BY <1>3, <1>5

LEMMA MineIsGiven ==
  ASSUME IInv, NEW r \in Req, NEW i \in MineOf(req[r])
  PROVE  Given(i)
BY DEF IInv, MineOf, Fits

LEMMA DyingIsGiven ==
  ASSUME IInv, NEW i, Dying(i)
  PROVE  Given(i)
BY DEF IInv, Dying, Passing, Fits, Marks

Before == {"probe", "label", "start"}

LEMMA ComingIs ==
  \A i : i \in Coming <=> \E r \in Req : req[r].op \in Before /\ req[r].id = i
BY DEF Coming, Before

\* What is a request's own, no other request starts.
LEMMA NotComing ==
  ASSUME IInv, NEW r \in Req, NEW i \in MineOf(req[r]), ~(req[r].op \in Before /\ req[r].id = i)
  PROVE  i \notin Coming
<1> SUFFICES ASSUME NEW s \in Req, req[s].op \in Before, req[s].id = i PROVE FALSE
  BY ComingIs
<1>1. s # r /\ i \in MineOf(req[s])
  BY DEF MineOf, Before, Own
<1> QED
  BY <1>1 DEF IInv, Separate

LEMMA UndoingIs ==
  \A i : i \in Undoing <=> \E r \in Req : req[r].op \in Undo /\ i \in req[r].created
BY DEF Undoing, Undo

LEMMA ColdKept ==
  ASSUME World, NEW i, Cold(i), i \in tmux' => i \in tmux \cup Coming, i \in Coming' => i \in Coming
  PROVE  Cold(i)'
BY DEF World, Cold

----------------------------------------------------------------------------
(* A step of a request, and one of none *)

\* How rows may change: one appears that was not given out, or one of a session that
\* is cold stops running.
RowMoves ==
  \A i \in Id : \/ row'[i] = row[i] /\ (Given(i)' => Given(i))
                \/ ~Given(i) /\ row'[i] = "running"
                \/ Given(i) /\ row[i] # "none" /\ Cold(i) /\ row'[i] # "running"

\* How a step of request r may change what is not its own.
Moves(r) ==
  /\ World /\ RowMoves /\ UNCHANGED pass
  /\ \A s \in Req : s # r => req'[s] = req[s]
  /\ \A i \in MineOf(req[r])' : i \in MineOf(req[r]) \/ ~Given(i)
  /\ \A i \in tmux' : i \in tmux \/ (req[r].op = "start" /\ i = req[r].id)
  /\ \A i \in undone' : i \in undone \/ i \in MineOf(req[r])
  /\ req'[r].op \in Before =>
       ~Given(req'[r].id) \/ (req[r].op \in Before /\ req'[r].id = req[r].id)
  /\ req'[r].op \in {"markKilled", "dismiss"} => Cold(req[r].id)'

\* What the create of r has failed at is gone, or will be undone.
Owned(r) ==
  \A i \in MineOf(req[r]) : i \in undone' =>
    i \in debris' \cup Undoing' \/ (row'[i] = "none" /\ (i \in tmux' => i \in held'))

LEMMA NoneStays ==
  ASSUME RowMoves, TypeOK', NEW i \in Id, Given(i), row[i] = "none"
  PROVE  row'[i] = "none"
BY DEF RowMoves, TypeOK

LEMMA MoveInv ==
  ASSUME IInv, TypeOK', NEW r \in Req, Moves(r), Owned(r), Fits(req[r])', Knows(req[r])'
  PROVE  IInv'
<1> USE DEF Moves
<1>1. \A i : Given(i) => Given(i)'
  BY GivenKept DEF IInv
<1>2. \A s \in Req : s # r => \A i \in MineOf(req[s]) : i \notin MineOf(req[r]) /\ Given(i)
  BY MineIsGiven DEF IInv, Separate
<1>3. \A s \in Req : s # r => MineOf(req[s])' = MineOf(req[s])
  BY DEF MineOf
<1>4. Separate'
  BY <1>2, <1>3 DEF Separate, IInv
<1>5. ASSUME NEW s \in Req PROVE (Fits(req[s]) /\ Knows(req[s]))'
  <2>1. CASE s = r
    BY <2>1
  <2>2. CASE s # r
    <3>1. req[r].op = "start" => req[r].id \in MineOf(req[r])
      BY DEF MineOf, Own
    <3>2. \A i \in MineOf(req[s]) : (i \in tmux' => i \in tmux) /\ (i \in undone' => i \in undone)
      BY <1>2, <2>2, <3>1
    <3> QED
      BY <2>2, <3>2, OthersKept
  <2> QED
    BY <2>1, <2>2
<1>6. Earlier'
  <2>1. \A i \in tmux' : Given(i) \/ i \in held
    BY DEF IInv, Earlier, Fits, Own
  <2> QED
    BY <1>1, <2>1 DEF Earlier, World
<1>7. Passing'
  BY <1>1 DEF IInv, Passing
<1>8. GivenUndone'
  BY <1>1, MineIsGiven DEF IInv, GivenUndone
<1>9. DyingIsCold'
  <2> SUFFICES ASSUME NEW i \in Id, Dying(i)' PROVE Cold(i)'
    BY DEF DyingIsCold
  <2>1. i \in tmux' => i \in tmux \cup Coming
    BY ComingIs DEF Before
  <2>2. Given(i) /\ i \in Coming' => i \in Coming
    BY ComingIs DEF Coming, Before
  <2>3. Cold(i) /\ Given(i) => Cold(i)'
    BY <2>1, <2>2, ColdKept
  <2>4. CASE Dying(i)
    BY <2>3, <2>4, DyingIsGiven DEF IInv, DyingIsCold
  <2>5. CASE ~Dying(i) /\ Given(i)' /\ row'[i] # "running"
    <3>1. CASE Given(i)
      BY <2>3, <2>5, <3>1 DEF Dying, RowMoves
    <3>2. CASE ~Given(i)
      BY <2>5, <3>2 DEF RowMoves, IInv, TypeOK, Given
    <3> QED
      BY <3>1, <3>2
  <2>6. CASE ~Dying(i) /\ i \in pass'.doomed
    BY <2>6 DEF Dying
  <2>7. ASSUME ~Dying(i), NEW s \in Req, req'[s].op \in {"markKilled", "dismiss"}, req'[s].id = i
        PROVE  Cold(i)'
    BY <2>7 DEF Dying
  <2>8. \/ Given(i)' /\ row'[i] # "running"
        \/ i \in pass'.doomed
        \/ \E s \in Req : req'[s].op \in {"markKilled", "dismiss"} /\ req'[s].id = i
    BY DEF Dying
  <2> QED
    BY <2>4, <2>5, <2>6, <2>7, <2>8
<1>10. NoHalfGroup'
  <2> SUFFICES ASSUME NEW i \in undone', i \notin debris', i \notin Undoing'
               PROVE  row'[i] = "none" /\ (i \in tmux' => i \in held')
    BY DEF NoHalfGroup
  <2>1. CASE i \in MineOf(req[r])
    BY <2>1 DEF Owned
  <2>2. CASE i \notin MineOf(req[r])
    <3>1. i \in undone /\ i \notin debris
      BY <2>2 DEF World
    <3>2. i \notin Undoing
      <4> SUFFICES ASSUME NEW s \in Req, req[s].op \in Undo, i \in req[s].created PROVE FALSE
        BY UndoingIs
      <4>1. s # r
        BY <2>2 DEF MineOf
      <4> QED
        BY <4>1 DEF Undoing, Undo
    <3>3. row[i] = "none" /\ (i \in tmux => i \in held) /\ i \in Id /\ Given(i)
      BY <3>1, <3>2 DEF IInv, NoHalfGroup, GivenUndone, Given
    <3>4. row'[i] = "none"
      BY <3>3, NoneStays
    <3>5. i \in tmux' => i \in tmux
      BY <2>2 DEF MineOf, Own
    <3> QED
      BY <3>3, <3>4, <3>5 DEF World
  <2> QED
    BY <2>1, <2>2
<1> QED
  BY <1>4, <1>5, <1>6, <1>7, <1>8, <1>9, <1>10 DEF IInv

LEMMA WorldInv ==
  ASSUME IInv, TypeOK', World, RowMoves, UNCHANGED <<req, undone, nextId>>, tmux' \subseteq tmux,
         Passing', \A i \in pass'.doomed : i \in pass.doomed \/ Cold(i)'
  PROVE  IInv'
<1>1. \A i : Given(i)' <=> Given(i)
  BY DEF Given
<1>2. \A r \in Req : (Fits(req[r]) /\ Knows(req[r]))'
  BY OthersKept
<1>3. Separate' /\ GivenUndone' /\ Earlier'
  BY <1>1 DEF IInv, Separate, GivenUndone, Earlier, World
<1>4. Coming' = Coming /\ Undoing' = Undoing
  BY DEF Coming, Undoing
<1>5. DyingIsCold'
  <2> SUFFICES ASSUME NEW i \in Id, Dying(i)' PROVE Cold(i)'
    BY DEF DyingIsCold
  <2>1. Cold(i) => Cold(i)'
    BY <1>4, ColdKept
  <2>2. Dying(i) \/ Cold(i) \/ Cold(i)'
    BY <1>1 DEF Dying, RowMoves
  <2> QED
    BY <2>1, <2>2 DEF IInv, DyingIsCold
<1>6. NoHalfGroup'
  <2> SUFFICES ASSUME NEW i \in undone', i \notin debris', i \notin Undoing'
               PROVE  row'[i] = "none" /\ (i \in tmux' => i \in held')
    BY DEF NoHalfGroup
  <2>1. row[i] = "none" /\ (i \in tmux => i \in held) /\ i \in Id /\ Given(i)
    BY <1>4 DEF IInv, NoHalfGroup, GivenUndone, Given, World
  <2> QED
    BY <2>1, NoneStays DEF World
<1> QED
  BY <1>2, <1>3, <1>5, <1>6 DEF IInv

----------------------------------------------------------------------------
(* The steps of a create *)

LEMMA Still ==
  ASSUME IInv, UNCHANGED <<row, nextId, tmux, held, raced, debris>>
  PROVE  World /\ RowMoves
<1>1. nextId \in Int /\ held \subseteq tmux
  BY IdIsInt DEF IInv, TypeOK, Earlier
<1> QED
  BY <1>1 DEF World, RowMoves, Given

LEMMA Mine ==
  ASSUME IInv, NEW r \in Req
  PROVE  /\ req[r] \in Request /\ Fits(req[r]) /\ Knows(req[r])
         /\ req[r].created \subseteq MineOf(req[r])
         /\ req[r].op \in Own => req[r].id \in MineOf(req[r])
         /\ req[r].op \notin Own => MineOf(req[r]) = req[r].created
BY DEF IInv, TypeOK, MineOf

\* A step that only says what its request does next.
LEMMA OpType ==
  ASSUME TypeOK, NEW r \in Req, NEW op \in Ops, req' = To(r, op)
  PROVE  /\ req' \in [Req -> Request]
         /\ req'[r].op = op /\ req'[r].id = req[r].id /\ req'[r].created = req[r].created
         /\ req'[r].left = req[r].left
         /\ \A s \in Req : s # r => req'[s] = req[s]
<1>1. req[r] \in Request /\ [req[r] EXCEPT !.op = op] \in Request
  BY RequestWithOp DEF TypeOK
<1>2. req'[r] = [req[r] EXCEPT !.op = op]
  BY DEF To, TypeOK
<1>3. req' \in [Req -> Request] /\ \A s \in Req : s # r => req'[s] = req[s]
  BY <1>1 DEF To, TypeOK
<1> QED
  BY <1>1, <1>2, <1>3, RequestWithOp

LEMMA AnswerType ==
  ASSUME TypeOK, NEW r \in Req, req' = Answered(r)
  PROVE  /\ req' \in [Req -> Request]
         /\ req'[r] = Idle
         /\ \A s \in Req : s # r => req'[s] = req[s]
BY IdleRequest DEF Answered, TypeOK

LEMMA IdleFits ==
  ASSUME NEW r \in Req, req'[r] = Idle
  PROVE  Fits(req[r])' /\ Knows(req[r])' /\ MineOf(req[r])' = {}
BY IdleRequest DEF Fits, Knows, MineOf, Own, Marks, Undo

Asked(left, group) == [Idle EXCEPT !.op = "insert", !.left = left, !.group = group]

LEMMA RequestAsked ==
  ASSUME NEW left \in 0 .. MaxGroup, NEW group \in BOOLEAN
  PROVE  /\ Asked(left, group) \in Request
         /\ Asked(left, group).op = "insert" /\ Asked(left, group).left = left
         /\ Asked(left, group).created = {}
BY IdleRequest DEF Request, Asked

LEMMA CreateRequestInv ==
  ASSUME IInv, NEW r \in Req, NEW n \in 1 .. MaxGroup, CreateRequest(r, n)
  PROVE  IInv'
<1> DEFINE g == n > 1
           q == Asked(n, g)
<1>1. q \in Request /\ q.op = "insert" /\ q.left = n /\ q.created = {}
  <2>1. n \in 0 .. MaxGroup /\ g \in BOOLEAN
    BY SessionsAssumption
  <2> HIDE DEF g
  <2> QED
    BY <2>1, RequestAsked
<1>0. req[r] = Idle /\ UNCHANGED <<row, nextId, old, tmux, pass, crashes, held, raced, undone, debris>>
  BY DEF CreateRequest, store, history
<1>2. req'[r] = q /\ req' \in [Req -> Request] /\ \A s \in Req : s # r => req'[s] = req[s]
  <2>1. req' = [req EXCEPT ![r] = q]
    BY DEF CreateRequest, Asked
  <2> HIDE DEF q
  <2> QED
    BY <1>1, <2>1 DEF IInv, TypeOK
<1> HIDE DEF q, g
<1>3. TypeOK'
  BY <1>0, <1>2 DEF IInv, TypeOK
<1>4. MineOf(req[r])' = {}
  BY <1>1, <1>2 DEF MineOf, Own
<1>5. MineOf(req[r]) = {}
  BY <1>0, IdleRequest DEF MineOf, Own
<1>6. Moves(r)
  <2>1. World /\ RowMoves
    BY <1>0, Still
  <2> QED
    BY <1>0, <1>1, <1>2, <1>4, <2>1 DEF Moves, Before
<1>7. Owned(r)
  BY <1>5 DEF Owned
<1>8. Fits(req[r])'
  BY <1>1, <1>2, SessionsAssumption DEF Fits, Own, Marks, Undo
<1>9. Knows(req[r])'
  <2>1. req'[r].op = "insert" /\ req'[r].created = {}
    BY <1>1, <1>2
  <2> QED
    BY <1>4, <2>1 DEF Knows, Undo
<1> QED
  BY <1>3, <1>6, <1>7, <1>8, <1>9, MoveInv

\* A step of a create that stays with its session.
LEMMA OwnStep ==
  ASSUME IInv, NEW r \in Req, NEW op \in Own, req' = To(r, op), req[r].op \in Own,
         TypeOK', World, RowMoves, UNCHANGED <<pass, undone>>,
         \A i \in tmux' : i \in tmux \/ (req[r].op = "start" /\ i = req[r].id),
         op \in Before => req[r].op \in Before,
         op \in {"probe", "giveWay", "label", "start"} /\ req[r].id \in tmux' => req[r].id \in held',
         op \in {"respawn", "killFresh"} => req[r].id \notin held',
         op = "dropRow" /\ req[r].id \in tmux' => req[r].id \in held' \cup debris'
  PROVE  IInv'
<1>1. /\ req'[r].op = op /\ req'[r].id = req[r].id /\ req'[r].created = req[r].created
      /\ req'[r].left = req[r].left
      /\ \A s \in Req : s # r => req'[s] = req[s]
  BY OpType DEF IInv, Ops
<1>2. /\ Fits(req[r]) /\ Knows(req[r])
      /\ op \notin Undo /\ req[r].op \notin Undo /\ op \notin {"markKilled", "dismiss"}
  BY Mine DEF Own, Undo
<1>3. MineOf(req[r])' = MineOf(req[r])
  BY <1>1 DEF MineOf
<1>4. Moves(r)
  BY <1>1, <1>2, <1>3 DEF Moves
<1>5. Owned(r)
  BY <1>2 DEF Owned, Knows
<1>6. \A i : Given(i) => Given(i)'
  BY GivenKept DEF IInv
<1>7. Fits(req[r])'
  BY <1>1, <1>2, <1>6 DEF Fits
<1>8. Knows(req[r])'
  BY <1>1, <1>2, <1>3 DEF Knows, World, Undo
<1> QED
  BY <1>4, <1>5, <1>7, <1>8, MoveInv

LEMMA RequestUndoing ==
  ASSUME NEW q \in Request, NEW C \in SUBSET Id
  PROVE  LET n == [q EXCEPT !.op = "undoTmux", !.id = 0, !.created = C]
         IN  n \in Request /\ n.op = "undoTmux" /\ n.created = C
<1>1. 0 \in 0 .. MaxId
  BY IdIsInt
<1> QED
  BY <1>1 DEF Request

LEMMA RolledBackType ==
  ASSUME TypeOK, NEW r \in Req, NEW C \in SUBSET Id, req' = RolledBack(r, C)
  PROVE  /\ req' \in [Req -> Request]
         /\ req'[r].created = C /\ req'[r].op = IF C = {} THEN "none" ELSE "undoTmux"
         /\ \A s \in Req : s # r => req'[s] = req[s]
<1> DEFINE n == IF C = {} THEN Idle ELSE [req[r] EXCEPT !.op = "undoTmux", !.id = 0, !.created = C]
<1>1. req' = [req EXCEPT ![r] = n]
  BY DEF RolledBack
<1>2. n \in Request /\ n.created = C /\ n.op = IF C = {} THEN "none" ELSE "undoTmux"
  <2>1. CASE C = {}
    BY <2>1, IdleRequest
  <2>2. CASE C # {}
    BY <2>2, RequestUndoing DEF TypeOK
  <2> QED
    BY <2>1, <2>2
<1> HIDE DEF n
<1> QED
  BY <1>1, <1>2 DEF TypeOK

\* A create that fails.
LEMMA UndoneStep ==
  ASSUME IInv, NEW r \in Req, NEW ids, Undone(r, ids), req[r].op \in Own \cup {"insert"},
         TypeOK', World, RowMoves, UNCHANGED <<pass, tmux>>, ids \subseteq MineOf(req[r]),
         \A i \in ids : i \in debris' \/ (row'[i] = "none" /\ (i \in tmux => i \in held'))
  PROVE  IInv'
<1>1. /\ req'[r].created = req[r].created
      /\ req'[r].op = IF req[r].created = {} THEN "none" ELSE "undoTmux"
      /\ \A s \in Req : s # r => req'[s] = req[s]
  BY RolledBackType, Mine, RequestFields DEF IInv, Undone
<1>2. /\ Fits(req[r]) /\ Knows(req[r]) /\ req[r].op \notin Undo
      /\ req[r].created \subseteq MineOf(req[r])
  BY Mine DEF Own, Undo
<1>3. undone' = undone \cup req[r].created \cup ids
  BY DEF Undone
<1>4. MineOf(req[r])' = req[r].created
  BY <1>1 DEF MineOf, Own
<1>5. Moves(r)
  BY <1>1, <1>2, <1>3, <1>4 DEF Moves, Before
<1>6. Owned(r)
  <2> SUFFICES ASSUME NEW i \in MineOf(req[r]), i \in undone'
               PROVE  i \in debris' \cup Undoing' \/ (row'[i] = "none" /\ (i \in tmux' => i \in held'))
    BY DEF Owned
  <2>1. i \notin undone
    BY <1>2 DEF Knows
  <2>2. CASE i \in req[r].created
    BY <1>1, <2>2 DEF Undoing
  <2> QED
    BY <1>3, <2>1, <2>2
<1>7. \A i : Given(i) => Given(i)'
  BY GivenKept DEF IInv
<1>8. Fits(req[r])'
  BY <1>1, <1>2, <1>7 DEF Fits, Own, Marks, Undo
<1>9. Knows(req[r])'
  BY <1>1, <1>2, <1>4 DEF Knows, World, Undo
<1> QED
  BY <1>5, <1>6, <1>8, <1>9, MoveInv

LEMMA UndoneType ==
  ASSUME IInv, NEW r \in Req, NEW ids \in SUBSET Id, Undone(r, ids)
  PROVE  req' \in [Req -> Request] /\ undone' \in SUBSET Id
<1>1. req[r].created \in SUBSET Id
  BY Mine, RequestFields
<1>2. req' = RolledBack(r, req[r].created) /\ undone' = undone \cup req[r].created \cup ids
  BY DEF Undone
<1>3. TypeOK /\ undone \in SUBSET Id
  BY DEF IInv, TypeOK
<1> QED
  BY <1>1, <1>2, <1>3, RolledBackType

LEMMA RequestInserted ==
  ASSUME NEW q \in Request, NEW i \in Id
  PROVE  LET n == [q EXCEPT !.op = "probe", !.id = i]
         IN  n \in Request /\ n.op = "probe" /\ n.id = i /\ n.created = q.created /\ n.left = q.left
<1>1. i \in 0 .. MaxId
  BY IdIsInt
<1> QED
  BY <1>1 DEF Request

LEMMA InsertRowInv ==
  ASSUME IInv, NEW r \in Req, InsertRow(r)
  PROVE  IInv'
<1>0. req[r].op = "insert" /\ UNCHANGED <<old, tmux, pass, crashes, held, raced, debris>>
  BY DEF InsertRow
<1>1. CASE /\ nextId \in Id /\ row' = [row EXCEPT ![nextId] = "running"] /\ nextId' = nextId + 1
           /\ req' = [req EXCEPT ![r].op = "probe", ![r].id = nextId] /\ undone' = undone
  <2> DEFINE n == [req[r] EXCEPT !.op = "probe", !.id = nextId]
  <2>1. /\ n \in Request /\ n.op = "probe" /\ n.id = nextId /\ n.created = req[r].created
        /\ n.left = req[r].left
    BY <1>1, Mine, RequestInserted
  <2>2. req'[r] = n /\ req' \in [Req -> Request] /\ \A s \in Req : s # r => req'[s] = req[s]
    <3>1. req' = [req EXCEPT ![r] = n]
      BY <1>1
    <3> HIDE DEF n
    <3> QED
      BY <2>1, <3>1 DEF IInv, TypeOK
  <2> HIDE DEF n
  <2>3. TypeOK'
    <3>1. nextId' \in 1 .. MaxId + 1 /\ row' \in [Id -> {"none", "running", "dead"}]
      BY <1>1, IdIsInt DEF IInv, TypeOK, Id
    <3>2. \A i \in Id : i >= nextId' => row'[i] = "none"
      BY <1>1, IdIsInt DEF IInv, TypeOK
    <3> QED
      BY <1>0, <1>1, <2>2, <3>1, <3>2 DEF IInv, TypeOK
  <2>4. ~Given(nextId) /\ nextId \in Int /\ \A i \in Id : i \in Int
    BY <1>1, IdIsInt DEF Given
  <2>5. World /\ RowMoves
    <3>1. World
      BY <1>0, <1>1, <2>4 DEF World, IInv, Earlier
    <3>2. ASSUME NEW i \in Id, i # nextId PROVE row'[i] = row[i] /\ (Given(i)' => Given(i))
      BY <1>1, <2>4, <3>2 DEF Given, IInv, TypeOK
    <3>3. row'[nextId] = "running"
      BY <1>1 DEF IInv, TypeOK
    <3> QED
      BY <2>4, <3>1, <3>2, <3>3 DEF RowMoves
  <2>6. MineOf(req[r])' = req[r].created \cup {nextId} /\ MineOf(req[r]) = req[r].created
    BY <1>0, <2>1, <2>2 DEF MineOf, Own
  <2>7. Moves(r)
    BY <1>0, <1>1, <2>1, <2>2, <2>4, <2>5, <2>6 DEF Moves
  <2>8. Fits(req[r]) /\ Knows(req[r])
    BY Mine
  <2>9. Owned(r)
    BY <1>0, <1>1, <2>8 DEF Owned, Knows, Undo
  <2>10. Given(req[r].id)' /\ \A i : Given(i) => Given(i)'
    <3>1. Given(req[r].id)'
      BY <1>1, <2>1, <2>2, <2>4 DEF Given
    <3> QED
      BY <2>3, <2>5, <3>1, GivenKept DEF IInv
  <2>11. Fits(req[r])'
    BY <1>0, <1>1, <2>1, <2>2, <2>4, <2>8, <2>10 DEF Fits, Own, Marks, Undo
  <2>12. Knows(req[r])'
    <3>1. nextId \in tmux => nextId \in held
      BY <2>4 DEF IInv, Earlier
    <3>2. nextId \notin undone /\ req[r].created \cap undone = {}
      BY <1>0, <2>4, <2>6, <2>8 DEF IInv, GivenUndone, Knows, Undo
    <3> QED
      BY <1>0, <1>1, <2>1, <2>2, <2>6, <2>8, <3>1, <3>2 DEF Knows, Undo
  <2> QED
    BY <2>3, <2>7, <2>9, <2>11, <2>12, MoveInv
<1>2. CASE Undone(r, {}) /\ UNCHANGED <<row, nextId>>
  <2>1. World /\ RowMoves
    BY <1>0, <1>2, Still
  <2>2. req' \in [Req -> Request] /\ undone' \in SUBSET Id
    BY <1>2, UndoneType
  <2>3. TypeOK'
    BY <1>0, <1>2, <2>2 DEF IInv, TypeOK
  <2> QED
    BY <1>0, <1>2, <2>1, <2>3, UndoneStep
<1> QED
  BY <1>1, <1>2 DEF InsertRow, NextId

LEMMA ProbeInv ==
  ASSUME IInv, NEW r \in Req, Probe(r)
  PROVE  IInv'
<1>0. req[r].op = "probe" /\ UNCHANGED <<row, nextId, old, tmux, pass, crashes, held, raced, undone, debris>>
  BY DEF Probe, store, history
<1>1. World /\ RowMoves
  BY <1>0, Still
<1>2. Fits(req[r]) /\ Knows(req[r]) /\ (req[r].id \in tmux => req[r].id \in held)
  BY <1>0, Mine DEF Knows
<1>3. PICK op \in {"giveWay", "label", "start"} : req' = To(r, op)
  BY DEF Probe
<1>4. op \in Own /\ op \in Ops /\ req[r].op \in Own /\ req[r].op \in Before
  BY <1>0 DEF Ops, Own, Before
<1>5. TypeOK'
  BY <1>0, <1>3, <1>4, OpType DEF IInv, TypeOK
<1> QED
  BY <1>0, <1>1, <1>2, <1>3, <1>4, <1>5, OwnStep

\* The row of a session that is cold stops running.
LEMMA RowStops ==
  ASSUME IInv, NEW i \in Id, Cold(i), Given(i), nextId' = nextId,
         row' = Without(i) \/ row' = WithStatus(i, "dead")
  PROVE  /\ RowMoves /\ row' \in [Id -> {"none", "running", "dead"}]
         /\ \A j \in Id : j >= nextId' => row'[j] = "none"
         /\ row' = Without(i) => row'[i] = "none"
<1>1. row \in [Id -> {"none", "running", "dead"}] /\ \A j \in Id : j >= nextId => row[j] = "none"
  BY DEF IInv, TypeOK
<1>2. row' \in [Id -> {"none", "running", "dead"}]
  BY <1>1 DEF Without, WithStatus
<1>3. \A j \in Id : j # i => row'[j] = row[j]
  BY <1>1 DEF Without, WithStatus
<1>4. row'[i] \in {"none", "dead"} /\ (row[i] = "none" => row'[i] = "none")
  BY <1>1 DEF Without, WithStatus
<1>5. \A j : Given(j)' <=> Given(j)
  BY DEF Given
<1>6. RowMoves
  BY <1>3, <1>4, <1>5 DEF RowMoves
<1>7. row' = Without(i) => row'[i] = "none"
  BY <1>1 DEF Without
<1> QED
  BY <1>1, <1>2, <1>3, <1>4, <1>6, <1>7

LEMMA StillWorld ==
  ASSUME IInv, nextId' = nextId, held' = held \cap tmux', raced \subseteq raced', debris \subseteq debris'
  PROVE  World
BY IdIsInt DEF IInv, TypeOK, World

LEMMA HeldInTmux == ASSUME IInv PROVE held \cap tmux = held
BY DEF IInv, Earlier

LEMMA GiveWayInv ==
  ASSUME IInv, NEW r \in Req, GiveWay(r)
  PROVE  IInv'
<1>0. req[r].op = "giveWay" /\ UNCHANGED <<nextId, old, tmux, pass, crashes, held, raced, debris>>
  BY DEF GiveWay
<1>1. /\ Fits(req[r]) /\ Knows(req[r]) /\ req[r].id \in MineOf(req[r]) /\ req[r].op \notin Undo
      /\ req[r].op \in Own
  BY <1>0, Mine DEF Own, Undo
<1>2. World
  BY <1>0, StillWorld, HeldInTmux
<1>3. CASE row' = Without(req[r].id) /\ req' = To(r, "insert") /\ undone' = undone
  <2>1. Given(req[r].id) /\ req[r].id \in Id
    BY <1>1 DEF Fits, Given
  <2>2. Cold(req[r].id)
    BY <1>0, <1>1, NotComing DEF Cold, Knows, Before
  <2>3. RowMoves /\ row' \in [Id -> {"none", "running", "dead"}]
        /\ \A j \in Id : j >= nextId' => row'[j] = "none"
    BY <1>0, <1>3, <2>1, <2>2, RowStops
  <2>4. /\ req' \in [Req -> Request]
        /\ req'[r].op = "insert" /\ req'[r].created = req[r].created /\ req'[r].left = req[r].left
        /\ \A s \in Req : s # r => req'[s] = req[s]
    BY <1>3, OpType DEF IInv, Ops
  <2>5. TypeOK'
    BY <1>0, <1>3, <2>3, <2>4 DEF IInv, TypeOK
  <2>6. MineOf(req[r])' = req[r].created /\ req[r].created \subseteq MineOf(req[r])
    BY <2>4, Mine DEF MineOf, Own
  <2>7. Moves(r)
    BY <1>0, <1>2, <1>3, <2>3, <2>4, <2>6 DEF Moves, Before
  <2>8. Owned(r)
    BY <1>1, <1>3 DEF Owned, Knows
  <2>9. \A i : Given(i) => Given(i)'
    BY <1>2, <2>5, GivenKept DEF IInv
  <2>10. Fits(req[r])'
    BY <1>1, <2>4, <2>9 DEF Fits, Own, Marks, Undo
  <2>11. Knows(req[r])'
    BY <1>0, <1>1, <1>3, <2>4, <2>6 DEF Knows, Undo
  <2> QED
    BY <2>5, <2>7, <2>8, <2>10, <2>11, MoveInv
<1>4. CASE Undone(r, {}) /\ UNCHANGED row
  <2>1. RowMoves
    BY <1>0, <1>4, Still
  <2>2. req' \in [Req -> Request] /\ undone' \in SUBSET Id
    BY <1>4, UndoneType
  <2>3. TypeOK'
    BY <1>0, <1>4, <2>2 DEF IInv, TypeOK
  <2> QED
    BY <1>0, <1>1, <1>2, <1>4, <2>1, <2>3, UndoneStep
<1> QED
  BY <1>3, <1>4 DEF GiveWay

LEMMA LabelRowInv ==
  ASSUME IInv, NEW r \in Req, LabelRow(r)
  PROVE  IInv'
<1>0. req[r].op = "label" /\ UNCHANGED <<row, nextId, old, tmux, pass, crashes, held, raced, undone, debris>>
  BY DEF LabelRow, store, history
<1>1. World /\ RowMoves
  BY <1>0, Still
<1>2. Fits(req[r]) /\ Knows(req[r]) /\ (req[r].id \in tmux => req[r].id \in held)
  BY <1>0, Mine DEF Knows
<1>3. PICK op \in {"dropRow", "start"} : req' = To(r, op)
  BY DEF LabelRow
<1>4. op \in Own /\ op \in Ops /\ req[r].op \in Own /\ req[r].op \in Before
  BY <1>0 DEF Ops, Own, Before
<1>5. TypeOK'
  BY <1>0, <1>3, <1>4, OpType DEF IInv, TypeOK
<1> QED
  BY <1>0, <1>1, <1>2, <1>3, <1>4, <1>5, OwnStep

LEMMA StartTmuxInv ==
  ASSUME IInv, NEW r \in Req, StartTmux(r)
  PROVE  IInv'
<1>0. req[r].op = "start" /\ UNCHANGED <<row, nextId, old, pass, crashes, held, raced, undone, debris>>
  BY DEF StartTmux, store, history
<1>1. /\ Fits(req[r]) /\ Knows(req[r]) /\ (req[r].id \in tmux => req[r].id \in held)
      /\ req[r].op \in Own /\ req[r].op \in Before /\ req[r].id \in Id
  BY <1>0, Mine DEF Knows, Own, Before, Fits, Given
<1>2. held \subseteq tmux /\ RowMoves
  BY <1>0 DEF IInv, Earlier, RowMoves, Given
<1>3. CASE req[r].id \notin tmux /\ tmux' = tmux \cup {req[r].id} /\ req' = To(r, "respawn")
  <2>1. World
    BY <1>0, <1>2, <1>3, StillWorld
  <2>2. TypeOK'
    BY <1>0, <1>1, <1>3, OpType DEF IInv, TypeOK, Ops, Own
  <2>3. req[r].id \notin held'
    BY <1>0, <1>2, <1>3
  <2> QED
    BY <1>0, <1>1, <1>2, <1>3, <2>1, <2>2, <2>3, OwnStep DEF Own, Before
<1>4. CASE tmux' = tmux /\ req' = To(r, "dropRow")
  <2>1. World
    BY <1>0, <1>2, <1>4, StillWorld
  <2>2. TypeOK'
    BY <1>0, <1>1, <1>4, OpType DEF IInv, TypeOK, Ops, Own
  <2> QED
    BY <1>0, <1>1, <1>2, <1>4, <2>1, <2>2, OwnStep DEF Own, Before
<1> QED
  BY <1>3, <1>4 DEF StartTmux

LEMMA RequestRespawned ==
  ASSUME NEW q \in Request, q.left # 1, q.left > 0, q.id \in Id
  PROVE  LET n == [q EXCEPT !.op = "insert", !.id = 0, !.left = q.left - 1,
                            !.created = q.created \cup {q.id}]
         IN  /\ n \in Request
             /\ n.op = "insert" /\ n.left = q.left - 1 /\ n.created = q.created \cup {q.id}
<1>1. q.left \in Nat /\ q.left - 1 \in 0 .. MaxGroup /\ 0 \in 0 .. MaxId
  BY SessionsAssumption, IdIsInt, RequestFields
<1> QED
  BY <1>1 DEF Request

LEMMA RespawnInv ==
  ASSUME IInv, NEW r \in Req, Respawn(r)
  PROVE  IInv'
<1>0. req[r].op = "respawn" /\ UNCHANGED <<row, nextId, old, tmux, pass, crashes, held, raced, undone, debris>>
  BY DEF Respawn, store, history
<1>1. /\ Fits(req[r]) /\ Knows(req[r]) /\ req[r].id \notin held /\ req[r].op \notin Undo
      /\ req[r].op \in Own /\ req[r].id \in Id /\ req[r].left > 0 /\ req[r] \in Request
      /\ MineOf(req[r]) = req[r].created \cup {req[r].id} /\ Given(req[r].id)
  BY <1>0, Mine DEF Knows, Own, Undo, Fits, Given, MineOf
<1>2. World /\ RowMoves
  BY <1>0, Still
<1>3. Owned(r)
  BY <1>0, <1>1 DEF Owned, Knows
<1>4. \A i : Given(i)' <=> Given(i)
  BY <1>0 DEF Given
<1>5. CASE req' = Answered(r)
  <2>1. req' \in [Req -> Request] /\ req'[r] = Idle /\ \A s \in Req : s # r => req'[s] = req[s]
    BY <1>5, AnswerType DEF IInv
  <2>2. TypeOK'
    BY <1>0, <2>1 DEF IInv, TypeOK
  <2>3. Fits(req[r])' /\ Knows(req[r])' /\ MineOf(req[r])' = {}
    BY <2>1, IdleFits
  <2>4. Moves(r)
    BY <1>0, <1>2, <2>1, <2>3, IdleRequest DEF Moves, Before
  <2> QED
    BY <1>3, <2>2, <2>3, <2>4, MoveInv
<1>6. CASE req[r].left # 1 /\ req' = [req EXCEPT ![r].op = "insert", ![r].id = 0, ![r].left = @ - 1,
                                       ![r].created = @ \cup {req[r].id}]
  <2> DEFINE n == [req[r] EXCEPT !.op = "insert", !.id = 0, !.left = req[r].left - 1,
                                 !.created = req[r].created \cup {req[r].id}]
  <2>1. /\ n \in Request
        /\ n.op = "insert" /\ n.left = req[r].left - 1 /\ n.created = req[r].created \cup {req[r].id}
    BY <1>1, <1>6, RequestRespawned
  <2>2. req'[r] = n /\ req' \in [Req -> Request] /\ \A s \in Req : s # r => req'[s] = req[s]
    <3>1. req' = [req EXCEPT ![r] = n]
      BY <1>6
    <3> HIDE DEF n
    <3> QED
      BY <2>1, <3>1 DEF IInv, TypeOK
  <2> HIDE DEF n
  <2>3. TypeOK'
    BY <1>0, <2>2 DEF IInv, TypeOK
  <2>4. MineOf(req[r])' = MineOf(req[r])
    BY <1>1, <2>1, <2>2 DEF MineOf, Own
  <2>5. Moves(r)
    BY <1>0, <1>2, <2>1, <2>2, <2>4 DEF Moves, Before
  <2>6. Fits(req[r])'
    <3>1. req[r].left \in Nat /\ req[r].left - 1 > 0
      BY <1>1, <1>6, SessionsAssumption, RequestFields
    <3> QED
      BY <1>1, <1>4, <2>1, <2>2, <3>1 DEF Fits, Own, Marks, Undo
  <2>7. Knows(req[r])'
    BY <1>0, <1>1, <2>1, <2>2, <2>4 DEF Knows, Undo
  <2> QED
    BY <1>3, <2>3, <2>5, <2>6, <2>7, MoveInv
<1>7. CASE req' = To(r, "killFresh")
  <2>1. TypeOK'
    BY <1>0, <1>7, OpType DEF IInv, TypeOK, Ops, Own
  <2> QED
    BY <1>0, <1>1, <1>2, <1>7, <2>1, OwnStep DEF Own, Before
<1> QED
  BY <1>5, <1>6, <1>7 DEF Respawn

LEMMA KillFreshInv ==
  ASSUME IInv, NEW r \in Req, KillFresh(r)
  PROVE  IInv'
<1>0. /\ req[r].op = "killFresh" /\ req' = To(r, "dropRow")
      /\ UNCHANGED <<row, nextId, old, pass, crashes, held, raced, undone>>
  BY DEF KillFresh, store
<1>1. /\ req[r].id \notin held /\ req[r].op \in Own /\ req[r].id \in Id
      /\ held \subseteq tmux /\ RowMoves
  BY <1>0, Mine DEF Knows, Own, Fits, Given, IInv, Earlier, RowMoves
<1>2. /\ tmux' \subseteq tmux /\ tmux \ {req[r].id} \subseteq tmux'
      /\ debris \subseteq debris' /\ debris' \subseteq debris \cup {req[r].id}
      /\ req[r].id \in tmux' => req[r].id \in debris'
  BY DEF KillFresh
<1>3. World
  BY <1>0, <1>1, <1>2, StillWorld
<1>4. TypeOK'
  BY <1>0, <1>1, <1>2, OpType DEF IInv, TypeOK, Ops, Own
<1> QED
  BY <1>0, <1>1, <1>2, <1>3, <1>4, OwnStep DEF Own, Before

LEMMA DropRowInv ==
  ASSUME IInv, NEW r \in Req, DropRow(r)
  PROVE  IInv'
<1> DEFINE i == req[r].id
<1>0. req[r].op = "dropRow" /\ Undone(r, {i}) /\ UNCHANGED <<nextId, old, tmux, pass, crashes, held, raced>>
  BY DEF DropRow
<1>1. /\ i \in MineOf(req[r]) /\ req[r].op \in Own /\ Given(i) /\ i \in Id
      /\ i \in tmux => i \in held \cup debris
  BY <1>0, Mine DEF Knows, Own, Fits, Given
<1>2. Cold(i)
  BY <1>0, <1>1, NotComing DEF Cold, Before
<1>3. debris' = debris \/ debris' = debris \cup {i}
  BY DEF DropRow
<1>4. RowMoves /\ row' \in [Id -> {"none", "running", "dead"}]
      /\ \A j \in Id : j >= nextId' => row'[j] = "none"
  <2>1. CASE row' = Without(i)
    BY <1>0, <1>1, <1>2, <2>1, RowStops
  <2>2. CASE row' = row
    BY <1>0, <2>2 DEF RowMoves, Given, IInv, TypeOK
  <2> QED
    BY <2>1, <2>2 DEF DropRow
<1>5. World
  BY <1>0, <1>3, StillWorld, HeldInTmux
<1>6. TypeOK'
  <2>1. req' \in [Req -> Request] /\ undone' \in SUBSET Id
    BY <1>0, <1>1, UndoneType
  <2> QED
    BY <1>0, <1>1, <1>3, <1>4, <2>1 DEF IInv, TypeOK
<1>7. i \in debris' \/ (row'[i] = "none" /\ (i \in tmux => i \in held'))
  <2>1. CASE row' = Without(i)
    BY <1>0, <1>1, <1>2, <1>3, <2>1, RowStops
  <2>2. CASE debris' = debris \cup {i}
    BY <2>2
  <2> QED
    BY <2>1, <2>2 DEF DropRow
<1> QED
  BY <1>0, <1>1, <1>4, <1>5, <1>6, <1>7, UndoneStep

LEMMA UndoTmuxInv ==
  ASSUME IInv, NEW r \in Req, UndoTmux(r)
  PROVE  IInv'
<1> DEFINE i == First(req[r].created)
<1>0. /\ req[r].op = "undoTmux" /\ req' = To(r, "undoRow")
      /\ UNCHANGED <<row, nextId, old, pass, crashes, held, raced, undone>>
  BY DEF UndoTmux, store
<1>1. /\ tmux' \subseteq tmux /\ tmux \ {i} \subseteq tmux'
      /\ debris \subseteq debris' /\ debris' \subseteq debris \cup {i}
      /\ i \in tmux' => i \in debris'
  BY DEF UndoTmux
<1>2. /\ Fits(req[r]) /\ Knows(req[r]) /\ MineOf(req[r]) = req[r].created
      /\ req[r].created # {} /\ req[r].created \in SUBSET Id
  BY <1>0, Mine, RequestFields DEF Own, Undo, Fits
<1>3. i \in req[r].created /\ i \in Id /\ i \notin held
  BY <1>2, FirstIsOf DEF Knows
<1>4. /\ req' \in [Req -> Request]
      /\ req'[r].op = "undoRow" /\ req'[r].created = req[r].created
      /\ \A s \in Req : s # r => req'[s] = req[s]
  BY <1>0, OpType DEF IInv, Ops, Undo
<1>5. World /\ RowMoves
  BY <1>0, <1>1, <1>3, StillWorld DEF IInv, Earlier, RowMoves, Given
<1>6. TypeOK'
  BY <1>0, <1>1, <1>3, <1>4 DEF IInv, TypeOK
<1>7. MineOf(req[r])' = MineOf(req[r])
  BY <1>2, <1>4 DEF MineOf, Own
<1>8. Moves(r)
  BY <1>0, <1>1, <1>4, <1>5, <1>7 DEF Moves, Before
<1>9. Owned(r)
  BY <1>2, <1>4 DEF Owned, Undoing
<1>10. Fits(req[r])'
  BY <1>0, <1>2, <1>4 DEF Fits, Given, Own, Marks, Undo
<1>11. Knows(req[r])'
  BY <1>0, <1>1, <1>2, <1>4 DEF Knows, Undo
<1> QED
  BY <1>6, <1>8, <1>9, <1>10, <1>11, MoveInv

LEMMA UndoRowInv ==
  ASSUME IInv, NEW r \in Req, UndoRow(r)
  PROVE  IInv'
<1> DEFINE i == First(req[r].created)
<1>0. /\ req[r].op = "undoRow" /\ req' = RolledBack(r, req[r].created \ {i})
      /\ UNCHANGED <<nextId, old, tmux, pass, crashes, held, raced, undone>>
  BY DEF UndoRow
<1>1. /\ Fits(req[r]) /\ Knows(req[r]) /\ MineOf(req[r]) = req[r].created
      /\ req[r].created # {} /\ req[r].created \in SUBSET Id
  BY <1>0, Mine, RequestFields DEF Own, Undo, Fits
<1>2. i \in req[r].created /\ i \in Id /\ Given(i) /\ (i \in tmux => i \in debris)
  BY <1>0, <1>1, FirstIsOf DEF Knows, Fits
<1>3. Cold(i)
  BY <1>0, <1>1, <1>2, NotComing DEF Cold, Before
<1>4. debris' = debris \/ debris' = debris \cup {i}
  BY DEF UndoRow
<1>5. RowMoves /\ row' \in [Id -> {"none", "running", "dead"}]
      /\ \A j \in Id : j >= nextId' => row'[j] = "none"
  <2>1. CASE row' = Without(i)
    BY <1>0, <1>2, <1>3, <2>1, RowStops
  <2>2. CASE row' = row
    BY <1>0, <2>2 DEF RowMoves, Given, IInv, TypeOK
  <2> QED
    BY <2>1, <2>2 DEF UndoRow
<1>6. i \in debris' \/ (row'[i] = "none" /\ (i \in tmux' => i \in held'))
  <2>1. CASE row' = Without(i)
    BY <1>0, <1>2, <1>3, <1>4, <2>1, RowStops
  <2>2. CASE debris' = debris \cup {i}
    BY <2>2
  <2> QED
    BY <2>1, <2>2 DEF UndoRow
<1>7. World
  BY <1>0, <1>4, StillWorld, HeldInTmux
<1> DEFINE C == req[r].created \ {i}
<1>8. /\ req' \in [Req -> Request]
      /\ req'[r].created = C /\ req'[r].op = IF C = {} THEN "none" ELSE "undoTmux"
      /\ \A s \in Req : s # r => req'[s] = req[s]
  <2>1. C \in SUBSET Id /\ req' = RolledBack(r, C) /\ TypeOK
    BY <1>0, <1>1 DEF IInv
  <2> HIDE DEF C
  <2> QED
    BY <2>1, RolledBackType
<1> HIDE DEF i
<1>9. TypeOK'
  BY <1>0, <1>2, <1>4, <1>5, <1>8 DEF IInv, TypeOK
<1>10. MineOf(req[r])' = C
  BY <1>8 DEF MineOf, Own
<1>11. Moves(r)
  BY <1>0, <1>1, <1>5, <1>7, <1>8, <1>10 DEF Moves, Before
<1>12. Owned(r)
  <2> SUFFICES ASSUME NEW j \in C PROVE j \in Undoing'
    BY <1>1, <1>6 DEF Owned
  <2> QED
    BY <1>8 DEF Undoing
<1>13. Fits(req[r])'
  BY <1>0, <1>1, <1>8 DEF Fits, Given, Own, Marks, Undo
<1>14. Knows(req[r])'
  BY <1>0, <1>1, <1>8, <1>10 DEF Knows, Undo
<1> QED
  BY <1>9, <1>11, <1>12, <1>13, <1>14, MoveInv

----------------------------------------------------------------------------
(* Kills and dismissals *)

\* A step of a request that is no create's.
LEMMA OtherStep ==
  ASSUME IInv, NEW r \in Req, TypeOK', World, RowMoves, UNCHANGED <<pass, undone>>,
         MineOf(req[r]) = {}, MineOf(req[r])' = {}, tmux' \subseteq tmux,
         \A s \in Req : s # r => req'[s] = req[s],
         Fits(req[r])', req'[r].op \in Marks \cup {"none"}, req'[r].created = {},
         req'[r].op \in {"markKilled", "dismiss"} => Cold(req[r].id)'
  PROVE  IInv'
<1>1. Moves(r)
  BY DEF Moves, Marks, Before
<1>2. Owned(r)
  BY DEF Owned
<1>3. Knows(req[r])'
  BY DEF Knows, Marks, Undo
<1> QED
  BY <1>1, <1>2, <1>3, MoveInv

LEMMA MarksMine ==
  ASSUME IInv, NEW r \in Req, req[r].op \in Marks
  PROVE  MineOf(req[r]) = {} /\ Given(req[r].id) /\ req[r].id \in Id /\ req[r].created = {}
<1>1. Fits(req[r])
  BY Mine
<1>2. req[r].op \notin Own \cup Undo \cup {"insert"}
  BY DEF Marks, Own, Undo
<1>3. req[r].created = {} /\ Given(req[r].id)
  BY <1>1, <1>2 DEF Fits
<1> QED
  BY <1>2, <1>3 DEF MineOf, Given

\* The answer to a kill or a dismissal.
LEMMA AnswerInv ==
  ASSUME IInv, NEW r \in Req, req[r].op \in Marks, req' = Answered(r),
         World, RowMoves, UNCHANGED <<tmux, pass, undone>>,
         req' \in [Req -> Request] => TypeOK'
  PROVE  IInv'
<1>1. req' \in [Req -> Request] /\ req'[r] = Idle /\ \A s \in Req : s # r => req'[s] = req[s]
  BY AnswerType DEF IInv
<1>2. Fits(req[r])' /\ MineOf(req[r])' = {}
  BY <1>1, IdleFits
<1>3. MineOf(req[r]) = {}
  BY MarksMine
<1>4. req'[r].op = "none" /\ req'[r].created = {}
  BY <1>1, IdleRequest
<1> QED
  BY <1>1, <1>2, <1>3, <1>4, OtherStep

LEMMA RequestMarking ==
  ASSUME NEW op \in Marks, NEW i \in Id
  PROVE  LET n == [Idle EXCEPT !.op = op, !.id = i]
         IN  n \in Request /\ n.op = op /\ n.id = i /\ n.created = {}
<1>1. i \in 0 .. MaxId
  BY IdIsInt
<1> QED
  BY <1>1, IdleRequest DEF Request, Marks

\* A kill or a dismissal is asked for.
LEMMA MarkRequested ==
  ASSUME IInv, NEW r \in Req, NEW i \in Id, NEW op \in Marks, req[r] = Idle, row[i] # "none",
         req' = [req EXCEPT ![r] = [Idle EXCEPT !.op = op, !.id = i]],
         op \in {"markKilled", "dismiss"} => Cold(i),
         UNCHANGED <<row, nextId, old, tmux, pass, crashes, held, raced, undone, debris>>
  PROVE  IInv'
<1> DEFINE n == [Idle EXCEPT !.op = op, !.id = i]
<1>1. n \in Request /\ n.op = op /\ n.id = i /\ n.created = {}
  BY RequestMarking
<1>2. req'[r] = n /\ req' \in [Req -> Request] /\ \A s \in Req : s # r => req'[s] = req[s]
  <2>1. req' = [req EXCEPT ![r] = n]
    OBVIOUS
  <2> HIDE DEF n
  <2> QED
    BY <1>1, <2>1 DEF IInv, TypeOK
<1> HIDE DEF n
<1>3. TypeOK'
  BY <1>2 DEF IInv, TypeOK
<1>4. World /\ RowMoves
  BY Still
<1>5. MineOf(req[r]) = {} /\ MineOf(req[r])' = {}
  BY <1>1, <1>2, IdleRequest DEF MineOf, Own, Marks
<1>6. Given(i)'
  <2>1. Given(i)
    BY IdIsInt DEF IInv, TypeOK, Given, Id
  <2> QED
    BY <2>1 DEF Given
<1>7. Fits(req[r])'
  BY <1>1, <1>2, <1>6 DEF Fits, Own, Undo, Marks
<1>8. Cold(i) => Cold(i)'
  <2>1. i \in Coming' => i \in Coming
    <3> SUFFICES ASSUME NEW s \in Req, req'[s].op \in Before, req'[s].id = i PROVE i \in Coming
      BY DEF Coming, Before
    <3>1. s # r
      BY <1>1, <1>2 DEF Before, Marks
    <3> QED
      BY <1>2, <3>1, ComingIs
  <2> QED
    BY <1>4, <2>1, ColdKept
<1> QED
  BY <1>1, <1>2, <1>3, <1>4, <1>5, <1>7, <1>8, OtherStep

LEMMA KillRequestInv ==
  ASSUME IInv, NEW r \in Req, NEW i \in Id, KillRequest(r, i)
  PROVE  IInv'
<1>1. /\ req[r] = Idle /\ row[i] # "none"
      /\ req' = [req EXCEPT ![r] = [Idle EXCEPT !.op = "kill", !.id = i]]
      /\ UNCHANGED <<row, nextId, old, tmux, pass, crashes, held, raced, undone, debris>>
  BY DEF KillRequest, store, history
<1>2. "kill" \in Marks /\ "kill" \notin {"markKilled", "dismiss"}
  BY DEF Marks
<1> QED
  BY <1>1, <1>2, MarkRequested

LEMMA DismissRequestInv ==
  ASSUME IInv, NEW r \in Req, NEW i \in Id, DismissRequest(r, i)
  PROVE  IInv'
<1>1. /\ req[r] = Idle /\ row[i] = "dead"
      /\ req' = [req EXCEPT ![r] = [Idle EXCEPT !.op = "dismiss", !.id = i]]
      /\ UNCHANGED <<row, nextId, old, tmux, pass, crashes, held, raced, undone, debris>>
  BY DEF DismissRequest, store, history
<1>2. Given(i)
  BY <1>1, IdIsInt DEF IInv, TypeOK, Given, Id
<1>3. Cold(i)
  BY <1>1, <1>2 DEF IInv, DyingIsCold, Dying
<1>4. "dismiss" \in Marks
  BY DEF Marks
<1> QED
  BY <1>1, <1>3, <1>4, MarkRequested

LEMMA KillTmuxInv ==
  ASSUME IInv, NEW r \in Req, KillTmux(r)
  PROVE  IInv'
<1> DEFINE i == req[r].id
<1>0. req[r].op = "kill" /\ UNCHANGED <<row, nextId, old, pass, crashes, undone, debris>>
  BY DEF KillTmux, store
<1>1. MineOf(req[r]) = {} /\ Given(i) /\ i \in Id /\ req[r].created = {} /\ req[r].op \in Marks
  BY <1>0, MarksMine DEF Marks
<1>2. RowMoves /\ held \subseteq tmux
  BY <1>0 DEF RowMoves, Given, IInv, Earlier
<1>3. CASE /\ req' = To(r, "markKilled") /\ tmux' = tmux \ {i} /\ held' = held \ {i}
           /\ raced' = IF i \in Coming THEN raced \cup {i} ELSE raced
  <2>1. /\ req' \in [Req -> Request]
        /\ req'[r].op = "markKilled" /\ req'[r].id = i /\ req'[r].created = {}
        /\ \A s \in Req : s # r => req'[s] = req[s]
    BY <1>1, <1>3, OpType DEF IInv, Ops, Marks
  <2>2. raced \subseteq raced' /\ raced' \subseteq raced \cup {i} /\ (i \in Coming => i \in raced')
    BY <1>3
  <2>3. World
    BY <1>0, <1>2, <1>3, <2>2, StillWorld
  <2>4. TypeOK'
    BY <1>0, <1>1, <1>3, <2>1, <2>2 DEF IInv, TypeOK
  <2>5. MineOf(req[r])' = {}
    BY <2>1 DEF MineOf, Own
  <2>6. Given(i)'
    BY <1>0, <1>1, <2>1 DEF Given
  <2>7. Fits(req[r])'
    BY <2>1, <2>6 DEF Fits, Own, Undo, Marks
  <2>8. Cold(i)'
    <3>1. i \in Coming' => i \in Coming
      <4> SUFFICES ASSUME NEW s \in Req, req'[s].op \in Before, req'[s].id = i PROVE i \in Coming
        BY DEF Coming, Before
      <4>1. s # r
        BY <2>1 DEF Before
      <4> QED
        BY <2>1, <4>1, ComingIs
    <3> QED
      BY <1>3, <2>1, <2>2, <3>1 DEF Cold
  <2> QED
    BY <1>0, <1>1, <1>2, <1>3, <2>1, <2>3, <2>4, <2>5, <2>7, <2>8, OtherStep DEF Marks
<1>4. CASE req' = Answered(r) /\ UNCHANGED <<tmux, held, raced>>
  <2>1. World
    BY <1>0, <1>2, <1>4, Still
  <2>2. req' \in [Req -> Request] => TypeOK'
    BY <1>0, <1>4 DEF IInv, TypeOK
  <2> QED
    BY <1>0, <1>1, <1>2, <1>4, <2>1, <2>2, AnswerInv
<1> QED
  BY <1>3, <1>4 DEF KillTmux

\* The answer after the row of a session that is cold has changed.
LEMMA RowAnswered ==
  ASSUME IInv, NEW r \in Req, req[r].op \in {"markKilled", "dismiss"}, req' = Answered(r),
         \/ row' = Without(req[r].id) \/ row' = WithStatus(req[r].id, "dead") \/ row' = row,
         UNCHANGED <<nextId, old, tmux, pass, crashes, held, raced, undone, debris>>
  PROVE  IInv'
<1> DEFINE i == req[r].id
<1>1. MineOf(req[r]) = {} /\ Given(i) /\ i \in Id /\ req[r].op \in Marks
  BY MarksMine DEF Marks
<1>2. Cold(i)
  BY <1>1 DEF IInv, DyingIsCold, Dying
<1>3. RowMoves /\ row' \in [Id -> {"none", "running", "dead"}]
      /\ \A j \in Id : j >= nextId' => row'[j] = "none"
  <2>1. CASE row' = Without(i) \/ row' = WithStatus(i, "dead")
    BY <1>1, <1>2, <2>1, RowStops
  <2>2. CASE row' = row
    BY <2>2 DEF RowMoves, Given, IInv, TypeOK
  <2> QED
    BY <2>1, <2>2
<1>4. World
  BY StillWorld, HeldInTmux
<1>5. req' \in [Req -> Request] => TypeOK'
  BY <1>3 DEF IInv, TypeOK
<1> QED
  BY <1>1, <1>3, <1>4, <1>5, AnswerInv

LEMMA MarkKilledInv ==
  ASSUME IInv, NEW r \in Req, MarkKilled(r)
  PROVE  IInv'
BY RowAnswered DEF MarkKilled, history

LEMMA DismissRowInv ==
  ASSUME IInv, NEW r \in Req, DismissRow(r)
  PROVE  IInv'
BY RowAnswered DEF DismissRow, history

----------------------------------------------------------------------------
(* The reconcile tick, and the world outside *)

LEMMA ReadRowsInv ==
  ASSUME IInv, ReadRows
  PROVE  IInv'
<1>1. /\ pass'.at = "listing" /\ pass'.running \in SUBSET Id /\ pass'.doomed = {} /\ pass' \in Pass
      /\ UNCHANGED <<row, nextId, old, tmux, req, crashes, held, raced, undone, debris>>
  BY DEF ReadRows, Pass, store, history
<1>2. \A i \in pass'.running : Given(i)
  BY IdIsInt DEF ReadRows, Given, IInv, TypeOK, Id
<1>3. TypeOK'
  BY <1>1 DEF IInv, TypeOK
<1>4. World /\ RowMoves
  BY <1>1, Still
<1>5. Passing'
  BY <1>1, <1>2 DEF Passing, Given
<1> QED
  BY <1>1, <1>3, <1>4, <1>5, WorldInv

LEMMA MarkingIs ==
  ASSUME NEW S \in SUBSET Id, pass' = Marking(S)
  PROVE  /\ pass' \in Pass /\ pass'.running = {} /\ pass'.doomed = S
         /\ pass'.at = "marking" <=> S # {}
BY DEF Marking, NoPass, Pass

LEMMA NoPassIs ==
  NoPass \in Pass /\ NoPass.running = {} /\ NoPass.doomed = {} /\ NoPass.at # "marking"
BY DEF NoPass, Pass

LEMMA ListTmuxInv ==
  ASSUME IInv, ListTmux
  PROVE  IInv'
<1> DEFINE S == Doomed(tmux)
<1>1. /\ pass' = Marking(S) /\ raced' = raced \cup (S \cap old \cap Coming)
      /\ UNCHANGED <<row, nextId, old, tmux, req, crashes, held, undone, debris>>
  BY DEF ListTmux, store
<1>2. S \subseteq pass.running \cap old /\ S \cap tmux = {} /\ old \in SUBSET Id
  BY DEF Doomed, IInv, TypeOK
<1>3. raced \subseteq raced' /\ (\A i \in S : i \in Coming => i \in raced') /\ raced' \subseteq raced \cup S
  BY <1>1, <1>2
<1>4. Coming' = Coming
  BY <1>1 DEF Coming
<1> HIDE DEF S
<1>5. pass' \in Pass /\ pass'.running = {} /\ pass'.doomed = S /\ (pass'.at = "marking" <=> S # {})
  BY <1>1, <1>2, MarkingIs
<1>6. TypeOK'
  BY <1>1, <1>2, <1>3, <1>5 DEF IInv, TypeOK
<1>7. World /\ RowMoves
  BY <1>1, <1>3, StillWorld, HeldInTmux DEF RowMoves, Given
<1>8. Passing'
  BY <1>1, <1>2, <1>5 DEF IInv, Passing, Given
<1>9. \A i \in pass'.doomed : Cold(i)'
  BY <1>1, <1>2, <1>3, <1>4, <1>5 DEF Cold
<1> QED
  BY <1>1, <1>6, <1>7, <1>8, <1>9, WorldInv

LEMMA PassEnds ==
  ASSUME IInv, pass' = NoPass,
         UNCHANGED <<row, nextId, old, tmux, req, crashes, held, raced, undone, debris>>
  PROVE  IInv'
<1>1. TypeOK'
  BY NoPassIs DEF IInv, TypeOK
<1>2. World /\ RowMoves
  BY Still
<1>3. Passing'
  BY NoPassIs DEF Passing
<1> QED
  BY <1>1, <1>2, <1>3, NoPassIs, WorldInv

LEMMA MarkDeadInv ==
  ASSUME IInv, MarkDead
  PROVE  IInv'
<1> DEFINE i == First(pass.doomed)
           S == pass.doomed \ {i}
<1>1. /\ pass.at = "marking" /\ row' = WithStatus(i, "dead") /\ pass' = Marking(S)
      /\ UNCHANGED <<nextId, old, tmux, req, crashes, held, raced, undone, debris>>
  BY DEF MarkDead, history
<1>2. pass.doomed \in SUBSET Id /\ pass.doomed # {}
  BY <1>1 DEF IInv, TypeOK, Pass, Passing
<1>3. i \in pass.doomed /\ i \in Id /\ Given(i)
  BY <1>2, FirstIsOf DEF IInv, Passing
<1>4. Cold(i)
  BY <1>3 DEF IInv, DyingIsCold, Dying
<1>5. S \in SUBSET Id /\ S \subseteq pass.doomed
  BY <1>2
<1> HIDE DEF i, S
<1>6. RowMoves /\ row' \in [Id -> {"none", "running", "dead"}]
      /\ \A j \in Id : j >= nextId' => row'[j] = "none"
  BY <1>1, <1>3, <1>4, RowStops
<1>7. pass' \in Pass /\ pass'.running = {} /\ pass'.doomed = S /\ (pass'.at = "marking" <=> S # {})
  BY <1>1, <1>5, MarkingIs
<1>8. TypeOK'
  BY <1>1, <1>6, <1>7 DEF IInv, TypeOK
<1>9. World
  BY <1>1, StillWorld, HeldInTmux
<1>10. Passing'
  BY <1>1, <1>5, <1>7 DEF IInv, Passing, Given
<1> QED
  BY <1>1, <1>5, <1>6, <1>7, <1>8, <1>9, <1>10, WorldInv

LEMMA AgesInv ==
  ASSUME IInv, NEW i \in Id, Ages(i)
  PROVE  IInv'
<1>1. /\ old' = old \cup {i}
      /\ UNCHANGED <<row, nextId, tmux, req, pass, crashes, held, raced, undone, debris>>
  BY DEF Ages, history
<1>2. World /\ RowMoves
  BY <1>1, Still
<1>3. TypeOK'
  BY <1>1 DEF IInv, TypeOK
<1>4. Passing'
  BY <1>1 DEF IInv, Passing, Given
<1> QED
  BY <1>1, <1>2, <1>3, <1>4, WorldInv

LEMMA TmuxEndsInv ==
  ASSUME IInv, NEW i \in Id, TmuxEnds(i)
  PROVE  IInv'
<1>1. /\ tmux' = tmux \ {i} /\ held' = held \ {i}
      /\ UNCHANGED <<row, nextId, old, req, pass, crashes, raced, undone, debris>>
  BY DEF TmuxEnds, store
<1>2. World /\ RowMoves
  BY <1>1, StillWorld DEF RowMoves, Given, IInv, Earlier
<1>3. TypeOK'
  BY <1>1 DEF IInv, TypeOK
<1>4. Passing'
  BY <1>1 DEF IInv, Passing, Given
<1> QED
  BY <1>1, <1>2, <1>3, <1>4, WorldInv

LEMMA CrashInv ==
  ASSUME IInv, Crash
  PROVE  IInv'
<1>1. /\ crashes < MaxCrashes /\ crashes' = crashes + 1 /\ req' = [r \in Req |-> Idle]
      /\ pass' = NoPass /\ undone' = undone \ Undoing
      /\ UNCHANGED <<row, nextId, old, tmux, held, raced, debris>>
  BY DEF Crash, store
<1>2. TypeOK'
  <2>1. crashes' \in 0 .. MaxCrashes
    BY <1>1, SessionsAssumption DEF IInv, TypeOK
  <2>2. req' \in [Req -> Request]
    BY <1>1, IdleRequest
  <2> QED
    BY <1>1, <2>1, <2>2, NoPassIs DEF IInv, TypeOK
<1>3. ASSUME NEW r \in Req
      PROVE  Fits(req[r])' /\ Knows(req[r])' /\ MineOf(req[r])' = {} /\ req'[r] = Idle
  BY <1>1, IdleFits
<1>4. Separate'
  BY <1>3 DEF Separate
<1>5. Coming' = {} /\ Undoing' = {}
  BY <1>3, IdleRequest DEF Coming, Undoing
<1>6. Earlier' /\ Passing' /\ GivenUndone'
  BY <1>1, NoPassIs DEF IInv, Earlier, Passing, GivenUndone, Given
<1>7. DyingIsCold'
  <2> SUFFICES ASSUME NEW i \in Id, Dying(i)' PROVE Cold(i)'
    BY DEF DyingIsCold
  <2>1. Given(i) /\ row[i] # "running"
    BY <1>1, <1>3, NoPassIs, IdleRequest DEF Dying, Given
  <2>2. Cold(i)
    BY <2>1 DEF IInv, DyingIsCold, Dying
  <2> QED
    BY <1>1, <1>5, <2>2 DEF Cold
<1>8. NoHalfGroup'
  BY <1>1, <1>5 DEF IInv, NoHalfGroup
<1> QED
  BY <1>2, <1>3, <1>4, <1>6, <1>7, <1>8 DEF IInv

LEMMA StutterInv ==
  ASSUME IInv, UNCHANGED vars
  PROVE  IInv'
<1>1. UNCHANGED <<row, nextId, old, tmux, req, pass, crashes, held, raced, undone, debris>>
  BY DEF vars, store, history
<1>2. World /\ RowMoves
  BY <1>1, Still
<1>3. TypeOK' /\ Passing'
  BY <1>1 DEF IInv, TypeOK, Passing, Given
<1> QED
  BY <1>1, <1>2, <1>3, WorldInv

LEMMA InitIInv == ASSUME Init PROVE IInv
<1>1. TypeOK
  <2>1. nextId \in 1 .. MaxId + 1 /\ crashes \in 0 .. MaxCrashes
    BY SessionsAssumption DEF Init
  <2>2. req \in [Req -> Request] /\ pass \in Pass /\ row \in [Id -> {"none", "running", "dead"}]
    BY IdleRequest, NoPassIs DEF Init
  <2>3. \A i \in Id : row[i] = "none"
    BY DEF Init
  <2> QED
    BY <2>1, <2>2, <2>3 DEF Init, TypeOK
<1>2. \A r \in Req : Fits(req[r]) /\ Knows(req[r]) /\ MineOf(req[r]) = {} /\ req[r] = Idle
  BY IdleRequest DEF Init, Fits, Knows, MineOf, Own, Marks, Undo
<1>3. Separate /\ Earlier /\ GivenUndone /\ NoHalfGroup
  BY <1>2 DEF Init, Separate, Earlier, GivenUndone, NoHalfGroup
<1>4. Passing
  BY NoPassIs DEF Init, Passing
<1>5. DyingIsCold
  <2>1. \A i \in Id : ~Given(i)
    BY IdIsInt DEF Init, Given, Id
  <2>2. \A i \in Id : ~Dying(i)
    BY <1>2, <2>1, NoPassIs, IdleRequest DEF Init, Dying
  <2> QED
    BY <2>2 DEF DyingIsCold
<1> QED
  BY <1>1, <1>2, <1>3, <1>4, <1>5 DEF IInv

----------------------------------------------------------------------------
(* Theorems *)

LEMMA StepInv ==
  ASSUME IInv, [Next]_vars
  PROVE  IInv'
<1>1. ASSUME NEW r \in Req, Step(r) PROVE IInv'
  BY <1>1, InsertRowInv, ProbeInv, GiveWayInv, LabelRowInv, StartTmuxInv, RespawnInv, KillFreshInv,
     DropRowInv, UndoTmuxInv, UndoRowInv, KillTmuxInv, MarkKilledInv, DismissRowInv DEF Step
<1>2. ASSUME NEW r \in Req, NEW n \in 1 .. MaxGroup, CreateRequest(r, n) PROVE IInv'
  BY <1>2, CreateRequestInv
<1>3. ASSUME NEW r \in Req, NEW i \in Id, KillRequest(r, i) \/ DismissRequest(r, i) PROVE IInv'
  BY <1>3, KillRequestInv, DismissRequestInv
<1>4. CASE ReadRows \/ ListTmux \/ MarkDead
  BY <1>4, ReadRowsInv, ListTmuxInv, MarkDeadInv
<1>5. CASE ListFails
  BY <1>5, PassEnds DEF ListFails, AfterListError, store, history
<1>6. CASE MarkFails
  BY <1>6, PassEnds DEF MarkFails, store, history
<1>7. ASSUME NEW i \in Id, Ages(i) \/ TmuxEnds(i) PROVE IInv'
  BY <1>7, AgesInv, TmuxEndsInv
<1>8. CASE Crash
  BY <1>8, CrashInv
<1>9. CASE UNCHANGED vars
  BY <1>9, StutterInv
<1> QED
  BY <1>1, <1>2, <1>3, <1>4, <1>5, <1>6, <1>7, <1>8, <1>9 DEF Next

\* What the handlers, the tick and the crashes of sessions.go keep true together:
\* the inductive invariant the theorems below follow from.
THEOREM Invariance == Spec => []IInv
<1>1. Init => IInv
  BY InitIInv
<1>2. IInv /\ [Next]_vars => IInv'
  BY StepInv
<1> QED
  BY <1>1, <1>2, PTL DEF Spec

\* The state's shape; an id that sqlite_sequence has not given out has no row.
THEOREM TypeCorrect == Spec => []TypeOK
<1>1. IInv => TypeOK
  BY DEF IInv
<1> QED
  BY <1>1, Invariance, PTL

\* Every session that tmux runs is listed as running, whatever fails and wherever
\* the daemon crashes, but for an earlier database's, those whose undoing failed and
\* those killed, or looked for after the grace, before they were started.
THEOREM NothingUnreachable == Spec => []NoUnreachableSession
<1>1. ASSUME IInv PROVE NoUnreachableSession
  <2> SUFFICES ASSUME NEW i \in tmux, row[i] # "running" PROVE i \in held \cup debris \cup raced
    BY DEF NoUnreachableSession
  <2>1. i \in Id /\ (Given(i) \/ i \in held)
    BY <1>1 DEF IInv, TypeOK, Earlier
  <2> QED
    BY <1>1, <2>1 DEF IInv, DyingIsCold, Dying, Cold
<1> QED
  BY <1>1, Invariance, PTL

\* A create that has answered with an error leaves nothing of its group, neither row
\* nor tmux session, unless undoing one failed.
THEOREM AllOrNothing == Spec => []NoHalfGroup
<1>1. IInv => NoHalfGroup
  BY DEF IInv
<1> QED
  BY <1>1, Invariance, PTL

\* A tmux session of an earlier database ends by itself or because a user kills the
\* row that has its name: no create, rollback or pass ends it.
THEOREM JunkSpared == Spec => HeldLeftRunning
<1> DEFINE A == \A i \in held \cap (tmux \ tmux') :
                  TmuxEnds(i) \/ \E r \in Req : KillTmux(r) /\ req[r].id = i
<1>1. ASSUME IInv, Next PROVE A
  <2> SUFFICES ASSUME NEW i \in held, i \in tmux, i \notin tmux'
               PROVE  TmuxEnds(i) \/ \E r \in Req : KillTmux(r) /\ req[r].id = i
    OBVIOUS
  <2>1. ASSUME NEW r \in Req, KillFresh(r) PROVE FALSE
    BY <1>1, <2>1, Mine DEF KillFresh, Knows
  <2>2. ASSUME NEW r \in Req, UndoTmux(r) PROVE FALSE
    <3>1. req[r].created # {} /\ req[r].created \in SUBSET Id /\ req[r].created \cap held = {}
      BY <1>1, <2>2, Mine, RequestFields DEF UndoTmux, Knows, Fits, Undo
    <3>2. First(req[r].created) \in req[r].created
      BY <3>1, FirstIsOf
    <3> QED
      BY <2>2, <3>1, <3>2 DEF UndoTmux
  <2>3. ASSUME NEW r \in Req, KillTmux(r) PROVE req[r].id = i
    BY <2>3 DEF KillTmux
  <2>4. ASSUME NEW r \in Req, Step(r) PROVE KillTmux(r)
    <3>1. ASSUME StartTmux(r) PROVE FALSE
      BY <3>1 DEF StartTmux
    <3> QED
      BY <2>1, <2>2, <2>4, <3>1
      DEF Step, InsertRow, Probe, GiveWay, LabelRow, Respawn, DropRow, UndoRow, MarkKilled, DismissRow
  <2>5. ASSUME NEW j \in Id, Ages(j) \/ TmuxEnds(j) PROVE TmuxEnds(i)
    <3>1. TmuxEnds(j)
      BY <2>5 DEF Ages
    <3>2. i = j
      BY <3>1 DEF TmuxEnds
    <3> QED
      BY <3>1, <3>2
  <2> QED
    BY <1>1, <2>3, <2>4, <2>5
    DEF Next, CreateRequest, KillRequest, DismissRequest, ReadRows, ListTmux, ListFails, MarkDead,
        MarkFails, Crash
<1>2. IInv /\ [Next]_vars => [A]_vars
  BY <1>1
<1> QED
  BY <1>2, Invariance, PTL DEF Spec, HeldLeftRunning

----------------------------------------------------------------------------
(* Rows follow SessionLifecycle *)

Inserts == nextId \in Id /\ row' = [row EXCEPT ![nextId] = "running"] /\ nextId' = nextId + 1
Stops(i) == Given(i) /\ nextId' = nextId /\ (row' = Without(i) \/ row' = WithStatus(i, "dead"))

LEMMA RowChanges ==
  ASSUME IInv, Next
  PROVE  UNCHANGED <<row, nextId>> \/ Inserts \/ \E i \in Id : Stops(i)
<1>1. ASSUME NEW r \in Req, InsertRow(r) PROVE UNCHANGED <<row, nextId>> \/ Inserts
  BY <1>1 DEF InsertRow, NextId, Inserts
<1>2. ASSUME NEW r \in Req, GiveWay(r) \/ DropRow(r) \/ MarkKilled(r) \/ DismissRow(r)
      PROVE  UNCHANGED <<row, nextId>> \/ \E i \in Id : Stops(i)
  <2>1. req[r].op \in Own \cup Marks
    BY <1>2 DEF GiveWay, DropRow, MarkKilled, DismissRow, Own, Marks
  <2>2. Given(req[r].id) /\ req[r].id \in Id
    BY <2>1, Mine DEF Fits, Given
  <2>3. UNCHANGED <<row, nextId>> \/ Stops(req[r].id)
    BY <1>2, <2>2 DEF GiveWay, DropRow, MarkKilled, DismissRow, Stops
  <2> QED
    BY <2>2, <2>3
<1>3. ASSUME NEW r \in Req, UndoRow(r)
      PROVE  UNCHANGED <<row, nextId>> \/ \E i \in Id : Stops(i)
  <2>1. req[r].created # {} /\ req[r].created \in SUBSET Id /\ Fits(req[r])
    BY <1>3, Mine, RequestFields DEF UndoRow, Fits, Undo
  <2>2. First(req[r].created) \in req[r].created
    BY <2>1, FirstIsOf
  <2>3. Given(First(req[r].created)) /\ First(req[r].created) \in Id
    BY <2>1, <2>2 DEF Fits
  <2> QED
    BY <1>3, <2>3 DEF UndoRow, Stops
<1>4. ASSUME NEW r \in Req, Step(r)
      PROVE  UNCHANGED <<row, nextId>> \/ Inserts \/ \E i \in Id : Stops(i)
  BY <1>1, <1>2, <1>3, <1>4
  DEF Step, store, Probe, LabelRow, StartTmux, Respawn, KillFresh, UndoTmux, KillTmux
<1>5. ASSUME MarkDead PROVE \E i \in Id : Stops(i)
  <2>1. pass.doomed # {} /\ pass.doomed \in SUBSET Id
    BY <1>5 DEF MarkDead, IInv, Passing, TypeOK, Pass
  <2>2. First(pass.doomed) \in pass.doomed
    BY <2>1, FirstIsOf
  <2>3. Given(First(pass.doomed)) /\ First(pass.doomed) \in Id
    BY <2>1, <2>2 DEF IInv, Passing
  <2> QED
    BY <1>5, <2>3 DEF MarkDead, Stops
<1> QED
  BY <1>4, <1>5
  DEF Next, store, CreateRequest, KillRequest, DismissRequest, ReadRows, ListTmux, ListFails, MarkFails,
      Ages, TmuxEnds, Crash

\* Seen from a page, a session appears, dies at most once, goes at most once and never
\* comes back, whatever happens between the statements of a handler.
THEOREM LifecycleFollowed == Spec => RowsFollowLifecycle
<1>1. Init => Lifecycle!Init
  BY IdIsInt DEF Init, Lifecycle!Init, Shown, Id
<1>2. ASSUME IInv, Next PROVE Lifecycle!Next \/ Shown' = Shown
  <2>1. /\ row \in [Id -> {"none", "running", "dead"}] /\ nextId \in Int
        /\ \A i \in Id : i \in Int /\ (i >= nextId => row[i] = "none")
    BY <1>2, IdIsInt DEF IInv, TypeOK
  <2>2. CASE UNCHANGED <<row, nextId>>
    BY <2>2 DEF Shown
  <2>3. CASE Inserts
    <3>1. Shown[nextId] = "unborn" /\ \A j \in Id : j < nextId => Shown[j] # "unborn"
      BY <2>1, <2>3 DEF Inserts, Shown
    <3>2. Shown' = [Shown EXCEPT ![nextId] = "running"]
      <4> DEFINE status(i, n, s) == IF i >= n THEN "unborn" ELSE IF s = "none" THEN "gone" ELSE s
      <4>1. nextId' = nextId + 1 /\ row'[nextId] = "running"
            /\ \A i \in Id : i # nextId => row'[i] = row[i]
        BY <2>1, <2>3 DEF Inserts
      <4>2. \A i \in Id : i # nextId => (i >= nextId <=> i >= nextId')
        BY <2>1, <4>1
      <4>3. \A i \in Id : i # nextId => status(i, nextId', row'[i]) = status(i, nextId, row[i])
        BY <4>1, <4>2
      <4>4. status(nextId, nextId', row'[nextId]) = "running"
        BY <2>1, <4>1
      <4>5. /\ Shown = [i \in Id |-> status(i, nextId, row[i])]
            /\ Shown' = [i \in Id |-> status(i, nextId', row'[i])]
        BY DEF Shown
      <4> HIDE DEF status
      <4> QED
        BY <4>3, <4>4, <4>5
    <3> QED
      BY <2>3, <3>1, <3>2 DEF Inserts, Lifecycle!Next, Lifecycle!Appears, Lifecycle!Becomes
  <2>4. ASSUME NEW i \in Id, Stops(i) PROVE Lifecycle!Next \/ Shown' = Shown
    <3>1. Given(i) /\ nextId' = nextId /\ (row' = Without(i) \/ row' = WithStatus(i, "dead"))
      BY <2>4 DEF Stops
    <3>2. Shown[i] = (IF row[i] = "none" THEN "gone" ELSE row[i])
      BY <2>1, <3>1 DEF Shown, Given
    <3>3. CASE row[i] = "none" \/ (row[i] = "dead" /\ row' = WithStatus(i, "dead"))
      <4>1. row' = row
        BY <2>1, <3>1, <3>3 DEF Without, WithStatus
      <4> QED
        BY <3>1, <4>1 DEF Shown
    <3>4. CASE row[i] # "none" /\ row' = Without(i)
      <4>1. Shown' = [Shown EXCEPT ![i] = "gone"]
        BY <2>1, <3>1, <3>4 DEF Shown, Given, Without
      <4>2. Shown[i] \in {"running", "dead"}
        BY <2>1, <3>2, <3>4
      <4> QED
        BY <4>1, <4>2 DEF Lifecycle!Next, Lifecycle!Goes, Lifecycle!Becomes
    <3>5. CASE row[i] = "running" /\ row' = WithStatus(i, "dead")
      <4>1. Shown' = [Shown EXCEPT ![i] = "dead"]
        BY <2>1, <3>1, <3>5 DEF Shown, Given, WithStatus
      <4>2. Shown[i] = "running"
        BY <3>2, <3>5
      <4> QED
        BY <4>1, <4>2 DEF Lifecycle!Next, Lifecycle!Dies, Lifecycle!Becomes
    <3> QED
      BY <2>1, <3>1, <3>3, <3>4, <3>5
  <2> QED
    BY <1>2, <2>2, <2>3, <2>4, RowChanges
<1>3. UNCHANGED vars => Shown' = Shown
  BY DEF vars, store, Shown
<1>4. IInv /\ [Next]_vars => [Lifecycle!Next]_Shown
  BY <1>2, <1>3
<1> QED
  BY <1>1, <1>4, Invariance, PTL DEF Spec, RowsFollowLifecycle, Lifecycle!Spec
=============================================================================
