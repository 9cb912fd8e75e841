--------------------------- MODULE ArbiterProofs ---------------------------
(***************************************************************************)
(* Arbiter's invariants and action properties, for every set of sessions,  *)
(* clients and sizes, any finite number of connections and any limits.     *)
(***************************************************************************)
EXTENDS Arbiter, FiniteSetTheorems, TLAPS

\* A tick that is open has listed every session tmux has, but for the ones that
\* tmux got after it.
ListingCovers ==
  listing.open => \A s \in Session : tmux[s] = "alive" => s \in listing.alive \cup bornUnlisted

\* The inductive invariant: the checked invariants support each other, and only
\* the reconcile tick's own needs to be added.
IInv ==
  /\ TypeOK
  /\ RecordsServeConnections
  /\ AbsenceAndPresenceDated
  /\ OnlyOwnerResizesWindow
  /\ WindowSizedByOwner
  /\ ListingCovers

----------------------------------------------------------------------------
(* Connections and their counts *)

\* A slot that holds a handle is told from an empty one by its client.
LEMMA HandleNotEmpty ==
  ASSUME NEW h \in ArbConn PROVE h # NoConn /\ h.clientID # NoOne
BY ArbiterAssumption DEF ArbConn, NoConn

\* A registered slot holds a handle.
LEMMA RegisteredHandle ==
  ASSUME TypeOK, NEW c \in Registered
  PROVE  c \in Conn /\ conn[c] \in ArbConn
BY DEF TypeOK, Registered

\* The connections of a session, and of a client in it, are finitely many.
LEMMA ConnsFinite ==
  ASSUME NEW s, NEW k
  PROVE  IsFiniteSet(ConnsOn(s)) /\ IsFiniteSet(ConnsOf(s, k))
<1>1. ConnsOn(s) \subseteq Conn /\ ConnsOf(s, k) \subseteq Conn
  BY DEF ConnsOn, ConnsOf, Registered
<1> QED
  BY <1>1, FS_Subset, ArbiterAssumption

\* No connections is a count of zero.
LEMMA NoConnsZero ==
  ASSUME NEW s, NEW k
  PROVE  /\ Cardinality(ConnsOn(s)) \in Nat /\ Cardinality(ConnsOf(s, k)) \in Nat
         /\ Cardinality(ConnsOn(s)) = 0 <=> ConnsOn(s) = {}
         /\ Cardinality(ConnsOf(s, k)) = 0 <=> ConnsOf(s, k) = {}
BY ConnsFinite, FS_EmptySet, FS_CardinalityType

\* One connection more or less is one more or less in the count.
LEMMA CountOneMore ==
  ASSUME NEW s, NEW k, NEW c
  PROVE  /\ c \notin ConnsOn(s) => Cardinality(ConnsOn(s) \cup {c}) = Cardinality(ConnsOn(s)) + 1
         /\ c \notin ConnsOf(s, k) => Cardinality(ConnsOf(s, k) \cup {c}) = Cardinality(ConnsOf(s, k)) + 1
BY ConnsFinite, FS_AddElement

LEMMA CountOneLess ==
  ASSUME NEW s, NEW k, NEW c
  PROVE  /\ c \in ConnsOn(s) => Cardinality(ConnsOn(s) \ {c}) = Cardinality(ConnsOn(s)) - 1
         /\ c \in ConnsOf(s, k) => Cardinality(ConnsOf(s, k) \ {c}) = Cardinality(ConnsOf(s, k)) - 1
BY ConnsFinite, FS_RemoveElement

\* A step that changes nobody's name and client changes no session's connections.
LEMMA SameConns ==
  ASSUME \A c \in Conn : /\ conn'[c] = NoConn <=> conn[c] = NoConn
                         /\ conn'[c].tmuxName = conn[c].tmuxName
                         /\ conn'[c].clientID = conn[c].clientID
  PROVE  /\ Registered' = Registered
         /\ \A s : ConnsOn(s)' = ConnsOn(s)
         /\ \A s, k : ConnsOf(s, k)' = ConnsOf(s, k)
BY DEF Registered, ConnsOn, ConnsOf

----------------------------------------------------------------------------
(* Every step keeps the invariant: one lemma per action *)

LEMMA TimePassesStep == ASSUME IInv, TimePasses PROVE IInv'
<1> USE DEF IInv, TimePasses, history
<1>1. TypeOK'
  BY ArbiterAssumption DEF TypeOK, Time, Moment
<1>2. RecordsServeConnections'
  BY SameConns DEF RecordsServeConnections
<1>3. AbsenceAndPresenceDated'
  BY SameConns, ArbiterAssumption DEF AbsenceAndPresenceDated, TypeOK, Time, Moment, Never
<1>4. OnlyOwnerResizesWindow' /\ WindowSizedByOwner'
  BY SameConns DEF OnlyOwnerResizesWindow, WindowSizedByOwner
<1>5. ListingCovers'
  BY DEF ListingCovers
<1> QED
  BY <1>1, <1>2, <1>3, <1>4, <1>5

LEMMA TmuxStep ==
  ASSUME IInv, NEW s \in Session, TmuxCreates(s) \/ TmuxEnds(s)
  PROVE  IInv'
<1> USE DEF IInv, TmuxCreates, TmuxEnds, history
<1>1. TypeOK'
  BY DEF TypeOK
<1>2. RecordsServeConnections'
  BY SameConns DEF RecordsServeConnections
<1>3. AbsenceAndPresenceDated'
  BY SameConns DEF AbsenceAndPresenceDated
<1>4. OnlyOwnerResizesWindow' /\ WindowSizedByOwner'
  BY SameConns DEF OnlyOwnerResizesWindow, WindowSizedByOwner
<1>5. ListingCovers'
  BY DEF ListingCovers, TypeOK
<1> QED
  BY <1>1, <1>2, <1>3, <1>4, <1>5

LEMMA RegisterStep ==
  ASSUME IInv, NEW c \in Conn, NEW s \in Session, NEW k \in Client,
         NEW policy \in SizePolicy, Register(c, s, k, policy)
  PROVE  IInv'
<1> USE DEF IInv, Register, RefsAfterRegister
<1> DEFINE h == [tmuxName |-> s, clientID |-> k, sizePolicy |-> policy,
                 dims |-> NoDims, pruned |-> FALSE]
<1>1. h \in ArbConn /\ h # NoConn
  BY HandleNotEmpty DEF ArbConn
<1>2. conn' = [conn EXCEPT ![c] = h] /\ conn[c] = NoConn /\ conn'[c] = h
  BY DEF TypeOK
<1>3. c \notin Registered /\ Registered' = Registered \cup {c}
  BY <1>1, <1>2 DEF Registered, TypeOK
<1>4. \A d \in Registered : conn'[d] = conn[d]
  BY <1>2, <1>3 DEF Registered, TypeOK
<1>5. \A t \in Session : ConnsOn(t)' = IF t = s THEN ConnsOn(t) \cup {c} ELSE ConnsOn(t)
  BY <1>2, <1>3, <1>4 DEF ConnsOn
<1>6. \A t \in Session, l \in Client :
        ConnsOf(t, l)' = IF t = s /\ l = k THEN ConnsOf(t, l) \cup {c} ELSE ConnsOf(t, l)
  BY <1>2, <1>3, <1>4, <1>5 DEF ConnsOf, ConnsOn
<1>7. \A t, l : c \notin ConnsOn(t) /\ c \notin ConnsOf(t, l)
  BY <1>3 DEF ConnsOn, ConnsOf
<1>8. TypeOK'
  BY <1>1, <1>2 DEF TypeOK, Moment
<1>9. RecordsServeConnections'
  <2>1. ASSUME NEW d \in Registered'
        PROVE  conn'[d].tmuxName \in sessions' /\ ~conn'[d].pruned
    BY <1>2, <1>3, <1>4 DEF RecordsServeConnections
  <2>2. ASSUME NEW t \in Session
        PROVE  refs'[t] = Cardinality(ConnsOn(t)')
    <3>1. refs[t] = Cardinality(ConnsOn(t)) /\ refs'[t] = IF t = s THEN refs[t] + 1 ELSE refs[t]
      BY DEF RecordsServeConnections, TypeOK
    <3> QED
      BY <3>1, <1>5, <1>7, CountOneMore
  <2>3. ASSUME NEW t \in Session, NEW l \in Client
        PROVE  live'[t][l] = Cardinality(ConnsOf(t, l)')
    <3>1. /\ live[t][l] = Cardinality(ConnsOf(t, l))
          /\ live'[t][l] = IF t = s /\ l = k THEN live[t][l] + 1 ELSE live[t][l]
      BY DEF RecordsServeConnections, TypeOK
    <3>2. Cardinality(ConnsOf(t, l) \cup {c}) = Cardinality(ConnsOf(t, l)) + 1
      BY <1>7, CountOneMore
    <3> QED
      BY <3>1, <3>2, <1>6
  <2> QED
    BY <2>1, <2>2, <2>3 DEF RecordsServeConnections
<1>10. AbsenceAndPresenceDated'
  <2>1. ASSUME NEW t \in Session, NEW l \in Client, ownerID'[t] = l, ConnsOf(t, l)' = {}
        PROVE  ownerLeftAt'[t] = departedAt'[t][l]
    <3>1. ~(t = s /\ l = k) /\ ConnsOf(t, l) = {}
      BY <2>1, <1>6
    <3>2. departedAt'[t][l] = departedAt[t][l] /\ ownerID[t] = l /\ ownerLeftAt'[t] = ownerLeftAt[t]
      BY <3>1, <2>1 DEF TypeOK
    <3> QED
      BY <3>1, <3>2 DEF AbsenceAndPresenceDated
  <2> QED
    BY <2>1 DEF AbsenceAndPresenceDated
<1>11. OnlyOwnerResizesWindow' /\ WindowSizedByOwner'
  <2>1. ASSUME NEW t \in Session, NEW op \in applying[t]
        PROVE  op.conn \in ConnsOn(t)' /\ conn'[op.conn] = conn[op.conn]
    <3>1. op.conn \in ConnsOn(t)
      BY DEF OnlyOwnerResizesWindow
    <3>2. op.conn \in Registered
      BY <3>1 DEF ConnsOn
    <3> QED
      BY <3>1, <3>2, <1>4, <1>5
  <2> QED
    BY <2>1 DEF OnlyOwnerResizesWindow, WindowSizedByOwner
<1>12. ListingCovers'
  BY DEF ListingCovers
<1> QED
  BY <1>8, <1>9, <1>10, <1>11, <1>12

LEMMA UnregisterStep ==
  ASSUME IInv, NEW c \in Conn, Unregister(c)
  PROVE  IInv'
<1> USE DEF IInv, ResizeFree, OwnerLeaves
<1> PICK s, k : s = conn[c].tmuxName /\ k = conn[c].clientID
  OBVIOUS
<1>1. /\ c \in Registered /\ s \in Session /\ k \in Client /\ s \in sessions
      /\ ~conn[c].pruned /\ applying[s] = {}
  BY RegisteredHandle DEF Unregister, ArbConn, RecordsServeConnections
<1>2. /\ conn' = [conn EXCEPT ![c] = NoConn]
      /\ live' = [live EXCEPT ![s][k] = IF @ <= 1 THEN 0 ELSE @ - 1]
      /\ refs' = [refs EXCEPT ![s] = @ - 1]
      /\ ownerLeftAt' = IF live[s][k] <= 1 /\ ownerID[s] = k
                        THEN [ownerLeftAt EXCEPT ![s] = now] ELSE ownerLeftAt
      /\ departedAt' = IF ConnsOf(s, k) = {c} THEN [departedAt EXCEPT ![s][k] = now]
                                             ELSE departedAt
      /\ UNCHANGED <<now, tmux, window, sessions, ownerID, lastHuman, applying, listing,
                     gestureAt, sizedBy, unsized, bornUnlisted>>
  BY <1>1 DEF Unregister
<1>3. Registered' = Registered \ {c} /\ \A d \in Registered \ {c} : conn'[d] = conn[d]
  BY <1>2 DEF Registered, TypeOK
<1>4. \A t \in Session : ConnsOn(t)' = ConnsOn(t) \ {c}
  BY <1>3 DEF ConnsOn
<1>5. \A t \in Session, l \in Client : ConnsOf(t, l)' = ConnsOf(t, l) \ {c}
  BY <1>3, <1>4 DEF ConnsOf, ConnsOn
<1>6. \A t \in Session, l \in Client :
        /\ c \in ConnsOn(t) <=> t = s
        /\ c \in ConnsOf(t, l) <=> t = s /\ l = k
  BY <1>1 DEF ConnsOn, ConnsOf
<1>7. refs[s] = Cardinality(ConnsOn(s)) /\ refs[s] # 0 /\ refs[s] \in Nat
  BY <1>1, <1>6, NoConnsZero DEF RecordsServeConnections, TypeOK
<1>8. live[s][k] = Cardinality(ConnsOf(s, k)) /\ live[s][k] # 0 /\ live[s][k] \in Nat
  BY <1>1, <1>6, NoConnsZero DEF RecordsServeConnections, TypeOK
<1>9. Cardinality(ConnsOf(s, k) \ {c}) = live[s][k] - 1
  <2>1. c \in ConnsOf(s, k)
    BY <1>1, <1>6
  <2>2. Cardinality(ConnsOf(s, k) \ {c}) = Cardinality(ConnsOf(s, k)) - 1
    BY <2>1, CountOneLess
  <2> QED
    BY <2>2, <1>8
<1>10. live[s][k] <= 1 <=> ConnsOf(s, k) = {c}
  <2>1. ConnsOf(s, k) = {c} => live[s][k] = 1
    BY <1>8, FS_Singleton
  <2>2. ASSUME live[s][k] <= 1 PROVE ConnsOf(s, k) = {c}
    <3>1. Cardinality(ConnsOf(s, k)) = 1
      BY <2>2, <1>8
    <3>2. PICK x : ConnsOf(s, k) = {x}
      BY <3>1, FS_Singleton, ConnsFinite
    <3> QED
      BY <3>2, <1>1, <1>6
  <2> QED
    BY <2>1, <2>2
<1>11. \A t \in Session :
         /\ refs'[t] = IF t = s THEN refs[t] - 1 ELSE refs[t]
         /\ \A l \in Client : live'[t][l] = IF t = s /\ l = k THEN live[t][l] - 1 ELSE live[t][l]
  <2>1. (IF live[s][k] <= 1 THEN 0 ELSE live[s][k] - 1) = live[s][k] - 1
    BY <1>8
  <2>2. live' = [live EXCEPT ![s][k] = live[s][k] - 1]
    BY <2>1, <1>2
  <2> QED
    BY <2>2, <1>1, <1>2 DEF TypeOK
<1>12. TypeOK'
  <2>1. live' \in [Session -> [Client -> Nat]]
    <3>1. (IF live[s][k] <= 1 THEN 0 ELSE live[s][k] - 1) \in Nat
      BY <1>8
    <3> QED
      BY <3>1, <1>1, <1>2 DEF TypeOK
  <2>2. refs' \in [Session -> Nat]
    <3>1. refs[s] - 1 \in Nat
      BY <1>7
    <3> QED
      BY <3>1, <1>1, <1>2 DEF TypeOK
  <2>3. departedAt' \in [Session -> [Client -> Moment]] /\ ownerLeftAt' \in [Session -> Time]
    BY <1>1, <1>2 DEF TypeOK, Moment
  <2>4. conn' \in [Conn -> ArbConn \cup {NoConn}]
    BY <1>2 DEF TypeOK
  <2> QED
    BY <2>1, <2>2, <2>3, <2>4, <1>2 DEF TypeOK
<1>13. RecordsServeConnections'
  <2>1. ASSUME NEW d \in Registered'
        PROVE  conn'[d].tmuxName \in sessions' /\ ~conn'[d].pruned
    BY <1>2, <1>3 DEF RecordsServeConnections
  <2>2. ASSUME NEW t \in Session
        PROVE  refs'[t] = Cardinality(ConnsOn(t)')
    <3>1. refs[t] = Cardinality(ConnsOn(t)) /\ refs'[t] = IF t = s THEN refs[t] - 1 ELSE refs[t]
      BY <1>11 DEF RecordsServeConnections
    <3>2. t = s => Cardinality(ConnsOn(t) \ {c}) = Cardinality(ConnsOn(t)) - 1
      BY <1>1, <1>6, CountOneLess
    <3>3. t # s => ConnsOn(t) \ {c} = ConnsOn(t)
      BY <1>1, <1>6
    <3> QED
      BY <3>1, <3>2, <3>3, <1>4
  <2>3. ASSUME NEW t \in Session, NEW l \in Client
        PROVE  live'[t][l] = Cardinality(ConnsOf(t, l)')
    <3>1. /\ live[t][l] = Cardinality(ConnsOf(t, l))
          /\ live'[t][l] = IF t = s /\ l = k THEN live[t][l] - 1 ELSE live[t][l]
      BY <1>11 DEF RecordsServeConnections
    <3>2. t = s /\ l = k => Cardinality(ConnsOf(t, l) \ {c}) = Cardinality(ConnsOf(t, l)) - 1
      BY <1>1, <1>6, CountOneLess
    <3>3. ~(t = s /\ l = k) => ConnsOf(t, l) \ {c} = ConnsOf(t, l)
      BY <1>1, <1>6
    <3> QED
      BY <3>1, <3>2, <3>3, <1>5
  <2> QED
    BY <2>1, <2>2, <2>3 DEF RecordsServeConnections
<1>14. AbsenceAndPresenceDated'
  <2>1. ASSUME NEW t \in Session, NEW l \in Client, ownerID[t] = l, ConnsOf(t, l)' = {}
        PROVE  ownerLeftAt'[t] = departedAt'[t][l]
    <3>1. CASE t = s /\ l = k
      <4>1. ConnsOf(s, k) \ {c} = {} /\ c \in ConnsOf(s, k)
        BY <1>1, <1>5, <1>6, <2>1, <3>1
      <4>2. ConnsOf(s, k) = {c} /\ live[s][k] <= 1 /\ ownerID[s] = k
        BY <4>1, <1>10, <2>1, <3>1
      <4> QED
        BY <4>2, <1>1, <1>2, <3>1 DEF TypeOK
    <3>2. CASE ~(t = s /\ l = k)
      <4>1. ConnsOf(t, l) = {}
        BY <1>5, <1>6, <2>1, <3>2
      <4>2. ownerLeftAt[t] = departedAt[t][l]
        BY <4>1, <2>1 DEF AbsenceAndPresenceDated
      <4>3. ownerLeftAt'[t] = ownerLeftAt[t] /\ departedAt'[t][l] = departedAt[t][l]
        BY <1>1, <1>2, <2>1, <3>2 DEF TypeOK
      <4> QED
        BY <4>2, <4>3
    <3> QED
      BY <3>1, <3>2
  <2>2. \A l \in Client : lastHuman'[l] = lastHuman[l] /\ gestureAt'[l] = gestureAt[l] /\ now' = now
    BY <1>2
  <2> QED
    BY <2>1, <2>2, <1>2 DEF AbsenceAndPresenceDated
<1>15. OnlyOwnerResizesWindow' /\ WindowSizedByOwner'
  <2>1. ASSUME NEW t \in Session, NEW op \in applying[t]
        PROVE  op.conn \in ConnsOn(t)' /\ conn'[op.conn] = conn[op.conn]
    <3>1. t # s /\ op.conn \in ConnsOn(t)
      BY <1>1 DEF OnlyOwnerResizesWindow
    <3> QED
      BY <3>1, <1>1, <1>3, <1>4, <1>6 DEF ConnsOn
  <2> QED
    BY <2>1, <1>2 DEF OnlyOwnerResizesWindow, WindowSizedByOwner
<1>16. ListingCovers'
  BY <1>2 DEF ListingCovers
<1> QED
  BY <1>12, <1>13, <1>14, <1>15, <1>16

----------------------------------------------------------------------------

\* What a usable handle is, and that its owner's claim leaves names as they are.
LEMMA UsableHandle ==
  ASSUME IInv, NEW c \in Conn, Usable(c)
  PROVE  /\ c \in Registered /\ conn[c] \in ArbConn /\ conn[c] # NoConn
         /\ conn[c].tmuxName \in Session /\ conn[c].clientID \in Client
         /\ conn[c].clientID # NoOne
         /\ c \in ConnsOn(conn[c].tmuxName)
         /\ c \in ConnsOf(conn[c].tmuxName, conn[c].clientID)
BY RegisteredHandle, HandleNotEmpty
   DEF IInv, Usable, ArbConn, ConnsOn, ConnsOf, Registered

LEMMA ResizeStep ==
  ASSUME IInv, NEW c \in Conn, NEW d \in Dims, NEW active \in BOOLEAN, Resize(c, d, active)
  PROVE  IInv'
<1> USE DEF IInv, ResizeFree, Gesture
<1> PICK s, k : s = conn[c].tmuxName /\ k = conn[c].clientID
  OBVIOUS
<1> DEFINE op == [conn |-> c, dims |-> d, active |-> active,
                  resizeWindow |-> /\ Takes(c, active)
                                   /\ ~(active /\ Follows(c) /\ ownerID[s] = k)]
<1>1. /\ c \in ConnsOn(s) /\ c \in ConnsOf(s, k) /\ s \in Session /\ k \in Client /\ k # NoOne
      /\ conn[c] \in ArbConn
  BY UsableHandle DEF Resize
<1>2. /\ applying[s] = {}
      /\ conn' = [conn EXCEPT ![c].dims = d]
      /\ applying' = [applying EXCEPT ![s] = @ \cup {op}]
      /\ UNCHANGED <<now, tmux, window, sessions, refs, live, ownerLeftAt, listing,
                     departedAt, sizedBy, unsized, bornUnlisted>>
  BY DEF Resize
<1>3. ownerID' = [ownerID EXCEPT ![s] = IF Takes(c, active) THEN k ELSE ownerID[s]]
  BY DEF Resize, OwnerAfter
<1>4. \/ /\ lastHuman' = [lastHuman EXCEPT ![k] = now]
         /\ gestureAt' = [gestureAt EXCEPT ![k] = now]
      \/ UNCHANGED <<lastHuman, gestureAt>>
  BY DEF Resize
<1>5. /\ conn'[c] \in ArbConn /\ conn'[c].tmuxName = s /\ conn'[c].clientID = k
      /\ conn'[c].pruned = conn[c].pruned
  BY <1>1, <1>2 DEF TypeOK, ArbConn
<1>6. /\ Registered' = Registered
      /\ \A t : ConnsOn(t)' = ConnsOn(t)
      /\ \A t, l : ConnsOf(t, l)' = ConnsOf(t, l)
  <2>1. conn'[c] # NoConn /\ conn[c] # NoConn
    BY <1>1, <1>5, HandleNotEmpty
  <2> QED
    BY <2>1, <1>2, <1>5, SameConns DEF TypeOK
<1>7. op \in ApplyOp /\ Takes(c, active) \in BOOLEAN
  BY DEF ApplyOp, Takes
<1>8. TypeOK'
  <2>1. conn' \in [Conn -> ArbConn \cup {NoConn}]
    BY <1>2, <1>5 DEF TypeOK
  <2>2. ownerID' \in [Session -> Client \cup {NoOne}] /\ applying' \in [Session -> SUBSET ApplyOp]
    BY <1>1, <1>2, <1>3, <1>7 DEF TypeOK
  <2>3. lastHuman' \in [Client -> Moment] /\ gestureAt' \in [Client -> Moment]
    BY <1>1, <1>4 DEF TypeOK, Moment
  <2> QED
    BY <2>1, <2>2, <2>3, <1>2 DEF TypeOK
<1>9. RecordsServeConnections'
  <2>1. ASSUME NEW e \in Registered'
        PROVE  conn'[e].tmuxName \in sessions' /\ ~conn'[e].pruned
    BY <1>2, <1>5, <1>6 DEF RecordsServeConnections, TypeOK, Registered
  <2> QED
    BY <2>1, <1>2, <1>6 DEF RecordsServeConnections
<1>10. AbsenceAndPresenceDated'
  <2>1. ASSUME NEW t \in Session, NEW l \in Client, ownerID'[t] = l, ConnsOf(t, l)' = {}
        PROVE  ownerLeftAt'[t] = departedAt'[t][l]
    <3>1. ConnsOf(t, l) = {}
      BY <2>1, <1>6
    <3>2. ~(t = s /\ l = k)
      BY <3>1, <1>1
    <3>3. ownerID[t] = l
      BY <3>2, <2>1, <1>1, <1>3 DEF TypeOK
    <3> QED
      BY <3>1, <3>3, <1>2 DEF AbsenceAndPresenceDated
  <2>2. ASSUME NEW l \in Client
        PROVE  \/ lastHuman'[l] = gestureAt'[l]
               \/ lastHuman'[l] = Never /\ now' - gestureAt'[l] > PresenceWindow
    BY <1>2, <1>4 DEF AbsenceAndPresenceDated, TypeOK
  <2> QED
    BY <2>1, <2>2, <1>2 DEF AbsenceAndPresenceDated
<1>11. applying'[s] = {op} /\ \A t \in Session \ {s} : applying'[t] = applying[t]
  BY <1>1, <1>2 DEF TypeOK
<1>12. \A e \in Registered : conn'[e].clientID = conn[e].clientID
  BY <1>2, <1>5 DEF TypeOK, Registered
<1>13. OnlyOwnerResizesWindow'
  <2>1. ASSUME NEW t \in Session, NEW o \in applying'[t] PROVE applying'[t] = {o}
    BY <1>11 DEF OnlyOwnerResizesWindow
  <2>2. ASSUME NEW t \in Session, NEW o \in applying'[t]
        PROVE  /\ o.conn \in ConnsOn(t)'
               /\ o.resizeWindow => conn'[o.conn].clientID = ownerID'[t]
    <3>1. CASE t = s
      <4>1. o = op
        BY <3>1, <2>2, <1>11
      <4>2. o.conn = c /\ (o.resizeWindow => Takes(c, active))
        BY <4>1
      <4>3. Takes(c, active) => ownerID'[s] = k
        BY <1>1, <1>3 DEF TypeOK
      <4>4. c \in ConnsOn(s)' /\ conn'[c].clientID = k
        BY <1>1, <1>5, <1>6
      <4> QED
        BY <3>1, <4>2, <4>3, <4>4
    <3>2. CASE t # s
      <4>1. o \in applying[t] /\ o.conn \in ConnsOn(t) /\ ownerID'[t] = ownerID[t]
        BY <3>2, <2>2, <1>3, <1>11 DEF OnlyOwnerResizesWindow, TypeOK
      <4>2. o.conn \in Registered
        BY <4>1 DEF ConnsOn
      <4> QED
        BY <4>1, <4>2, <1>6, <1>12 DEF OnlyOwnerResizesWindow
    <3> QED
      BY <3>1, <3>2
  <2> QED
    BY <2>1, <2>2 DEF OnlyOwnerResizesWindow
<1>14. WindowSizedByOwner'
  <2> SUFFICES ASSUME NEW t \in Session, ownerID'[t] # NoOne, t \notin unsized',
                      \A o \in applying'[t] : ~o.resizeWindow
               PROVE  sizedBy'[t] = ownerID'[t]
    BY DEF WindowSizedByOwner
  <2>1. CASE t # s
    <3>1. ownerID'[t] = ownerID[t] /\ applying'[t] = applying[t]
      BY <2>1, <1>1, <1>3, <1>11 DEF TypeOK
    <3> QED
      BY <3>1, <1>2 DEF WindowSizedByOwner
  <2>2. CASE t = s
    <3>1. ~op.resizeWindow
      BY <2>2, <1>11
    <3>2. ~Takes(c, active) \/ ownerID[s] = k
      BY <3>1
    <3>3. ownerID'[s] = ownerID[s] /\ applying[s] = {}
      BY <3>2, <1>1, <1>2, <1>3 DEF TypeOK
    <3> QED
      BY <2>2, <3>3, <1>2 DEF WindowSizedByOwner
  <2> QED
    BY <2>1, <2>2
<1>15. ListingCovers'
  BY <1>2 DEF ListingCovers
<1> QED
  BY <1>8, <1>9, <1>10, <1>13, <1>14, <1>15

\* A claim counts as a resize of its connection to the size it last sent.
LEMMA ClaimInputStep ==
  ASSUME IInv, NEW c \in Conn, ClaimInput(c)
  PROVE  IInv'
<1> USE DEF IInv, ResizeFree, Gesture
<1> PICK s, k : s = conn[c].tmuxName /\ k = conn[c].clientID
  OBVIOUS
<1> PICK claims, sends :
         /\ claims = (Follows(c) /\ ownerID[s] # k)
         /\ sends = (claims /\ conn[c].dims # NoDims)
  OBVIOUS
<1> DEFINE op == [conn |-> c, dims |-> conn[c].dims, active |-> TRUE, resizeWindow |-> TRUE]
<1>1. /\ c \in ConnsOn(s) /\ c \in ConnsOf(s, k) /\ s \in Session /\ k \in Client /\ k # NoOne
      /\ conn[c] \in ArbConn
  BY UsableHandle DEF ClaimInput
<1>2. /\ applying[s] = {}
      /\ lastHuman' = [lastHuman EXCEPT ![k] = now]
      /\ gestureAt' = [gestureAt EXCEPT ![k] = now]
      /\ ownerID' = IF claims THEN [ownerID EXCEPT ![s] = k] ELSE ownerID
      /\ applying' = IF sends THEN [applying EXCEPT ![s] = @ \cup {op}] ELSE applying
      /\ unsized' = IF claims /\ ~sends THEN unsized \cup {s} ELSE unsized
      /\ UNCHANGED <<now, tmux, window, sessions, refs, live, ownerLeftAt, conn, listing,
                     departedAt, sizedBy, bornUnlisted>>
  BY DEF ClaimInput
<1>3. /\ Registered' = Registered
      /\ \A t : ConnsOn(t)' = ConnsOn(t)
      /\ \A t, l : ConnsOf(t, l)' = ConnsOf(t, l)
  BY <1>2, SameConns
<1>4. sends => op \in ApplyOp
  BY <1>1 DEF ApplyOp, ArbConn
<1>5. TypeOK'
  <2>1. ownerID' \in [Session -> Client \cup {NoOne}] /\ applying' \in [Session -> SUBSET ApplyOp]
    BY <1>1, <1>2, <1>4 DEF TypeOK
  <2>2. lastHuman' \in [Client -> Moment] /\ gestureAt' \in [Client -> Moment]
    BY <1>1, <1>2 DEF TypeOK, Moment
  <2> QED
    BY <2>1, <2>2, <1>1, <1>2 DEF TypeOK
<1>6. RecordsServeConnections'
  BY <1>2, <1>3 DEF RecordsServeConnections
<1>7. \A t \in Session : /\ ownerID'[t] = IF t = s /\ claims THEN k ELSE ownerID[t]
                         /\ applying'[t] = IF t = s /\ sends THEN {op} ELSE applying[t]
  BY <1>1, <1>2 DEF TypeOK
<1>8. AbsenceAndPresenceDated'
  <2>1. ASSUME NEW t \in Session, NEW l \in Client, ownerID'[t] = l, ConnsOf(t, l)' = {}
        PROVE  ownerLeftAt'[t] = departedAt'[t][l]
    <3>1. ConnsOf(t, l) = {} /\ ~(t = s /\ l = k)
      BY <2>1, <1>1, <1>3
    <3>2. ownerID[t] = l
      BY <2>1, <3>1, <1>7
    <3> QED
      BY <3>1, <3>2, <1>2 DEF AbsenceAndPresenceDated
  <2>2. ASSUME NEW l \in Client
        PROVE  \/ lastHuman'[l] = gestureAt'[l]
               \/ lastHuman'[l] = Never /\ now' - gestureAt'[l] > PresenceWindow
    BY <1>1, <1>2 DEF AbsenceAndPresenceDated, TypeOK
  <2> QED
    BY <2>1, <2>2, <1>2 DEF AbsenceAndPresenceDated
<1>9. OnlyOwnerResizesWindow'
  <2>1. ASSUME NEW t \in Session, NEW o \in applying'[t] PROVE applying'[t] = {o}
    BY <1>7 DEF OnlyOwnerResizesWindow
  <2>2. ASSUME NEW t \in Session, NEW o \in applying'[t]
        PROVE  /\ o.conn \in ConnsOn(t)
               /\ o.resizeWindow => conn[o.conn].clientID = ownerID'[t]
    <3>1. CASE t = s
      <4>1. o = op /\ sends
        BY <3>1, <2>2, <1>2, <1>7
      <4>2. o.conn = c /\ ownerID'[t] = k
        BY <4>1, <3>1, <1>7
      <4> QED
        BY <4>2, <3>1, <1>1
    <3>2. CASE t # s
      BY <3>2, <2>2, <1>7 DEF OnlyOwnerResizesWindow
    <3> QED
      BY <3>1, <3>2
  <2> QED
    BY <2>1, <2>2, <1>2, <1>3 DEF OnlyOwnerResizesWindow
<1>10. WindowSizedByOwner'
  <2> SUFFICES ASSUME NEW t \in Session, ownerID'[t] # NoOne, t \notin unsized',
                      \A o \in applying'[t] : ~o.resizeWindow
               PROVE  sizedBy'[t] = ownerID'[t]
    BY DEF WindowSizedByOwner
  <2>1. t \notin unsized /\ ~(t = s /\ sends) /\ ~(t = s /\ claims)
    <3>1. t = s /\ sends => applying'[t] = {op} /\ op.resizeWindow
      BY <1>7
    <3>2. t \notin unsized /\ ~(t = s /\ claims /\ ~sends)
      BY <1>2
    <3> QED
      BY <3>1, <3>2
  <2>2. ownerID'[t] = ownerID[t] /\ applying'[t] = applying[t]
    BY <2>1, <1>7
  <2> QED
    BY <2>1, <2>2, <1>2 DEF WindowSizedByOwner
<1>11. ListingCovers'
  BY <1>2 DEF ListingCovers
<1> QED
  BY <1>5, <1>6, <1>8, <1>9, <1>10, <1>11

\* Whatever became of it, an applied resize leaves the ones of other sessions alone.
LEMMA ApplyStep ==
  ASSUME IInv, NEW s \in Session, NEW op \in applying[s],
         ApplyToWindow(s, op) \/ ApplyToPTY(s, op) \/ ApplyFails(s, op)
  PROVE  IInv'
<1> USE DEF IInv, history
<1>1. /\ applying' = [applying EXCEPT ![s] = @ \ {op}]
      /\ UNCHANGED <<now, tmux, sessions, refs, live, ownerID, ownerLeftAt, lastHuman, conn,
                     listing, departedAt, gestureAt, bornUnlisted>>
  BY DEF ApplyToWindow, ApplyToPTY, ApplyFails
<1>2. /\ Registered' = Registered
      /\ \A t : ConnsOn(t)' = ConnsOn(t)
      /\ \A t, l : ConnsOf(t, l)' = ConnsOf(t, l)
  BY <1>1, SameConns
<1>3. \A t \in Session : applying'[t] = IF t = s THEN applying[t] \ {op} ELSE applying[t]
  BY <1>1 DEF TypeOK
<1>4. op \in ApplyOp /\ op.conn \in ConnsOn(s) /\ conn[op.conn].clientID \in Client
  <2>1. op \in ApplyOp /\ op.conn \in ConnsOn(s)
    BY DEF TypeOK, OnlyOwnerResizesWindow
  <2>2. op.conn \in Registered
    BY <2>1 DEF ConnsOn
  <2> QED
    BY <2>1, <2>2, RegisteredHandle DEF ArbConn
<1>5. TypeOK'
  <2>1. window' \in [Session -> Dims \cup {NoDims}] /\ unsized' \in SUBSET Session
    BY <1>4 DEF ApplyToWindow, ApplyToPTY, ApplyFails, TypeOK, ApplyOp
  <2>2. sizedBy' \in [Session -> Client \cup {NoOne}]
    BY <1>4 DEF ApplyToWindow, ApplyToPTY, ApplyFails, TypeOK
  <2>3. applying' \in [Session -> SUBSET ApplyOp]
    BY <1>1 DEF TypeOK
  <2> QED
    BY <2>1, <2>2, <2>3, <1>1 DEF TypeOK
<1>6. RecordsServeConnections' /\ AbsenceAndPresenceDated'
  BY <1>1, <1>2 DEF RecordsServeConnections, AbsenceAndPresenceDated
<1>7. OnlyOwnerResizesWindow'
  <2>1. ASSUME NEW t \in Session, NEW o \in applying'[t] PROVE applying'[t] = {o}
    BY <1>3 DEF OnlyOwnerResizesWindow
  <2>2. ASSUME NEW t \in Session, NEW o \in applying'[t]
        PROVE  /\ o.conn \in ConnsOn(t)
               /\ o.resizeWindow => conn[o.conn].clientID = ownerID[t]
    BY <1>3 DEF OnlyOwnerResizesWindow
  <2> QED
    BY <2>1, <2>2, <1>1, <1>2 DEF OnlyOwnerResizesWindow
<1>8. WindowSizedByOwner'
  <2> SUFFICES ASSUME NEW t \in Session, ownerID[t] # NoOne, t \notin unsized',
                      \A o \in applying'[t] : ~o.resizeWindow
               PROVE  sizedBy'[t] = ownerID[t]
    BY <1>1 DEF WindowSizedByOwner
  <2>1. CASE ApplyToWindow(s, op)
    <3>1. CASE t = s
      BY <2>1, <3>1 DEF ApplyToWindow, OnlyOwnerResizesWindow, TypeOK
    <3>2. CASE t # s
      <4>1. applying'[t] = applying[t] /\ sizedBy'[t] = sizedBy[t] /\ t \notin unsized
        BY <2>1, <3>2, <1>3 DEF ApplyToWindow, TypeOK
      <4> QED
        BY <4>1 DEF WindowSizedByOwner
    <3> QED
      BY <3>1, <3>2
  <2>2. CASE ApplyToPTY(s, op)
    <3>1. ~op.resizeWindow /\ sizedBy' = sizedBy /\ unsized' = unsized
      BY <2>2 DEF ApplyToPTY
    <3>2. \A o \in applying[t] : ~o.resizeWindow
      BY <3>1, <1>3
    <3> QED
      BY <3>1, <3>2 DEF WindowSizedByOwner
  <2>3. CASE ApplyFails(s, op)
    <3>1. t # s /\ sizedBy' = sizedBy /\ t \notin unsized
      BY <2>3 DEF ApplyFails
    <3>2. applying'[t] = applying[t]
      BY <3>1, <1>3
    <3> QED
      BY <3>1, <3>2 DEF WindowSizedByOwner
  <2> QED
    BY <2>1, <2>2, <2>3
<1>9. ListingCovers'
  BY <1>1 DEF ListingCovers
<1> QED
  BY <1>5, <1>6, <1>7, <1>8, <1>9

LEMMA ListTmuxStep == ASSUME IInv, ListTmux PROVE IInv'
<1> USE DEF IInv, ListTmux, history
<1>1. TypeOK' /\ ListingCovers'
  BY DEF TypeOK, Tick, ListingCovers
<1>2. RecordsServeConnections' /\ AbsenceAndPresenceDated'
  BY SameConns DEF RecordsServeConnections, AbsenceAndPresenceDated
<1>3. OnlyOwnerResizesWindow' /\ WindowSizedByOwner'
  BY SameConns DEF OnlyOwnerResizesWindow, WindowSizedByOwner
<1> QED
  BY <1>1, <1>2, <1>3

\* Prune drops no record that serves a connection, so it changes no handle.
LEMMA PruneKeepsHandles ==
  ASSUME IInv, Prune
  PROVE  conn' = conn /\ \A c \in Registered : conn[c].tmuxName \notin Droppable
<1> USE DEF IInv
<1>1. ASSUME NEW c \in Registered PROVE conn[c].tmuxName \notin Droppable
  <2> PICK s : s = conn[c].tmuxName
    OBVIOUS
  <2>1. s \in Session /\ c \in ConnsOn(s)
    BY RegisteredHandle DEF ArbConn, ConnsOn
  <2>2. refs[s] = Cardinality(ConnsOn(s))
    BY <2>1 DEF RecordsServeConnections
  <2>3. Cardinality(ConnsOn(s)) \in Nat /\ Cardinality(ConnsOn(s)) # 0
    BY <2>1, NoConnsZero
  <2>4. ~(refs[s] <= 0)
    BY <2>2, <2>3
  <2> QED
    BY <2>4 DEF Droppable
<1>2. \A c \in Conn : conn'[c] = conn[c]
  BY <1>1 DEF Prune
<1> QED
  BY <1>1, <1>2 DEF Prune, TypeOK

LEMMA PruneStep == ASSUME IInv, Prune PROVE IInv'
<1> USE DEF IInv
<1>1. conn' = conn /\ \A c \in Registered : conn[c].tmuxName \notin Droppable
  BY PruneKeepsHandles
<1>2. /\ Registered' = Registered
      /\ \A t : ConnsOn(t)' = ConnsOn(t)
      /\ \A t, l : ConnsOf(t, l)' = ConnsOf(t, l)
  BY <1>1, SameConns
<1>3. \A t \in Session : t \in Droppable => ConnsOn(t) = {} /\ \A l : ConnsOf(t, l) = {}
  BY <1>1 DEF ConnsOn, ConnsOf
<1>4. TypeOK'
  <2>1. /\ refs' \in [Session -> Nat] /\ live' \in [Session -> [Client -> Nat]]
        /\ ownerID' \in [Session -> Client \cup {NoOne}]
        /\ ownerLeftAt' \in [Session -> Time]
    BY ArbiterAssumption DEF Prune, TypeOK, Time
  <2>2. lastHuman' \in [Client -> Moment]
    BY DEF Prune, TypeOK, Moment
  <2>3. listing' \in Tick
    BY DEF Prune, NoTick, Tick
  <2>4. sessions' \in SUBSET Session /\ bornUnlisted' \in SUBSET Session
    BY DEF Prune, TypeOK
  <2> QED
    BY <2>1, <2>2, <2>3, <2>4, <1>1 DEF Prune, TypeOK
<1>5. RecordsServeConnections'
  <2>1. \A c \in Registered : conn[c].tmuxName \in sessions' /\ ~conn[c].pruned
    BY <1>1 DEF Prune, RecordsServeConnections
  <2>2. ASSUME NEW t \in Session, NEW l \in Client
        PROVE  refs'[t] = Cardinality(ConnsOn(t)) /\ live'[t][l] = Cardinality(ConnsOf(t, l))
    <3>1. refs[t] = Cardinality(ConnsOn(t)) /\ live[t][l] = Cardinality(ConnsOf(t, l))
      BY DEF RecordsServeConnections
    <3>2. t \in Droppable => Cardinality(ConnsOn(t)) = 0 /\ Cardinality(ConnsOf(t, l)) = 0
      BY <1>3, NoConnsZero
    <3>3. /\ refs'[t] = IF t \in Droppable THEN 0 ELSE refs[t]
          /\ live'[t][l] = IF t \in Droppable THEN 0 ELSE live[t][l]
      BY DEF Prune
    <3> QED
      BY <3>1, <3>2, <3>3
  <2>3. ASSUME NEW t \in Session PROVE refs'[t] = Cardinality(ConnsOn(t))
    <3>1. refs[t] = Cardinality(ConnsOn(t))
      BY DEF RecordsServeConnections
    <3>2. t \in Droppable => Cardinality(ConnsOn(t)) = 0
      BY <1>3, NoConnsZero
    <3> QED
      BY <3>1, <3>2 DEF Prune
  <2> QED
    BY <2>1, <2>2, <2>3, <1>1, <1>2 DEF RecordsServeConnections
<1>6. AbsenceAndPresenceDated'
  <2>1. ASSUME NEW t \in Session, NEW l \in Client, ownerID'[t] = l, ConnsOf(t, l)' = {}
        PROVE  ownerLeftAt'[t] = departedAt'[t][l]
    <3>1. t \notin Droppable
      BY <2>1, ArbiterAssumption DEF Prune
    <3>2. ownerID[t] = l /\ ownerLeftAt'[t] = ownerLeftAt[t] /\ departedAt' = departedAt
      BY <3>1, <2>1 DEF Prune
    <3>3. ConnsOf(t, l) = {}
      BY <2>1, <1>2
    <3> QED
      BY <3>2, <3>3 DEF AbsenceAndPresenceDated
  <2>2. ASSUME NEW l \in Client
        PROVE  \/ lastHuman'[l] = gestureAt'[l]
               \/ lastHuman'[l] = Never /\ now' - gestureAt'[l] > PresenceWindow
    <3>1. /\ lastHuman'[l] = IF lastHuman[l] < now - PresenceWindow THEN Never ELSE lastHuman[l]
          /\ gestureAt' = gestureAt /\ now' = now
      BY DEF Prune
    <3>2. \/ lastHuman[l] = gestureAt[l]
          \/ lastHuman[l] = Never /\ now - gestureAt[l] > PresenceWindow
      BY DEF AbsenceAndPresenceDated
    <3>3. lastHuman[l] \in Int /\ gestureAt[l] \in Int /\ now \in Int /\ PresenceWindow \in Int
      BY ArbiterAssumption DEF TypeOK, Moment, Time, Never
    <3> QED
      BY <3>1, <3>2, <3>3
  <2> QED
    BY <2>1, <2>2 DEF AbsenceAndPresenceDated
<1>7. OnlyOwnerResizesWindow'
  <2> SUFFICES ASSUME NEW t \in Session, NEW op \in applying[t]
               PROVE  /\ applying[t] = {op} /\ op.conn \in ConnsOn(t)
                      /\ op.resizeWindow => conn[op.conn].clientID = ownerID'[t]
    BY <1>1, <1>2 DEF OnlyOwnerResizesWindow, Prune
  <2>1. /\ applying[t] = {op} /\ op.conn \in ConnsOn(t)
        /\ op.resizeWindow => conn[op.conn].clientID = ownerID[t]
    BY DEF OnlyOwnerResizesWindow
  <2>2. t \notin Droppable
    BY <2>1, <1>3
  <2> QED
    BY <2>1, <2>2 DEF Prune
<1>8. WindowSizedByOwner' /\ ListingCovers'
  BY DEF WindowSizedByOwner, ListingCovers, Prune, NoTick
<1> QED
  BY <1>4, <1>5, <1>6, <1>7, <1>8

----------------------------------------------------------------------------
(* The theorems *)

LEMMA InitIInv == ASSUME Init PROVE IInv
<1> USE DEF Init
<1>1. Registered = {}
  BY DEF Registered
<1>2. \A s : ConnsOn(s) = {} /\ \A k : ConnsOf(s, k) = {}
  BY <1>1 DEF ConnsOn, ConnsOf
<1>3. TypeOK
  BY ArbiterAssumption DEF TypeOK, Time, Moment, NoTick, Tick
<1>4. RecordsServeConnections
  BY <1>1, <1>2, FS_EmptySet DEF RecordsServeConnections
<1>5. AbsenceAndPresenceDated /\ OnlyOwnerResizesWindow /\ WindowSizedByOwner /\ ListingCovers
  BY ArbiterAssumption
     DEF AbsenceAndPresenceDated, OnlyOwnerResizesWindow, WindowSizedByOwner, ListingCovers, NoTick
<1> QED
  BY <1>3, <1>4, <1>5 DEF IInv

LEMMA StutterStep == ASSUME IInv, UNCHANGED vars PROVE IInv'
<1> USE DEF IInv, vars, code, history
<1>1. TypeOK' /\ ListingCovers'
  BY DEF TypeOK, ListingCovers
<1>2. RecordsServeConnections' /\ AbsenceAndPresenceDated'
  BY SameConns DEF RecordsServeConnections, AbsenceAndPresenceDated
<1>3. OnlyOwnerResizesWindow' /\ WindowSizedByOwner'
  BY SameConns DEF OnlyOwnerResizesWindow, WindowSizedByOwner
<1> QED
  BY <1>1, <1>2, <1>3

\* IInv is inductive.
THEOREM Invariance == Spec => []IInv
<1>1. Init => IInv
  BY InitIInv
<1>2. IInv /\ [Next]_vars => IInv'
  <2> SUFFICES ASSUME IInv, [Next]_vars PROVE IInv'
    OBVIOUS
  <2>1. CASE UNCHANGED vars
    BY <2>1, StutterStep
  <2>2. CASE TimePasses
    BY <2>2, TimePassesStep
  <2>3. CASE \E s \in Session : TmuxCreates(s) \/ TmuxEnds(s)
    BY <2>3, TmuxStep
  <2>4. CASE \E c \in Conn, s \in Session, k \in Client, policy \in SizePolicy :
               Register(c, s, k, policy)
    BY <2>4, RegisterStep
  <2>5. CASE \E c \in Conn : Unregister(c) \/ ClaimInput(c)
    BY <2>5, UnregisterStep, ClaimInputStep
  <2>6. CASE \E c \in Conn, d \in Dims, active \in BOOLEAN : Resize(c, d, active)
    BY <2>6, ResizeStep
  <2>7. CASE \E s \in Session : \E op \in applying[s] :
               ApplyToWindow(s, op) \/ ApplyToPTY(s, op) \/ ApplyFails(s, op)
    BY <2>7, ApplyStep
  <2>8. CASE ListTmux
    BY <2>8, ListTmuxStep
  <2>9. CASE Prune
    BY <2>9, PruneStep
  <2> QED
    BY <2>1, <2>2, <2>3, <2>4, <2>5, <2>6, <2>7, <2>8, <2>9 DEF Next
<1> QED
  BY <1>1, <1>2, PTL DEF Spec

\* Every variable keeps its type: no counter leaves Nat, no clock the bounds.
THEOREM TypeCorrect == Spec => []TypeOK
<1>1. IInv => TypeOK
  BY DEF IInv
<1> QED
  BY <1>1, Invariance, PTL

\* No registered connection loses its record, and refs and live count exactly the
\* connections there are (Register, Unregister, Prune).
THEOREM RecordsServe == Spec => []RecordsServeConnections
<1>1. IInv => RecordsServeConnections
  BY DEF IInv
<1> QED
  BY <1>1, Invariance, PTL

\* mayResize's two clocks mean what their comments say.
THEOREM AbsenceDated == Spec => []AbsenceAndPresenceDated
<1>1. IInv => AbsenceAndPresenceDated
  BY DEF IInv
<1> QED
  BY <1>1, Invariance, PTL

\* Only the owner's connection reaches the window, one command at a time (resizeMu).
THEOREM OnlyOwnerResizes == Spec => []OnlyOwnerResizesWindow
<1>1. IInv => OnlyOwnerResizesWindow
  BY DEF IInv
<1> QED
  BY <1>1, Invariance, PTL

\* The window's last size is its owner's, once nothing is under way or failed.
THEOREM SizedByOwner == Spec => []WindowSizedByOwner
<1>1. IInv => WindowSizedByOwner
  BY DEF IInv
<1> QED
  BY <1>1, Invariance, PTL

\* A resize takes a window from its owner only for a human who is there.
LEMMA ResizeDisplaces ==
  ASSUME IInv, NEW c \in Conn, NEW d \in Dims, NEW active \in BOOLEAN, Resize(c, d, active),
         NEW s \in Session, NEW k \in Client, NEW l \in Client,
         ownerID[s] = k, ownerID'[s] = l, k # l
  PROVE  Displaces(s, k, l)
<1> USE DEF IInv
<1>1. s = conn[c].tmuxName /\ l = conn[c].clientID /\ Takes(c, active)
  <2>1. conn[c].tmuxName \in Session
    BY UsableHandle DEF Resize
  <2> QED
    BY <2>1 DEF Resize, OwnerAfter, TypeOK
<1>2. CASE active
  BY <1>1, <1>2 DEF Resize, Gesture, TypeOK, Displaces
<1>3. CASE ~active
  <2>1. live[s][k] <= 0 /\ now - ownerLeftAt[s] >= OwnerGrace /\ Present(l)
    BY <1>1, <1>3, ArbiterAssumption DEF Takes, MayResize
  <2>2. ConnsOf(s, k) = {}
    <3>1. live[s][k] = Cardinality(ConnsOf(s, k))
      BY DEF RecordsServeConnections
    <3> QED
      BY <2>1, <3>1, NoConnsZero
  <2>3. now - departedAt[s][k] >= OwnerGrace
    BY <2>1, <2>2 DEF AbsenceAndPresenceDated
  <2>4. gestureAt[l] = lastHuman[l]
    BY <2>1 DEF AbsenceAndPresenceDated, Present
  <2> QED
    BY <2>1, <2>2, <2>3, <2>4 DEF Displaces, Present
<1> QED
  BY <1>2, <1>3

\* No client loses a window to another but to a human who acts now, or who was
\* there within presenceWindow while the owner had left for ownerGrace.
THEOREM OwnerDisplaced == Spec => OwnerDisplacedOnlyByPresentHuman
<1> DEFINE Ok == \A s \in Session, k, l \in Client :
                   ownerID[s] = k /\ ownerID'[s] = l /\ k # l => Displaces(s, k, l)
<1>1. IInv /\ [Next]_vars => [Ok]_vars
  <2> SUFFICES ASSUME IInv, Next, NEW s \in Session, NEW k \in Client, NEW l \in Client,
                      ownerID[s] = k, ownerID'[s] = l, k # l
               PROVE  Displaces(s, k, l)
    BY DEF IInv
  <2>1. CASE \E c \in Conn, d \in Dims, active \in BOOLEAN : Resize(c, d, active)
    BY <2>1, ResizeDisplaces
  <2>2. CASE \E c \in Conn : ClaimInput(c)
    <3>1. PICK c \in Conn : ClaimInput(c)
      BY <2>2
    <3>2. conn[c].tmuxName \in Session /\ conn[c].clientID \in Client
      BY <3>1, UsableHandle DEF ClaimInput
    <3>3. l = conn[c].clientID
      BY <3>1, <3>2 DEF ClaimInput, IInv, TypeOK
    <3> QED
      BY <3>1, <3>2, <3>3 DEF ClaimInput, Gesture, Displaces, IInv, TypeOK
  <2>3. CASE Prune
    BY <2>3, ArbiterAssumption DEF Prune
  <2>4. ASSUME ownerID' = ownerID PROVE FALSE
    BY <2>4
  <2>5. \/ \E c \in Conn, d \in Dims, active \in BOOLEAN : Resize(c, d, active)
        \/ \E c \in Conn : ClaimInput(c)
        \/ Prune
        \/ ownerID' = ownerID
    BY DEF Next, TimePasses, TmuxCreates, TmuxEnds, Register, Unregister, ApplyToWindow,
           ApplyToPTY, ApplyFails, ListTmux
  <2> QED
    BY <2>1, <2>2, <2>3, <2>4, <2>5
<1> QED
  BY <1>1, Invariance, PTL DEF Spec, OwnerDisplacedOnlyByPresentHuman

\* Ownership is forgotten only by Prune, on a record nobody is connected to, when
\* tmux has no such session or its tick listed tmux's sessions before that one was.
THEOREM OwnershipOutlives == Spec => OwnershipOutlivesConnections
<1> DEFINE Ok == \A s \in Session :
                   ownerID[s] # NoOne /\ ownerID'[s] = NoOne
                     => ConnsOn(s) = {} /\ (tmux[s] # "alive" \/ s \in bornUnlisted)
<1>1. IInv /\ [Next]_vars => [Ok]_vars
  <2> SUFFICES ASSUME IInv, Next, NEW s \in Session, ownerID[s] # NoOne, ownerID'[s] = NoOne
               PROVE  ConnsOn(s) = {} /\ (tmux[s] # "alive" \/ s \in bornUnlisted)
    BY DEF IInv
  <2>1. CASE Prune
    <3>1. s \in Droppable /\ listing.open
      BY <2>1 DEF Prune
    <3>2. refs[s] <= 0 /\ s \notin listing.alive
      BY <3>1 DEF Droppable
    <3>3. refs[s] = Cardinality(ConnsOn(s))
      BY DEF IInv, RecordsServeConnections
    <3>4. ConnsOn(s) = {}
      BY <3>2, <3>3, NoConnsZero
    <3> QED
      BY <3>1, <3>2, <3>4 DEF IInv, ListingCovers
  <2>2. CASE \E c \in Conn, d \in Dims, active \in BOOLEAN : Resize(c, d, active)
    <3>1. PICK c \in Conn, d \in Dims, active \in BOOLEAN : Resize(c, d, active)
      BY <2>2
    <3>2. conn[c].clientID # NoOne /\ conn[c].tmuxName \in Session
      BY <3>1, UsableHandle DEF Resize
    <3> QED
      BY <3>1, <3>2 DEF Resize, OwnerAfter, IInv, TypeOK
  <2>3. CASE \E c \in Conn : ClaimInput(c)
    <3>1. PICK c \in Conn : ClaimInput(c)
      BY <2>3
    <3>2. conn[c].clientID # NoOne /\ conn[c].tmuxName \in Session
      BY <3>1, UsableHandle DEF ClaimInput
    <3> QED
      BY <3>1, <3>2 DEF ClaimInput, IInv, TypeOK
  <2>4. \/ Prune
        \/ \E c \in Conn, d \in Dims, active \in BOOLEAN : Resize(c, d, active)
        \/ \E c \in Conn : ClaimInput(c)
        \/ ownerID' = ownerID
    BY DEF Next, TimePasses, TmuxCreates, TmuxEnds, Register, Unregister, ApplyToWindow,
           ApplyToPTY, ApplyFails, ListTmux
  <2> QED
    BY <2>1, <2>2, <2>3, <2>4
<1> QED
  BY <1>1, Invariance, PTL DEF Spec, OwnershipOutlivesConnections
============================================================================
