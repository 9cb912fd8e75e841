------------------------------ MODULE Arbiter ------------------------------
(***************************************************************************)
(* internal/tmuxmgr/arbiter.go: which browser connection may resize the    *)
(* tmux window that every browser showing a session shares.                *)
(*                                                                         *)
(* A client is a browser profile and may hold several connections (tabs,   *)
(* tiles, reconnects).  Ownership of a window is the client's: it survives *)
(* its connections and ends when Prune drops the session's record.         *)
(*                                                                         *)
(* Arbiter.mu is held for the whole of each action below.  A session's     *)
(* resizeMu is held from an ownership decision until the tmux command it   *)
(* led to has returned, so that part of an operation is a later action     *)
(* (Apply...), and everything that only takes mu (Register, Prune, other   *)
(* sessions) may happen in between.  A call that returns early without     *)
(* changing anything is a stuttering step.                                 *)
(***************************************************************************)
EXTENDS Integers, FiniteSets

CONSTANTS
  Session,         \* tmux session names
  Client,          \* client ids
  Conn,            \* connection handles; a slot is used again after Unregister
  Dims,            \* terminal sizes (cols, rows)
  NoOne,           \* ownerID "" : nobody has claimed the window
  NoDims,          \* a size not yet known (cols = rows = 0)
  OwnerGrace,      \* ownerGrace, in clock ticks
  PresenceWindow,  \* presenceWindow, in clock ticks
  MaxTime          \* bound on the clock

\* There are finitely many connections, and "" and 0x0 are no client and no size.
ASSUME ArbiterAssumption ==
  /\ IsFiniteSet(Conn)
  /\ NoOne \notin Client
  /\ NoDims \notin Dims
  /\ OwnerGrace \in Nat /\ PresenceWindow \in Nat /\ MaxTime \in Nat

VARIABLES
  now,          \* the clock
  tmux,         \* session -> "absent" | "alive" | "gone": does tmux have it
  window,       \* session -> size of its tmux window
  sessions,     \* names with a record in Arbiter.sessions
  refs,         \* arbSession.refs
  live,         \* arbSession.live: client -> connections (0: not in the map)
  ownerID,      \* arbSession.ownerID
  ownerLeftAt,  \* arbSession.ownerLeftAt
  lastHuman,    \* Arbiter.lastHuman: client -> time, or Never
  conn,         \* the ArbConn handles
  applying,     \* session -> what the holder of its resizeMu is applying
  listing       \* tmux sessions the reconcile tick has listed, if one is open

\* What the code does not keep, recorded to state what its bookkeeping means.
VARIABLES
  departedAt,   \* session -> client -> when its last connection closed, if it has none
  gestureAt,    \* client -> time of its last human gesture, or Never
  sizedBy,      \* session -> client whose size tmux applied last
  unsized,      \* sessions whose owner's claim did not reach the window
  bornUnlisted  \* sessions tmux got after the open tick listed them

code == <<now, tmux, window, sessions, refs, live, ownerID, ownerLeftAt,
          lastHuman, conn, applying, listing>>
history == <<departedAt, gestureAt, sizedBy, unsized, bornUnlisted>>
vars == <<code, history>>

----------------------------------------------------------------------------
(* State *)

Never == -1
Time == 0 .. MaxTime
Moment == Time \cup {Never}
SizePolicy == {"followInput", "passive"}

\* A registered ArbConn.  pruned: its record is no longer the one that
\* Arbiter.sessions holds under its name.
ArbConn == [tmuxName: Session, clientID: Client, sizePolicy: SizePolicy,
            dims: Dims \cup {NoDims}, pruned: BOOLEAN]

\* A slot without a handle: never registered, or unregistered.
NoConn == [tmuxName |-> NoOne, clientID |-> NoOne, sizePolicy |-> "passive",
           dims |-> NoDims, pruned |-> FALSE]

Registered == {c \in Conn : conn[c] # NoConn}
ConnsOn(s) == {c \in Registered : conn[c].tmuxName = s}
ConnsOf(s, k) == {c \in ConnsOn(s) : conn[c].clientID = k}

\* What a Resize or a ClaimInput has decided and is about to run.
ApplyOp == [conn: Conn, dims: Dims, resizeWindow: BOOLEAN, active: BOOLEAN]

Tick == [open: BOOLEAN, alive: SUBSET Session]
NoTick == [open |-> FALSE, alive |-> {}]

\* The state's shape: one conjunct per variable.
TypeOK ==
  /\ now \in Time
  /\ tmux \in [Session -> {"absent", "alive", "gone"}]
  /\ window \in [Session -> Dims \cup {NoDims}]
  /\ sessions \in SUBSET Session
  /\ refs \in [Session -> Nat]
  /\ live \in [Session -> [Client -> Nat]]
  /\ ownerID \in [Session -> Client \cup {NoOne}]
  /\ ownerLeftAt \in [Session -> Time]
  /\ lastHuman \in [Client -> Moment]
  /\ conn \in [Conn -> ArbConn \cup {NoConn}]
  /\ applying \in [Session -> SUBSET ApplyOp]
  /\ listing \in Tick
  /\ departedAt \in [Session -> [Client -> Moment]]
  /\ gestureAt \in [Client -> Moment]
  /\ sizedBy \in [Session -> Client \cup {NoOne}]
  /\ unsized \in SUBSET Session
  /\ bornUnlisted \in SUBSET Session

Init ==
  /\ now = 0
  /\ tmux = [s \in Session |-> "absent"]
  /\ window = [s \in Session |-> NoDims]
  /\ sessions = {}
  /\ refs = [s \in Session |-> 0]
  /\ live = [s \in Session |-> [k \in Client |-> 0]]
  /\ ownerID = [s \in Session |-> NoOne]
  /\ ownerLeftAt = [s \in Session |-> 0]
  /\ lastHuman = [k \in Client |-> Never]
  /\ conn = [c \in Conn |-> NoConn]
  /\ applying = [s \in Session |-> {}]
  /\ listing = NoTick
  /\ departedAt = [s \in Session |-> [k \in Client |-> Never]]
  /\ gestureAt = [k \in Client |-> Never]
  /\ sizedBy = [s \in Session |-> NoOne]
  /\ unsized = {}
  /\ bornUnlisted = {}

----------------------------------------------------------------------------
(* The world outside: the clock and tmux *)

TimePasses ==
  /\ now < MaxTime
  /\ now' = now + 1
  /\ UNCHANGED <<tmux, window, sessions, refs, live, ownerID, ownerLeftAt,
                 lastHuman, conn, applying, listing, history>>

\* A session's row, and so a connection, may be there before tmux has it.
TmuxCreates(s) ==
  /\ tmux[s] = "absent"
  /\ tmux' = [tmux EXCEPT ![s] = "alive"]
  /\ bornUnlisted' = IF listing.open THEN bornUnlisted \cup {s} ELSE bornUnlisted
  /\ UNCHANGED <<now, window, sessions, refs, live, ownerID, ownerLeftAt, lastHuman,
                 conn, applying, listing, departedAt, gestureAt, sizedBy, unsized>>

\* Session names are never given out twice.
TmuxEnds(s) ==
  /\ tmux[s] = "alive"
  /\ tmux' = [tmux EXCEPT ![s] = "gone"]
  /\ UNCHANGED <<now, window, sessions, refs, live, ownerID, ownerLeftAt, lastHuman,
                 conn, applying, listing, history>>

----------------------------------------------------------------------------
(* Operations of the arbiter *)

\* Nobody holds its resizeMu.
ResizeFree_NoLock(s) == Cardinality(applying[s]) < 2
ResizeFree(s) == applying[s] = {}

\* Arbiter.sessions finds or creates the record; either way it counts one more.
RefsAfterRegister_OnlyOnCreate(s) ==
  IF s \in sessions THEN refs ELSE [refs EXCEPT ![s] = @ + 1]
RefsAfterRegister(s) == [refs EXCEPT ![s] = @ + 1]

Register(c, s, k, policy) ==
  /\ conn[c] = NoConn
  /\ sessions' = sessions \cup {s}
  /\ refs' = RefsAfterRegister(s)
  /\ live' = [live EXCEPT ![s][k] = @ + 1]
  /\ conn' = [conn EXCEPT ![c] = [tmuxName |-> s, clientID |-> k, sizePolicy |-> policy,
                                  dims |-> NoDims, pruned |-> FALSE]]
  /\ departedAt' = [departedAt EXCEPT ![s][k] = Never]
  /\ UNCHANGED <<now, tmux, window, ownerID, ownerLeftAt, lastHuman, applying, listing,
                 gestureAt, sizedBy, unsized, bornUnlisted>>

\* The owner's absence begins when its last connection here closes.
OwnerLeaves_WhenSessionEmpties(s, k) == refs[s] = 1 /\ ownerID[s] = k
OwnerLeaves(s, k) == live[s][k] <= 1 /\ ownerID[s] = k

Unregister(c) ==
  LET s == conn[c].tmuxName
      k == conn[c].clientID
  IN  /\ c \in Registered
      /\ ResizeFree(s)
      /\ conn' = [conn EXCEPT ![c] = NoConn]
      /\ departedAt' = IF ConnsOf(s, k) = {c} THEN [departedAt EXCEPT ![s][k] = now]
                                             ELSE departedAt
      /\ IF conn[c].pruned
         THEN UNCHANGED <<live, refs, ownerLeftAt>>
         ELSE /\ live' = [live EXCEPT ![s][k] = IF @ <= 1 THEN 0 ELSE @ - 1]
              /\ refs' = [refs EXCEPT ![s] = @ - 1]
              /\ ownerLeftAt' = IF OwnerLeaves(s, k)
                                THEN [ownerLeftAt EXCEPT ![s] = now] ELSE ownerLeftAt
      /\ UNCHANGED <<now, tmux, window, sessions, ownerID, lastHuman, applying, listing,
                     gestureAt, sizedBy, unsized, bornUnlisted>>

\* present
Present_EverSeen(k) == lastHuman[k] # Never
Present(k) == lastHuman[k] # Never /\ now - lastHuman[k] <= PresenceWindow

\* mayResize
MayResize(c) ==
  LET s == conn[c].tmuxName
  IN  \/ ownerID[s] \in {NoOne, conn[c].clientID}
      \/ /\ live[s][ownerID[s]] <= 0
         /\ now - ownerLeftAt[s] >= OwnerGrace
         /\ Present(conn[c].clientID)

\* The handle still counts: it is registered, on the record in the map.
Usable(c) == c \in Registered /\ ~conn[c].pruned

\* A human was at client k just now.
Gesture(k) ==
  /\ lastHuman' = [lastHuman EXCEPT ![k] = now]
  /\ gestureAt' = [gestureAt EXCEPT ![k] = now]

Follows(c) == conn[c].sizePolicy = "followInput"
Takes(c, active) == active \/ (Follows(c) /\ MayResize(c))

\* Who owns the window after conn c's resize: whoever sizes it.
OwnerAfter_LapsedKept(c, active) ==
  LET s == conn[c].tmuxName
  IN  IF active \/ ownerID[s] = NoOne THEN conn[c].clientID ELSE ownerID[s]
OwnerAfter(c, active) ==
  IF Takes(c, active) THEN conn[c].clientID ELSE ownerID[conn[c].tmuxName]

\* Resize up to the unlock of mu: ownership is decided, nothing applied yet.
Resize(c, d, active) ==
  LET s == conn[c].tmuxName
      k == conn[c].clientID
      repeatActive == active /\ Follows(c) /\ ownerID[s] = k
  IN  /\ Usable(c)
      /\ ResizeFree(s)
      /\ conn' = [conn EXCEPT ![c].dims = d]
      /\ IF active THEN Gesture(k) ELSE UNCHANGED <<lastHuman, gestureAt>>
      /\ ownerID' = [ownerID EXCEPT ![s] = OwnerAfter(c, active)]
      /\ applying' = [applying EXCEPT ![s] = @ \cup
           {[conn |-> c, dims |-> d, active |-> active,
             resizeWindow |-> Takes(c, active) /\ ~repeatActive]}]
      /\ UNCHANGED <<now, tmux, window, sessions, refs, live, ownerLeftAt, listing,
                     departedAt, sizedBy, unsized, bornUnlisted>>

\* ClaimInput up to the unlock of mu.
ClaimInput(c) ==
  LET s == conn[c].tmuxName
      k == conn[c].clientID
      claims == Follows(c) /\ ownerID[s] # k
      known == conn[c].dims # NoDims
  IN  /\ Usable(c)
      /\ ResizeFree(s)
      /\ Gesture(k)
      /\ ownerID' = IF claims THEN [ownerID EXCEPT ![s] = k] ELSE ownerID
      /\ applying' = IF claims /\ known
                     THEN [applying EXCEPT ![s] = @ \cup
                            {[conn |-> c, dims |-> conn[c].dims, active |-> TRUE,
                              resizeWindow |-> TRUE]}]
                     ELSE applying
      /\ unsized' = IF claims /\ ~known THEN unsized \cup {s} ELSE unsized
      /\ UNCHANGED <<now, tmux, window, sessions, refs, live, ownerLeftAt, conn, listing,
                     departedAt, sizedBy, bornUnlisted>>

----------------------------------------------------------------------------
(* The rest of Resize and ClaimInput: apply, and give resizeMu back *)

\* tmuxPTY.Resize with resizeWindow: tmux resizes the window.
ApplyToWindow(s, op) ==
  /\ op.resizeWindow /\ tmux[s] = "alive"
  /\ applying' = [applying EXCEPT ![s] = @ \ {op}]
  /\ window' = [window EXCEPT ![s] = op.dims]
  /\ sizedBy' = [sizedBy EXCEPT ![s] = conn[op.conn].clientID]
  /\ unsized' = unsized \ {s}
  /\ UNCHANGED <<now, tmux, sessions, refs, live, ownerID, ownerLeftAt, lastHuman, conn,
                 listing, departedAt, gestureAt, bornUnlisted>>

\* tmuxPTY.Resize without: only the connection's own PTY changes size.
ApplyToPTY(s, op) ==
  /\ ~op.resizeWindow
  /\ applying' = [applying EXCEPT ![s] = @ \ {op}]
  /\ UNCHANGED <<now, tmux, window, sessions, refs, live, ownerID, ownerLeftAt, lastHuman,
                 conn, listing, history>>

\* The PTY is closed, or tmux refuses or has no such session: an error is logged.
ApplyFails(s, op) ==
  /\ op.resizeWindow
  /\ applying' = [applying EXCEPT ![s] = @ \ {op}]
  /\ unsized' = unsized \cup {s}
  /\ UNCHANGED <<now, tmux, window, sessions, refs, live, ownerID, ownerLeftAt, lastHuman,
                 conn, listing, departedAt, gestureAt, sizedBy, bornUnlisted>>

----------------------------------------------------------------------------
(* The reconcile tick: list tmux's sessions, then Prune with that list *)

ListTmux ==
  /\ ~listing.open
  /\ listing' = [open |-> TRUE, alive |-> {s \in Session : tmux[s] = "alive"}]
  /\ UNCHANGED <<now, tmux, window, sessions, refs, live, ownerID, ownerLeftAt, lastHuman,
                 conn, applying, history>>

\* The records Prune drops.
Droppable_DespiteConnections == {s \in sessions : s \notin listing.alive}
Droppable_DespiteTmux == {s \in sessions : refs[s] <= 0}
Droppable == {s \in sessions : refs[s] <= 0 /\ s \notin listing.alive}

Prune ==
  /\ listing.open
  /\ listing' = NoTick
  /\ sessions' = sessions \ Droppable
  /\ refs' = [s \in Session |-> IF s \in Droppable THEN 0 ELSE refs[s]]
  /\ live' = [s \in Session |-> IF s \in Droppable THEN [k \in Client |-> 0] ELSE live[s]]
  /\ ownerID' = [s \in Session |-> IF s \in Droppable THEN NoOne ELSE ownerID[s]]
  /\ ownerLeftAt' = [s \in Session |-> IF s \in Droppable THEN 0 ELSE ownerLeftAt[s]]
  /\ conn' = [c \in Conn |-> IF c \in Registered /\ conn[c].tmuxName \in Droppable
                             THEN [conn[c] EXCEPT !.pruned = TRUE] ELSE conn[c]]
  /\ lastHuman' = [k \in Client |-> IF lastHuman[k] < now - PresenceWindow
                                    THEN Never ELSE lastHuman[k]]
  /\ bornUnlisted' = {}
  /\ UNCHANGED <<now, tmux, window, applying, departedAt, gestureAt, sizedBy, unsized>>

----------------------------------------------------------------------------

Next ==
  \/ TimePasses
  \/ \E s \in Session : TmuxCreates(s) \/ TmuxEnds(s)
  \/ \E c \in Conn, s \in Session, k \in Client, policy \in SizePolicy :
       Register(c, s, k, policy)
  \/ \E c \in Conn : Unregister(c) \/ ClaimInput(c)
  \/ \E c \in Conn, d \in Dims, active \in BOOLEAN : Resize(c, d, active)
  \/ \E s \in Session : \E op \in applying[s] :
       ApplyToWindow(s, op) \/ ApplyToPTY(s, op) \/ ApplyFails(s, op)
  \/ ListTmux
  \/ Prune

Spec == Init /\ [][Next]_vars

----------------------------------------------------------------------------
(* Properties *)

\* A registered connection is never orphaned: the record it arbitrates through
\* is the one the map holds, and that record's counters are the connections
\* there are (the "!= c.session" early returns never meet a live connection).
RecordsServeConnections ==
  /\ \A c \in Registered : conn[c].tmuxName \in sessions /\ ~conn[c].pruned
  /\ \A s \in Session :
       /\ refs[s] = Cardinality(ConnsOn(s))
       /\ \A k \in Client : live[s][k] = Cardinality(ConnsOf(s, k))

\* The two clocks mayResize reads are right: an absent owner's ownerLeftAt is
\* when its last connection closed, however often it came and went, and Prune's
\* sweep of lastHuman forgets no gesture that still counts as presence.
AbsenceAndPresenceDated ==
  /\ \A s \in Session, k \in Client :
       ownerID[s] = k /\ ConnsOf(s, k) = {} => ownerLeftAt[s] = departedAt[s][k]
  /\ \A k \in Client :
       \/ lastHuman[k] = gestureAt[k]
       \/ lastHuman[k] = Never /\ now - gestureAt[k] > PresenceWindow

\* attach.go:17, "only the arbiter-elected owner connection may pass true": the
\* resize that is about to reach tmux is its session's owner's, at most one at a time.
OnlyOwnerResizesWindow ==
  \A s \in Session : \A op \in applying[s] :
    /\ applying[s] = {op}
    /\ op.conn \in ConnsOn(s)
    /\ op.resizeWindow => conn[op.conn].clientID = ownerID[s]

\* Decisions and tmux commands do not cross: once nothing is on its way to the
\* window and no command failed, tmux last sized the window for the owner.
WindowSizedByOwner ==
  \A s \in Session :
    (/\ ownerID[s] # NoOne
     /\ \A op \in applying[s] : ~op.resizeWindow
     /\ s \notin unsized)
      => sizedBy[s] = ownerID[s]

\* What entitles client l to the window of s, which k owns.
Displaces(s, k, l) ==
  \/ gestureAt'[l] = now
  \/ /\ ConnsOf(s, k) = {} /\ now - departedAt[s][k] >= OwnerGrace
     /\ gestureAt[l] # Never /\ now - gestureAt[l] <= PresenceWindow

\* A window changes owner only for a human: either the new owner's human acts
\* now, or the old owner has had no connection for ownerGrace and a human was
\* at the new owner within presenceWindow (a machine waking on its own never
\* takes the window of somebody who is there, nor of somebody who left).
OwnerDisplacedOnlyByPresentHuman ==
  [][\A s \in Session, k, l \in Client :
       ownerID[s] = k /\ ownerID'[s] = l /\ k # l => Displaces(s, k, l)]_vars

\* "Only Prune forgets it, when tmux no longer has the session": ownership of a
\* window outlives every connection, and is forgotten only when tmux has no such
\* session (or, in the one tick whose listing was older than it, a new session).
OwnershipOutlivesConnections ==
  [][\A s \in Session :
       ownerID[s] # NoOne /\ ownerID'[s] = NoOne
         => ConnsOn(s) = {} /\ (tmux[s] # "alive" \/ s \in bornUnlisted)]_vars

\* What a browser tile sends (TerminalTile.tsx): every change of a follow-input
\* terminal's size goes out as an ordinary resize, so the active resize before an
\* input repeats the dims its connection last sent.
TileFrames ==
  \A s \in Session : \A op \in applying'[s] \ applying[s] :
    op.active /\ Follows(op.conn) => conn[op.conn].dims = op.dims

TileSpec == Init /\ [][Next /\ TileFrames]_vars

\* "Once this client owns the window, its ordinary resizes already keep the
\* dimensions current" (arbiter.go:204): when an active resize is done and did
\* not fail, the window has the size of the connection that was typed into.
ActiveResizeSizesWindow ==
  [][\A s \in Session : \A op \in applying[s] :
       op.active /\ tmux[s] = "alive" /\ op \notin applying'[s] /\ s \notin unsized'
         => window'[s] = op.dims]_vars
============================================================================
