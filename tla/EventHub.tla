------------------------------ MODULE EventHub ------------------------------
(***************************************************************************)
(* internal/server/events.go and web/src/useEvents.ts: how one page hears  *)
(* of the daemon's changes.  The hub gives every events socket a bounded   *)
(* channel and drops what does not fit; the socket may close, or go silent *)
(* without closing; the page reconnects, and every connect begins with a   *)
(* hello.  A page reacts to every frame of interest alike (it refetches),  *)
(* so frames are counted and have no content.  What it then does is the    *)
(* consumer's module.                                                      *)
(***************************************************************************)
EXTENDS Integers

CONSTANTS
  Cap,       \* capacity of a subscriber's channel (16)
  Buffer,    \* frames the socket takes before a write blocks
  MaxDrops   \* bound on the times the socket fails

ASSUME EventHubAssumption == Cap \in Nat \ {0} /\ Buffer \in Nat \ {0} /\ MaxDrops \in Nat

VARIABLES
  owed,   \* changes committed whose broadcast is still to come
  link,   \* the page's current socket
  chan,   \* events in its subscription's channel
  wire,   \* frames sent to the page and not yet received
  drops   \* how often the socket failed

hub == <<owed, link, chan, wire, drops>>

\* down: closed, a retry is pending; upgraded, subscribed: handleEvents is on its
\* way to hello; silent: open in the browser, but nothing gets through any more.
Links == {"down", "upgraded", "subscribed", "open", "silent"}
HubTypeOK ==
  /\ owed \in Nat
  /\ link \in Links
  /\ chan \in 0 .. Cap
  /\ wire \in 0 .. Buffer
  /\ drops \in 0 .. MaxDrops

HubInit == owed = 0 /\ link = "down" /\ chan = 0 /\ wire = 0 /\ drops = 0

----------------------------------------------------------------------------
(* The daemon *)

\* connect, and the upgrade of handleEvents.
Connect ==
  /\ link = "down"
  /\ link' = "upgraded"
  /\ UNCHANGED <<owed, chan, wire, drops>>

Subscribe ==
  /\ link = "upgraded"
  /\ link' = "subscribed"
  /\ UNCHANGED <<owed, chan, wire, drops>>

Hello ==
  /\ link = "subscribed"
  /\ link' = "open"
  /\ wire' = wire + 1
  /\ UNCHANGED <<owed, chan, drops>>

\* Broadcast never waits: what a full channel cannot take is lost.
Subscribed == link \in {"subscribed", "open", "silent"}
Sent == IF chan < Cap THEN chan + 1 ELSE Cap

Broadcast ==
  /\ owed > 0
  /\ owed' = owed - 1
  /\ chan' = IF Subscribed THEN Sent ELSE chan
  /\ UNCHANGED <<link, wire, drops>>

\* handleEvents' loop writes the next event to the socket.
Forward ==
  /\ link = "open" /\ chan > 0 /\ wire < Buffer
  /\ chan' = chan - 1
  /\ wire' = wire + 1
  /\ UNCHANGED <<owed, link, drops>>

----------------------------------------------------------------------------
(* The network, the daemon's end, and the page's answer to silence *)

Disconnected == link' = "down" /\ chan' = 0 /\ wire' = 0

\* The socket closes: the network, a write or pong deadline, the page.
Close ==
  /\ link # "down" /\ drops < MaxDrops
  /\ drops' = drops + 1
  /\ Disconnected
  /\ UNCHANGED owed

\* The daemon goes down with broadcasts it owed.
DaemonRestarts ==
  /\ drops < MaxDrops
  /\ drops' = drops + 1
  /\ owed' = 0
  /\ Disconnected

\* The network dies under a socket that stays open in the browser.
FallSilent ==
  /\ link \notin {"down", "silent"} /\ drops < MaxDrops
  /\ drops' = drops + 1
  /\ link' = "silent"
  /\ wire' = 0
  /\ UNCHANGED <<owed, chan>>

\* liveCheck or onResume after staleAfter without a keepalive: reconnectNow
\* disowns the socket.
GoStale ==
  /\ link = "silent"
  /\ Disconnected
  /\ UNCHANGED <<owed, drops>>
=============================================================================
