---------------------------------- MODULE Pki ----------------------------------
(***************************************************************************)
(* The daemon's certificates: internal/pki/pki.go, the listener's reloader *)
(* in tlsconfig.go, and what cmd/serve.go makes of both at the start and   *)
(* every day.  A CA and a leaf are each two files, replaced by one rename  *)
(* after the other; handshakes read them meanwhile, and the daemon may go  *)
(* down, or a file operation fail, between any two steps.  Time is in      *)
(* days.  What is inside a certificate beyond its key, names, issuer and   *)
(* end, and the trust stores of browsers, are left out.  One daemon uses a *)
(* data directory.                                                         *)
(***************************************************************************)
EXTENDS Integers

CONSTANTS
  Names,            \* lists of hostnames the daemon may be configured with
  CaValidity, LeafValidity,
  CaRenewUnder, LeafRotateUnder,
  MaxNow, MaxKeys   \* bounds: days, and keys that are ever generated

ASSUME PkiAssumption ==
  /\ Names # {} /\ {MaxNow, MaxKeys} \subseteq Nat
  /\ {CaValidity, LeafValidity, CaRenewUnder, LeafRotateUnder} \subseteq Nat \ {0}
  \* "leafRotateUnder must stay <= caRenewUnder" (pki.go:34)
  /\ LeafRotateUnder <= CaRenewUnder
  /\ LeafRotateUnder <= LeafValidity /\ CaRenewUnder < CaValidity

VARIABLES
  names,      \* the hostnames in the settings
  now,        \* the clock
  generated,       \* keys generated so far
  ca, leaf,   \* the files: ca.pem and ca.key, cert.pem and key.pem
  step,       \* how far Ensure is; "rest" outside of it, "down" without a daemon
  mine,       \* the hostnames the daemon started with
  issuer,       \* the CA that Ensure loaded or made
  listening,  \* the daemon has its listener
  cache,      \* certReloader: cert and modTime
  reading     \* the handshake that reads the pair: what it found so far

\* Recorded to state the properties: whether the last Ensure ended well, and when one did.
VARIABLES ensured, checked

files == <<ca, leaf>>
reloader == <<cache, reading>>
pkiGhosts == <<ensured, checked>>
pkiVars == <<names, now, generated, files, step, mine, issuer, listening, reloader, pkiGhosts>>

\* A certificate holds the public half of a key; key 0 is that of a file that is not there.
Key == 0 .. MaxKeys
Cert == [key : Key, names : Names \cup {{}}, by : Key, until : Nat]
NoCert == [key |-> 0, names |-> {}, by |-> 0, until |-> 0]
NoPair == [cert |-> NoCert, key |-> 0]
Whole(pair) == pair.cert.key = pair.key

\* A file's modification time stands for the one write that made it.
ModTime == leaf.cert.key
NoCache == [cert |-> NoCert, modTime |-> 0]
NotReading == [stage |-> "none", cert |-> NoCert, modTime |-> 0]

----------------------------------------------------------------------------
(* Ensure *)

\* loadCA, and why its CA is replaced.  That the two files match is not asked.
NoCA == ca.cert = NoCert \/ ca.key = 0
CADue == ca.cert.names # mine \/ now >= ca.cert.until - CaRenewUnder

MinOf(a, b) == IF a <= b THEN a ELSE b

\* A leaf ends with its CA at the latest.
LeafEnd == MinOf(now + LeafValidity, issuer.cert.until)

leafNeedsRotation_Unpaired ==
  \/ leaf.cert = NoCert \/ leaf.key = 0
  \/ leaf.cert.until - now < LeafRotateUnder
  \/ leaf.cert.names # mine
  \/ leaf.cert.by # ca.cert.key
leafNeedsRotation ==
  \/ leaf.cert = NoCert \/ ~Whole(leaf)
  \/ leaf.cert.until - now < LeafRotateUnder
  \/ leaf.cert.names # mine
  \/ leaf.cert.by # ca.cert.key

Ensured ==
  /\ step' = "rest" /\ listening' = TRUE /\ issuer' = NoPair
  /\ ensured' = TRUE /\ checked' = now
  /\ UNCHANGED <<names, now, mine, reloader>>

\* An error ends the start, and with it the daemon; the daily check has tomorrow's.
Failed ==
  /\ step' = (IF listening THEN "rest" ELSE "down") /\ issuer' = NoPair
  /\ ensured' = FALSE
  /\ UNCHANGED <<names, now, mine, listening, reloader, checked>>

\* createCA writes the certificate first.
LoadCA ==
  /\ step = "ensure"
  /\ IF NoCA \/ CADue
     THEN /\ generated < MaxKeys /\ generated' = generated + 1
          /\ LET new == [key |-> generated + 1, names |-> mine, by |-> generated + 1, until |-> now + CaValidity]
             IN  issuer' = [cert |-> new, key |-> generated + 1] /\ ca' = [ca EXCEPT !.cert = new]
          /\ step' = "caKey"
     ELSE step' = "leaf" /\ issuer' = ca /\ UNCHANGED <<ca, generated>>
  /\ UNCHANGED <<names, now, leaf, mine, listening, reloader, pkiGhosts>>

RenameCAKey ==
  /\ step = "caKey"
  /\ ca' = [ca EXCEPT !.key = issuer.key]
  /\ step' = "leaf"
  /\ UNCHANGED <<names, now, generated, leaf, mine, issuer, listening, reloader, pkiGhosts>>

\* createLeaf: the library signs only with the key of the CA's certificate.
CreateLeaf ==
  /\ step = "leaf" /\ leafNeedsRotation
  /\ IF Whole(issuer)
     THEN /\ generated < MaxKeys /\ generated' = generated + 1
          /\ leaf' = [leaf EXCEPT !.cert = [key |-> generated + 1, names |-> mine, by |-> issuer.key,
                                            until |-> LeafEnd]]
          /\ step' = "leafKey"
          /\ UNCHANGED <<names, now, ca, mine, issuer, listening, reloader, pkiGhosts>>
     ELSE Failed /\ UNCHANGED <<generated, files>>

RenameLeafKey ==
  /\ step = "leafKey"
  /\ leaf' = [leaf EXCEPT !.key = leaf.cert.key]
  /\ Ensured
  /\ UNCHANGED <<generated, ca>>

KeepLeaf ==
  /\ step = "leaf" /\ ~leafNeedsRotation
  /\ Ensured
  /\ UNCHANGED <<generated, files>>

\* A file operation fails: before the first rename of a pair, or between the two.
Fail ==
  /\ step \in {"ensure", "caKey", "leaf", "leafKey"}
  /\ Failed /\ UNCHANGED <<generated, files>>

----------------------------------------------------------------------------
(* Handshakes: certReloader.get *)

Reloads_Once(modTime) == cache.cert = NoCert
Reloads(modTime) == cache.cert = NoCert \/ modTime # cache.modTime

Stat ==
  /\ listening /\ reading.stage = "none" /\ leaf.cert # NoCert /\ Reloads(ModTime)
  /\ reading' = [stage |-> "cert", cert |-> NoCert, modTime |-> ModTime]
  /\ UNCHANGED <<names, now, generated, files, step, mine, issuer, listening, cache, pkiGhosts>>

ReadCert ==
  /\ reading.stage = "cert"
  /\ reading' = [reading EXCEPT !.stage = "key", !.cert = leaf.cert]
  /\ UNCHANGED <<names, now, generated, files, step, mine, issuer, listening, cache, pkiGhosts>>

\* The time is the one of the stat that came before the reads.
Cached_ReadThenStat == [cert |-> reading.cert, modTime |-> ModTime]
Cached == [cert |-> reading.cert, modTime |-> reading.modTime]

\* Files that do not match leave the cache as it was.
ReadKey ==
  /\ reading.stage = "key"
  /\ cache' = IF leaf.key = reading.cert.key THEN Cached ELSE cache
  /\ reading' = NotReading
  /\ UNCHANGED <<names, now, generated, files, step, mine, issuer, listening, pkiGhosts>>

\* What a handshake gets that nothing comes between.
Served == IF Reloads(ModTime) /\ Whole(leaf) THEN leaf.cert ELSE cache.cert

----------------------------------------------------------------------------
(* The daemon *)

ServeStarts ==
  /\ step = "down"
  /\ step' = "ensure" /\ mine' = names
  /\ UNCHANGED <<names, now, generated, files, issuer, listening, reloader, pkiGhosts>>

\* The daily check; it may come late, when the machine slept.
Tick ==
  /\ step = "rest"
  /\ step' = "ensure"
  /\ UNCHANGED <<names, now, generated, files, mine, issuer, listening, reloader, pkiGhosts>>

Crash ==
  /\ step # "down"
  /\ step' = "down" /\ listening' = FALSE /\ issuer' = NoPair
  /\ cache' = NoCache /\ reading' = NotReading /\ ensured' = FALSE
  /\ UNCHANGED <<names, now, generated, files, mine, checked>>

\* identity.Apply: the settings page, or serve --hostname.
ChangeNames ==
  /\ \E n \in Names \ {names} : names' = n
  /\ UNCHANGED <<now, generated, files, step, mine, issuer, listening, reloader, pkiGhosts>>

Day ==
  /\ step \in {"down", "rest"} /\ now < MaxNow
  /\ now' = now + 1
  /\ UNCHANGED <<names, generated, files, step, mine, issuer, listening, reloader, pkiGhosts>>

----------------------------------------------------------------------------

PkiInit ==
  /\ names \in Names /\ mine = names
  /\ now = 0 /\ generated = 0
  /\ ca = NoPair /\ leaf = NoPair
  /\ step = "down" /\ issuer = NoPair /\ listening = FALSE
  /\ cache = NoCache /\ reading = NotReading
  /\ ensured = FALSE /\ checked = 0

PkiNext ==
  \/ ServeStarts \/ Tick \/ Crash
  \/ LoadCA \/ RenameCAKey \/ CreateLeaf \/ RenameLeafKey \/ KeepLeaf \/ Fail
  \/ Stat \/ ReadCert \/ ReadKey
  \/ ChangeNames \/ Day

PkiSpec == PkiInit /\ [][PkiNext]_pkiVars

----------------------------------------------------------------------------
(* Properties *)

Pair == [cert : Cert, key : Key]
PkiTypeOK ==
  /\ {names, mine} \subseteq Names /\ now \in 0 .. MaxNow /\ generated \in Key
  /\ {ca, leaf, issuer} \subseteq Pair
  /\ step \in {"down", "ensure", "caKey", "leaf", "leafKey", "rest"}
  /\ listening \in BOOLEAN /\ ensured \in BOOLEAN /\ checked \in 0 .. now
  /\ cache \in [cert : Cert, modTime : Key]
  /\ reading \in [stage : {"none", "cert", "key"}, cert : Cert, modTime : Key]
  /\ step = "down" => ~listening

\* An Ensure that ended well leaves files that fit together, whatever crashes, failures
\* and changes of the hostnames came before it: both pairs whole, the leaf of this CA,
\* for the daemon's names and not outliving it ("a cert clients reject anyway",
\* pki.go:206); and the next one that day finds nothing to do ("no daily rewrite loop",
\* pki.go:210).
FilesFit ==
  step = "rest" /\ ensured =>
    /\ Whole(ca) /\ Whole(leaf) /\ leaf.cert.by = ca.cert.key
    /\ leaf.cert.names = mine /\ ca.cert.names = mine
    /\ leaf.cert.until <= ca.cert.until
    /\ now = checked => ~NoCA /\ ~CADue /\ ~leafNeedsRotation

\* A rotation reaches handshakes: the reloader never takes a pair it read before for
\* the one that is on disk, wherever between its reads the files were replaced.
CacheFollowsDisk == cache.cert # NoCert /\ cache.modTime = ModTime => cache.cert = leaf.cert

\* A listener does not serve "a leaf past its expiry even though a fresh one sits on
\* disk" (tlsconfig.go:14), nor any other, so long as an Ensure ended well within the
\* rotation window and none has left the leaf half-written.
ServesUnexpired ==
  listening /\ Whole(leaf) /\ now - checked <= LeafRotateUnder
    => Served # NoCert /\ now <= Served.until

\* writePair: a pair that a crash left half-written is "recoverable", because the next
\* Ensure "re-checks the pairing" (pki.go:250).  Violated for the CA, whose pairing
\* nothing checks: once its second rename is missing, Ensure cannot sign a leaf.
RecoversFromCrash == step = "leaf" /\ leafNeedsRotation => Whole(issuer)
=============================================================================
