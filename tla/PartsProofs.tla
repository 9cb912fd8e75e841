---------------------------- MODULE PartsProofs -----------------------------
(***************************************************************************)
(* The page as a whole: each component behaves in it as its module says,   *)
(* so what is proved of a component holds of the page. Here are the proofs *)
(* about the private CA, the shell's server registry and the launcher, and *)
(* the composition.                                                        *)
(***************************************************************************)
EXTENDS Parts, SettingsProofs

-----------------------------------------------------------------------------
(* Private CA *)

LEMMA PkiConstants ==
  /\ MaxNow \in Nat /\ MaxKeys \in Nat /\ 0 \in Key /\ Key \subseteq Nat
  /\ CaValidity \in Nat /\ LeafValidity \in Nat /\ CaRenewUnder \in Nat /\ LeafRotateUnder \in Nat
  /\ LeafRotateUnder <= CaRenewUnder /\ LeafRotateUnder <= LeafValidity /\ CaRenewUnder < CaValidity
<1>1. {MaxNow, MaxKeys} \subseteq Nat
  BY PkiAssumption
<1>2. {CaValidity, LeafValidity, CaRenewUnder, LeafRotateUnder} \subseteq Nat \ {0}
  BY PkiAssumption
<1>3. MaxNow \in Nat /\ MaxKeys \in Nat
  BY <1>1
<1>4. CaValidity \in Nat /\ LeafValidity \in Nat /\ CaRenewUnder \in Nat /\ LeafRotateUnder \in Nat
  BY <1>2
<1>5. 0 \in Key /\ Key \subseteq Nat
  BY <1>3 DEF Key
<1> QED
  BY <1>3, <1>4, <1>5, PkiAssumption

LEMMA NothingStored ==
  /\ NoCert \in Cert /\ NoPair \in Pair /\ NoCache \in [cert : Cert, modTime : Key]
  /\ NotReading \in [stage : {"none", "cert", "key"}, cert : Cert, modTime : Key]
  /\ NoCert.key = 0 /\ NoCert.by = 0 /\ NoPair.cert = NoCert /\ NoPair.key = 0
  /\ NoCache.cert = NoCert /\ NoCache.modTime = 0
  /\ NotReading.stage = "none" /\ NotReading.modTime = 0
<1>1. NoCert \in Cert /\ NoCert.key = 0 /\ NoCert.by = 0
  BY PkiConstants DEF NoCert, Cert
<1>2. NoPair \in Pair /\ NoPair.cert = NoCert /\ NoPair.key = 0
  BY PkiConstants, <1>1 DEF NoPair, Pair
<1>3. NoCache \in [cert : Cert, modTime : Key] /\ NoCache.cert = NoCert /\ NoCache.modTime = 0
  BY PkiConstants, <1>1 DEF NoCache
<1>4. /\ NotReading \in [stage : {"none", "cert", "key"}, cert : Cert, modTime : Key]
      /\ NotReading.stage = "none" /\ NotReading.modTime = 0
  BY PkiConstants, <1>1 DEF NotReading
<1> QED
  BY <1>1, <1>2, <1>3, <1>4

----------------------------------------------------------------------------
(* The inductive invariant *)

\* Keys are generated before they are used; only a certificate that is not there has none.
KeysUsed ==
  /\ ca.cert.key <= generated /\ leaf.cert.key <= generated /\ leaf.cert.by <= generated
  /\ cache.modTime <= generated /\ reading.modTime <= generated
  /\ ca.cert = NoCert \/ ca.cert.key # 0
  /\ leaf.cert = NoCert \/ leaf.cert.key # 0

\* A leaf is signed with the key of a whole CA, and ends with it.
LeafOfWholeCA ==
  leaf.cert # NoCert /\ leaf.cert.by = ca.cert.key => Whole(ca) /\ leaf.cert.until <= ca.cert.until

\* What Ensure knows between its steps.
Ensuring ==
  /\ step \in {"caKey", "leaf", "leafKey"} =>
       /\ issuer.cert = ca.cert /\ ca.cert # NoCert
       /\ ca.cert.names = mine /\ now < ca.cert.until - CaRenewUnder
  /\ step = "caKey" => Whole(issuer)
  /\ step = "leaf" => issuer.key = ca.key /\ ca.key # 0
  /\ step = "leafKey" =>
       /\ Whole(ca) /\ leaf.cert # NoCert
       /\ leaf.cert.by = ca.cert.key /\ leaf.cert.names = mine
       /\ leaf.cert.until <= ca.cert.until /\ leaf.cert.until >= now + LeafRotateUnder

\* The leaf of a listener outlasts the last Ensure that ended well by the rotation window.
Listening == listening => leaf.cert # NoCert /\ leaf.cert.until >= checked + LeafRotateUnder

\* A handshake that has read a certificate since the leaf was last written has read that one.
ReadingFollows ==
  reading.stage = "key" /\ reading.modTime = leaf.cert.key => reading.cert = leaf.cert

PkiInv ==
  /\ PkiTypeOK /\ KeysUsed /\ LeafOfWholeCA /\ Ensuring /\ FilesFit
  /\ Listening /\ ReadingFollows /\ CacheFollowsDisk

\* The type invariant without its set enumerations.
LEMMA PkiTypes ==
  ASSUME PkiTypeOK
  PROVE  /\ names \in Names /\ mine \in Names /\ now \in Nat /\ now <= MaxNow /\ checked \in Nat /\ checked <= now
         /\ generated \in Key /\ generated \in Nat
         /\ ca \in Pair /\ leaf \in Pair /\ issuer \in Pair
         /\ ca.cert \in Cert /\ ca.key \in Key /\ leaf.cert \in Cert /\ leaf.key \in Key
         /\ issuer.cert \in Cert /\ issuer.key \in Key
         /\ ca.cert.key \in Nat /\ ca.cert.until \in Nat
         /\ leaf.cert.key \in Nat /\ leaf.cert.by \in Nat /\ leaf.cert.until \in Nat
         /\ cache.modTime \in Nat /\ reading.modTime \in Nat
<1>1. names \in Names /\ mine \in Names /\ ca \in Pair /\ leaf \in Pair /\ issuer \in Pair
  BY DEF PkiTypeOK
<1>2. now \in Nat /\ now <= MaxNow /\ checked \in Nat /\ checked <= now /\ generated \in Key /\ generated \in Nat
  BY PkiConstants DEF PkiTypeOK
<1>3. /\ ca.cert \in Cert /\ ca.key \in Key /\ leaf.cert \in Cert /\ leaf.key \in Key
      /\ issuer.cert \in Cert /\ issuer.key \in Key
  BY <1>1 DEF Pair
<1>4. \A c \in Cert : c.key \in Nat /\ c.by \in Nat /\ c.until \in Nat
  BY PkiConstants DEF Cert
<1>5. cache.modTime \in Nat /\ reading.modTime \in Nat
  BY PkiConstants DEF PkiTypeOK
<1> QED
  BY <1>1, <1>2, <1>3, <1>4, <1>5

LEMMA PkiStarts == ASSUME PkiInit PROVE PkiInv
<1> USE PkiConstants, NothingStored
<1>1. PkiTypeOK
  <2>1. {names, mine} \subseteq Names /\ now \in 0 .. MaxNow /\ checked \in 0 .. now
    BY DEF PkiInit
  <2>2. generated \in Key /\ {ca, leaf, issuer} \subseteq Pair
    BY DEF PkiInit
  <2>3. cache \in [cert : Cert, modTime : Key]
    BY DEF PkiInit
  <2>4. reading \in [stage : {"none", "cert", "key"}, cert : Cert, modTime : Key]
    BY DEF PkiInit
  <2>5. /\ step \in {"down", "ensure", "caKey", "leaf", "leafKey", "rest"}
        /\ ~listening /\ listening \in BOOLEAN /\ ensured \in BOOLEAN
    BY DEF PkiInit
  <2> QED
    BY <2>1, <2>2, <2>3, <2>4, <2>5 DEF PkiTypeOK
<1>2. KeysUsed
  BY DEF PkiInit, KeysUsed
<1>3. LeafOfWholeCA /\ Listening
  BY DEF PkiInit, LeafOfWholeCA, Listening
<1>4. Ensuring /\ FilesFit
  BY DEF PkiInit, Ensuring, FilesFit
<1>5. ReadingFollows
  BY DEF PkiInit, ReadingFollows
<1>6. CacheFollowsDisk
  BY DEF PkiInit, CacheFollowsDisk
<1> QED
  BY <1>1, <1>2, <1>3, <1>4, <1>5, <1>6 DEF PkiInv

----------------------------------------------------------------------------
(* Handshakes *)

ensuring == <<names, now, generated, ca, leaf, step, mine, issuer, listening, ensured, checked>>

\* What handshakes do is nothing to Ensure.
LEMMA HandshakeKeeps ==
  ASSUME PkiInv, UNCHANGED ensuring
  PROVE  (LeafOfWholeCA /\ Ensuring /\ FilesFit /\ Listening)'
<1> USE DEF PkiInv, ensuring
<1>1. (LeafOfWholeCA /\ Ensuring /\ Listening)'
  BY DEF LeafOfWholeCA, Ensuring, Listening, Whole
<1>2. FilesFit'
  BY DEF FilesFit, Whole, NoCA, CADue, leafNeedsRotation
<1> QED
  BY <1>1, <1>2

LEMMA HandshakeStep == ASSUME PkiInv, Stat \/ ReadCert \/ ReadKey PROVE PkiInv'
<1> USE PkiConstants, NothingStored, PkiTypes DEF PkiInv
<1>1. UNCHANGED ensuring
  BY DEF Stat, ReadCert, ReadKey, ensuring, files, pkiGhosts
<1>2. CASE Stat
  <2>1. /\ cache' = cache
        /\ reading' = [stage |-> "cert", cert |-> NoCert, modTime |-> leaf.cert.key]
    BY <1>2 DEF Stat, ModTime
  <2>2. leaf.cert.key \in Key
    BY DEF Cert
  <2>3. PkiTypeOK'
    BY <1>1, <2>1, <2>2 DEF PkiTypeOK, ensuring
  <2>4. KeysUsed' /\ ReadingFollows' /\ CacheFollowsDisk'
    BY <1>1, <2>1 DEF KeysUsed, ReadingFollows, CacheFollowsDisk, ModTime, ensuring
  <2> QED
    BY <1>1, <2>3, <2>4, HandshakeKeeps
<1>3. CASE ReadCert
  <2>1. cache' = cache /\ reading' = [reading EXCEPT !.stage = "key", !.cert = leaf.cert]
    BY <1>3 DEF ReadCert
  <2>2. reading' \in [stage : {"none", "cert", "key"}, cert : Cert, modTime : Key]
    BY <2>1 DEF PkiTypeOK
  <2>3. reading'.modTime = reading.modTime /\ reading'.cert = leaf.cert
    BY <2>1 DEF PkiTypeOK
  <2>4. PkiTypeOK'
    BY <1>1, <2>1, <2>2 DEF PkiTypeOK, ensuring
  <2>5. KeysUsed' /\ ReadingFollows' /\ CacheFollowsDisk'
    BY <1>1, <2>1, <2>3 DEF KeysUsed, ReadingFollows, CacheFollowsDisk, ModTime, ensuring
  <2> QED
    BY <1>1, <2>4, <2>5, HandshakeKeeps
<1>4. CASE ReadKey
  <2>1. /\ reading.stage = "key" /\ reading' = NotReading
        /\ cache' = cache \/ cache' = [cert |-> reading.cert, modTime |-> reading.modTime]
    BY <1>4 DEF ReadKey, Cached
  <2>2. reading.cert \in Cert /\ reading.modTime \in Key
    BY DEF PkiTypeOK
  <2>3. cache' \in [cert : Cert, modTime : Key]
    BY <2>1, <2>2 DEF PkiTypeOK
  <2>4. PkiTypeOK'
    BY <1>1, <2>1, <2>3 DEF PkiTypeOK, ensuring
  <2>5. KeysUsed' /\ ReadingFollows' /\ CacheFollowsDisk'
    BY <1>1, <2>1 DEF KeysUsed, ReadingFollows, CacheFollowsDisk, ModTime, ensuring
  <2> QED
    BY <1>1, <2>4, <2>5, HandshakeKeeps
<1> QED
  BY <1>2, <1>3, <1>4

----------------------------------------------------------------------------
(* Ensure *)

\* What a step that writes no leaf is to handshakes.
LEMMA LeafKept ==
  ASSUME PkiInv, UNCHANGED <<leaf, cache, reading>>
  PROVE  (ReadingFollows /\ CacheFollowsDisk)'
BY DEF PkiInv, ReadingFollows, CacheFollowsDisk, ModTime

LEMMA LoadCAStep == ASSUME PkiInv, LoadCA PROVE PkiInv'
<1> USE PkiConstants, NothingStored, PkiTypes DEF PkiInv
<1>1. /\ UNCHANGED <<names, now, leaf, mine, listening, ensured, checked>>
      /\ UNCHANGED <<cache, reading>> /\ step = "ensure"
  BY DEF LoadCA, reloader, pkiGhosts
<1>2. (ReadingFollows /\ CacheFollowsDisk)'
  BY <1>1, LeafKept
<1>3. Listening' /\ FilesFit'
  BY <1>1 DEF LoadCA, Listening, FilesFit
<1>4. CASE NoCA \/ CADue
  <2>1. PICK k : k = generated + 1
    OBVIOUS
  <2>2. PICK new : new = [key |-> k, names |-> mine, by |-> k, until |-> now + CaValidity]
    OBVIOUS
  <2>3. /\ generated < MaxKeys /\ generated' = k /\ step' = "caKey"
        /\ issuer' = [cert |-> new, key |-> k] /\ ca' = [ca EXCEPT !.cert = new]
    BY <1>4, <2>1, <2>2 DEF LoadCA
  <2>4. k \in Key /\ k \in Nat /\ k > generated /\ k # 0
    BY <2>1, <2>3 DEF Key
  <2>5. new \in Cert /\ new.key = k /\ new.names = mine /\ new.until = now + CaValidity
    BY <2>2, <2>4 DEF Cert
  <2>6. /\ ca' \in Pair /\ issuer' \in Pair /\ ca'.cert = new
        /\ issuer'.cert = new /\ issuer'.key = k
    BY <2>3, <2>4, <2>5 DEF Pair
  <2>7. PkiTypeOK'
    BY <1>1, <2>3, <2>4, <2>6 DEF PkiTypeOK
  <2>8. new # NoCert
    BY <2>4, <2>5
  <2>9. KeysUsed'
    BY <1>1, <2>3, <2>4, <2>5, <2>6 DEF KeysUsed
  <2>10. LeafOfWholeCA'
    <3>1. leaf.cert.by # ca'.cert.key
      BY <2>4, <2>5, <2>6 DEF KeysUsed
    <3> QED
      BY <1>1, <3>1 DEF LeafOfWholeCA
  <2>11. Ensuring'
    <3>1. now < new.until - CaRenewUnder
      BY <2>5
    <3> QED
      BY <1>1, <2>3, <2>5, <2>6, <2>8, <3>1 DEF Ensuring, Whole
  <2> QED
    BY <1>2, <1>3, <2>7, <2>9, <2>10, <2>11
<1>5. CASE ~(NoCA \/ CADue)
  <2>1. step' = "leaf" /\ issuer' = ca /\ UNCHANGED <<ca, generated>>
    BY <1>5 DEF LoadCA
  <2>2. PkiTypeOK'
    BY <1>1, <2>1 DEF PkiTypeOK
  <2>3. KeysUsed' /\ LeafOfWholeCA'
    BY <1>1, <2>1 DEF KeysUsed, LeafOfWholeCA, Whole
  <2>4. Ensuring'
    BY <1>1, <1>5, <2>1 DEF Ensuring, NoCA, CADue
  <2> QED
    BY <1>2, <1>3, <2>2, <2>3, <2>4
<1> QED
  BY <1>4, <1>5

LEMMA RenameCAKeyStep == ASSUME PkiInv, RenameCAKey PROVE PkiInv'
<1> USE PkiConstants, NothingStored, PkiTypes DEF PkiInv
<1>1. /\ UNCHANGED <<names, now, generated, leaf, mine, issuer, listening, ensured, checked>>
      /\ UNCHANGED <<cache, reading>> /\ step = "caKey" /\ step' = "leaf"
      /\ ca' = [ca EXCEPT !.key = issuer.key]
  BY DEF RenameCAKey, reloader, pkiGhosts
<1>2. (ReadingFollows /\ CacheFollowsDisk)'
  BY <1>1, LeafKept
<1>3. ca' \in Pair /\ ca'.cert = ca.cert /\ ca'.key = issuer.key
  BY <1>1 DEF Pair
<1>4. PkiTypeOK'
  BY <1>1, <1>3 DEF PkiTypeOK
<1>5. KeysUsed'
  BY <1>1, <1>3 DEF KeysUsed
<1>6. ca.cert.key = issuer.key /\ issuer.key # 0
  BY <1>1 DEF Ensuring, Whole, KeysUsed
<1>7. LeafOfWholeCA'
  BY <1>1, <1>3, <1>6 DEF LeafOfWholeCA, Whole
<1>8. Ensuring'
  BY <1>1, <1>3, <1>6 DEF Ensuring
<1>9. FilesFit' /\ Listening'
  BY <1>1 DEF FilesFit, Listening
<1> QED
  BY <1>2, <1>4, <1>5, <1>7, <1>8, <1>9

\* An Ensure that fails leaves the files as they are.
LEMMA FailedStep ==
  ASSUME PkiInv, Failed, UNCHANGED <<generated, ca, leaf>>
  PROVE  PkiInv'
<1> USE PkiConstants, NothingStored, PkiTypes DEF PkiInv
<1>1. /\ UNCHANGED <<names, now, mine, listening, checked, cache, reading>>
      /\ ensured' = FALSE /\ issuer' = NoPair
      /\ step' = "rest" \/ (step' = "down" /\ ~listening)
  BY DEF Failed, reloader
<1>2. (ReadingFollows /\ CacheFollowsDisk)'
  BY <1>1, LeafKept
<1>3. PkiTypeOK'
  BY <1>1 DEF PkiTypeOK
<1>4. KeysUsed' /\ LeafOfWholeCA'
  BY <1>1 DEF KeysUsed, LeafOfWholeCA, Whole
<1>5. Ensuring' /\ FilesFit' /\ Listening'
  BY <1>1 DEF Ensuring, FilesFit, Listening
<1> QED
  BY <1>2, <1>3, <1>4, <1>5

LEMMA CreateLeafStep == ASSUME PkiInv, CreateLeaf PROVE PkiInv'
<1> USE PkiConstants, NothingStored, PkiTypes DEF PkiInv
<1>1. CASE ~Whole(issuer)
  BY <1>1, FailedStep DEF CreateLeaf, files
<1>2. CASE Whole(issuer)
  <2>1. PICK k : k = generated + 1
    OBVIOUS
  <2>2. PICK new : new = [key |-> k, names |-> mine, by |-> issuer.key, until |-> LeafEnd]
    OBVIOUS
  <2>3. /\ generated < MaxKeys /\ generated' = k /\ step = "leaf" /\ step' = "leafKey"
        /\ leaf' = [leaf EXCEPT !.cert = new]
        /\ UNCHANGED <<names, now, ca, mine, issuer, listening, ensured, checked, cache, reading>>
    BY <1>2, <2>1, <2>2 DEF CreateLeaf, reloader, pkiGhosts
  <2>4. k \in Key /\ k \in Nat /\ k > generated /\ k # 0
    BY <2>1, <2>3 DEF Key
  <2>5. /\ issuer.cert = ca.cert /\ ca.cert # NoCert /\ ca.cert.names = mine
        /\ now < ca.cert.until - CaRenewUnder /\ issuer.key = ca.key
    BY <2>3 DEF Ensuring
  <2>6. /\ LeafEnd \in Nat /\ LeafEnd <= ca.cert.until /\ LeafEnd >= now + LeafRotateUnder
    BY <2>5 DEF LeafEnd, MinOf
  <2>7. /\ new \in Cert /\ new.key = k /\ new.names = mine
        /\ new.by = issuer.key /\ new.until = LeafEnd
    BY <2>2, <2>4, <2>6 DEF Cert
  <2>8. leaf' \in Pair /\ leaf'.cert = new /\ leaf'.key = leaf.key
    BY <2>3, <2>7 DEF Pair
  <2>9. PkiTypeOK'
    BY <2>3, <2>4, <2>8 DEF PkiTypeOK
  <2>10. Whole(ca) /\ ca.cert.key = issuer.key /\ new # NoCert
    BY <1>2, <2>4, <2>5, <2>7 DEF Whole
  <2>11. KeysUsed'
    BY <2>3, <2>4, <2>7, <2>8, <2>10 DEF KeysUsed
  <2>12. LeafOfWholeCA'
    BY <2>3, <2>6, <2>7, <2>8, <2>10 DEF LeafOfWholeCA, Whole
  <2>13. Ensuring'
    BY <2>3, <2>5, <2>6, <2>7, <2>8, <2>10 DEF Ensuring, Whole
  <2>14. Listening'
    BY <2>3, <2>6, <2>7, <2>8, <2>10 DEF Listening
  <2>15. FilesFit'
    BY <2>3 DEF FilesFit
  <2>16. ReadingFollows' /\ CacheFollowsDisk'
    <3>1. reading.modTime # k /\ cache.modTime # k
      BY <2>4 DEF KeysUsed
    <3> QED
      BY <2>3, <2>7, <2>8, <3>1 DEF ReadingFollows, CacheFollowsDisk, ModTime
  <2> QED
    BY <2>9, <2>11, <2>12, <2>13, <2>14, <2>15, <2>16
<1> QED
  BY <1>1, <1>2

\* What holds of the files when an Ensure ends well.
LEMMA EnsuredStep ==
  ASSUME PkiInv, Ensured, UNCHANGED <<generated, ca>>, leaf' \in Pair, leaf'.cert = leaf.cert,
         Whole(ca), Whole(leaf)', leaf.cert # NoCert,
         leaf.cert.by = ca.cert.key, leaf.cert.names = mine,
         leaf.cert.until <= ca.cert.until, leaf.cert.until >= now + LeafRotateUnder,
         ca.cert # NoCert, ca.cert.names = mine, now < ca.cert.until - CaRenewUnder
  PROVE  PkiInv'
<1> USE PkiConstants, NothingStored, PkiTypes DEF PkiInv
<1>1. /\ UNCHANGED <<names, now, mine, cache, reading>>
      /\ step' = "rest" /\ listening' = TRUE /\ issuer' = NoPair
      /\ ensured' = TRUE /\ checked' = now
  BY DEF Ensured, reloader
<1>2. PkiTypeOK'
  BY <1>1 DEF PkiTypeOK
<1>3. KeysUsed' /\ LeafOfWholeCA'
  BY <1>1 DEF KeysUsed, LeafOfWholeCA, Whole
<1>4. Ensuring' /\ Listening'
  BY <1>1 DEF Ensuring, Listening
<1>5. ReadingFollows' /\ CacheFollowsDisk'
  BY <1>1 DEF ReadingFollows, CacheFollowsDisk, ModTime
<1>6. FilesFit'
  <2>1. ~NoCA' /\ ~CADue'
    BY <1>1 DEF NoCA, CADue, Whole, KeysUsed
  <2>2. ~leafNeedsRotation'
    BY <1>1 DEF leafNeedsRotation
  <2> QED
    BY <1>1, <2>1, <2>2 DEF FilesFit, Whole
<1> QED
  BY <1>2, <1>3, <1>4, <1>5, <1>6

LEMMA RenameLeafKeyStep == ASSUME PkiInv, RenameLeafKey PROVE PkiInv'
<1> USE PkiConstants, NothingStored, PkiTypes DEF PkiInv
<1>1. /\ step = "leafKey" /\ Ensured /\ UNCHANGED <<generated, ca>>
      /\ leaf' = [leaf EXCEPT !.key = leaf.cert.key]
  BY DEF RenameLeafKey
<1>2. leaf.cert.key \in Key
  BY DEF Cert
<1>3. leaf' \in Pair /\ leaf'.cert = leaf.cert /\ Whole(leaf)'
  BY <1>1, <1>2 DEF Pair, Whole
<1> QED
  BY <1>1, <1>3, EnsuredStep DEF Ensuring

LEMMA KeepLeafStep == ASSUME PkiInv, KeepLeaf PROVE PkiInv'
<1> USE PkiConstants, NothingStored, PkiTypes DEF PkiInv
<1>1. step = "leaf" /\ ~leafNeedsRotation /\ Ensured /\ UNCHANGED <<generated, ca, leaf>>
  BY DEF KeepLeaf, files
<1>2. /\ leaf.cert # NoCert /\ Whole(leaf) /\ leaf.cert.names = mine
      /\ leaf.cert.by = ca.cert.key /\ leaf.cert.until >= now + LeafRotateUnder
  BY <1>1 DEF leafNeedsRotation
<1>3. Whole(ca) /\ leaf.cert.until <= ca.cert.until
  BY <1>2 DEF LeafOfWholeCA
<1>4. ca.cert # NoCert /\ ca.cert.names = mine /\ now < ca.cert.until - CaRenewUnder
  BY <1>1 DEF Ensuring
<1>5. leaf' \in Pair /\ leaf'.cert = leaf.cert /\ Whole(leaf)'
  BY <1>1, <1>2 DEF Whole
<1> QED
  BY <1>1, <1>2, <1>3, <1>4, <1>5, EnsuredStep

----------------------------------------------------------------------------
(* The daemon *)

LEMMA DaemonStep ==
  ASSUME PkiInv, ServeStarts \/ Tick \/ Crash \/ ChangeNames \/ Day
  PROVE  PkiInv'
<1> USE PkiConstants, NothingStored, PkiTypes DEF PkiInv
<1>1. UNCHANGED <<generated, ca, leaf>> /\ checked' = checked
  BY DEF ServeStarts, Tick, Crash, ChangeNames, Day, files, pkiGhosts
<1>2. /\ cache' = cache \/ cache' = NoCache
      /\ reading' = reading \/ reading' = NotReading
  BY DEF ServeStarts, Tick, Crash, ChangeNames, Day, reloader
<1>3. PkiTypeOK'
  <2>1. names' \in Names /\ mine' \in Names /\ now' \in 0 .. MaxNow /\ checked \in 0 .. now'
    BY DEF ServeStarts, Tick, Crash, ChangeNames, Day
  <2>2. step' \in {"down", "ensure", "caKey", "leaf", "leafKey", "rest"} /\ (step' = "down" => ~listening')
    BY DEF ServeStarts, Tick, Crash, ChangeNames, Day, PkiTypeOK
  <2>3. issuer' \in Pair /\ listening' \in BOOLEAN /\ ensured' \in BOOLEAN
    BY DEF ServeStarts, Tick, Crash, ChangeNames, Day, PkiTypeOK, pkiGhosts
  <2> QED
    BY <1>1, <1>2, <2>1, <2>2, <2>3 DEF PkiTypeOK
<1>4. KeysUsed' /\ LeafOfWholeCA'
  BY <1>1, <1>2 DEF KeysUsed, LeafOfWholeCA, Whole
<1>5. ReadingFollows' /\ CacheFollowsDisk'
  BY <1>1, <1>2 DEF ReadingFollows, CacheFollowsDisk, ModTime
<1>6. Listening'
  BY <1>1 DEF ServeStarts, Tick, Crash, ChangeNames, Day, Listening
<1>7. Ensuring'
  <2>1. CASE ChangeNames
    BY <1>1, <2>1 DEF ChangeNames, Ensuring, Whole
  <2>2. CASE ServeStarts \/ Tick \/ Crash \/ Day
    <3>1. step' \notin {"caKey", "leaf", "leafKey"}
      BY <2>2 DEF ServeStarts, Tick, Crash, Day
    <3> QED
      BY <3>1 DEF Ensuring
  <2> QED
    BY <2>1, <2>2
<1>8. FilesFit'
  <2>1. CASE ServeStarts \/ Tick \/ Crash
    <3>1. step' # "rest"
      BY <2>1 DEF ServeStarts, Tick, Crash
    <3> QED
      BY <3>1 DEF FilesFit
  <2>2. CASE ChangeNames
    <3>1. UNCHANGED <<now, step, mine, ensured>>
      BY <2>2 DEF ChangeNames, pkiGhosts
    <3> QED
      BY <1>1, <3>1 DEF FilesFit, Whole, NoCA, CADue, leafNeedsRotation
  <2>3. CASE Day
    <3>1. UNCHANGED <<step, mine, ensured>> /\ now' = now + 1
      BY <2>3 DEF Day, pkiGhosts
    <3>2. now' # checked'
      BY <1>1, <3>1
    <3> QED
      BY <1>1, <3>1, <3>2 DEF FilesFit, Whole
  <2> QED
    BY <2>1, <2>2, <2>3
<1> QED
  BY <1>3, <1>4, <1>5, <1>6, <1>7, <1>8

LEMMA UnchangedStep == ASSUME PkiInv, UNCHANGED pkiVars PROVE PkiInv'
<1> USE DEF PkiInv, pkiVars, files, reloader, pkiGhosts
<1>1. PkiTypeOK' /\ KeysUsed'
  BY DEF PkiTypeOK, KeysUsed
<1>2. UNCHANGED ensuring /\ UNCHANGED <<leaf, cache, reading>>
  BY DEF ensuring
<1> QED
  BY <1>1, <1>2, HandshakeKeeps, LeafKept

LEMMA PkiSteps == ASSUME PkiInv, [PkiNext]_pkiVars PROVE PkiInv'
<1>1. CASE ServeStarts \/ Tick \/ Crash \/ ChangeNames \/ Day
  BY <1>1, DaemonStep
<1>2. CASE LoadCA \/ RenameCAKey
  BY <1>2, LoadCAStep, RenameCAKeyStep
<1>3. CASE CreateLeaf \/ RenameLeafKey \/ KeepLeaf
  BY <1>3, CreateLeafStep, RenameLeafKeyStep, KeepLeafStep
<1>4. CASE Fail
  BY <1>4, FailedStep DEF Fail, files
<1>5. CASE Stat \/ ReadCert \/ ReadKey
  BY <1>5, HandshakeStep
<1>6. CASE UNCHANGED pkiVars
  BY <1>6, UnchangedStep
<1> QED
  BY <1>1, <1>2, <1>3, <1>4, <1>5, <1>6 DEF PkiNext

----------------------------------------------------------------------------
(* The theorems *)

\* The inductive invariant of the certificates holds in every reachable state.
THEOREM PkiInvariance == PkiSpec => []PkiInv
<1>1. PkiInit => PkiInv
  BY PkiStarts
<1>2. PkiInv /\ [PkiNext]_pkiVars => PkiInv'
  BY PkiSteps
<1> QED
  BY <1>1, <1>2, PTL DEF PkiSpec

\* The shape of the files, of Ensure's progress and of the reloader's cache.
THEOREM PkiTypeCorrect == PkiSpec => []PkiTypeOK
<1>1. PkiInv => PkiTypeOK
  BY DEF PkiInv
<1> QED
  BY <1>1, PkiInvariance, PTL

\* Ensure: when it ends well both pairs are whole and fit together and the daemon's
\* names, whatever an earlier one left half-written, and the same day's next one
\* would write nothing.
THEOREM EnsureFits == PkiSpec => []FilesFit
<1>1. PkiInv => FilesFit
  BY DEF PkiInv
<1> QED
  BY <1>1, PkiInvariance, PTL

\* certReloader.get: a cached pair that passes for the one on disk is the one on disk.
THEOREM ReloaderFollows == PkiSpec => []CacheFollowsDisk
<1>1. PkiInv => CacheFollowsDisk
  BY DEF PkiInv
<1> QED
  BY <1>1, PkiInvariance, PTL

\* The listener serves no leaf past its end while the last Ensure that ended well is no
\* older than the rotation window.
THEOREM ServesWhatHolds == PkiSpec => []ServesUnexpired
<1>1. PkiInv => ServesUnexpired
  <2> SUFFICES ASSUME PkiInv, listening, Whole(leaf), now - checked <= LeafRotateUnder
               PROVE  Served # NoCert /\ now <= Served.until
    BY DEF ServesUnexpired
  <2>1. leaf.cert # NoCert /\ leaf.cert.until >= checked + LeafRotateUnder
    BY DEF PkiInv, Listening
  <2>2. Served = leaf.cert
    BY DEF Served, Reloads, PkiInv, CacheFollowsDisk
  <2>3. now <= leaf.cert.until
    BY <2>1, PkiConstants, PkiTypes DEF PkiInv
  <2> QED
    BY <2>1, <2>2, <2>3
<1> QED
  BY <1>1, PkiInvariance, PTL

-----------------------------------------------------------------------------
(* Shell *)

\* A popup that is open was opened for an entry that has, or had, its id: while the
\* entry is there both are of one origin, and no id is given twice.
ServerEntry == [id : 1 .. MaxEntry, origin : Origin, token : Origin \cup {"none"}]
OfGivenIds == \A e \in entries \cup popups : e.id <= added
PopupsOwn == \A p \in popups : p.token \in {"none", p.origin}
SameOrigin == \A e, f \in entries \cup popups : e.id = f.id => e.origin = f.origin
RegistryInv ==
  /\ added \in 0 .. MaxEntry /\ panel \subseteq 1 .. MaxEntry
  /\ entries \in SUBSET ServerEntry /\ popups \in SUBSET ServerEntry
  /\ OfGivenIds /\ PopupsOwn /\ SameOrigin /\ TokensStayHome

LEMMA EntryFields ==
  ASSUME NEW e \in ServerEntry
  PROVE  /\ e.id \in 1 .. MaxEntry /\ e.origin \in Origin /\ e.token \in Origin \cup {"none"}
         /\ \A o \in Origin : /\ [e EXCEPT !.token = o] \in ServerEntry
                              /\ [e EXCEPT !.token = o].id = e.id
                              /\ [e EXCEPT !.token = o].origin = e.origin
                              /\ [e EXCEPT !.token = o].token = o
BY DEF ServerEntry

LEMMA FreshEntry ==
  ASSUME NEW i \in 1 .. MaxEntry, NEW o \in Origin
  PROVE  LET e == [id |-> i, origin |-> o, token |-> "none"]
         IN  e \in ServerEntry /\ e.id = i /\ e.origin = o /\ e.token = "none"
BY DEF ServerEntry

LEMMA RegistryKept ==
  ASSUME RegistryInv, UNCHANGED <<entries, popups, added>>, panel' \subseteq 1 .. MaxEntry
  PROVE  RegistryInv'
BY DEF RegistryInv, OfGivenIds, PopupsOwn, SameOrigin, TokensStayHome

LEMMA PanelIds ==
  ASSUME NEW S \in SUBSET ServerEntry
  PROVE  {e.id : e \in S} \subseteq 1 .. MaxEntry
BY EntryFields

LEMMA AddKeeps ==
  ASSUME RegistryInv, NEW o \in Origin, addServer(o)
  PROVE  RegistryInv'
<1> DEFINE new == [id |-> added + 1, origin |-> o, token |-> "none"]
<1>1. /\ added < MaxEntry /\ added' = added + 1 /\ popups' = popups
      /\ entries' = entries \cup {new} /\ panel' = {e.id : e \in entries'}
  BY DEF addServer
<1>2. added \in Nat /\ MaxEntry \in Nat /\ added + 1 \in 1 .. MaxEntry
  BY <1>1, ShellAssumption DEF RegistryInv
<1>3. new \in ServerEntry /\ new.id = added + 1 /\ new.origin = o /\ new.token = "none"
  BY <1>2, FreshEntry
<1> HIDE DEF new
<1>4. entries' \in SUBSET ServerEntry /\ popups' \in SUBSET ServerEntry /\ added' \in 0 .. MaxEntry
  BY <1>1, <1>2, <1>3 DEF RegistryInv
<1>5. panel' \subseteq 1 .. MaxEntry
  BY <1>1, <1>4, PanelIds
<1>6. OfGivenIds'
  BY <1>1, <1>2, <1>3, EntryFields DEF RegistryInv, OfGivenIds
<1>7. SameOrigin'
  BY <1>1, <1>2, <1>3, EntryFields DEF RegistryInv, OfGivenIds, SameOrigin
<1>8. PopupsOwn' /\ TokensStayHome'
  BY <1>1, <1>3 DEF RegistryInv, PopupsOwn, TokensStayHome
<1> QED
  BY <1>4, <1>5, <1>6, <1>7, <1>8 DEF RegistryInv

LEMMA RemoveKeeps ==
  ASSUME RegistryInv, NEW id, removeServer(id)
  PROVE  RegistryInv'
<1>1. /\ entries' \subseteq entries /\ popups' = popups /\ added' = added
      /\ panel' = {e.id : e \in entries'}
  BY DEF removeServer
<1>2. panel' \subseteq 1 .. MaxEntry
  BY <1>1, PanelIds DEF RegistryInv
<1> QED
  BY <1>1, <1>2 DEF RegistryInv, OfGivenIds, PopupsOwn, SameOrigin, TokensStayHome

LEMMA ConnectKeeps ==
  ASSUME RegistryInv, NEW e \in entries, connectServer(e)
  PROVE  RegistryInv'
<1> DEFINE new == [id |-> e.id, origin |-> e.origin, token |-> "none"]
<1>1. /\ entries' = entries /\ panel' = panel /\ added' = added
      /\ popups' = popups \cup {new}
  BY DEF connectServer
<1>2. e \in ServerEntry
  BY DEF RegistryInv
<1>3. new \in ServerEntry /\ new.id = e.id /\ new.origin = e.origin /\ new.token = "none"
  BY <1>2, EntryFields, FreshEntry
<1> HIDE DEF new
<1> QED
  BY <1>1, <1>3 DEF RegistryInv, OfGivenIds, PopupsOwn, SameOrigin, TokensStayHome

LEMMA CloseKeeps ==
  ASSUME RegistryInv, NEW p, PopupClosed(p)
  PROVE  RegistryInv'
<1>1. popups' \subseteq popups /\ UNCHANGED <<entries, panel, added>>
  BY DEF PopupClosed
<1> QED
  BY <1>1 DEF RegistryInv, OfGivenIds, PopupsOwn, SameOrigin, TokensStayHome

LEMMA ApproveKeeps ==
  ASSUME RegistryInv, NEW p \in popups, approve(p)
  PROVE  RegistryInv'
<1> DEFINE new == [p EXCEPT !.token = p.origin]
<1>1. popups' = (popups \ {p}) \cup {new} /\ UNCHANGED <<entries, panel, added>>
  BY DEF approve
<1>2. p \in ServerEntry
  BY DEF RegistryInv
<1>3. new \in ServerEntry /\ new.id = p.id /\ new.origin = p.origin /\ new.token = p.origin
  BY <1>2, EntryFields
<1> HIDE DEF new
<1> QED
  BY <1>1, <1>3 DEF RegistryInv, OfGivenIds, PopupsOwn, SameOrigin, TokensStayHome

\* Whoever listens for the sender's origin has an entry of that origin, if any.
LEMMA MessageKeeps ==
  ASSUME RegistryInv, NEW p \in popups, onMsg(p)
  PROVE  RegistryInv'
<1> DEFINE listeners == {q.id : q \in {q \in popups : q.origin = p.origin}}
           Told(e) == IF e.id \in listeners THEN [e EXCEPT !.token = p.token] ELSE e
<1>1. /\ entries' = {Told(e) : e \in entries}
      /\ popups' \subseteq popups /\ added' = added
      /\ panel' \in {panel, {e.id : e \in entries'}}
      /\ p.token # "none"
  BY DEF onMsg
<1>2. p \in ServerEntry /\ p.token = p.origin /\ p.origin \in Origin
  <2>1. p \in ServerEntry /\ p.token \in {"none", p.origin}
    BY DEF RegistryInv, PopupsOwn
  <2> QED
    BY <1>1, <2>1, EntryFields
<1>3. ASSUME NEW e \in entries
      PROVE  /\ Told(e) \in ServerEntry /\ Told(e).id = e.id /\ Told(e).origin = e.origin
             /\ Told(e).token \in {"none", e.origin}
  <2>1. e \in ServerEntry /\ e.token \in {"none", e.origin}
    BY DEF RegistryInv, TokensStayHome
  <2>2. CASE e.id \in listeners
    <3>1. PICK q \in popups : q.origin = p.origin /\ q.id = e.id
      BY <2>2
    <3>2. e.origin = p.origin
      BY <3>1 DEF RegistryInv, SameOrigin
    <3> QED
      BY <1>2, <2>1, <2>2, <3>2, EntryFields
  <2>3. CASE e.id \notin listeners
    BY <2>1, <2>3
  <2> QED
    BY <2>2, <2>3
<1> HIDE DEF Told
<1>4. \A f \in entries' : \E e \in entries :
        /\ f \in ServerEntry /\ f.id = e.id /\ f.origin = e.origin /\ f.token \in {"none", f.origin}
  BY <1>1, <1>3
<1>5. entries' \in SUBSET ServerEntry
  BY <1>4
<1>6. panel' \subseteq 1 .. MaxEntry
  BY <1>1, <1>5, PanelIds DEF RegistryInv
<1>7. OfGivenIds' /\ SameOrigin' /\ TokensStayHome' /\ PopupsOwn'
  BY <1>1, <1>4 DEF RegistryInv, OfGivenIds, PopupsOwn, SameOrigin, TokensStayHome
<1> QED
  BY <1>1, <1>5, <1>6, <1>7 DEF RegistryInv

LEMMA ReloadKeeps ==
  ASSUME RegistryInv, NEW path, NEW r, Loads(path, r), UNCHANGED <<entries, added>>
  PROVE  RegistryInv'
<1>1. popups' = {} /\ panel' = {e.id : e \in entries}
  BY DEF Loads
<1>2. panel' \subseteq 1 .. MaxEntry
  BY <1>1, PanelIds DEF RegistryInv
<1> QED
  BY <1>1, <1>2 DEF RegistryInv, OfGivenIds, PopupsOwn, SameOrigin, TokensStayHome

LEMMA HashKeeps ==
  ASSUME RegistryInv, NEW r, onHash(r)
  PROVE  RegistryInv'
<1>1. UNCHANGED <<entries, popups, added>> /\ panel' \in {{}, {e.id : e \in entries}}
  BY DEF onHash
<1>2. panel' \subseteq 1 .. MaxEntry
  BY <1>1, PanelIds DEF RegistryInv
<1> QED
  BY <1>1, <1>2, RegistryKept

LEMMA RegistryNext ==
  ASSUME RegistryInv, [ShellNext]_shellVars
  PROVE  RegistryInv'
<1> DEFINE ShellIdle == UNCHANGED <<entries, popups, added, panel>>
<1>1. ShellIdle => RegistryInv'
  BY RegistryKept DEF RegistryInv
<1>2. HealthAnswered \/ MeAnswered \/ retry => ShellIdle
  BY DEF HealthAnswered, MeAnswered, retry, registry
<1>3. Begin \/ CeremonyBegun => ShellIdle
  BY DEF Begin, CeremonyBegun, registry
<1>4. Hello \/ dismiss => ShellIdle
  BY DEF Hello, dismiss, registry
<1>5. (\E b \in 1 .. MaxBuild : Restart(b)) \/ SessionExpires => ShellIdle
  BY DEF Restart, SessionExpires, registry
<1>6. UNCHANGED shellVars => ShellIdle
  BY DEF shellVars
<1>7. ASSUME Finished PROVE RegistryInv'
  <2>1. CASE UNCHANGED registry
    BY <1>1, <2>1 DEF registry
  <2>2. CASE \E r : Loads(FALSE, r) /\ UNCHANGED <<entries, added>>
    BY <2>2, ReloadKeeps
  <2> QED
    BY <1>7, <2>1, <2>2 DEF Finished
<1>8. ReloadTab => RegistryInv'
  BY ReloadKeeps DEF ReloadTab
<1> HIDE DEF ShellIdle
<1> QED
  BY <1>1, <1>2, <1>3, <1>4, <1>5, <1>6, <1>7, <1>8, HashKeeps, AddKeeps, RemoveKeeps, ConnectKeeps,
     CloseKeeps, ApproveKeeps, MessageKeeps DEF ShellNext

----------------------------------------------------------------------------
(* The rest of the state's shape *)

StartupFits ==
  /\ startup \in {"loading", "ready", "unauthed", "unreachable", "error"}
  /\ checking \in {"none", "healthz", "me"}
  /\ startup = "loading" <=> checking # "none"
ShellFlags == /\ up \in BOOLEAN /\ setupDone \in BOOLEAN /\ signedIn \in BOOLEAN
         /\ setupPath \in BOOLEAN /\ signError \in BOOLEAN /\ health \subseteq BOOLEAN
Builds == /\ build \in 0 .. MaxBuild /\ loadedBuild \in 0 .. MaxBuild /\ seen \in 0 .. MaxBuild
          /\ staleBuild \in 0 .. MaxBuild /\ dismissed \in 0 .. MaxBuild
RouteFits == route \in {"grid", "settings", "connect"} /\ ceremony \in {"none", "begin", "finish"}
ShellShape == StartupFits /\ ShellFlags /\ Builds /\ RouteFits

LEMMA ShapeNext ==
  ASSUME ShellShape, [ShellNext]_shellVars
  PROVE  ShellShape'
<1> DEFINE Kept == UNCHANGED <<startup, health, checking, up, build, setupDone, signedIn, setupPath, signError,
                               loadedBuild, seen, staleBuild, dismissed, route, ceremony>>
<1> USE DEF ShellShape
<1>1. Kept => ShellShape'
  BY DEF StartupFits, ShellFlags, Builds, RouteFits
<1>2. ASSUME HealthAnswered PROVE ShellShape'
  <2>1. StartupFits'
    BY <1>2 DEF HealthAnswered, problem, StartupFits
  <2>2. ShellFlags'
    BY <1>2 DEF HealthAnswered, system, signing, ShellFlags
  <2> QED
    BY <1>2, <2>1, <2>2 DEF HealthAnswered, system, signing, notice, Builds, RouteFits
<1>3. ASSUME MeAnswered PROVE ShellShape'
  <2>1. StartupFits'
    BY <1>3 DEF MeAnswered, problem, StartupFits
  <2> QED
    BY <1>3, <2>1 DEF MeAnswered, system, signing, notice, Builds, RouteFits, ShellFlags
<1>4. ASSUME retry PROVE ShellShape'
  BY <1>4 DEF retry, system, signing, notice, StartupFits, Builds, RouteFits, ShellFlags
<1>5. ASSUME NEW r \in {"grid", "settings", "connect"}, onHash(r) PROVE ShellShape'
  BY <1>5 DEF onHash, system, starting, signing, notice, StartupFits, Builds, RouteFits, ShellFlags
<1>6. ASSUME NEW path \in BOOLEAN, NEW r \in {"grid", "settings", "connect"}, Loads(path, r),
             up' \in BOOLEAN, setupDone' \in BOOLEAN, signedIn' \in BOOLEAN, build' = build
      PROVE  ShellShape'
  <2>1. StartupFits' /\ RouteFits'
    BY <1>6 DEF Loads, StartupFits, RouteFits
  <2>2. Builds'
    BY <1>6, ShellAssumption DEF Loads, Builds
  <2>3. ShellFlags'
    BY Zenon, <1>6 DEF Loads, ShellFlags
  <2> QED
    BY <2>1, <2>2, <2>3
<1>7. ReloadTab => ShellShape'
  BY <1>6 DEF ReloadTab, system, ShellFlags, RouteFits
<1>8. ASSUME Begin \/ CeremonyBegun PROVE ShellShape'
  BY <1>8 DEF Begin, CeremonyBegun, system, starting, notice, StartupFits, Builds, RouteFits, ShellFlags
<1>9. ASSUME Finished PROVE ShellShape'
  <2>1. CASE /\ ceremony' = "none" /\ signError' = TRUE
             /\ UNCHANGED <<system, loadedBuild, starting, setupPath, route, notice, registry>>
    BY <2>1 DEF system, starting, notice, StartupFits, Builds, RouteFits, ShellFlags
  <2>2. CASE /\ setupDone' = TRUE /\ signedIn' = TRUE
             /\ Loads(FALSE, IF Page = "login" /\ route = "connect" THEN "connect" ELSE "grid")
             /\ UNCHANGED <<up, build, entries, added>>
    BY <1>6, <2>2 DEF ShellFlags
  <2> QED
    BY <1>9, <2>1, <2>2 DEF Finished
<1>10. ASSUME Hello PROVE ShellShape'
  BY <1>10 DEF Hello, system, starting, signing, StartupFits, Builds, RouteFits, ShellFlags
<1>11. ASSUME dismiss PROVE ShellShape'
  BY <1>11 DEF dismiss, system, starting, signing, StartupFits, Builds, RouteFits, ShellFlags
<1>12. ASSUME \/ \E o \in Origin : addServer(o)
              \/ \E id \in 1 .. MaxEntry : removeServer(id)
              \/ \E e \in entries : connectServer(e)
       PROVE  Kept
  BY <1>12 DEF addServer, removeServer, connectServer, system, starting, signing, notice
<1>13. ASSUME NEW p \in popups, PopupClosed(p) \/ approve(p) \/ onMsg(p) PROVE Kept
  BY <1>13 DEF PopupClosed, approve, onMsg, system, starting, signing, notice
<1>14. ASSUME NEW b \in 1 .. MaxBuild, Restart(b) PROVE ShellShape'
  BY <1>14, ShellAssumption DEF Restart, starting, signing, notice, StartupFits, Builds, RouteFits, ShellFlags
<1>15. ASSUME SessionExpires PROVE ShellShape'
  BY <1>15 DEF SessionExpires, starting, signing, notice, StartupFits, Builds, RouteFits, ShellFlags
<1>16. UNCHANGED shellVars => Kept
  BY DEF shellVars
<1> HIDE DEF Kept, ShellShape
<1> QED
  BY <1>1, <1>2, <1>3, <1>4, <1>5, <1>7, <1>8, <1>9, <1>10, <1>11, <1>12, <1>13, <1>14, <1>15, <1>16
  DEF ShellNext

ShellInv == RegistryInv /\ ShellShape

LEMMA ShellStarts == ShellInit => ShellInv
<1> SUFFICES ASSUME ShellInit PROVE ShellInv
  OBVIOUS
<1>1. RegistryInv
  BY ShellAssumption DEF ShellInit, RegistryInv, OfGivenIds, PopupsOwn, SameOrigin, TokensStayHome
<1>2. ShellShape
  <2>1. StartupFits /\ RouteFits
    BY DEF ShellInit, StartupFits, RouteFits
  <2>2. Builds
    BY ShellAssumption DEF ShellInit, Builds
  <2>3. signedIn \in BOOLEAN /\ setupPath \in BOOLEAN /\ setupDone \in BOOLEAN
    BY DEF ShellInit
  <2>4. up \in BOOLEAN /\ signError \in BOOLEAN /\ health \subseteq BOOLEAN
    BY Zenon DEF ShellInit
  <2> QED
    BY <2>1, <2>2, <2>3, <2>4 DEF ShellShape, ShellFlags
<1> QED
  BY <1>1, <1>2 DEF ShellInv

\* The registry (servers.ts): the entries and the approvals that wait name servers that
\* were added, one id never two origins, and every token is of the origin that gave it.
THEOREM ShellInvariance == ShellSpec => []ShellInv
<1>1. ShellInv /\ [ShellNext]_shellVars => ShellInv'
  BY RegistryNext, ShapeNext DEF ShellInv
<1> QED
  BY <1>1, ShellStarts, PTL DEF ShellSpec

\* The shell's state keeps its shape (App.tsx, servers.ts).
THEOREM ShellTypeCorrect == ShellSpec => []ShellTypeOK
<1>1. ShellInv => ShellTypeOK
  BY DEF ShellInv, ShellTypeOK, RegistryInv, ShellShape, StartupFits, ShellFlags, Builds, RouteFits, ServerEntry
<1> QED
  BY <1>1, ShellInvariance, PTL

\* A token is stored for, and so sent to, the origin that issued it, whatever servers
\* are removed, added or approved meanwhile (servers.ts, ConnectPage.tsx).
THEOREM TokensOnlyGoHome == ShellSpec => []TokensStayHome
<1>1. ShellInv => TokensStayHome
  BY DEF ShellInv, RegistryInv
<1> QED
  BY <1>1, ShellInvariance, PTL

-----------------------------------------------------------------------------
(* Launcher *)

\* What a server ever remembered, and what a call may bring.
Known(h) == {p \in {x[2] : x \in ever} : <<h, p>> \in ever}
AtMostOne(S) == \A p, q \in S : p = q
Questions == {"config", "history", "children"}

Kinds == Questions \cup {"forget", "launch"}
CallShape(c) ==
  c \in [kind : Kinds, host : Host, at : {c.at}, stale : BOOLEAN, handled : BOOLEAN, answer : {c.answer}]
CallFits(c) ==
  /\ CallShape(c) /\ AtMostOne(c.at)
  /\ c.kind \in {"children", "forget", "launch"} => c.at # {}
  /\ \A list \in c.answer : list \in Seq(Known(c.host))
  /\ c.kind = "forget" \/ (c.kind = "history" /\ c.handled) => c.answer # {}
  /\ c.kind = "launch" /\ c.handled /\ Launches(c) => \A p \in c.at : p.subdir # <<>> => p \in Known(c.host)
OfHost(c, h) == c.stale \/ c.host = h
CallsFit == \A c \in calls : CallFits(c) /\ (c.kind \in Questions => OfHost(c, chosen))

\* The names in a place are call of a server; the questions of an effect that are
\* not stale are still put.
AskedOf(cs, h, at) == \E c \in cs : c.kind = "children" /\ ~c.stale /\ c.host = h /\ c.at = at
KeepsAsking(cs) == \A c \in calls : c.kind = "children" /\ ~c.stale => c \in cs
NamesFit ==
  childrenOf = place => \A p \in place :
    children \in {<<>>, ChildrenOf(chosen, p)} \/ (carried /\ AskedOf(calls, chosen, place))
PickerFits == AtMostOne(place) /\ NamesFit
HostsFit == chosen \in Host /\ hosts \subseteq Host /\ AtMostOne(target)
RememberedFits == \A h \in Host : remembered[h] \in Seq(Known(h))
ModelFits == config \in {Nowhere, chosen} /\ history \in Seq(Known(chosen))
LauncherInv ==
  /\ HostsFit /\ DOMAIN remembered = Host /\ RememberedFits
  /\ ModelFits /\ PickerFits /\ CallsFit

----------------------------------------------------------------------------

LEMMA SeqSub == ASSUME NEW S, NEW T, S \subseteq T PROVE Seq(S) \subseteq Seq(T)
OBVIOUS

LEMMA KnownGrows ==
  ASSUME ever \subseteq ever'
  PROVE  \A h : Known(h) \subseteq Known(h)' /\ Seq(Known(h)) \subseteq Seq(Known(h)')
<1>1. \A h : Known(h) \subseteq Known(h)'
  BY DEF Known
<1> QED
  BY <1>1, SeqSub

LEMMA FitsGrows ==
  ASSUME ever \subseteq ever', NEW c, CallFits(c)
  PROVE  CallFits(c)'
BY KnownGrows DEF CallFits, CallShape, AtMostOne

LEMMA NewCall ==
  ASSUME NEW kind \in Questions \cup {"launch"}, NEW h \in Host, NEW at, AtMostOne(at),
         kind \in {"children", "launch"} => at # {}, NEW c, c = Call(kind, h, at)
  PROVE  /\ CallFits(c) /\ CallFits(c)'
         /\ c.kind = kind /\ c.host = h /\ c.at = at /\ ~c.stale /\ ~c.handled
<1>1. /\ c.kind = kind /\ c.host = h /\ c.at = at /\ c.stale = FALSE /\ c.handled = FALSE /\ c.answer = {}
      /\ CallShape(c)
  BY DEF Call, CallShape, Kinds, Questions
<1> QED
  BY <1>1 DEF CallFits, CallShape, AtMostOne, Questions

LEMMA StaleCall ==
  ASSUME NEW c, CallFits(c), NEW d, d = [c EXCEPT !.stale = TRUE]
  PROVE  CallFits(d) /\ d.kind = c.kind /\ d.host = c.host /\ d.stale
<1>1. CallShape(c)
  BY DEF CallFits
<1>2. /\ d.kind = c.kind /\ d.host = c.host /\ d.at = c.at /\ d.stale = TRUE
      /\ d.handled = c.handled /\ d.answer = c.answer
      /\ CallShape(d) /\ (Launches(d) <=> Launches(c))
  BY <1>1 DEF CallShape, Launches
<1> QED
  BY <1>2 DEF CallFits

\* A cleanup leaves the calls as they are, but for those it makes stale.
LEMMA StaleCalls ==
  ASSUME NEW cs, NEW kinds, \A c \in cs : CallFits(c)
  PROVE  \A c \in Stale(cs, kinds) :
           /\ CallFits(c) /\ (c.kind \in kinds => c.stale)
           /\ \E d \in cs : c.kind = d.kind /\ c.host = d.host /\ (c.stale \/ c = d)
BY StaleCall DEF Stale

LEMMA StartIsOne ==
  /\ AtMostOne(target) => AtMostOne(start)
  /\ AtMostOne(target') => AtMostOne(start')
<1>1. \A path : AtMostOne(splitUnderDir(path)) /\ AtMostOne(splitUnderDir(path)')
  BY DEF AtMostOne, splitUnderDir
<1> QED
  BY <1>1 DEF AtMostOne, start

\* The effect's question is put to the present server, and it alone counts.
LEMMA AskFits ==
  ASSUME NEW cs, NEW at, AtMostOne(at), NEW h \in Host, \A c \in cs : CallFits(c),
         \A c \in cs : c.kind \in {"config", "history"} => OfHost(c, h)
  PROVE  \A c \in Ask(cs, at, h) : CallFits(c) /\ (c.kind \in Questions => OfHost(c, h))
<1> TAKE c \in Ask(cs, at, h)
<1>1. CASE c \in Stale(cs, {"children"})
  BY <1>1, StaleCalls DEF OfHost, Questions
<1>2. CASE at # {} /\ c = Call("children", h, at)
  BY <1>2, NewCall DEF OfHost, Questions
<1> QED
  BY <1>1, <1>2 DEF Ask

LEMMA SettledKeeps ==
  ASSUME NEW cs, Settled(cs), PickerFits, HostsFit', AtMostOne(start'), ever' = ever,
         \A c \in cs : CallFits(c),
         \A c \in cs : c.kind \in {"config", "history"} => OfHost(c, chosen'),
         \A c \in cs : c.kind = "children" => OfHost(c, chosen), KeepsAsking(cs)
  PROVE  CallsFit' /\ PickerFits'
<1>1. \A c : CallFits(c) => CallFits(c)'
  BY FitsGrows
<1>2. chosen' \in Host
  BY DEF HostsFit
<1>3. CASE FreshPicker(start', FALSE) /\ calls' = Ask(cs, start', chosen')
  <2>1. CallsFit'
    BY <1>1, <1>2, <1>3, AskFits DEF CallsFit
  <2>2. PickerFits'
    BY <1>3 DEF FreshPicker, PickerFits, NamesFit, AtMostOne
  <2> QED
    BY <2>1, <2>2
<1>4. CASE FreshPicker({}, FALSE) /\ calls' = Stale(cs, {"children"})
  <2>1. \A c \in calls' : CallFits(c) /\ (c.kind \in Questions => OfHost(c, chosen'))
    BY <1>4, StaleCalls DEF OfHost, Questions
  <2>2. CallsFit'
    BY <1>1, <2>1 DEF CallsFit
  <2>3. PickerFits'
    BY <1>4 DEF FreshPicker, PickerFits, NamesFit, AtMostOne
  <2> QED
    BY <2>2, <2>3
<1>5. CASE /\ calls' = IF chosen' = chosen THEN cs ELSE Ask(cs, place, chosen')
           /\ carried' = (carried \/ (chosen' # chosen /\ place # {}))
           /\ UNCHANGED <<place, children, childrenOf, filter, highlight>>
  <2>1. CASE chosen' = chosen
    <3>1. \A c \in calls' : CallFits(c) /\ (c.kind \in Questions => OfHost(c, chosen'))
      BY <1>5, <2>1 DEF OfHost, Questions
    <3>2. CallsFit'
      BY <1>1, <3>1 DEF CallsFit
    <3> QED
      BY <1>5, <2>1, <3>2 DEF PickerFits, NamesFit, AtMostOne, AskedOf, KeepsAsking
  <2>2. CASE chosen' # chosen
    <3>1. AtMostOne(place)
      BY DEF PickerFits
    <3>2. CallsFit'
      BY <1>1, <1>2, <1>5, <2>2, <3>1, AskFits DEF CallsFit
    <3>3. PickerFits'
      <4>1. PICK c : c = Call("children", chosen', place)
        OBVIOUS
      <4>2. c.kind = "children" /\ ~c.stale /\ c.host = chosen' /\ c.at = place
        BY <4>1 DEF Call
      <4>3. place # {} => c \in calls' /\ carried'
        BY <1>5, <2>2, <4>1 DEF Ask
      <4>4. place # {} => AskedOf(calls', chosen', place)
        BY <4>2, <4>3 DEF AskedOf
      <4> QED
        BY <1>5, <4>3, <4>4 DEF PickerFits, NamesFit, AtMostOne
    <3> QED
      BY <3>2, <3>3
  <2> QED
    BY <2>1, <2>2
<1> QED
  BY <1>3, <1>4, <1>5 DEF Settled

LEMMA KeepsStale == KeepsAsking(calls) /\ KeepsAsking(Stale(calls, {"config", "history"}))
BY DEF KeepsAsking, Stale

\* A by that leaves the servers, and what they remember, as they are.
LEMMA SameServer ==
  ASSUME LauncherInv, NEW cs, Settled(cs), KeepsAsking(cs), \A c \in cs : CallFits(c) /\ (c.kind \in Questions => OfHost(c, chosen)),
         UNCHANGED <<desktop, target, chosen, remembered, ever>>, hosts' \subseteq hosts, ModelFits'
  PROVE  LauncherInv'
<1>1. HostsFit' /\ (DOMAIN remembered = Host)' /\ RememberedFits'
  BY DEF LauncherInv, HostsFit, RememberedFits, AtMostOne, Known
<1>2. AtMostOne(start')
  BY <1>1, StartIsOne DEF HostsFit, AtMostOne
<1>3. CallsFit' /\ PickerFits'
  BY <1>1, <1>2, SettledKeeps DEF LauncherInv, Questions
<1> QED
  BY <1>1, <1>3 DEF LauncherInv

LEMMA SameModel ==
  ASSUME ModelFits, UNCHANGED <<config, history, chosen>>, ever \subseteq ever'
  PROVE  ModelFits'
BY KnownGrows DEF ModelFits

----------------------------------------------------------------------------

LEMMA SelectServerInv ==
  ASSUME LauncherInv, NEW h, selectServer(h)
  PROVE  LauncherInv'
<1> DEFINE cs == Stale(calls, {"config", "history"}) \cup {Call("config", h, {})}
<1>1. /\ h \in hosts /\ chosen' = h /\ config' = Nowhere /\ history' = <<>>
      /\ UNCHANGED <<desktop, target, hosts, remembered, ever>>
      /\ Settled(cs)
  BY DEF selectServer, Picked
<1>2. HostsFit' /\ (DOMAIN remembered = Host)' /\ RememberedFits'
  BY <1>1 DEF LauncherInv, HostsFit, RememberedFits, AtMostOne, Known
<1>3. ModelFits'
  BY <1>1 DEF ModelFits
<1>4. AtMostOne(start')
  BY <1>2, StartIsOne DEF HostsFit, AtMostOne
<1>5. h \in Host
  BY <1>1 DEF LauncherInv, HostsFit
<1>6. \A c \in calls : CallFits(c) /\ (c.kind \in Questions => OfHost(c, chosen))
  BY DEF LauncherInv, CallsFit
<1>7. ASSUME NEW c \in cs
      PROVE  /\ CallFits(c) /\ (c.kind \in {"config", "history"} => OfHost(c, h))
             /\ c.kind = "children" => OfHost(c, chosen)
  <2>1. CASE c \in Stale(calls, {"config", "history"})
    BY <1>6, <2>1, StaleCalls DEF OfHost, Questions
  <2>2. CASE c = Call("config", h, {})
    BY <1>5, <2>2, NewCall DEF OfHost, Questions, AtMostOne
  <2> QED
    BY <2>1, <2>2
<1>9. KeepsAsking(cs)
  BY KeepsStale DEF KeepsAsking
<1> HIDE DEF cs
<1>8. CallsFit' /\ PickerFits'
  BY <1>1, <1>2, <1>4, <1>7, <1>9, SettledKeeps DEF LauncherInv
<1> QED
  BY <1>2, <1>3, <1>8 DEF LauncherInv

LEMMA ViewInv ==
  ASSUME LauncherInv,
         (\E t : selectTool(t)) \/ OpenPicker \/ ClosePicker \/ (\E h : RemoveHost(h))
  PROVE  LauncherInv'
<1>1. \A c \in calls : CallFits(c) /\ (c.kind \in Questions => OfHost(c, chosen))
  BY DEF LauncherInv, CallsFit
<1>2. \A c \in Stale(calls, {"config", "history"}) : CallFits(c) /\ (c.kind \in Questions => OfHost(c, chosen))
  BY <1>1, StaleCalls DEF OfHost
<1>3. /\ UNCHANGED <<desktop, target, chosen, config, history, remembered, ever>> /\ hosts' \subseteq hosts
      /\ Settled(calls) \/ Settled(Stale(calls, {"config", "history"}))
  BY DEF selectTool, OpenPicker, ClosePicker, RemoveHost, model
<1>4. ModelFits'
  BY <1>3, SameModel DEF LauncherInv
<1> QED
  BY <1>1, <1>2, <1>3, <1>4, KeepsStale, SameServer

\* What a by of the picker itself keeps.
LEMMA SameList ==
  ASSUME LauncherInv, UNCHANGED <<desktop, target, hosts, chosen, remembered, ever>>, ModelFits', PickerFits',
         \A c \in calls' : CallFits(c) /\ (c.kind \in Questions => OfHost(c, chosen))
  PROVE  LauncherInv'
<1>1. HostsFit' /\ (DOMAIN remembered = Host)' /\ RememberedFits'
  BY DEF LauncherInv, HostsFit, RememberedFits, AtMostOne, Known
<1>2. CallsFit'
  BY FitsGrows DEF CallsFit
<1> QED
  BY <1>1, <1>2 DEF LauncherInv

LEMMA NavigateInv ==
  ASSUME LauncherInv, NEW next, AtMostOne(next), navigate(next)
  PROVE  LauncherInv'
<1>1. /\ UNCHANGED <<desktop, target, hosts, chosen, remembered, ever, config, history>>
      /\ FreshPicker(next, carried /\ next # {})
      /\ calls' = calls \/ calls' = Ask(calls, next, chosen)
  BY DEF navigate, Browse, model
<1>2. \A c \in calls : CallFits(c) /\ (c.kind \in Questions => OfHost(c, chosen))
  BY DEF LauncherInv, CallsFit
<1>3. chosen \in Host
  BY DEF LauncherInv, HostsFit
<1>4. \A c \in calls' : CallFits(c) /\ (c.kind \in Questions => OfHost(c, chosen))
  BY <1>1, <1>2, <1>3, AskFits DEF Questions
<1>5. PickerFits'
  BY <1>1 DEF FreshPicker, PickerFits, NamesFit, AtMostOne
<1>6. ModelFits'
  BY <1>1, SameModel DEF LauncherInv
<1> QED
  BY <1>1, <1>4, <1>5, <1>6, SameList

LEMMA MovesInv ==
  ASSUME LauncherInv, Drill \/ GoUp \/ crumbs \/ Places
  PROVE  LauncherInv'
<1>1. \A x : AtMostOne({x})
  BY DEF AtMostOne
<1>2. AtMostOne({})
  BY DEF AtMostOne
<1>3. \A p : AtMostOne(dropLast(p))
  BY DEF AtMostOne, dropLast
<1> QED
  BY <1>1, <1>2, <1>3, NavigateInv DEF Drill, GoUp, crumbs, Places

LEMMA PickerStays ==
  ASSUME LauncherInv, UNCHANGED <<place, children, childrenOf, carried, chosen>>, KeepsAsking(calls')
  PROVE  PickerFits'
BY DEF LauncherInv, PickerFits, NamesFit, AtMostOne, AskedOf, KeepsAsking

LEMMA LookInv ==
  ASSUME LauncherInv, (\E n : Highlight(n)) \/ (\E f : SetFilter(f))
  PROVE  LauncherInv'
<1>1. /\ UNCHANGED <<desktop, target, hosts, chosen, remembered, ever, config, history, calls>>
      /\ UNCHANGED <<place, children, childrenOf, carried>>
  BY DEF Highlight, SetFilter, Browse, model
<1>2. ModelFits'
  BY <1>1, SameModel DEF LauncherInv
<1> QED
  BY <1>1, <1>2, SameList, PickerStays DEF LauncherInv, CallsFit, KeepsAsking

LEMMA FilterKeeps ==
  ASSUME NEW T, NEW list \in Seq(T), NEW S
  PROVE  Filter(list, S) \in Seq(T)
BY FilterPicks

LEMMA ConsFits ==
  ASSUME NEW T, NEW x \in T, NEW list \in Seq(T)
  PROVE  <<x>> \o list \in Seq(T) /\ (<<x>> \o list)[1] = x /\ 1 \in DOMAIN (<<x>> \o list)
OBVIOUS

LEMMA ForgetInv ==
  ASSUME LauncherInv, NEW p, forget(p)
  PROVE  LauncherInv'
<1>1. /\ UNCHANGED <<desktop, target, hosts, chosen, remembered, ever, config>>
      /\ UNCHANGED <<place, children, childrenOf, carried>>
      /\ history' = Except(p, history)
      /\ calls' = calls \cup {[Call("forget", chosen, {p}) EXCEPT !.answer = {OfRoot(p.dirId, history)}]}
  BY DEF forget, Browse, picker
<1>2. history \in Seq(Known(chosen)) /\ chosen \in Host /\ config \in {Nowhere, chosen}
  BY DEF LauncherInv, ModelFits, HostsFit
<1>3. history' \in Seq(Known(chosen)) /\ OfRoot(p.dirId, history) \in Seq(Known(chosen))
  BY <1>1, <1>2, FilterKeeps DEF Except, OfRoot
<1>4. ModelFits'
  BY <1>1, <1>2, <1>3 DEF ModelFits, Known
<1>5. PICK c : c = [Call("forget", chosen, {p}) EXCEPT !.answer = {OfRoot(p.dirId, history)}]
  OBVIOUS
<1>6. /\ c.kind = "forget" /\ c.host = chosen /\ c.at = {p} /\ c.answer = {OfRoot(p.dirId, history)}
      /\ CallShape(c)
  BY <1>2, <1>5 DEF Call, CallShape, Kinds
<1>7. CallFits(c) /\ c.kind \notin Questions
  BY <1>3, <1>6 DEF CallFits, AtMostOne, Questions
<1>8. \A d \in calls' : CallFits(d) /\ (d.kind \in Questions => OfHost(d, chosen))
  BY <1>1, <1>5, <1>7 DEF LauncherInv, CallsFit
<1>9. PickerFits'
  BY <1>1, PickerStays DEF KeepsAsking
<1> QED
  BY <1>1, <1>4, <1>8, <1>9, SameList

LEMMA LaunchInv ==
  ASSUME LauncherInv, NEW p, launch(p)
  PROVE  LauncherInv'
<1>1. /\ UNCHANGED <<desktop, target, hosts, chosen, remembered, ever, config, history>>
      /\ UNCHANGED <<place, children, childrenOf, carried>>
      /\ calls' = calls \cup {Call("launch", chosen, {p})}
  BY DEF launch, Browse, picker
<1>2. PICK c : c = Call("launch", chosen, {p})
  OBVIOUS
<1>3. AtMostOne({p}) /\ chosen \in Host
  BY DEF AtMostOne, LauncherInv, HostsFit
<1>4. CallFits(c) /\ c.kind = "launch"
  BY <1>2, <1>3, NewCall
<1>5. \A d \in calls' : CallFits(d) /\ (d.kind \in Questions => OfHost(d, chosen))
  BY <1>1, <1>2, <1>4 DEF LauncherInv, CallsFit, Questions
<1>6. ModelFits'
  BY <1>1, SameModel DEF LauncherInv
<1>7. PickerFits'
  BY <1>1, PickerStays DEF KeepsAsking
<1> QED
  BY <1>1, <1>5, <1>6, <1>7, SameList

----------------------------------------------------------------------------

\* A daemon that handles a request remembers nothing of another's.
LEMMA HostHandlesInv ==
  ASSUME LauncherInv, NEW c \in calls, c.kind \in {"history", "forget", "launch"}, HostHandles(c)
  PROVE  LauncherInv'
<1>1. PICK h : h = c.host
  OBVIOUS
<1>2. PICK p : p = CHOOSE q \in c.at : TRUE
  OBVIOUS
<1>3. PICK old : old = remembered[h]
  OBVIOUS
<1>4. PICK later : later = IF c.kind = "forget" THEN Except(p, old)
                       ELSE IF c.kind = "launch" /\ Launches(c) /\ p.subdir # <<>> THEN <<p>> \o Except(p, old)
                       ELSE old
  OBVIOUS
<1>5. PICK done : done = [c EXCEPT !.handled = TRUE,
                                   !.answer = IF c.kind = "history" THEN {old} ELSE c.answer]
  OBVIOUS
<1>6. /\ UNCHANGED <<desktop, target, hosts, chosen, config, history>>
      /\ UNCHANGED <<place, children, childrenOf, carried>>
      /\ remembered' = [remembered EXCEPT ![h] = later]
      /\ ever' = ever \cup {<<h, q>> : q \in ToSet(remembered'[h])}
      /\ calls' = (calls \ {c}) \cup {done}
  BY <1>1, <1>2, <1>3, <1>4, <1>5 DEF HostHandles, model, picker
<1>7. CallFits(c) /\ h \in Host /\ (c.kind \in Questions => OfHost(c, chosen))
  BY <1>1 DEF LauncherInv, CallsFit, CallFits, CallShape
<1>8. DOMAIN remembered = Host /\ RememberedFits /\ old \in Seq(Known(h))
  BY <1>3, <1>7 DEF LauncherInv, RememberedFits
<1>9. Except(p, old) \in Seq(Known(h))
  BY <1>8, FilterKeeps DEF Except
<1>10. ever \subseteq ever'
  BY <1>6
<1>11. \A i : Seq(Known(i)) \subseteq Seq(Known(i))'
  BY <1>10, KnownGrows
<1>12. remembered'[h] = later /\ DOMAIN remembered' = Host /\ \A i \in Host \ {h} : remembered'[i] = remembered[i]
  BY <1>6, <1>7, <1>8
<1>13. later \in Seq(Known(h) \cup {p}) /\ (c.kind = "launch" /\ Launches(c) /\ p.subdir # <<>> => later[1] = p /\ 1 \in DOMAIN later)
  <2>1. PICK rest : rest = Except(p, old)
    OBVIOUS
  <2>2. rest \in Seq(Known(h) \cup {p}) /\ old \in Seq(Known(h) \cup {p})
    BY <1>8, <1>9, <2>1
  <2>3. /\ <<p>> \o rest \in Seq(Known(h) \cup {p})
        /\ (<<p>> \o rest)[1] = p /\ 1 \in DOMAIN (<<p>> \o rest)
    BY <2>2, ConsFits
  <2> QED
    BY <1>4, <2>1, <2>2, <2>3
<1>14. \A q \in ToSet(later) : q \in Known(h)'
  <2>1. \A q \in ToSet(later) : <<h, q>> \in ever'
    BY <1>6, <1>12
  <2>2. \A q : <<h, q>> \in ever' => q \in Known(h)'
    BY DEF Known
  <2> QED
    BY <2>1, <2>2
<1>15. later \in Seq(Known(h)')
  <2>1. Len(later) \in Nat /\ later \in [1 .. Len(later) -> Known(h) \cup {p}]
    BY <1>13
  <2>2. \A i \in 1 .. Len(later) : later[i] \in Known(h)'
    BY <1>14, <2>1 DEF ToSet
  <2> QED
    BY <2>1, <2>2
<1>16. RememberedFits'
  BY <1>8, <1>11, <1>12, <1>15 DEF RememberedFits
<1>17. ModelFits'
  BY <1>6, <1>10, SameModel DEF LauncherInv
<1>18. /\ done.kind = c.kind /\ done.host = h /\ done.at = c.at /\ done.stale = c.stale
       /\ done.answer = IF c.kind = "history" THEN {old} ELSE c.answer
       /\ CallShape(done) /\ (Launches(done) <=> Launches(c))
  BY <1>1, <1>5, <1>7 DEF CallFits, CallShape, Launches
<1>19. CallFits(done)'
  <2>1. ASSUME c.kind = "launch", Launches(c), NEW q \in c.at, q.subdir # <<>> PROVE q \in Known(h)'
    <3>1. q = p
      BY <1>2, <1>7 DEF CallFits, AtMostOne
    <3>2. p \in ToSet(later)
      BY <1>13, <2>1, <3>1 DEF ToSet
    <3> QED
      BY <1>14, <3>1, <3>2
  <2>2. \A list \in done.answer : list \in Seq(Known(h))
    BY <1>1, <1>7, <1>8, <1>18 DEF CallFits
  <2>3. \A list \in done.answer : list \in Seq(Known(h))'
    BY <1>11, <2>2
  <2>4. done.kind = "forget" \/ done.kind = "history" => done.answer # {}
    BY <1>7, <1>18 DEF CallFits
  <2>5. AtMostOne(done.at)' /\ (done.kind \in {"children", "forget", "launch"} => done.at # {})
    BY <1>7, <1>18 DEF CallFits, AtMostOne
  <2>6. CallShape(done)'
    BY <1>18 DEF CallShape
  <2> QED
    BY <1>18, <2>1, <2>3, <2>4, <2>5, <2>6 DEF CallFits
<1>20. \A d \in calls : CallFits(d)' /\ (d.kind \in Questions => OfHost(d, chosen))
  BY <1>10, FitsGrows DEF LauncherInv, CallsFit
<1>21. CallsFit'
  BY <1>1, <1>6, <1>7, <1>18, <1>19, <1>20 DEF CallsFit, OfHost
<1>22. PickerFits' /\ HostsFit'
  BY <1>6, PickerStays DEF LauncherInv, HostsFit, AtMostOne, KeepsAsking
<1> QED
  BY <1>12, <1>16, <1>17, <1>21, <1>22 DEF LauncherInv

LEMMA DiscardInv ==
  ASSUME LauncherInv, NEW c, c.stale \/ c.kind # "children", Discard(c), UNCHANGED <<desktop, target, hosts, chosen, remembered, ever>>
  PROVE  LauncherInv'
<1>1. /\ calls' \subseteq calls /\ KeepsAsking(calls') /\ UNCHANGED <<config, history>>
      /\ UNCHANGED <<place, children, childrenOf, carried>>
  BY DEF Discard, model, picker, KeepsAsking
<1>2. ModelFits'
  BY <1>1, SameModel DEF LauncherInv
<1> QED
  BY <1>1, <1>2, SameList, PickerStays DEF LauncherInv, CallsFit

\* A host's config and the history call for next: of the server that is chosen.
LEMMA ConfigInv ==
  ASSUME LauncherInv, NEW c \in calls, NEW ok \in BOOLEAN, ConfigLands(c, ok)
  PROVE  LauncherInv'
<1>1. c.kind = "config" /\ UNCHANGED <<desktop, target, hosts, chosen, remembered, ever>>
  BY DEF ConfigLands, Answered
<1>2. c.kind \in Questions => OfHost(c, chosen)
  BY DEF LauncherInv, CallsFit
<1>3. CASE c.stale
  BY <1>1, <1>3, DiscardInv DEF ConfigLands
<1>4. CASE ~c.stale
  <2>1. PICK call : call = IF roots' = {} THEN {} ELSE server
    OBVIOUS
  <2>2. PICK cs : cs = (calls \ {c}) \cup {Call("history", h, {}) : h \in call}
    OBVIOUS
  <2>3. config' = (IF ok THEN c.host ELSE Nowhere) /\ history' = history /\ Settled(cs)
    BY <1>4, <2>1, <2>2 DEF ConfigLands
  <2>4. ModelFits'
    BY <1>1, <1>2, <1>4, <2>3 DEF LauncherInv, ModelFits, OfHost, Questions, Known
  <2>5. \A h \in call : h = chosen /\ h \in Host
    BY <2>1 DEF server, LauncherInv, HostsFit
  <2>6. ASSUME NEW d \in cs PROVE CallFits(d) /\ (d.kind \in Questions => OfHost(d, chosen))
    <3>1. CASE d \in calls
      BY <3>1 DEF LauncherInv, CallsFit
    <3>2. ASSUME NEW h \in call, d = Call("history", h, {}) PROVE CallFits(d) /\ OfHost(d, chosen)
      BY <2>5, <3>2, NewCall DEF OfHost, AtMostOne, Questions
    <3> QED
      BY <2>2, <3>1, <3>2
  <2> QED
    <3>1. KeepsAsking(cs)
      BY <1>1, <2>2 DEF KeepsAsking
    <3> QED
      BY <1>1, <2>3, <2>4, <2>6, <3>1, SameServer
<1> QED
  BY <1>3, <1>4

LEMMA HistoryInv ==
  ASSUME LauncherInv, NEW c \in calls, NEW failing, HistoryLands(c, failing)
  PROVE  LauncherInv'
<1>1. c.kind = "history" /\ c.handled /\ UNCHANGED <<desktop, target, hosts, chosen, remembered, ever>>
  BY DEF HistoryLands, Answered
<1>2. CallFits(c) /\ (c.kind \in Questions => OfHost(c, chosen))
  BY DEF LauncherInv, CallsFit
<1>3. CASE c.stale
  BY <1>1, <1>3, DiscardInv DEF HistoryLands
<1>4. CASE ~c.stale
  <2>1. PICK list : list = CHOOSE l \in c.answer : TRUE
    OBVIOUS
  <2>2. list \in Seq(Known(chosen))
    BY <1>1, <1>2, <1>4, <2>1 DEF CallFits, OfHost, Questions
  <2>3. /\ history' = Filter(list, {p \in ToSet(list) : p.dirId \notin failing})
        /\ calls' \subseteq calls /\ calls' = calls \ {c} /\ config' = config
        /\ UNCHANGED <<place, children, childrenOf, carried>>
    BY <1>4, <2>1 DEF HistoryLands, picker
  <2>4. history' \in Seq(Known(chosen))
    BY <2>2, <2>3, FilterKeeps
  <2>5. ModelFits'
    BY <1>1, <2>3, <2>4 DEF LauncherInv, ModelFits, Known
  <2> QED
    BY <1>1, <2>3, <2>5, SameList, PickerStays DEF LauncherInv, CallsFit, KeepsAsking
<1> QED
  BY <1>3, <1>4

LEMMA ChildrenInv ==
  ASSUME LauncherInv, NEW c \in calls, NEW ok \in BOOLEAN, ChildrenLand(c, ok)
  PROVE  LauncherInv'
<1>1. c.kind = "children" /\ UNCHANGED <<desktop, target, hosts, chosen, remembered, ever>>
  BY DEF ChildrenLand, Answered
<1>2. CallFits(c) /\ (c.kind \in Questions => OfHost(c, chosen))
  BY DEF LauncherInv, CallsFit
<1>3. CASE c.stale
  BY <1>1, <1>3, DiscardInv DEF ChildrenLand
<1>4. CASE ~c.stale
  <2>1. /\ children' = (IF ok THEN ChildrenOf(c.host, CHOOSE p \in c.at : TRUE) ELSE <<>>)
        /\ childrenOf' = c.at /\ calls' \subseteq calls
        /\ calls' = calls \ {c} /\ UNCHANGED <<config, history, place, carried>>
    BY <1>4 DEF ChildrenLand, model
  <2>2. ASSUME NEW p \in place, c.at = place PROVE p = CHOOSE q \in c.at : TRUE
    BY <1>2, <2>2 DEF CallFits, AtMostOne
  <2>3. c.host = chosen
    BY <1>1, <1>2, <1>4 DEF OfHost, Questions
  <2>4. PickerFits'
    BY <1>1, <2>1, <2>2, <2>3 DEF LauncherInv, PickerFits, NamesFit, AtMostOne
  <2>5. ModelFits'
    BY <1>1, <2>1, SameModel DEF LauncherInv
  <2> QED
    BY <1>1, <2>1, <2>4, <2>5, SameList DEF LauncherInv, CallsFit
<1> QED
  BY <1>3, <1>4

LEMMA ForgottenInv ==
  ASSUME LauncherInv, NEW c \in calls, NEW ok \in BOOLEAN, ForgetLands(c, ok)
  PROVE  LauncherInv'
<1>1. c.kind = "forget" /\ UNCHANGED <<desktop, target, hosts, chosen, remembered, ever>>
  BY DEF ForgetLands, Answered
<1>2. CallFits(c)
  BY DEF LauncherInv, CallsFit
<1>3. CASE ok \/ chosen # c.host \/ ~(desktop \/ held)
  BY <1>1, <1>3, DiscardInv DEF ForgetLands
<1>4. CASE ~(ok \/ chosen # c.host \/ ~(desktop \/ held))
  <2>1. PICK list : list = CHOOSE l \in c.answer : TRUE
    OBVIOUS
  <2>2. list \in Seq(Known(chosen)) /\ history \in Seq(Known(chosen))
    BY <1>1, <1>2, <1>4, <2>1 DEF CallFits, LauncherInv, ModelFits
  <2>3. PICK rest : /\ rest = LET p == CHOOSE q \in c.at : TRUE
                              IN  Filter(history, {q \in ToSet(history) : q.dirId # p.dirId})
    OBVIOUS
  <2>4. rest \in Seq(Known(chosen))
    BY <2>2, <2>3, FilterKeeps
  <2>5. history' = list \o rest /\ config' = config /\ Settled(calls \ {c})
    BY <1>4, <2>1, <2>3 DEF ForgetLands
  <2>6. history' \in Seq(Known(chosen))
    BY <2>2, <2>4, <2>5
  <2>7. ModelFits'
    BY <1>1, <2>5, <2>6 DEF LauncherInv, ModelFits, Known
  <2> QED
    <3>1. KeepsAsking(calls \ {c})
      BY <1>1 DEF KeepsAsking
    <3> QED
      BY <1>1, <2>5, <2>7, <3>1, SameServer DEF LauncherInv, CallsFit
<1> QED
  BY <1>3, <1>4

\* What was launched is remembered by its own server, which handled it.
LEMMA LaunchedInv ==
  ASSUME LauncherInv, NEW c \in calls, NEW ok \in BOOLEAN, Launched(c, ok)
  PROVE  LauncherInv'
<1>1. c.kind = "launch" /\ (ok => c.handled /\ Launches(c)) /\ UNCHANGED <<desktop, target, hosts, chosen, remembered, ever>>
  BY DEF Launched, Answered
<1>2. CallFits(c)
  BY DEF LauncherInv, CallsFit
<1>3. CASE ~(desktop \/ held)
  BY <1>1, <1>3, DiscardInv DEF Launched
<1>4. CASE desktop \/ held
  <2>1. PICK p : p = CHOOSE q \in c.at : TRUE
    OBVIOUS
  <2>2. PICK cs : cs = (IF desktop \/ ~ok THEN calls ELSE Stale(calls, {"config", "history"})) \ {c}
    OBVIOUS
  <2>3. /\ history' = (IF ok /\ p.subdir # <<>> /\ chosen = c.host THEN <<p>> \o Except(p, history) ELSE history)
        /\ config' = config /\ Settled(cs)
    BY <1>4, <2>1, <2>2 DEF Launched
  <2>4. history \in Seq(Known(chosen)) /\ p \in c.at
    BY <1>1, <1>2, <2>1 DEF CallFits, LauncherInv, ModelFits
  <2>5. Except(p, history) \in Seq(Known(chosen))
    BY <2>4, FilterKeeps DEF Except
  <2>6. history' \in Seq(Known(chosen))
    <3>1. CASE ok /\ p.subdir # <<>> /\ chosen = c.host
      <4>1. p \in Known(chosen)
        BY <1>1, <1>2, <2>4, <3>1 DEF CallFits
      <4> QED
        BY <2>3, <2>5, <3>1, <4>1, ConsFits
    <3> QED
      BY <2>3, <2>4, <3>1
  <2>7. ModelFits'
    BY <1>1, <2>3, <2>6 DEF LauncherInv, ModelFits, Known
  <2>8. \A d \in calls : CallFits(d) /\ (d.kind \in Questions => OfHost(d, chosen))
    BY DEF LauncherInv, CallsFit
  <2>9. \A d \in Stale(calls, {"config", "history"}) : CallFits(d) /\ (d.kind \in Questions => OfHost(d, chosen))
    BY <2>8, StaleCalls DEF OfHost
  <2>10. \A d \in cs : CallFits(d) /\ (d.kind \in Questions => OfHost(d, chosen))
    BY <2>2, <2>8, <2>9
  <2> QED
    <3>1. KeepsAsking(cs)
      BY <1>1, <2>2, KeepsStale DEF KeepsAsking
    <3> QED
      BY <1>1, <2>3, <2>7, <2>10, <3>1, SameServer
<1> QED
  BY <1>3, <1>4

----------------------------------------------------------------------------

LEMMA LauncherStarts == LauncherInit => LauncherInv
<1> SUFFICES ASSUME LauncherInit PROVE LauncherInv
  OBVIOUS
<1>1. HostsFit
  BY LauncherAssumption DEF LauncherInit, HostsFit, AtMostOne
<1>2. DOMAIN remembered = Host
  BY LauncherAssumption DEF LauncherInit
<1>3. ASSUME NEW h \in Host PROVE remembered[h] \in Seq(Known(h))
  <2>1. remembered[h] = FirstRecent[h] /\ FirstRecent[h] \in Seq(Place)
    BY <1>3, LauncherAssumption DEF LauncherInit
  <2>2. \A p \in ToSet(FirstRecent[h]) : p \in Known(h)
    <3>1. \A p \in ToSet(FirstRecent[h]) : <<h, p>> \in ever
      BY DEF LauncherInit
    <3> QED
      BY <3>1 DEF Known
  <2>3. PICK list \in Seq(Place) : list = FirstRecent[h]
    BY <2>1
  <2>4. Len(list) \in Nat /\ list \in [1 .. Len(list) -> Place] /\ \A i \in 1 .. Len(list) : list[i] \in Known(h)
    BY <2>2, <2>3 DEF ToSet
  <2>5. list \in Seq(Known(h))
    BY <2>4
  <2> QED
    BY <2>1, <2>3, <2>5
<1>4. ModelFits /\ PickerFits
  BY DEF LauncherInit, ModelFits, PickerFits, NamesFit, AtMostOne
<1>5. CallsFit
  <2>1. PICK c : c = Call("config", chosen, {})
    OBVIOUS
  <2>2. CallFits(c) /\ c.host = chosen
    BY <1>1, <2>1, NewCall DEF HostsFit, Questions, AtMostOne
  <2> QED
    BY <2>1, <2>2 DEF LauncherInit, CallsFit, OfHost
<1> QED
  BY <1>1, <1>2, <1>3, <1>4, <1>5 DEF LauncherInv, RememberedFits

LEMMA LauncherSteps ==
  ASSUME LauncherInv, [LauncherNext]_launcherVars
  PROVE  LauncherInv'
<1>1. CASE UNCHANGED launcherVars
  <2>1. /\ UNCHANGED <<desktop, target, hosts, chosen, remembered, ever, config, history, calls>>
        /\ UNCHANGED <<place, children, childrenOf, carried>>
    BY <1>1 DEF launcherVars, model, picker
  <2>2. ModelFits'
    BY <2>1, SameModel DEF LauncherInv
  <2> QED
    BY <2>1, <2>2, SameList, PickerStays DEF LauncherInv, CallsFit, KeepsAsking
<1>2. ASSUME NEW c \in calls,
             \/ c.kind \in {"history", "forget", "launch"} /\ HostHandles(c)
             \/ \E ok \in BOOLEAN : ConfigLands(c, ok) \/ ChildrenLand(c, ok) \/ ForgetLands(c, ok) \/ Launched(c, ok)
             \/ \E failing \in SUBSET roots : HistoryLands(c, failing)
      PROVE  LauncherInv'
  BY <1>2, HostHandlesInv, ConfigInv, ChildrenInv, ForgottenInv, LaunchedInv, HistoryInv
<1>3. CASE Drill \/ GoUp \/ crumbs \/ Places
  BY <1>3, MovesInv
<1>4. CASE (\E by \in -1 .. 1 : Highlight(by)) \/ (\E f \in Needles : SetFilter(f))
  BY <1>4, LookInv
<1>5. CASE \/ \E i \in DOMAIN flat : flat[i].kind = "recent" /\ forget(flat[i].at)
           \/ \E p \in {flat[i].at : i \in DOMAIN flat} \cup place : launch(p)
  BY <1>5, ForgetInv, LaunchInv
<1>6. CASE OpenPicker \/ ClosePicker \/ \E h \in Host : \E t \in ToSet(ToolsOf[h]) : selectTool(t)
  BY <1>6, ViewInv
<1>7. CASE \E h \in Host : selectServer(h) \/ RemoveHost(h)
  BY <1>7, SelectServerInv, ViewInv
<1> QED
  BY <1>1, <1>2, <1>3, <1>4, <1>5, <1>6, <1>7 DEF LauncherNext

\* Whatever the launcher holds, remembers or has call for is of the server it is for:
\* the invariant the picker rests on.
THEOREM LauncherInvariance == LauncherSpec => []LauncherInv
BY LauncherStarts, LauncherSteps, PTL DEF LauncherSpec

-----------------------------------------------------------------------------
(* What a launcher waits for *)

\* What is call and will be taken: of a server's config, and of the names in a place.
ConfigComes(cs) == \E c \in cs : c.kind = "config" /\ ~c.stale
ChildrenCome(cs, p) == \E c \in cs : c.kind = "children" /\ ~c.stale /\ c.at = p
\* Nobody else is waited for.
AsksHere(cs, p) == \A c \in cs : c.kind = "children" /\ ~c.stale => c.at = p
Asking == AsksHere(calls, place)

\* A by keeps what is waited for, but for the crumb of the place the picker is at.
Attends == Asking' /\ (Waiting' => Waiting \/ (place' = place /\ calls' = calls))

LEMMA StaleAsks ==
  ASSUME NEW cs, \A c \in cs : CallFits(c), NEW kinds, NEW p
  PROVE  /\ "children" \in kinds \/ AsksHere(cs, p) => AsksHere(Stale(cs, kinds), p)
         /\ "children" \notin kinds /\ ChildrenCome(cs, p) => ChildrenCome(Stale(cs, kinds), p)
         /\ "config" \notin kinds /\ ConfigComes(cs) => ConfigComes(Stale(cs, kinds))
<1>1. \A c \in cs : c.kind \notin kinds => c \in Stale(cs, kinds)
  BY DEF Stale
<1>2. \A c \in Stale(cs, kinds) : /\ c.kind \in kinds => c.stale
                                  /\ \E d \in cs : c.kind = d.kind /\ c.host = d.host /\ (c.stale \/ c = d)
  BY StaleCalls
<1>3. "children" \in kinds \/ AsksHere(cs, p) => AsksHere(Stale(cs, kinds), p)
  BY <1>2 DEF AsksHere
<1> QED
  BY <1>1, <1>3 DEF ChildrenCome, ConfigComes

LEMMA AskAsks ==
  ASSUME NEW cs, \A c \in cs : CallFits(c), NEW at, NEW h
  PROVE  /\ AsksHere(Ask(cs, at, h), at)
         /\ at # {} => ChildrenCome(Ask(cs, at, h), at)
         /\ ConfigComes(cs) => ConfigComes(Ask(cs, at, h))
<1>1. PICK old : old = Stale(cs, {"children"})
  OBVIOUS
<1>2. AsksHere(old, at) /\ (ConfigComes(cs) => ConfigComes(old))
  BY <1>1, StaleAsks
<1>3. PICK c : c = Call("children", h, at)
  OBVIOUS
<1>4. c.kind = "children" /\ c.at = at /\ ~c.stale
  BY <1>3 DEF Call
<1>5. Ask(cs, at, h) = old \cup {c : p \in at}
  BY <1>1, <1>3 DEF Ask
<1> QED
  BY <1>2, <1>4, <1>5 DEF AsksHere, ChildrenCome, ConfigComes

\* What React does of the picker keeps it.
LEMMA SettledAsks ==
  ASSUME NEW cs, Settled(cs), \A c \in cs : CallFits(c), AsksHere(cs, place),
         ChildrenCome(calls, place) => ChildrenCome(cs, place),
         (desktop' \/ held') /\ loading' => ConfigComes(cs) \/ Waiting
  PROVE  Attends
<1>1. CASE Mounted' /\ ~Mounted /\ FreshPicker(start', FALSE) /\ calls' = Ask(cs, start', chosen')
  <2>1. PICK at : at = start'
    OBVIOUS
  <2>2. place' = at /\ calls' = Ask(cs, at, chosen')
    BY <1>1, <2>1 DEF FreshPicker
  <2>3. /\ AsksHere(calls', place') /\ (place' # {} => ChildrenCome(calls', place'))
        /\ ConfigComes(cs) => ConfigComes(calls')
    BY <2>2, AskAsks
  <2> QED
    BY <2>3 DEF Attends, Asking, AsksHere, Waiting, ConfigComes, ChildrenCome, loadingChildren
<1>2. CASE ~Mounted' /\ FreshPicker({}, FALSE) /\ calls' = Stale(cs, {"children"})
  <2>1. AsksHere(calls', place') /\ (ConfigComes(cs) => ConfigComes(calls'))
    BY <1>2, StaleAsks
  <2> QED
    BY <1>2, <2>1 DEF Attends, Asking, AsksHere, Waiting, ConfigComes
<1>3. CASE /\ Mounted' /\ Mounted
           /\ calls' = IF chosen' = chosen THEN cs ELSE Ask(cs, place, chosen')
           /\ UNCHANGED <<place, childrenOf>>
  <2>1. CASE chosen' = chosen
    BY <1>3, <2>1 DEF Attends, Asking, AsksHere, Waiting, ConfigComes, ChildrenCome, loadingChildren
  <2>2. CASE chosen' # chosen
    <3>1. calls' = Ask(cs, place, chosen') /\ place' = place
      BY <1>3, <2>2
    <3>2. /\ AsksHere(calls', place') /\ (place' # {} => ChildrenCome(calls', place'))
          /\ ConfigComes(cs) => ConfigComes(calls')
      BY <3>1, AskAsks
    <3> QED
      BY <3>2 DEF Attends, Asking, AsksHere, Waiting, ConfigComes, ChildrenCome, loadingChildren
  <2> QED
    BY <2>1, <2>2
<1> QED
  BY <1>1, <1>2, <1>3 DEF Settled

LEMMA MountedStays ==
  ASSUME UNCHANGED <<desktop, hosts, chosen, config, loading, launchError, held>>
  PROVE  Mounted' = Mounted
BY DEF Mounted, server, unconfigured, tools, roots

\* Steps that leave alone what is shown of a place and ask for nothing there.
LEMMA SameAsks ==
  ASSUME LauncherInv, Asking, Mounted' => Mounted, UNCHANGED <<desktop, held, loading, place, childrenOf>>,
         \A c \in calls' : c.kind = "children" => c \in calls,
         \A c \in calls : c.kind \in {"config", "children"} /\ ~c.stale => c \in calls'
  PROVE  Attends
<1>1. Asking'
  BY DEF Asking, AsksHere
<1>2. Waiting' => Waiting
  BY DEF Waiting, loadingChildren
<1> QED
  BY <1>1, <1>2 DEF Attends

LEMMA FitCalls ==
  ASSUME LauncherInv
  PROVE  \A c \in calls : CallFits(c)
BY DEF LauncherInv, CallsFit

LEMMA SelectAsks ==
  ASSUME LauncherInv, Asking, NEW h, selectServer(h)
  PROVE  Attends
<1>1. PICK old : old = Stale(calls, {"config", "history"})
  OBVIOUS
<1>2. PICK c : c = Call("config", h, {})
  OBVIOUS
<1>3. Settled(old \cup {c}) /\ h \in Host
  BY <1>1, <1>2 DEF selectServer, Picked, LauncherInv, HostsFit
<1>4. CallFits(c) /\ c.kind = "config" /\ ~c.stale
  BY <1>2, <1>3, NewCall DEF AtMostOne, Questions
<1>5. /\ \A d \in old : CallFits(d)
      /\ AsksHere(old, place) /\ (ChildrenCome(calls, place) => ChildrenCome(old, place))
  <2>1. \A d \in calls : CallFits(d)
    BY FitCalls
  <2>2. \A d \in old : CallFits(d)
    BY <1>1, <2>1, StaleCalls
  <2>3. AsksHere(calls, place)
    BY DEF Asking
  <2>4. AsksHere(old, place) /\ (ChildrenCome(calls, place) => ChildrenCome(old, place))
    BY <1>1, <2>1, <2>3, StaleAsks
  <2> QED
    BY <2>2, <2>4
<1>6. PICK cs : cs = old \cup {c}
  OBVIOUS
<1>7. /\ \A d \in cs : CallFits(d)
      /\ AsksHere(cs, place) /\ (ChildrenCome(calls, place) => ChildrenCome(cs, place))
      /\ ConfigComes(cs)
  BY <1>4, <1>5, <1>6 DEF AsksHere, ChildrenCome, ConfigComes
<1> QED
  BY <1>3, <1>6, <1>7, SettledAsks

LEMMA ViewAsks ==
  ASSUME LauncherInv, Asking,
         (\E t : selectTool(t)) \/ OpenPicker \/ ClosePicker \/ (\E h : RemoveHost(h))
  PROVE  Attends
<1>1. \A c \in calls : CallFits(c)
  BY FitCalls
<1>2. AsksHere(calls, place)
  BY DEF Asking
<1>3. CASE Settled(calls) /\ desktop' = desktop /\ loading' = loading /\ (held' => held \/ desktop)
  <2>1. (desktop' \/ held') /\ loading' => ConfigComes(calls) \/ Waiting
    BY <1>3 DEF Waiting, ConfigComes
  <2> QED
    BY <1>1, <1>2, <1>3, <2>1, SettledAsks
<1>4. CASE Settled(Stale(calls, {"config", "history"})) /\ ~desktop' /\ ~held'
  <2>1. PICK cs : cs = Stale(calls, {"config", "history"})
    OBVIOUS
  <2>2. \A c \in cs : CallFits(c)
    BY <1>1, <2>1, StaleCalls
  <2>3. AsksHere(cs, place) /\ (ChildrenCome(calls, place) => ChildrenCome(cs, place))
    BY <1>1, <1>2, <2>1, StaleAsks
  <2> QED
    BY <1>4, <2>1, <2>2, <2>3, SettledAsks
<1>5. CASE \E t : selectTool(t)
  BY <1>3, <1>5 DEF selectTool
<1>6. CASE OpenPicker
  BY <1>3, <1>6 DEF OpenPicker, model
<1>7. CASE ClosePicker
  BY <1>3, <1>4, <1>7 DEF ClosePicker, model
<1>8. CASE \E h : RemoveHost(h)
  BY <1>3, <1>8 DEF RemoveHost, model
<1> QED
  BY <1>5, <1>6, <1>7, <1>8

LEMMA NavigateAsks ==
  ASSUME LauncherInv, Asking, NEW next, navigate(next)
  PROVE  Attends
<1>1. /\ Mounted /\ UNCHANGED <<desktop, held, loading>> /\ place' = next
      /\ calls' = IF next = place THEN calls ELSE Ask(calls, next, chosen)
  BY DEF navigate, Browse, FreshPicker, model
<1>2. CASE next = place
  BY <1>1, <1>2 DEF Attends, Asking, AsksHere
<1>3. CASE next # place
  <2>1. \A c \in calls : CallFits(c)
    BY FitCalls
  <2>2. /\ AsksHere(calls', place') /\ (place' # {} => ChildrenCome(calls', place'))
        /\ ConfigComes(calls) => ConfigComes(calls')
    BY <1>1, <1>3, <2>1, AskAsks
  <2> QED
    BY <1>1, <2>2 DEF Attends, Asking, AsksHere, Waiting, ConfigComes, ChildrenCome, loadingChildren
<1> QED
  BY <1>2, <1>3

LEMMA PickerAsks ==
  ASSUME LauncherInv, Asking,
         \/ Drill \/ GoUp \/ crumbs \/ Places
         \/ (\E n : Highlight(n)) \/ (\E f : SetFilter(f))
         \/ (\E p : forget(p)) \/ (\E p : launch(p))
  PROVE  Attends
<1>1. CASE Drill \/ GoUp \/ crumbs \/ Places
  BY <1>1, NavigateAsks DEF Drill, GoUp, crumbs, Places
<1>2. CASE (\E n : Highlight(n)) \/ (\E f : SetFilter(f))
  <2>1. calls' = calls /\ place' = place
    BY <1>2 DEF Highlight, SetFilter
  <2> QED
    BY <2>1 DEF Attends, Asking, AsksHere
<1>3. ASSUME NEW p, forget(p) PROVE Attends
  <2>1. PICK c : c = [Call("forget", chosen, {p}) EXCEPT !.answer = {OfRoot(p.dirId, history)}]
    OBVIOUS
  <2>2. c.kind = "forget"
    BY <2>1 DEF Call
  <2>3. calls' = calls \cup {c} /\ Mounted /\ UNCHANGED <<desktop, held, loading, place, childrenOf>>
    BY <1>3, <2>1 DEF forget, Browse, picker
  <2> QED
    BY <2>2, <2>3, SameAsks
<1>4. ASSUME NEW p, launch(p) PROVE Attends
  <2>1. PICK c : c = Call("launch", chosen, {p})
    OBVIOUS
  <2>2. c.kind = "launch"
    BY <2>1 DEF Call
  <2>3. calls' = calls \cup {c} /\ Mounted /\ UNCHANGED <<desktop, held, loading, place, childrenOf>>
    BY <1>4, <2>1 DEF launch, Browse, picker
  <2> QED
    BY <2>2, <2>3, SameAsks
<1> QED
  BY <1>1, <1>2, <1>3, <1>4

LEMMA HandlesAsks ==
  ASSUME LauncherInv, Asking, NEW c \in calls, c.kind \in {"history", "forget", "launch"}, HostHandles(c)
  PROVE  Attends
<1>1. PICK answer : calls' = (calls \ {c}) \cup {[c EXCEPT !.handled = TRUE, !.answer = answer]}
  BY DEF HostHandles
<1>2. PICK d : d = [c EXCEPT !.handled = TRUE, !.answer = answer]
  OBVIOUS
<1>3. CallShape(c)
  BY FitCalls DEF CallFits
<1>4. d.kind = c.kind
  BY <1>2, <1>3 DEF CallShape
<1>5. UNCHANGED <<desktop, hosts, chosen, config, loading, launchError, held, place, childrenOf>>
  BY DEF HostHandles, model, picker
<1>6. Mounted' = Mounted
  BY <1>5, MountedStays
<1> QED
  BY <1>1, <1>2, <1>4, <1>5, <1>6, SameAsks

LEMMA DiscardAsks ==
  ASSUME LauncherInv, Asking, NEW c, c.stale \/ c.kind \notin {"config", "children"}, Discard(c),
         UNCHANGED <<desktop, target, hosts, chosen, remembered, ever>>
  PROVE  Attends
<1>1. calls' = calls \ {c} /\ UNCHANGED <<desktop, hosts, chosen, config, loading, launchError, held, place, childrenOf>>
  BY DEF Discard, model, picker
<1>2. Mounted' = Mounted
  BY <1>1, MountedStays
<1> QED
  BY <1>1, <1>2, SameAsks

LEMMA ConfigAsks ==
  ASSUME LauncherInv, Asking, NEW c \in calls, NEW ok \in BOOLEAN, ConfigLands(c, ok)
  PROVE  Attends
<1>1. c.kind = "config" /\ UNCHANGED <<desktop, target, hosts, chosen, remembered, ever>>
  BY DEF ConfigLands, Answered
<1>2. CASE c.stale
  BY <1>1, <1>2, DiscardAsks DEF ConfigLands
<1>3. CASE ~c.stale
  <2>1. PICK call : call = IF roots' = {} THEN {} ELSE server
    OBVIOUS
  <2>2. PICK more : more = {Call("history", h, {}) : h \in call}
    OBVIOUS
  <2>3. loading' = FALSE /\ Settled((calls \ {c}) \cup more)
    BY <1>3, <2>1, <2>2 DEF ConfigLands
  <2>4. \A h \in call : h \in Host
    BY <2>1 DEF server, LauncherInv, HostsFit
  <2>5. \A d \in more : CallFits(d) /\ d.kind = "history"
    BY <2>2, <2>4, NewCall DEF AtMostOne, Questions
  <2>6. PICK cs : cs = (calls \ {c}) \cup more
    OBVIOUS
  <2>7. \A d \in cs : CallFits(d)
    BY <2>5, <2>6, FitCalls
  <2>8. AsksHere(cs, place) /\ (ChildrenCome(calls, place) => ChildrenCome(cs, place))
    BY <1>1, <2>5, <2>6 DEF Asking, AsksHere, ChildrenCome
  <2> QED
    BY <2>3, <2>6, <2>7, <2>8, SettledAsks
<1> QED
  BY <1>2, <1>3

LEMMA HistoryAsks ==
  ASSUME LauncherInv, Asking, NEW c \in calls, NEW failing, HistoryLands(c, failing)
  PROVE  Attends
<1>1. c.kind = "history" /\ UNCHANGED <<desktop, target, hosts, chosen, remembered, ever>>
  BY DEF HistoryLands, Answered
<1>2. CASE c.stale
  BY <1>1, <1>2, DiscardAsks DEF HistoryLands
<1>3. CASE ~c.stale
  <2>1. calls' = calls \ {c} /\ UNCHANGED <<config, loading, launchError, held, place, childrenOf>>
    BY <1>3 DEF HistoryLands, picker
  <2>2. Mounted' = Mounted
    BY <1>1, <2>1, MountedStays
  <2> QED
    BY <1>1, <2>1, <2>2, SameAsks
<1> QED
  BY <1>2, <1>3

\* The names that arrive are of the place the picker is at: no other is call for.
LEMMA ChildrenAsks ==
  ASSUME LauncherInv, Asking, NEW c \in calls, NEW ok \in BOOLEAN, ChildrenLand(c, ok)
  PROVE  Attends
<1>1. c.kind = "children" /\ UNCHANGED <<desktop, target, hosts, chosen, remembered, ever>>
  BY DEF ChildrenLand, Answered
<1>2. CASE c.stale
  BY <1>1, <1>2, DiscardAsks DEF ChildrenLand
<1>3. CASE ~c.stale
  <2>1. childrenOf' = c.at /\ calls' = calls \ {c} /\ UNCHANGED <<held, loading, place>>
    BY <1>3 DEF ChildrenLand, model
  <2>2. c.at = place
    BY <1>1, <1>3 DEF Asking, AsksHere
  <2>3. Asking' /\ (ConfigComes(calls) => ConfigComes(calls'))
    BY <1>1, <2>1 DEF Asking, AsksHere, ConfigComes
  <2>4. ~loadingChildren'
    BY <2>1, <2>2 DEF loadingChildren
  <2> QED
    BY <1>1, <2>1, <2>3, <2>4 DEF Attends, Waiting, ConfigComes
<1> QED
  BY <1>2, <1>3

LEMMA AnswersAsk ==
  ASSUME LauncherInv, Asking, NEW c \in calls, NEW ok \in BOOLEAN, ForgetLands(c, ok) \/ Launched(c, ok)
  PROVE  Attends
<1>1. c.kind \in {"forget", "launch"} /\ UNCHANGED <<desktop, target, hosts, chosen, remembered, ever>>
  BY DEF ForgetLands, Launched, Answered
<1>2. CASE Discard(c)
  BY <1>1, <1>2, DiscardAsks
<1>3. CASE ~Discard(c)
  <2>1. PICK old : old = Stale(calls, {"config", "history"})
    OBVIOUS
  <2>2. /\ loading' = loading /\ (held' => held)
        /\ Settled(calls \ {c}) \/ (Settled(old \ {c}) /\ ~desktop' /\ ~held')
    BY <1>1, <1>3, <2>1 DEF ForgetLands, Launched
  <2>3. /\ \A d \in calls : CallFits(d)
        /\ \A d \in old : CallFits(d)
    BY <2>1, FitCalls, StaleCalls
  <2>4. AsksHere(old, place) /\ (ChildrenCome(calls, place) => ChildrenCome(old, place))
    BY <2>1, <2>3, StaleAsks DEF Asking
  <2>5. CASE Settled(calls \ {c})
    <3>1. PICK cs : cs = calls \ {c}
      OBVIOUS
    <3>2. AsksHere(cs, place) /\ (ChildrenCome(calls, place) => ChildrenCome(cs, place))
      BY <1>1, <3>1 DEF Asking, AsksHere, ChildrenCome
    <3>3. (desktop' \/ held') /\ loading' => ConfigComes(cs) \/ Waiting
      BY <1>1, <2>2, <3>1 DEF Waiting, ConfigComes
    <3> QED
      BY <2>3, <2>5, <3>1, <3>2, <3>3, SettledAsks
  <2>6. CASE Settled(old \ {c}) /\ ~desktop' /\ ~held'
    <3>1. PICK cs : cs = old \ {c}
      OBVIOUS
    <3>2. AsksHere(cs, place) /\ (ChildrenCome(calls, place) => ChildrenCome(cs, place))
      BY <1>1, <2>4, <3>1 DEF AsksHere, ChildrenCome
    <3> QED
      BY <2>3, <2>6, <3>1, <3>2, SettledAsks
  <2> QED
    BY <2>2, <2>5, <2>6
<1> QED
  BY <1>2, <1>3

LEMMA LauncherAttends ==
  ASSUME LauncherInv, Asking, [LauncherNext]_launcherVars
  PROVE  Attends
<1>1. CASE UNCHANGED launcherVars
  <2>1. calls' = calls /\ place' = place
    BY <1>1 DEF launcherVars, picker
  <2> QED
    BY <2>1 DEF Attends, Asking, AsksHere
<1>2. ASSUME NEW c \in calls,
             \/ c.kind \in {"history", "forget", "launch"} /\ HostHandles(c)
             \/ \E ok \in BOOLEAN : ConfigLands(c, ok) \/ ChildrenLand(c, ok) \/ ForgetLands(c, ok) \/ Launched(c, ok)
             \/ \E failing \in SUBSET roots : HistoryLands(c, failing)
      PROVE  Attends
  BY <1>2, HandlesAsks, ConfigAsks, ChildrenAsks, AnswersAsk, HistoryAsks
<1>3. CASE \/ Drill \/ GoUp \/ crumbs \/ Places
           \/ (\E n \in -1 .. 1 : Highlight(n)) \/ (\E f \in Needles : SetFilter(f))
  BY <1>3, PickerAsks
<1>4. CASE \/ \E i \in DOMAIN flat : flat[i].kind = "recent" /\ forget(flat[i].at)
           \/ \E p \in {flat[i].at : i \in DOMAIN flat} \cup place : launch(p)
  BY <1>4, PickerAsks
<1>5. CASE OpenPicker \/ ClosePicker \/ \E h \in Host : \E t \in ToSet(ToolsOf[h]) : selectTool(t)
  BY <1>5, ViewAsks
<1>6. CASE \E h \in Host : selectServer(h) \/ RemoveHost(h)
  BY <1>6, SelectAsks, ViewAsks
<1> QED
  BY <1>1, <1>2, <1>3, <1>4, <1>5, <1>6 DEF LauncherNext

LEMMA LauncherAsking == LauncherSpec => []Asking
<1>1. LauncherInit => Asking
  <2> SUFFICES ASSUME LauncherInit PROVE Asking
    OBVIOUS
  <2>1. PICK c : c = Call("config", chosen, {})
    OBVIOUS
  <2>2. calls = {c} /\ c.kind = "config"
    BY <2>1 DEF LauncherInit, Call
  <2> QED
    BY <2>2 DEF Asking, AsksHere
<1>2. LauncherInv /\ Asking /\ [LauncherNext]_launcherVars => Asking'
  BY LauncherAttends DEF Attends
<1> QED
  BY <1>1, <1>2, LauncherInvariance, PTL DEF LauncherSpec

\* A launcher or picker that shows it is loading has a question out whose answer will be
\* taken, however often the server and the place change; only the crumb of the place it
\* is already at leaves it without one (useSessionLauncher.ts, DirPicker.tsx).
THEOREM LoadingAnswered == LauncherSpec => LoadingIsAnswered
<1>1. LauncherInv /\ Asking =>
        ([LauncherNext]_launcherVars => [Waiting' => Waiting \/ (place' = place /\ calls' = calls)]_launcherVars)
  BY LauncherAttends DEF Attends
<1> QED
  BY <1>1, LauncherInvariance, LauncherAsking, PTL DEF LauncherSpec, LoadingIsAnswered

-----------------------------------------------------------------------------
(* The types of a launcher *)

\* The shapes a launcher's state keeps.
PlaceLists == {list \in Seq(Place) : IsInjective(list)}
Path == Seq(STRING)
CallHas(c) ==
  /\ c.at \subseteq Place
  /\ \A list \in c.answer : list \in PlaceLists
  /\ c.kind = "forget" => \A p \in c.at : \A list \in c.answer : \A q \in ToSet(list) : q.dirId = p.dirId
Configs(cs) == {c \in cs : c.kind = "config" /\ ~c.stale}

LEMMA LauncherConstants ==
  /\ ToolsOf \in [Host -> Seq(Nat)] /\ RootPath \in [Host -> Seq(Path)] /\ VisibleOn \in [Host -> Seq(Path)]
  /\ \A t \in Targets : t.dir \in Path
  /\ \A h \in Host : FirstRecent[h] \in PlaceLists
  /\ RecentLimit \in Nat /\ Nowhere \notin Host
<1>1. \A h \in Host : FirstRecent[h] \in Seq(Place) /\ IsInjective(FirstRecent[h])
  BY LauncherAssumption
<1>2. \A h \in Host : FirstRecent[h] \in PlaceLists
  BY <1>1 DEF PlaceLists
<1>3. \A t \in Targets : t.dir \in Path
  BY Zenon, LauncherAssumption DEF Path
<1>4. ToolsOf \in [Host -> Seq(Nat)] /\ RootPath \in [Host -> Seq(Path)] /\ VisibleOn \in [Host -> Seq(Path)]
  BY Zenon, LauncherAssumption DEF Path
<1>5. RecentLimit \in Nat /\ Nowhere \notin Host
  BY Zenon, LauncherAssumption
<1> QED
  BY <1>2, <1>3, <1>4, <1>5

LEMMA ChildrenAre ==
  ASSUME NEW h, NEW p
  PROVE  ChildrenOf(h, p) \in Path
<1>1. \A l \in Listings : l.names \in Path
  BY Zenon, LauncherAssumption DEF Path
<1>2. PICK of : of = {l \in Listings : l.host = h /\ l.at = p}
  OBVIOUS
<1>3. CASE of = {}
  <2>1. ChildrenOf(h, p) = <<>>
    BY Zenon, <1>2, <1>3 DEF ChildrenOf
  <2> QED
    BY <2>1 DEF Path
<1>4. CASE of # {}
  <2>1. PICK l : l = CHOOSE k \in of : TRUE
    OBVIOUS
  <2>2. l \in Listings
    BY <1>2, <1>4, <2>1
  <2>3. ChildrenOf(h, p) = l.names
    BY Zenon, <1>2, <1>4, <2>1 DEF ChildrenOf
  <2> QED
    BY <1>1, <2>2, <2>3
<1> QED
  BY <1>3, <1>4

LEMMA PlaceIs ==
  ASSUME NEW d \in Nat, NEW s \in Path
  PROVE  [dirId |-> d, subdir |-> s] \in Place
BY DEF Place, Path

LEMMA PlaceFields ==
  ASSUME NEW d, NEW s
  PROVE  [dirId |-> d, subdir |-> s].dirId = d
OBVIOUS

LEMMA PlaceOf ==
  ASSUME NEW p \in Place
  PROVE  p.dirId \in Nat /\ p.subdir \in Path /\ p = [dirId |-> p.dirId, subdir |-> p.subdir]
BY DEF Place, Path

LEMMA WithSubdir ==
  ASSUME NEW p \in Place, NEW s \in Path
  PROVE  [p EXCEPT !.subdir = s] \in Place
BY DEF Place, Path

LEMMA PartsOf ==
  ASSUME NEW T, NEW s \in Seq(T)
  PROVE  /\ \A i \in Nat : i > 0 /\ i <= Len(s) + 1 => SubSeq(s, i, Len(s)) \in Seq(T)
         /\ \A n \in Nat : n <= Len(s) => SubSeq(s, 1, n) \in Seq(T)
         /\ \A x \in T : Append(s, x) \in Seq(T)
         /\ s # <<>> => Front(s) \in Seq(T)
<1>1. ASSUME NEW i \in Nat, i > 0, i <= Len(s) + 1 PROVE SubSeq(s, i, Len(s)) \in Seq(T)
  <2>1. PICK n \in Nat : n = Len(s)
    OBVIOUS
  <2>2. \A k \in i .. n : s[k] \in T
    BY <1>1, <2>1
  <2> QED
    BY <1>1, <2>1, <2>2
<1>2. ASSUME NEW n \in Nat, n <= Len(s) PROVE SubSeq(s, 1, n) \in Seq(T)
  <2>1. \A k \in 1 .. n : s[k] \in T
    BY <1>2
  <2> QED
    BY <1>2, <2>1
<1>3. \A x \in T : Append(s, x) \in Seq(T)
  OBVIOUS
<1>4. ASSUME s # <<>> PROVE Front(s) \in Seq(T)
  <2>1. Len(s) - 1 \in Nat /\ Len(s) - 1 <= Len(s)
    BY <1>4
  <2> QED
    BY <1>2, <2>1 DEF Front
<1> QED
  BY <1>1, <1>2, <1>3, <1>4

\* The places below the roots that are set, and what the picker offers: below them, or
\* below the place it is at.
Rooted == {q \in Place : q.dirId \in roots}
Offered == IF place = {} THEN Rooted ELSE {q \in Place : \E p \in place : q.dirId = p.dirId}

\* The place a directory is under.
LEMMA SplitIn ==
  ASSUME config \in Host \cup {Nowhere}, NEW path \in Path
  PROVE  splitUnderDir(path) \subseteq Rooted
<1>1. PICK above : above = {d \in roots : IsPrefix(RootPath[config][d], path)}
  OBVIOUS
<1>2. CASE above = {}
  BY <1>1, <1>2 DEF splitUnderDir
<1>3. CASE above # {}
  <2>1. config \in Host
    BY <1>1, <1>3 DEF roots
  <2>2. PICK paths \in Seq(Path) : paths = RootPath[config]
    BY <2>1, LauncherConstants
  <2>3. roots = DOMAIN paths /\ \A d \in roots : d \in Nat /\ paths[d] \in Path
    BY <2>1, <2>2, LauncherConstants DEF roots
  <2>4. above \subseteq roots /\ \A d \in above : Len(paths[d]) \in Nat /\ Len(paths[d]) <= Len(path)
    <3>1. \A d \in above : d \in roots /\ Len(paths[d]) <= Len(path)
      BY <1>1, <2>2 DEF IsPrefix
    <3>2. \A s \in Path : Len(s) \in Nat
      BY DEF Path
    <3> QED
      BY <2>3, <3>1, <3>2
  <2>5. PICK best : best = CHOOSE d \in above : \A e \in above : Len(paths[e]) <= Len(paths[d])
    OBVIOUS
  <2>6. \E d \in above : \A e \in above : Len(paths[e]) <= Len(paths[d])
    <3>1. PICK S : S = {Len(paths[d]) : d \in above}
      OBVIOUS
    <3>2. S \in SUBSET Nat /\ S # {}
      BY <1>3, <2>4, <3>1
    <3>3. Len(path) \in Nat /\ \A x \in S : x <= Len(path)
      BY <2>4, <3>1 DEF Path
    <3>4. PICK m : m = Max(S)
      OBVIOUS
    <3>5. m \in S /\ \A x \in S : x <= m
      BY <3>2, <3>3, <3>4, GreatestOf
    <3> QED
      BY <3>1, <3>5
  <2>7. best \in above
    BY <2>5, <2>6
  <2>8. PICK n \in Nat : n = Len(paths[best])
    BY <2>4, <2>7
  <2>9. splitUnderDir(path) = {[dirId |-> best, subdir |-> SubSeq(path, n + 1, Len(path))]}
    BY <1>1, <1>3, <2>2, <2>5, <2>8 DEF splitUnderDir
  <2>10. n + 1 \in Nat /\ n + 1 > 0 /\ n + 1 <= Len(path) + 1
    <3>1. n <= Len(path) /\ Len(path) \in Nat
      BY <2>4, <2>7, <2>8 DEF Path
    <3> QED
      BY <3>1
  <2>11. SubSeq(path, n + 1, Len(path)) \in Path
    BY <2>10, PartsOf DEF Path
  <2>12. best \in Nat /\ best \in roots
    BY <2>3, <2>4, <2>7
  <2> QED
    BY <2>9, <2>11, <2>12, PlaceIs, PlaceFields DEF Rooted
<1> QED
  BY <1>2, <1>3

LEMMA StartIn == config \in Host \cup {Nowhere} /\ target \subseteq Targets => start \subseteq Rooted
<1> SUFFICES ASSUME config \in Host \cup {Nowhere}, target \subseteq Targets, NEW p \in start
             PROVE  p \in Rooted
  OBVIOUS
<1>1. PICK t \in target : p \in splitUnderDir(t.dir)
  BY DEF start
<1> QED
  BY <1>1, SplitIn, LauncherConstants

RowsAt(S) == [kind : {"child", "current", "recent", "place"}, at : S]

LEMMA RowFits ==
  ASSUME NEW S, NEW k \in {"child", "current", "recent", "place"}, NEW p \in S
  PROVE  Row(k, p) \in RowsAt(S)
BY DEF Row, RowsAt

LEMMA RowListFits ==
  ASSUME NEW S, NEW k \in {"child", "current", "recent", "place"}, NEW list \in Seq(S)
  PROVE  RowsOf(k, list) \in Seq(RowsAt(S))
<1>1. DOMAIN list = 1 .. Len(list) /\ Len(list) \in Nat /\ \A i \in 1 .. Len(list) : list[i] \in S
  OBVIOUS
<1>2. \A i \in 1 .. Len(list) : Row(k, list[i]) \in RowsAt(S)
  BY <1>1, RowFits
<1>3. RowsOf(k, list) = [i \in 1 .. Len(list) |-> Row(k, list[i])]
  BY <1>1 DEF RowsOf
<1>4. [i \in 1 .. Len(list) |-> Row(k, list[i])] \in [1 .. Len(list) -> RowsAt(S)]
  BY ONLY <1>2
<1> QED
  BY ONLY <1>1, <1>3, <1>4

LEMMA RootsCount ==
  ASSUME config \in Host \cup {Nowhere}
  PROVE  Cardinality(roots) \in Nat /\ roots = 1 .. Cardinality(roots)
<1>1. CASE config = Nowhere
  BY <1>1, FS_EmptySet DEF roots
<1>2. CASE config # Nowhere
  <2>1. PICK paths \in Seq(Path) : paths = RootPath[config]
    BY <1>2, LauncherConstants
  <2>2. roots = 1 .. Len(paths) /\ Len(paths) \in Nat
    BY <1>2, <2>1 DEF roots
  <2>3. Cardinality(1 .. Len(paths)) = IF 1 > Len(paths) THEN 0 ELSE Len(paths) - 1 + 1
    BY <2>2, FS_Interval
  <2>4. Cardinality(roots) = Len(paths)
    BY <2>2, <2>3
  <2> QED
    BY <2>2, <2>4
<1> QED
  BY <1>1, <1>2

LEMMA RecentsIn ==
  ASSUME config \in Host \cup {Nowhere}, history \in Seq(Place)
  PROVE  recents \in Seq(Rooted)
<1>1. PICK n \in Nat : n = Cardinality(roots) /\ roots = 1 .. n
  BY RootsCount
<1>2. PICK ss : ss = [d \in 1 .. n |-> OfRoot(d, history)]
  OBVIOUS
<1>3. ASSUME NEW d \in 1 .. n PROVE OfRoot(d, history) \in Seq(Rooted)
  <2>1. PICK S : S = {p \in ToSet(history) : p.dirId = d}
    OBVIOUS
  <2>2. PICK list : list = Filter(history, S)
    OBVIOUS
  <2>3. list \in Seq(Place) /\ ToSet(list) = ToSet(history) \cap S
    BY <2>2, FilterPicks, FilterElements
  <2>4. \A i \in 1 .. Len(list) : list[i] \in Place /\ list[i] \in S
    <3>1. DOMAIN list = 1 .. Len(list) /\ \A i \in 1 .. Len(list) : list[i] \in Place
      BY <2>3
    <3>2. \A i \in DOMAIN list : list[i] \in ToSet(list)
      BY DEF ToSet
    <3> QED
      BY <2>3, <3>1, <3>2
  <2>5. \A i \in 1 .. Len(list) : list[i] \in Rooted
    BY <1>1, <2>1, <2>4 DEF Rooted
  <2>6. Len(list) \in Nat /\ list = [i \in 1 .. Len(list) |-> list[i]]
    BY ONLY <2>3
  <2>7. list \in Seq(Rooted)
    BY <2>5, <2>6
  <2> QED
    BY <2>1, <2>2, <2>7 DEF OfRoot
<1>4. ss \in Seq(Seq(Rooted))
  <2>1. PICK ListsOfPlaces : ListsOfPlaces = Seq(Rooted)
    OBVIOUS
  <2>2. PICK f : f = [d \in 1 .. n |-> OfRoot(d, history)]
    OBVIOUS
  <2>3. DOMAIN f = 1 .. n /\ \A d \in 1 .. n : f[d] \in ListsOfPlaces
    BY <1>3, <2>1, <2>2
  <2>4. f = [d \in 1 .. n |-> f[d]]
    BY <2>2
  <2>5. f \in Seq(ListsOfPlaces)
    BY ONLY n \in Nat, <2>3, <2>4
  <2> QED
    BY <1>2, <2>1, <2>2, <2>5
<1>5. recents = Flattened(ss)
  BY <1>1, <1>2 DEF recents
<1> QED
  BY <1>4, <1>5, FlattenedFits

LEMMA GroupsIn ==
  ASSUME config \in Host \cup {Nowhere}, chosen \in Host, history \in Seq(Place),
         place \subseteq Place, children \in Path
  PROVE  groups \in Seq(RowsAt(Offered))
<1>1. CASE place # {}
  <2>1. PICK p : p = CHOOSE q \in place : TRUE
    OBVIOUS
  <2>2. p \in Place
    BY <1>1, <2>1
  <2>3. \A x \in STRING : Append(p.subdir, x) \in Path
    BY <2>2, PlaceOf, PartsOf DEF Path
  <2>4. \A x \in STRING : joinSubdir(p, x) \in Offered
    <3>1. \A x \in STRING : joinSubdir(p, x) \in Place
      BY <2>2, <2>3, WithSubdir DEF joinSubdir
    <3>2. \A x : joinSubdir(p, x).dirId = p.dirId
      BY <2>2 DEF joinSubdir, Place
    <3>3. p \in place
      BY <1>1, <2>1
    <3> QED
      BY <1>1, <3>1, <3>2, <3>3 DEF Offered
  <2>5. PICK n \in Nat : DOMAIN children = 1 .. n
    BY DEF Path
  <2>6. \A i \in 1 .. n : children[i] \in STRING
    BY <2>5 DEF Path
  <2>7. \A i \in 1 .. n : Row("child", joinSubdir(p, children[i])) \in RowsAt(Offered)
    BY <2>4, <2>6, RowFits
  <2>8. groups = [i \in 1 .. n |-> Row("child", joinSubdir(p, children[i]))]
    BY Zenon, <1>1, <2>1, <2>5 DEF groups
  <2> QED
    BY <2>7, <2>8
<1>2. CASE place = {}
  <2>1. PICK shown : shown = IF desktop THEN Filter(VisibleOn[chosen], {d \in ToSet(VisibleOn[chosen]) : splitUnderDir(d) # {}}) ELSE <<>>
    OBVIOUS
  <2>2. PICK others : others = Filter(recents, {p \in ToSet(recents) : fullPath(p) \notin ToSet(shown)})
    OBVIOUS
  <2>3. PICK m : m = Min({Len(others), RecentLimit})
    OBVIOUS
  <2>4. PICK A : A = [i \in DOMAIN shown |-> Row("current", CHOOSE p \in splitUnderDir(shown[i]) : TRUE)]
    OBVIOUS
  <2>5. PICK B : B = RowsOf("recent", SubSeq(others, 1, m))
    OBVIOUS
  <2>6. PICK n \in Nat : n = Cardinality(roots) /\ roots = 1 .. n
    BY RootsCount
  <2>7. PICK C : C = [d \in 1 .. n |-> Row("place", [dirId |-> d, subdir |-> <<>>])]
    OBVIOUS
  <2>8. groups = A \o B \o C
    <3> DEFINE shown0 == IF desktop THEN Filter(VisibleOn[chosen], {d \in ToSet(VisibleOn[chosen]) : splitUnderDir(d) # {}}) ELSE <<>>
               others0 == Filter(recents, {p \in ToSet(recents) : fullPath(p) \notin ToSet(shown0)})
    <3>1. groups = [i \in DOMAIN shown0 |-> Row("current", CHOOSE p \in splitUnderDir(shown0[i]) : TRUE)]
                   \o RowsOf("recent", SubSeq(others0, 1, Min({Len(others0), RecentLimit})))
                   \o [d \in 1 .. Cardinality(roots) |-> Row("place", [dirId |-> d, subdir |-> <<>>])]
      BY Zenon, <1>2 DEF groups
    <3>2. shown0 = shown
      BY Zenon, <2>1
    <3> HIDE DEF shown0
    <3>3. others0 = others
      BY Zenon, <2>2, <3>2
    <3> HIDE DEF others0
    <3>4. A = [i \in DOMAIN shown0 |-> Row("current", CHOOSE p \in splitUnderDir(shown0[i]) : TRUE)]
      BY <2>4, <3>2
    <3>5. B = RowsOf("recent", SubSeq(others0, 1, Min({Len(others0), RecentLimit})))
      BY Zenon, <2>3, <2>5, <3>3
    <3>6. C = [d \in 1 .. Cardinality(roots) |-> Row("place", [dirId |-> d, subdir |-> <<>>])]
      BY Zenon, <2>6, <2>7
    <3> QED
      BY Zenon, <3>1, <3>4, <3>5, <3>6
  <2>9. shown \in Seq(Path) /\ \A i \in DOMAIN shown : splitUnderDir(shown[i]) # {}
    <3>1. CASE ~desktop
      BY <2>1, <3>1
    <3>2. CASE desktop
      <4>1. PICK list \in Seq(Path) : list = VisibleOn[chosen]
        BY LauncherConstants
      <4>2. PICK S : S = {d \in ToSet(list) : splitUnderDir(d) # {}}
        OBVIOUS
      <4>3. shown = Filter(list, S)
        BY <2>1, <3>2, <4>1, <4>2
      <4>4. shown \in Seq(Path) /\ ToSet(shown) = ToSet(list) \cap S
        BY <4>3, FilterPicks, FilterElements
      <4>5. \A i \in DOMAIN shown : shown[i] \in S
        BY <4>4 DEF ToSet
      <4> QED
        BY <4>2, <4>4, <4>5
    <3> QED
      BY <3>1, <3>2
  <2>10. A \in Seq(RowsAt(Rooted))
    <3>1. PICK k \in Nat : DOMAIN shown = 1 .. k
      BY <2>9
    <3>2. \A i \in 1 .. k : shown[i] \in Path /\ splitUnderDir(shown[i]) # {}
      BY <2>9, <3>1
    <3>3. \A i \in 1 .. k : (CHOOSE p \in splitUnderDir(shown[i]) : TRUE) \in Rooted
      BY <3>2, SplitIn
    <3>4. \A i \in 1 .. k : Row("current", CHOOSE p \in splitUnderDir(shown[i]) : TRUE) \in RowsAt(Rooted)
      BY <3>3, RowFits
    <3> QED
      BY <2>4, <3>1, <3>4
  <2>11. others \in Seq(Rooted)
    BY <2>2, RecentsIn, FilterPicks
  <2>12. B \in Seq(RowsAt(Rooted))
    <3>1. PICK k \in Nat : k = Len(others)
      BY <2>11
    <3>2. PICK limit \in Nat : limit = RecentLimit
      BY LauncherConstants
    <3>3. m \in Int /\ (m = k \/ m = limit) /\ m <= k
      <4>1. m = Min({k, limit}) /\ k \in Int /\ limit \in Int
        BY <2>3, <3>1, <3>2
      <4> QED
        BY ONLY <4>1, LesserOf
    <3>4. m \in Nat /\ m <= Len(others)
      BY <3>1, <3>2, <3>3
    <3>5. SubSeq(others, 1, m) \in Seq(Rooted)
      BY ONLY <2>11, <3>4, PartsOf
    <3> QED
      BY <2>5, <3>5, RowListFits
  <2>13. C \in Seq(RowsAt(Rooted))
    <3>1. <<>> \in Path
      BY DEF Path
    <3>2. \A d \in 1 .. n : [dirId |-> d, subdir |-> <<>>] \in Rooted
      <4>1. ASSUME NEW d \in 1 .. n PROVE [dirId |-> d, subdir |-> <<>>] \in Rooted
        <5>1. d \in Nat /\ d \in roots
          <6>1. roots = 1 .. n
            BY Zenon, <2>6
          <6>2. d \in Nat
            BY ONLY n \in Nat, d \in 1 .. n
          <6> QED
            BY ONLY <6>1, <6>2, d \in 1 .. n
        <5>2. PICK q : q = [dirId |-> d, subdir |-> <<>>]
          OBVIOUS
        <5>3. q \in Place /\ q.dirId = d
          <6>1. [dirId |-> d, subdir |-> <<>>] \in Place
            BY ONLY <3>1, <5>1, PlaceIs
          <6>2. [dirId |-> d, subdir |-> <<>>].dirId = d
            BY ONLY PlaceFields
          <6> QED
            BY ONLY <5>2, <6>1, <6>2
        <5> QED
          BY <5>1, <5>2, <5>3 DEF Rooted
      <4> QED
        BY <4>1
    <3>3. \A d \in 1 .. n : Row("place", [dirId |-> d, subdir |-> <<>>]) \in RowsAt(Rooted)
      BY <3>2, RowFits
    <3> QED
      BY <2>7, <3>3
  <2>14. A \o B \in Seq(RowsAt(Rooted))
    BY <2>10, <2>12, Joined
  <2>15. A \o B \o C \in Seq(RowsAt(Rooted))
    BY <2>13, <2>14, Joined
  <2>16. Offered = Rooted
    BY <1>2 DEF Offered
  <2> QED
    BY <2>8, <2>15, <2>16
<1> QED
  BY <1>1, <1>2

LEMMA FlatIn ==
  ASSUME config \in Host \cup {Nowhere}, chosen \in Host, history \in Seq(Place),
         place \subseteq Place, children \in Path
  PROVE  \A i \in DOMAIN flat : flat[i].at \in Offered /\ flat[i].at \in Place
<1>1. flat \in Seq(RowsAt(Offered))
  BY GroupsIn, FilterPicks DEF flat
<1>2. \A i \in DOMAIN flat : flat[i] \in RowsAt(Offered)
  BY <1>1
<1>3. \A row \in RowsAt(Offered) : row.at \in Offered
  BY DEF RowsAt
<1>4. Offered \subseteq Place
  BY DEF Offered, Rooted
<1> QED
  BY <1>2, <1>3, <1>4

LEMMA StartInNext == config' \in Host \cup {Nowhere} /\ target' \subseteq Targets => start' \subseteq Rooted'
<1> DEFINE Fits0 == config \in Host \cup {Nowhere} /\ target \subseteq Targets => start \subseteq Rooted
<1>1. Fits0
  BY StartIn
<1> HIDE DEF Fits0
<1>2. Fits0'
  BY <1>1, PTL
<1> QED
  BY <1>2 DEF Fits0

LEMMA ListParts ==
  ASSUME NEW list \in PlaceLists, NEW S
  PROVE  Filter(list, S) \in PlaceLists /\ ToSet(Filter(list, S)) = ToSet(list) \cap S
<1>1. list \in Seq(Place) /\ IsInjective(list)
  BY DEF PlaceLists
<1> QED
  BY <1>1, FilterPicks, FilterElements, FilterInjective DEF PlaceLists

LEMMA Latest ==
  ASSUME NEW list \in PlaceLists, NEW p \in Place
  PROVE  Except(p, list) \in PlaceLists /\ <<p>> \o Except(p, list) \in PlaceLists
<1>1. PICK rest : rest = Except(p, list)
  OBVIOUS
<1>2. rest \in PlaceLists /\ ToSet(rest) = ToSet(list) \cap (ToSet(list) \ {p})
  BY <1>1, ListParts DEF Except
<1>3. PICK one : one = <<p>>
  OBVIOUS
<1>4. one \in Seq(Place) /\ ToSet(one) = {p} /\ IsInjective(one)
  BY <1>3 DEF ToSet, IsInjective
<1>5. rest \in Seq(Place) /\ IsInjective(rest)
  BY <1>2 DEF PlaceLists
<1>6. ToSet(one) \cap ToSet(rest) = {}
  BY <1>2, <1>4
<1>7. IsInjective(one \o rest) /\ one \o rest \in Seq(Place)
  BY <1>4, <1>5, <1>6, JoinedInjective, Joined
<1> QED
  BY <1>1, <1>2, <1>3, <1>7 DEF PlaceLists

LEMMA PutBack ==
  ASSUME NEW list \in PlaceLists, NEW d, NEW old \in PlaceLists, \A q \in ToSet(old) : q.dirId = d
  PROVE  old \o Filter(list, {q \in ToSet(list) : q.dirId # d}) \in PlaceLists
<1>1. PICK S : S = {q \in ToSet(list) : q.dirId # d}
  OBVIOUS
<1>2. PICK rest : rest = Filter(list, S)
  OBVIOUS
<1>3. rest \in PlaceLists /\ ToSet(rest) \subseteq S
  BY <1>2, ListParts
<1>4. rest \in Seq(Place) /\ IsInjective(rest) /\ old \in Seq(Place) /\ IsInjective(old)
  BY <1>3 DEF PlaceLists
<1>5. ToSet(old) \cap ToSet(rest) = {}
  BY <1>1, <1>3
<1>6. IsInjective(old \o rest) /\ old \o rest \in Seq(Place)
  BY <1>4, <1>5, JoinedInjective, Joined
<1> QED
  BY <1>1, <1>2, <1>6 DEF PlaceLists

\* The invariant of the launcher's own shape: while the answer about a server's tools is
\* awaited there is one such question, and no tool of another server is chosen.
PickerHas == place \subseteq Place /\ childrenOf \subseteq Place /\ children \in Path
ListsHave == history \in PlaceLists /\ \A h \in Host : remembered[h] \in PlaceLists
ToolFits == toolId \in {0} \cup ToSet(tools)
OneConfig ==
  /\ \A c, d \in Configs(calls) : c = d
  /\ Configs(calls) # {} => toolId = 0 /\ loading
FlagsFit == {desktop, loading, busy, launchError, held} \subseteq BOOLEAN
CallsHave(cs) == \A c \in cs : CallHas(c)
LauncherShape ==
  /\ ListsHave /\ PickerHas /\ target \subseteq Targets
  /\ CallsHave(calls) /\ ToolFits /\ OneConfig /\ FlagsFit

\* What an answer awaited means for the tools when no question is added.
LEMMA FewerConfigs ==
  ASSUME OneConfig, Configs(calls') \subseteq Configs(calls), UNCHANGED <<toolId, loading>>
  PROVE  OneConfig'
BY DEF OneConfig, Configs

LEMMA StaleHas ==
  ASSUME NEW cs, NEW kinds, \A c \in cs : CallFits(c), CallsHave(cs)
  PROVE  CallsHave(Stale(cs, kinds)) /\ Configs(Stale(cs, kinds)) \subseteq Configs(cs)
         /\ ("config" \in kinds => Configs(Stale(cs, kinds)) = {})
<1>1. ASSUME NEW c \in Stale(cs, kinds)
      PROVE  CallHas(c) /\ ((c \in cs /\ c.kind \notin kinds) \/ c.stale)
  <2>1. PICK d \in cs : c = IF d.kind \in kinds THEN [d EXCEPT !.stale = TRUE] ELSE d
    BY DEF Stale
  <2>2. CASE d.kind \notin kinds
    BY <2>1, <2>2 DEF CallsHave
  <2>3. CASE d.kind \in kinds
    <3>1. CallShape(d)
      BY DEF CallFits
    <3>2. c = [d EXCEPT !.stale = TRUE]
      BY <2>1, <2>3
    <3>3. c.kind = d.kind /\ c.at = d.at /\ c.answer = d.answer /\ c.stale
      BY <3>1, <3>2 DEF CallShape
    <3>4. CallHas(d)
      BY DEF CallsHave
    <3> QED
      BY <3>3, <3>4 DEF CallHas
  <2> QED
    BY <2>2, <2>3
<1> QED
  BY <1>1 DEF CallsHave, Configs

LEMMA NewHas ==
  ASSUME NEW kind, NEW h, NEW at, at \subseteq Place, NEW c, c = Call(kind, h, at)
  PROVE  CallHas(c) /\ c.kind = kind
BY DEF Call, CallHas

LEMMA AskHas ==
  ASSUME NEW cs, NEW at, at \subseteq Place, NEW h, \A c \in cs : CallFits(c), CallsHave(cs)
  PROVE  CallsHave(Ask(cs, at, h)) /\ Configs(Ask(cs, at, h)) \subseteq Configs(cs)
<1>1. PICK old : old = Stale(cs, {"children"})
  OBVIOUS
<1>2. CallsHave(old) /\ Configs(old) \subseteq Configs(cs)
  BY <1>1, StaleHas
<1>3. PICK c : c = Call("children", h, at)
  OBVIOUS
<1>4. CallHas(c) /\ c.kind = "children"
  BY <1>3, NewHas
<1>5. Ask(cs, at, h) = old \cup {c : p \in at}
  BY <1>1, <1>3 DEF Ask
<1> QED
  BY <1>2, <1>4, <1>5 DEF CallsHave, Configs

\* What React does of the picker keeps the shapes.
LEMMA SettledHas ==
  ASSUME PickerHas, NEW cs, Settled(cs), \A c \in cs : CallFits(c), CallsHave(cs),
         target' \subseteq Targets, config' \in Host \cup {Nowhere}
  PROVE  PickerHas' /\ CallsHave(calls') /\ Configs(calls') \subseteq Configs(cs)
<1>0. PICK at : at = start'
  OBVIOUS
<1>00. at \subseteq Place
  BY <1>0, StartInNext DEF Rooted
<1>1. CASE FreshPicker(start', FALSE) /\ calls' = Ask(cs, start', chosen')
  <2>1. calls' = Ask(cs, at, chosen') /\ place' = at /\ children' = <<>> /\ childrenOf' = {}
    BY <1>0, <1>1 DEF FreshPicker
  <2> QED
    BY <1>00, <2>1, AskHas DEF PickerHas, Path
<1>2. CASE FreshPicker({}, FALSE) /\ calls' = Stale(cs, {"children"})
  <2>1. place' = {} /\ children' = <<>> /\ childrenOf' = {}
    BY <1>2 DEF FreshPicker
  <2> QED
    BY <1>2, <2>1, StaleHas DEF PickerHas, Path
<1>3. CASE /\ calls' = IF chosen' = chosen THEN cs ELSE Ask(cs, place, chosen')
           /\ UNCHANGED <<place, children, childrenOf>>
  <2>1. CallsHave(calls') /\ Configs(calls') \subseteq Configs(cs)
    <3>1. CASE chosen' = chosen
      BY <1>3, <3>1
    <3>2. CASE chosen' # chosen
      BY <1>3, <3>2, AskHas DEF PickerHas
    <3> QED
      BY <3>1, <3>2
  <2> QED
    BY <1>3, <2>1 DEF PickerHas
<1> QED
  BY <1>1, <1>2, <1>3 DEF Settled

LEMMA ConfigIn ==
  ASSUME LauncherInv
  PROVE  config \in Host \cup {Nowhere} /\ chosen \in Host /\ \A c \in calls : CallFits(c)
BY DEF LauncherInv, ModelFits, HostsFit, CallsFit

LEMMA SelectShape ==
  ASSUME LauncherInv, LauncherShape, LauncherInv', NEW h, selectServer(h)
  PROVE  LauncherShape'
<1>1. PICK old : old = Stale(calls, {"config", "history"})
  OBVIOUS
<1>2. PICK q : q = Call("config", h, {})
  OBVIOUS
<1>3. PICK cs : cs = old \cup {q}
  OBVIOUS
<1>4. /\ Settled(cs) /\ toolId' = 0 /\ history' = <<>> /\ launchError' = FALSE /\ loading' = TRUE
      /\ UNCHANGED <<desktop, target, held, busy, remembered>>
  BY <1>1, <1>2, <1>3 DEF selectServer, Picked
<1>5. \A c \in calls : CallFits(c)
  BY ConfigIn
<1>6. CallsHave(old) /\ Configs(old) = {} /\ \A c \in old : CallFits(c)
  BY <1>1, <1>5, StaleHas, StaleCalls DEF LauncherShape
<1>7. h \in Host /\ CallFits(q) /\ CallHas(q)
  <2>1. h \in Host
    BY DEF selectServer, Picked, LauncherInv, HostsFit
  <2> QED
    BY <1>2, <2>1, NewCall, NewHas DEF Questions, AtMostOne
<1>8. CallsHave(cs) /\ (\A c \in cs : CallFits(c)) /\ Configs(cs) \subseteq {q}
  BY <1>3, <1>6, <1>7 DEF CallsHave, Configs
<1>9. target' \subseteq Targets /\ config' \in Host \cup {Nowhere}
  BY <1>4 DEF LauncherShape, LauncherInv, ModelFits, HostsFit
<1>10. PickerHas' /\ CallsHave(calls') /\ Configs(calls') \subseteq {q}
  BY <1>4, <1>8, <1>9, SettledHas DEF LauncherShape
<1>11. OneConfig' /\ ToolFits'
  BY <1>4, <1>10 DEF OneConfig, ToolFits, Configs
<1>12. <<>> \in PlaceLists
  BY DEF PlaceLists, IsInjective
<1>13. ListsHave' /\ FlagsFit'
  BY <1>4, <1>12 DEF LauncherShape, ListsHave, FlagsFit
<1> QED
  BY <1>9, <1>10, <1>11, <1>13 DEF LauncherShape, CallsHave

\* A by that settles, and asks no server about its tools.
LEMMA SettledShape ==
  ASSUME LauncherInv, LauncherShape, LauncherInv', NEW cs, Settled(cs), \A c \in cs : CallFits(c), CallsHave(cs),
         target' = target, ListsHave', FlagsFit', ToolFits',
         Configs(cs) = {} \/ (Configs(cs) \subseteq Configs(calls) /\ UNCHANGED <<toolId, loading>>)
  PROVE  LauncherShape'
<1>1. target' \subseteq Targets /\ config' \in Host \cup {Nowhere}
  BY DEF LauncherShape, LauncherInv, ModelFits, HostsFit
<1>2. PickerHas' /\ CallsHave(calls') /\ Configs(calls') \subseteq Configs(cs)
  BY <1>1, SettledHas DEF LauncherShape
<1>3. OneConfig'
  <2>1. CASE Configs(cs) = {}
    BY <1>2, <2>1 DEF OneConfig, Configs
  <2>2. CASE Configs(cs) \subseteq Configs(calls) /\ UNCHANGED <<toolId, loading>>
    BY <1>2, <2>2, FewerConfigs DEF LauncherShape
  <2> QED
    BY <2>1, <2>2
<1> QED
  BY <1>1, <1>2, <1>3 DEF LauncherShape, CallsHave

LEMMA ToolsStay ==
  ASSUME ToolFits, UNCHANGED <<toolId, config>>
  PROVE  ToolFits'
BY DEF ToolFits, tools

LEMMA ViewShape ==
  ASSUME LauncherInv, LauncherShape, LauncherInv',
         (\E t : selectTool(t)) \/ OpenPicker \/ ClosePicker \/ (\E h : RemoveHost(h))
  PROVE  LauncherShape'
<1>1. PICK old : old = Stale(calls, {"config", "history"})
  OBVIOUS
<1>2. \A c \in calls : CallFits(c)
  BY ConfigIn
<1>3. CallsHave(calls) /\ CallsHave(old) /\ Configs(old) = {} /\ \A c \in old : CallFits(c)
  BY <1>1, <1>2, StaleHas, StaleCalls DEF LauncherShape
<1>4. CASE \E t : selectTool(t)
  <2>1. PICK t : selectTool(t)
    BY <1>4
  <2>2. /\ Settled(calls) /\ t \in ToSet(tools) /\ toolId' = t /\ launchError' = FALSE /\ ~loading
        /\ UNCHANGED <<desktop, target, config, history, loading, busy, held, remembered>>
    BY <2>1 DEF selectTool
  <2>3. Configs(calls) = {}
    BY <2>2 DEF LauncherShape, OneConfig
  <2>4. ListsHave' /\ FlagsFit' /\ ToolFits'
    BY <2>2 DEF LauncherShape, ListsHave, FlagsFit, ToolFits, tools
  <2> QED
    BY <1>2, <1>3, <2>2, <2>3, <2>4, SettledShape
<1>5. CASE OpenPicker \/ ClosePicker \/ \E h : RemoveHost(h)
  <2>1. /\ held' \in {TRUE, FALSE, held}
        /\ UNCHANGED <<desktop, target, config, toolId, history, loading, busy, launchError, remembered>>
        /\ Settled(calls) \/ Settled(old)
    BY <1>1, <1>5 DEF OpenPicker, ClosePicker, RemoveHost, model
  <2>2. ListsHave' /\ FlagsFit' /\ ToolFits'
    BY <2>1, ToolsStay DEF LauncherShape, ListsHave, FlagsFit
  <2> QED
    BY <1>2, <1>3, <2>1, <2>2, SettledShape
<1> QED
  BY <1>4, <1>5

\* A by that leaves the model of the launcher alone, but for what it remembers.
LEMMA PickerShape ==
  ASSUME LauncherShape, UNCHANGED <<desktop, target, config, toolId, loading, held>>,
         busy' \in BOOLEAN, launchError' \in BOOLEAN, ListsHave', PickerHas',
         CallsHave(calls'), Configs(calls') \subseteq Configs(calls)
  PROVE  LauncherShape'
<1>1. OneConfig' /\ ToolFits'
  BY FewerConfigs, ToolsStay DEF LauncherShape
<1>2. FlagsFit'
  BY DEF LauncherShape, FlagsFit
<1> QED
  BY <1>1, <1>2 DEF LauncherShape, CallsHave

LEMMA FlagsAre ==
  ASSUME LauncherShape
  PROVE  busy \in BOOLEAN /\ launchError \in BOOLEAN /\ held \in BOOLEAN /\ desktop \in BOOLEAN /\ loading \in BOOLEAN
BY DEF LauncherShape, FlagsFit

LEMMA NavigateShape ==
  ASSUME LauncherInv, LauncherShape, NEW next, next \subseteq Place, navigate(next)
  PROVE  LauncherShape'
<1>1. /\ UNCHANGED <<desktop, target, config, toolId, loading, held, history, busy, launchError, remembered>>
      /\ place' = next /\ children' = <<>> /\ childrenOf' = {}
      /\ calls' = calls \/ calls' = Ask(calls, next, chosen)
  BY DEF navigate, Browse, model, FreshPicker
<1>2. \A c \in calls : CallFits(c)
  BY ConfigIn
<1>3. CallsHave(calls') /\ Configs(calls') \subseteq Configs(calls)
  BY <1>1, <1>2, AskHas DEF LauncherShape
<1>4. PickerHas' /\ ListsHave'
  BY <1>1 DEF PickerHas, ListsHave, LauncherShape, Path
<1>5. busy' \in BOOLEAN /\ launchError' \in BOOLEAN
  BY <1>1, FlagsAre
<1> QED
  BY <1>1, <1>3, <1>4, <1>5, PickerShape

LEMMA OffersPlaces ==
  ASSUME LauncherInv, LauncherShape
  PROVE  \A i \in DOMAIN flat : flat[i].at \in Place
<1>1. config \in Host \cup {Nowhere} /\ chosen \in Host
  BY ConfigIn
<1>2. history \in Seq(Place) /\ place \subseteq Place /\ children \in Path
  BY DEF LauncherShape, ListsHave, PlaceLists, PickerHas
<1> QED
  BY <1>1, <1>2, FlatIn

LEMMA MovesShape ==
  ASSUME LauncherInv, LauncherShape, Drill \/ GoUp \/ crumbs \/ Places
  PROVE  LauncherShape'
<1>0. place \subseteq Place
  BY DEF LauncherShape, PickerHas
<1>1. CASE Drill
  <2>1. PICK i \in DOMAIN flat : navigate({flat[i].at})
    BY <1>1 DEF Drill
  <2>2. {flat[i].at} \subseteq Place
    BY OffersPlaces
  <2> QED
    BY <2>1, <2>2, NavigateShape
<1>2. CASE GoUp
  <2>1. PICK p \in place : navigate(dropLast(p))
    BY <1>2 DEF GoUp
  <2>2. p \in Place /\ p.subdir \in Path
    BY <1>0, PlaceOf
  <2>3. p.subdir # <<>> => Front(p.subdir) \in Path
    BY <2>2, PartsOf DEF Path
  <2>4. dropLast(p) \subseteq Place
    BY <2>2, <2>3, WithSubdir DEF dropLast
  <2> QED
    BY <2>1, <2>4, NavigateShape
<1>3. CASE crumbs
  <2>1. PICK p \in place, n \in 0 .. 2 : n <= Len(p.subdir) /\ navigate({[p EXCEPT !.subdir = SubSeq(@, 1, n)]})
    BY <1>3 DEF crumbs
  <2>2. p \in Place /\ p.subdir \in Path
    BY <1>0, PlaceOf
  <2>3. n \in Nat /\ n <= Len(p.subdir)
    BY <2>1
  <2>4. SubSeq(p.subdir, 1, n) \in Path
    BY <2>2, <2>3, PartsOf DEF Path
  <2>5. {[p EXCEPT !.subdir = SubSeq(@, 1, n)]} \subseteq Place
    BY <2>2, <2>4, WithSubdir
  <2> QED
    BY <2>1, <2>5, NavigateShape
<1>4. CASE Places
  BY <1>4, NavigateShape DEF Places
<1> QED
  BY <1>1, <1>2, <1>3, <1>4

LEMMA LookShape ==
  ASSUME LauncherInv, LauncherShape, (\E n : Highlight(n)) \/ (\E f : SetFilter(f)) \/ UNCHANGED launcherVars
  PROVE  LauncherShape'
<1>1. /\ UNCHANGED <<desktop, target, config, toolId, loading, held, history, busy, launchError, remembered>>
      /\ UNCHANGED <<place, children, childrenOf, calls>>
  BY DEF Highlight, SetFilter, Browse, model, picker, launcherVars
<1>2. PickerHas' /\ ListsHave' /\ CallsHave(calls') /\ Configs(calls') \subseteq Configs(calls)
  BY <1>1 DEF PickerHas, ListsHave, LauncherShape
<1>3. busy' \in BOOLEAN /\ launchError' \in BOOLEAN
  BY <1>1, FlagsAre
<1> QED
  BY <1>1, <1>2, <1>3, PickerShape

LEMMA ForgetShape ==
  ASSUME LauncherInv, LauncherShape, NEW p \in Place, forget(p)
  PROVE  LauncherShape'
<1>1. PICK list : list = OfRoot(p.dirId, history)
  OBVIOUS
<1>2. PICK c : c = [Call("forget", chosen, {p}) EXCEPT !.answer = {list}]
  OBVIOUS
<1>3. /\ UNCHANGED <<desktop, target, config, toolId, loading, held, busy, launchError, remembered>>
      /\ UNCHANGED <<place, children, childrenOf>>
      /\ history' = Except(p, history) /\ calls' = calls \cup {c}
  BY <1>1, <1>2 DEF forget, Browse, picker
<1>4. history \in PlaceLists
  BY DEF LauncherShape, ListsHave
<1>5. list \in PlaceLists /\ \A q \in ToSet(list) : q.dirId = p.dirId
  BY <1>1, <1>4, ListParts DEF OfRoot
<1>6. c.kind = "forget" /\ c.at = {p} /\ c.answer = {list}
  BY <1>2 DEF Call
<1>7. CallHas(c)
  BY <1>5, <1>6 DEF CallHas
<1>8. CallsHave(calls') /\ Configs(calls') \subseteq Configs(calls)
  BY <1>3, <1>6, <1>7 DEF LauncherShape, CallsHave, Configs
<1>9. history' \in PlaceLists
  BY <1>3, <1>4, Latest
<1>10. PickerHas' /\ ListsHave'
  BY <1>3, <1>9 DEF PickerHas, ListsHave, LauncherShape
<1>11. busy' \in BOOLEAN /\ launchError' \in BOOLEAN
  BY <1>3, FlagsAre
<1> QED
  BY <1>3, <1>8, <1>10, <1>11, PickerShape

LEMMA LaunchShape ==
  ASSUME LauncherInv, LauncherShape, NEW p \in Place, launch(p)
  PROVE  LauncherShape'
<1>1. PICK c : c = Call("launch", chosen, {p})
  OBVIOUS
<1>2. /\ UNCHANGED <<desktop, target, config, toolId, loading, held, history, remembered>>
      /\ UNCHANGED <<place, children, childrenOf>>
      /\ busy' = TRUE /\ launchError' = FALSE /\ calls' = calls \cup {c}
  BY <1>1 DEF launch, Browse, picker
<1>3. CallHas(c) /\ c.kind = "launch"
  BY <1>1, NewHas
<1>4. CallsHave(calls') /\ Configs(calls') \subseteq Configs(calls)
  BY <1>2, <1>3 DEF LauncherShape, CallsHave, Configs
<1>5. PickerHas' /\ ListsHave'
  BY <1>2 DEF PickerHas, ListsHave, LauncherShape
<1> QED
  BY <1>2, <1>4, <1>5, PickerShape

LEMMA HandlesShape ==
  ASSUME LauncherInv, LauncherShape, NEW c \in calls, c.kind \in {"history", "forget", "launch"}, HostHandles(c)
  PROVE  LauncherShape'
<1>1. PICK h : h = c.host
  OBVIOUS
<1>2. PICK p : p = CHOOSE q \in c.at : TRUE
  OBVIOUS
<1>3. PICK old : old = remembered[h]
  OBVIOUS
<1>4. PICK later : later = IF c.kind = "forget" THEN Except(p, old)
                       ELSE IF c.kind = "launch" /\ Launches(c) /\ p.subdir # <<>> THEN <<p>> \o Except(p, old)
                       ELSE old
  OBVIOUS
<1>5. PICK done : done = [c EXCEPT !.handled = TRUE,
                                   !.answer = IF c.kind = "history" THEN {old} ELSE c.answer]
  OBVIOUS
<1>6. /\ UNCHANGED <<desktop, target, config, toolId, loading, held, history, busy, launchError>>
      /\ UNCHANGED <<place, children, childrenOf>>
      /\ remembered' = [remembered EXCEPT ![h] = later]
      /\ calls' = (calls \ {c}) \cup {done}
  BY <1>1, <1>2, <1>3, <1>4, <1>5 DEF HostHandles, model, picker
<1>7. CallFits(c) /\ CallHas(c) /\ h \in Host /\ DOMAIN remembered = Host /\ \A i \in Host : remembered[i] \in PlaceLists
  <2>1. CallFits(c) /\ CallHas(c) /\ DOMAIN remembered = Host /\ \A i \in Host : remembered[i] \in PlaceLists
    BY DEF LauncherInv, CallsFit, LauncherShape, CallsHave, ListsHave
  <2>2. h \in Host
    BY <1>1, <2>1 DEF CallFits, CallShape
  <2> QED
    BY <2>1, <2>2
<1>8. old \in PlaceLists
  BY <1>3, <1>7
<1>9. later \in PlaceLists
  <2>1. CASE c.kind = "forget" \/ c.kind = "launch"
    <3>1. p \in Place
      BY <1>2, <1>7, <2>1 DEF CallFits, CallHas
    <3> QED
      BY <1>4, <1>8, <3>1, Latest
  <2>2. CASE c.kind = "history"
    BY <1>4, <1>8, <2>2
  <2> QED
    BY <2>1, <2>2
<1>10. /\ done.kind = c.kind /\ done.at = c.at /\ done.stale = c.stale
       /\ done.answer = IF c.kind = "history" THEN {old} ELSE c.answer
  BY <1>5, <1>7 DEF CallFits, CallShape
<1>11. CallHas(done)
  BY <1>7, <1>8, <1>10 DEF CallHas
<1>12. CallsHave(calls') /\ Configs(calls') \subseteq Configs(calls)
  BY <1>6, <1>10, <1>11 DEF LauncherShape, CallsHave, Configs
<1>13. PickerHas' /\ ListsHave'
  BY <1>6, <1>7, <1>9 DEF PickerHas, ListsHave, LauncherShape
<1>14. busy' \in BOOLEAN /\ launchError' \in BOOLEAN
  BY <1>6, FlagsAre
<1> QED
  BY <1>6, <1>12, <1>13, <1>14, PickerShape

LEMMA DiscardShape ==
  ASSUME LauncherShape, NEW c, Discard(c), UNCHANGED <<desktop, target, remembered>>
  PROVE  LauncherShape'
<1>1. /\ UNCHANGED <<desktop, target, config, toolId, loading, held, history, busy, launchError, remembered>>
      /\ UNCHANGED <<place, children, childrenOf>> /\ calls' \subseteq calls
  BY DEF Discard, model, picker
<1>2. PickerHas' /\ ListsHave' /\ CallsHave(calls') /\ Configs(calls') \subseteq Configs(calls)
  BY <1>1 DEF PickerHas, ListsHave, LauncherShape, CallsHave, Configs
<1>3. busy' \in BOOLEAN /\ launchError' \in BOOLEAN
  BY <1>1, FlagsAre
<1> QED
  BY <1>1, <1>2, <1>3, PickerShape

LEMMA ConfigShape ==
  ASSUME LauncherInv, LauncherShape, LauncherInv', NEW c \in calls, NEW ok \in BOOLEAN, ConfigLands(c, ok)
  PROVE  LauncherShape'
<1>1. c.kind = "config" /\ UNCHANGED <<desktop, target, hosts, chosen, remembered>>
  BY DEF ConfigLands, Answered
<1>2. CASE c.stale
  BY <1>1, <1>2, DiscardShape DEF ConfigLands
<1>3. CASE ~c.stale
  <2>1. PICK asks : asks = IF roots' = {} THEN {} ELSE server
    OBVIOUS
  <2>2. PICK cs : cs = (calls \ {c}) \cup {Call("history", h, {}) : h \in asks}
    OBVIOUS
  <2>3. /\ config' = (IF ok THEN c.host ELSE Nowhere)
        /\ toolId' = (IF ok /\ tools' # <<>> THEN tools'[1] ELSE toolId)
        /\ launchError' = ~ok /\ loading' = FALSE
        /\ UNCHANGED <<history, busy, held>> /\ Settled(cs)
    BY <1>3, <2>1, <2>2 DEF ConfigLands
  <2>4. c \in Configs(calls)
    BY <1>1, <1>3 DEF Configs
  <2>5. toolId = 0 /\ \A d \in Configs(calls) : d = c
    BY <2>4 DEF LauncherShape, OneConfig
  <2>6. \A h \in asks : h = chosen /\ h \in Host
    BY <2>1 DEF server, LauncherInv, HostsFit
  <2>7. ASSUME NEW d \in cs PROVE CallFits(d) /\ CallHas(d) /\ (d.kind = "config" => d \in calls /\ d # c)
    <3>1. CASE d \in calls /\ d # c
      BY <3>1 DEF LauncherInv, CallsFit, LauncherShape, CallsHave
    <3>2. ASSUME NEW h \in asks, d = Call("history", h, {}) PROVE CallFits(d) /\ CallHas(d) /\ d.kind = "history"
      BY <2>6, <3>2, NewCall, NewHas DEF AtMostOne, Questions
    <3> QED
      BY <2>2, <3>1, <3>2
  <2>8. Configs(cs) = {}
    BY <2>5, <2>7 DEF Configs
  <2>9. ToolFits'
    <3>1. CASE ok /\ tools' # <<>>
      <4>1. config' \in Host \cup {Nowhere}
        BY DEF LauncherInv, ModelFits, HostsFit
      <4>2. tools' \in Seq(Nat)
        BY <4>1, LauncherConstants DEF tools
      <4>3. toolId' = tools'[1] /\ 1 \in DOMAIN tools'
        BY <2>3, <3>1, <4>2
      <4> QED
        BY <4>3 DEF ToolFits, ToSet
    <3>2. CASE ~(ok /\ tools' # <<>>)
      BY <2>3, <2>5, <3>2 DEF ToolFits
    <3> QED
      BY <3>1, <3>2
  <2>10. ListsHave' /\ FlagsFit'
    BY <1>1, <2>3, FlagsAre DEF LauncherShape, ListsHave, FlagsFit
  <2>11. CallsHave(cs) /\ \A d \in cs : CallFits(d)
    BY <2>7 DEF CallsHave
  <2> QED
    BY <1>1, <2>3, <2>8, <2>9, <2>10, <2>11, SettledShape
<1> QED
  BY <1>2, <1>3

LEMMA HistoryShape ==
  ASSUME LauncherInv, LauncherShape, NEW c \in calls, NEW failing, HistoryLands(c, failing)
  PROVE  LauncherShape'
<1>1. c.kind = "history" /\ c.handled /\ UNCHANGED <<desktop, target, remembered>>
  BY DEF HistoryLands, Answered
<1>2. CallFits(c) /\ CallHas(c)
  BY DEF LauncherInv, CallsFit, LauncherShape, CallsHave
<1>3. CASE c.stale
  BY <1>1, <1>3, DiscardShape DEF HistoryLands
<1>4. CASE ~c.stale
  <2>1. PICK list : list = CHOOSE l \in c.answer : TRUE
    OBVIOUS
  <2>2. list \in PlaceLists
    BY <1>1, <1>2, <2>1 DEF CallFits, CallHas
  <2>3. /\ history' = Filter(list, {p \in ToSet(list) : p.dirId \notin failing})
        /\ calls' \subseteq calls
        /\ UNCHANGED <<config, toolId, loading, busy, launchError, held, place, children, childrenOf>>
    BY <1>4, <2>1 DEF HistoryLands, picker
  <2>4. history' \in PlaceLists
    BY <2>2, <2>3, ListParts
  <2>5. PickerHas' /\ ListsHave' /\ CallsHave(calls') /\ Configs(calls') \subseteq Configs(calls)
    BY <1>1, <2>3, <2>4 DEF PickerHas, ListsHave, LauncherShape, CallsHave, Configs
  <2>6. busy' \in BOOLEAN /\ launchError' \in BOOLEAN
    BY <2>3, FlagsAre
  <2> QED
    BY <1>1, <2>3, <2>5, <2>6, PickerShape
<1> QED
  BY <1>3, <1>4

LEMMA ChildrenShape ==
  ASSUME LauncherInv, LauncherShape, NEW c \in calls, NEW ok \in BOOLEAN, ChildrenLand(c, ok)
  PROVE  LauncherShape'
<1>1. c.kind = "children" /\ UNCHANGED <<desktop, target, remembered>>
  BY DEF ChildrenLand, Answered
<1>2. CallHas(c)
  BY DEF LauncherShape, CallsHave
<1>3. CASE c.stale
  BY <1>1, <1>3, DiscardShape DEF ChildrenLand
<1>4. CASE ~c.stale
  <2>1. PICK names0 : names0 = ChildrenOf(c.host, CHOOSE p \in c.at : TRUE)
    OBVIOUS
  <2>2. /\ children' = (IF ok THEN names0 ELSE <<>>)
        /\ childrenOf' = c.at /\ calls' \subseteq calls
        /\ UNCHANGED <<config, toolId, history, loading, busy, launchError, held, place>>
    BY <1>4, <2>1 DEF ChildrenLand, model
  <2>3. children' \in Path
    <3>1. names0 \in Path /\ <<>> \in Path
      BY <2>1, ChildrenAre DEF Path
    <3> QED
      BY <2>2, <3>1
  <2>4. PickerHas' /\ ListsHave' /\ CallsHave(calls') /\ Configs(calls') \subseteq Configs(calls)
    BY <1>1, <1>2, <2>2, <2>3 DEF PickerHas, ListsHave, LauncherShape, CallsHave, CallHas, Configs
  <2>5. busy' \in BOOLEAN /\ launchError' \in BOOLEAN
    BY <2>2, FlagsAre
  <2> QED
    BY <1>1, <2>2, <2>4, <2>5, PickerShape
<1> QED
  BY <1>3, <1>4

LEMMA ForgottenShape ==
  ASSUME LauncherInv, LauncherShape, LauncherInv', NEW c \in calls, NEW ok \in BOOLEAN, ForgetLands(c, ok)
  PROVE  LauncherShape'
<1>1. c.kind = "forget" /\ UNCHANGED <<desktop, target, remembered>>
  BY DEF ForgetLands, Answered
<1>2. CallFits(c) /\ CallHas(c)
  BY DEF LauncherInv, CallsFit, LauncherShape, CallsHave
<1>3. CASE ok \/ chosen # c.host \/ ~(desktop \/ held)
  BY <1>1, <1>3, DiscardShape DEF ForgetLands
<1>4. CASE ~(ok \/ chosen # c.host \/ ~(desktop \/ held))
  <2>1. PICK list : list = CHOOSE l \in c.answer : TRUE
    OBVIOUS
  <2>2. PICK p : p = CHOOSE q \in c.at : TRUE
    OBVIOUS
  <2>3. list \in PlaceLists /\ \A q \in ToSet(list) : q.dirId = p.dirId
    BY <1>1, <1>2, <2>1, <2>2 DEF CallFits, CallHas
  <2>4. history \in PlaceLists
    BY DEF LauncherShape, ListsHave
  <2>5. /\ history' = list \o Filter(history, {q \in ToSet(history) : q.dirId # p.dirId})
        /\ launchError' = TRUE
        /\ UNCHANGED <<config, toolId, loading, busy, held>> /\ Settled(calls \ {c})
    BY <1>4, <2>1, <2>2 DEF ForgetLands
  <2>6. history' \in PlaceLists
    BY <2>3, <2>4, <2>5, PutBack
  <2>7. ListsHave' /\ FlagsFit' /\ ToolFits'
    BY <1>1, <2>5, <2>6, ToolsStay, FlagsAre DEF LauncherShape, ListsHave, FlagsFit
  <2>8. PICK cs : cs = calls \ {c}
    OBVIOUS
  <2>9. CallsHave(cs) /\ Configs(cs) \subseteq Configs(calls) /\ \A d \in cs : CallFits(d)
    BY <2>8, ConfigIn DEF LauncherShape, CallsHave, Configs
  <2> QED
    BY <1>1, <2>5, <2>7, <2>8, <2>9, SettledShape
<1> QED
  BY <1>3, <1>4

LEMMA LaunchedShape ==
  ASSUME LauncherInv, LauncherShape, LauncherInv', NEW c \in calls, NEW ok \in BOOLEAN, Launched(c, ok)
  PROVE  LauncherShape'
<1>1. c.kind = "launch" /\ UNCHANGED <<desktop, target, remembered>>
  BY DEF Launched, Answered
<1>2. CallFits(c) /\ CallHas(c)
  BY DEF LauncherInv, CallsFit, LauncherShape, CallsHave
<1>3. CASE ~(desktop \/ held)
  BY <1>1, <1>3, DiscardShape DEF Launched
<1>4. CASE desktop \/ held
  <2>1. PICK p : p = CHOOSE q \in c.at : TRUE
    OBVIOUS
  <2>2. PICK old : old = (IF desktop \/ ~ok THEN calls ELSE Stale(calls, {"config", "history"}))
    OBVIOUS
  <2>3. PICK cs : cs = old \ {c}
    OBVIOUS
  <2>4. /\ history' = (IF ok /\ p.subdir # <<>> /\ chosen = c.host THEN <<p>> \o Except(p, history) ELSE history)
        /\ busy' = FALSE /\ launchError' = (launchError \/ ~ok) /\ held' = (held /\ ~ok)
        /\ UNCHANGED <<config, toolId, loading>> /\ Settled(cs)
    BY <1>4, <2>1, <2>2, <2>3 DEF Launched
  <2>5. history \in PlaceLists /\ p \in Place
    BY <1>1, <1>2, <2>1 DEF CallFits, CallHas, LauncherShape, ListsHave
  <2>6. history' \in PlaceLists
    BY <2>4, <2>5, Latest
  <2>7. ListsHave' /\ ToolFits'
    BY <1>1, <2>4, <2>6, ToolsStay DEF LauncherShape, ListsHave
  <2>8. FlagsFit'
    BY <1>1, <2>4, FlagsAre DEF FlagsFit
  <2>9. \A d \in calls : CallFits(d)
    BY ConfigIn
  <2>10. CallsHave(old) /\ Configs(old) \subseteq Configs(calls) /\ \A d \in old : CallFits(d)
    <3>1. CASE desktop \/ ~ok
      BY <2>2, <2>9, <3>1 DEF LauncherShape
    <3>2. CASE ~(desktop \/ ~ok)
      BY <2>2, <2>9, <3>2, StaleHas, StaleCalls DEF LauncherShape
    <3> QED
      BY <3>1, <3>2
  <2>11. CallsHave(cs) /\ Configs(cs) \subseteq Configs(calls) /\ \A d \in cs : CallFits(d)
    BY <2>3, <2>10 DEF CallsHave, Configs
  <2> QED
    BY <1>1, <2>4, <2>7, <2>8, <2>11, SettledShape
<1> QED
  BY <1>3, <1>4

LEMMA ShapeStarts == LauncherInit => LauncherShape
<1> SUFFICES ASSUME LauncherInit PROVE LauncherShape
  OBVIOUS
<1>1. PICK c : c = Call("config", chosen, {})
  OBVIOUS
<1>2. CallHas(c) /\ calls = {c}
  BY <1>1, NewHas DEF LauncherInit
<1>3. <<>> \in PlaceLists
  BY DEF PlaceLists, IsInjective
<1>4. ListsHave
  BY <1>3, LauncherConstants DEF LauncherInit, ListsHave
<1>5. PickerHas
  BY DEF LauncherInit, PickerHas, Path
<1>6. target \subseteq Targets
  BY DEF LauncherInit
<1>7. CallsHave(calls) /\ OneConfig
  BY <1>2 DEF LauncherInit, CallsHave, OneConfig, Configs
<1>8. ToolFits /\ FlagsFit
  BY DEF LauncherInit, ToolFits, FlagsFit
<1> QED
  BY <1>4, <1>5, <1>6, <1>7, <1>8 DEF LauncherShape

LEMMA ShapeSteps ==
  ASSUME LauncherInv, LauncherShape, LauncherInv', [LauncherNext]_launcherVars
  PROVE  LauncherShape'
<1>1. CASE UNCHANGED launcherVars
  BY <1>1, LookShape
<1>2. ASSUME NEW c \in calls,
             \/ c.kind \in {"history", "forget", "launch"} /\ HostHandles(c)
             \/ \E ok \in BOOLEAN : ConfigLands(c, ok) \/ ChildrenLand(c, ok) \/ ForgetLands(c, ok) \/ Launched(c, ok)
             \/ \E failing \in SUBSET roots : HistoryLands(c, failing)
      PROVE  LauncherShape'
  BY <1>2, HandlesShape, ConfigShape, ChildrenShape, ForgottenShape, LaunchedShape, HistoryShape
<1>3. CASE Drill \/ GoUp \/ crumbs \/ Places
  BY <1>3, MovesShape
<1>4. CASE (\E by \in -1 .. 1 : Highlight(by)) \/ (\E f \in Needles : SetFilter(f))
  BY <1>4, LookShape
<1>5. CASE \/ \E i \in DOMAIN flat : flat[i].kind = "recent" /\ forget(flat[i].at)
           \/ \E p \in {flat[i].at : i \in DOMAIN flat} \cup place : launch(p)
  <2>1. \A p \in {flat[i].at : i \in DOMAIN flat} \cup place : p \in Place
    BY OffersPlaces DEF LauncherShape, PickerHas
  <2> QED
    BY <1>5, <2>1, ForgetShape, LaunchShape
<1>6. CASE OpenPicker \/ ClosePicker \/ \E h \in Host : \E t \in ToSet(ToolsOf[h]) : selectTool(t)
  BY <1>6, ViewShape
<1>7. CASE \E h \in Host : selectServer(h) \/ RemoveHost(h)
  BY <1>7, SelectShape, ViewShape
<1> QED
  BY <1>1, <1>2, <1>3, <1>4, <1>5, <1>6, <1>7 DEF LauncherNext

\* A picker that carries no place over from another server is below the roots of the
\* server that is chosen.
AtHome ==
  /\ carried \in BOOLEAN
  /\ \A p \in place : carried \/ p.dirId \in DOMAIN RootPath[chosen]

LEMMA RootedIsHome ==
  /\ LauncherInv => \A p \in Rooted : p.dirId \in DOMAIN RootPath[chosen]
  /\ LauncherInv' => \A p \in Rooted' : p.dirId \in DOMAIN RootPath[chosen']
<1> DEFINE Home == LauncherInv => \A p \in Rooted : p.dirId \in DOMAIN RootPath[chosen]
<1>1. Home
  BY DEF LauncherInv, ModelFits, Rooted, roots
<1> HIDE DEF Home
<1>2. Home'
  BY <1>1, PTL
<1> QED
  BY <1>1, <1>2 DEF Home

\* What React does of the picker: a picker mounted is below its own roots, and one that
\* stays while another server is chosen is marked.
LEMMA SettledHome ==
  ASSUME LauncherInv', AtHome, target' \subseteq Targets, NEW cs, Settled(cs)
  PROVE  AtHome'
<1>1. PICK at : at = start'
  OBVIOUS
<1>2. \A p \in at : p.dirId \in DOMAIN RootPath[chosen']
  <2>1. config' \in Host \cup {Nowhere}
    BY DEF LauncherInv, ModelFits, HostsFit
  <2>2. at \subseteq Rooted'
    BY <1>1, <2>1, StartInNext
  <2> QED
    BY <2>2, RootedIsHome
<1>3. CASE FreshPicker(start', FALSE)
  BY <1>1, <1>2, <1>3 DEF FreshPicker, AtHome
<1>4. CASE FreshPicker({}, FALSE)
  BY <1>4 DEF FreshPicker, AtHome
<1>5. CASE /\ carried' = (carried \/ (chosen' # chosen /\ place # {}))
           /\ place' = place
  BY <1>5 DEF AtHome
<1> QED
  BY <1>3, <1>4, <1>5 DEF Settled

LEMMA NavigateHome ==
  ASSUME LauncherInv, AtHome, NEW next, navigate(next), next # {} => next \subseteq Offered
  PROVE  AtHome'
<1>1. place' = next /\ carried' = (carried /\ next # {}) /\ chosen' = chosen
  BY DEF navigate, Browse, FreshPicker
<1>2. CASE next = {}
  BY <1>1, <1>2 DEF AtHome
<1>3. CASE next # {} /\ place = {}
  <2>1. next \subseteq Rooted
    BY <1>3 DEF Offered
  <2> QED
    BY <1>1, <2>1, RootedIsHome DEF AtHome
<1>4. CASE next # {} /\ place # {}
  <2>1. \A q \in next : \E p \in place : q.dirId = p.dirId
    BY <1>4 DEF Offered
  <2> QED
    BY <1>1, <1>4, <2>1 DEF AtHome
<1> QED
  BY <1>2, <1>3, <1>4

LEMMA OffersRooted ==
  ASSUME LauncherInv, LauncherShape
  PROVE  \A i \in DOMAIN flat : flat[i].at \in Offered
<1>1. config \in Host \cup {Nowhere} /\ chosen \in Host
  BY ConfigIn
<1>2. history \in Seq(Place) /\ place \subseteq Place /\ children \in Path
  BY DEF LauncherShape, ListsHave, PlaceLists, PickerHas
<1> QED
  BY <1>1, <1>2, FlatIn

LEMMA MovesHome ==
  ASSUME LauncherInv, LauncherShape, AtHome, Drill \/ GoUp \/ crumbs \/ Places
  PROVE  AtHome'
<1>0. place \subseteq Place
  BY DEF LauncherShape, PickerHas
<1>1. CASE Drill
  <2>1. PICK i \in DOMAIN flat : navigate({flat[i].at})
    BY <1>1 DEF Drill
  <2>2. {flat[i].at} \subseteq Offered
    BY OffersRooted
  <2> QED
    BY <2>1, <2>2, NavigateHome
<1>2. ASSUME NEW p \in place, NEW s \in Path
      PROVE  [p EXCEPT !.subdir = s] \in Offered
  <2>1. [p EXCEPT !.subdir = s] \in Place /\ [p EXCEPT !.subdir = s].dirId = p.dirId
    BY <1>0, WithSubdir DEF Place
  <2> QED
    BY <2>1 DEF Offered
<1>3. CASE GoUp
  <2>1. PICK p \in place : navigate(dropLast(p))
    BY <1>3 DEF GoUp
  <2>2. p \in Place /\ p.subdir \in Path
    BY <1>0, PlaceOf
  <2>3. p.subdir # <<>> => Front(p.subdir) \in Path
    BY <2>2, PartsOf DEF Path
  <2>4. dropLast(p) \subseteq Offered
    BY <1>2, <2>3 DEF dropLast
  <2> QED
    BY <2>1, <2>4, NavigateHome
<1>4. CASE crumbs
  <2>1. PICK p \in place, n \in 0 .. 2 : n <= Len(p.subdir) /\ navigate({[p EXCEPT !.subdir = SubSeq(@, 1, n)]})
    BY <1>4 DEF crumbs
  <2>2. p \in Place /\ p.subdir \in Path
    BY <1>0, PlaceOf
  <2>3. n \in Nat /\ n <= Len(p.subdir)
    BY <2>1
  <2>4. SubSeq(p.subdir, 1, n) \in Path
    BY <2>2, <2>3, PartsOf DEF Path
  <2>5. {[p EXCEPT !.subdir = SubSeq(@, 1, n)]} \subseteq Offered
    BY <1>2, <2>4
  <2> QED
    BY <2>1, <2>5, NavigateHome
<1>5. CASE Places
  BY <1>5, NavigateHome DEF Places
<1> QED
  BY <1>1, <1>3, <1>4, <1>5

LEMMA HomeStarts == LauncherInit => AtHome
BY DEF LauncherInit, AtHome

LEMMA HomeSteps ==
  ASSUME LauncherInv, LauncherInv', LauncherShape, AtHome, [LauncherNext]_launcherVars
  PROVE  AtHome'
<1>0. target \subseteq Targets
  BY DEF LauncherShape
<1>1. CASE UNCHANGED <<place, carried, chosen>>
  BY <1>1 DEF AtHome
<1>2. ASSUME NEW c \in calls,
             \/ c.kind \in {"history", "forget", "launch"} /\ HostHandles(c)
             \/ \E ok \in BOOLEAN : ConfigLands(c, ok) \/ ChildrenLand(c, ok) \/ ForgetLands(c, ok) \/ Launched(c, ok)
             \/ \E failing \in SUBSET roots : HistoryLands(c, failing)
      PROVE  AtHome'
  <2>1. target' = target
    BY <1>2 DEF HostHandles, ConfigLands, ChildrenLand, ForgetLands, Launched, HistoryLands, Answered
  <2>2. UNCHANGED <<place, carried, chosen>> \/ \E cs : Settled(cs)
    BY <1>2 DEF HostHandles, ConfigLands, ChildrenLand, ForgetLands, Launched, HistoryLands, Answered,
                Discard, picker
  <2> QED
    BY <1>0, <1>1, <2>1, <2>2, SettledHome
<1>3. CASE Drill \/ GoUp \/ crumbs \/ Places
  BY <1>3, MovesHome
<1>4. CASE (\E by \in -1 .. 1 : Highlight(by)) \/ (\E f \in Needles : SetFilter(f))
  BY <1>1, <1>4 DEF Highlight, SetFilter, Browse
<1>5. CASE \/ \E i \in DOMAIN flat : flat[i].kind = "recent" /\ forget(flat[i].at)
           \/ \E p \in {flat[i].at : i \in DOMAIN flat} \cup place : launch(p)
  BY <1>1, <1>5 DEF forget, launch, Browse, picker
<1>6. CASE OpenPicker \/ ClosePicker \/ \E h \in Host : \E t \in ToSet(ToolsOf[h]) : selectTool(t)
  <2>1. target' = target /\ \E cs : Settled(cs)
    BY <1>6 DEF OpenPicker, ClosePicker, selectTool
  <2> QED
    BY <1>0, <2>1, SettledHome
<1>7. CASE \E h \in Host : selectServer(h) \/ RemoveHost(h)
  <2>1. target' = target /\ \E cs : Settled(cs)
    BY <1>7 DEF selectServer, Picked, RemoveHost
  <2> QED
    BY <1>0, <2>1, SettledHome
<1>8. CASE UNCHANGED launcherVars
  BY <1>1, <1>8 DEF launcherVars, picker
<1> QED
  BY <1>2, <1>3, <1>4, <1>5, <1>6, <1>7, <1>8 DEF LauncherNext

\* A launcher has the shape its type invariant says: the tool chosen is one of the
\* chosen server's, its history names no place twice, and whatever it shows, asks about
\* or remembers is a place (useSessionLauncher.ts, DirPicker.tsx).
THEOREM LauncherTypeCorrect == LauncherSpec => []LauncherTypeOK
<1>1. LauncherInv /\ LauncherShape /\ AtHome => LauncherTypeOK
  <2> SUFFICES ASSUME LauncherInv, LauncherShape, AtHome PROVE LauncherTypeOK
    OBVIOUS
  <2>1. hosts \subseteq Host /\ chosen \in Host /\ config \in Host \cup {Nowhere}
    BY ConfigIn DEF LauncherInv, HostsFit
  <2>2. history \in Seq(Place) /\ IsInjective(history)
    BY DEF LauncherShape, ListsHave, PlaceLists
  <2>3. ToSet(history) \subseteq Place
    BY <2>2 DEF ToSet
  <2>4. Cardinality(place) <= 1
    BY OneOrNone DEF LauncherInv, PickerFits, AtMostOne
  <2>5. \A c \in calls : c.host \in Host /\ c.at \subseteq Place
    <3>1. \A c \in calls : CallShape(c) /\ CallHas(c)
      BY DEF LauncherInv, CallsFit, CallFits, LauncherShape, CallsHave
    <3> QED
      BY <3>1 DEF CallShape, CallHas
  <2> QED
    BY <2>1, <2>2, <2>3, <2>4, <2>5 DEF LauncherTypeOK, LauncherShape, PickerHas, ToolFits, FlagsFit, AtHome
<1> QED
  BY <1>1, LauncherStarts, LauncherSteps, ShapeStarts, ShapeSteps, HomeStarts, HomeSteps, PTL DEF LauncherSpec

\* The picker offers nothing of another server, whatever answers land after the server
\* is changed, but for the place a picker left open carries over (DirPicker.tsx).
THEOREM OffersOnlyItsOwn == LauncherSpec => []NothingOfAnotherServer
<1>1. LauncherInv /\ AtHome => NothingOfAnotherServer
  <2> SUFFICES ASSUME LauncherInv, AtHome PROVE NothingOfAnotherServer
    OBVIOUS
  <2>1. \A p \in Known(chosen) : <<chosen, p>> \in ever
    BY DEF Known
  <2>2. \A p \in ToSet(history) : <<chosen, p>> \in ever
    BY <2>1 DEF LauncherInv, ModelFits, ToSet
  <2>3. config \in {Nowhere, chosen}
    BY DEF LauncherInv, ModelFits
  <2>4. \A p \in place :
          /\ carried \/ p.dirId \in DOMAIN RootPath[chosen]
          /\ childrenOf = place =>
               \/ children \in {<<>>, ChildrenOf(chosen, p)}
               \/ carried /\ \E c \in calls : c.kind = "children" /\ ~c.stale /\ c.host = chosen /\ c.at = place
    BY DEF LauncherInv, AtHome, PickerFits, NamesFit, AskedOf
  <2> QED
    BY <2>2, <2>3, <2>4 DEF NothingOfAnotherServer
<1> QED
  BY <1>1, LauncherStarts, LauncherSteps, ShapeStarts, ShapeSteps, HomeStarts, HomeSteps, PTL DEF LauncherSpec

-----------------------------------------------------------------------------
(* The composition *)

\* A component begins as its own module says, moving or at rest.
LEMMA ComponentsStart ==
  ASSUME PartsInit
  PROVE  /\ MobileInit /\ ReaderInit /\ LauncherInit /\ SettingsInit
         /\ ShellInit /\ TerminalInit /\ PkiInit /\ GridInit
BY DEF PartsInit

\* A step of the whole is, for each component, one of its own or none.
LEMMA ComponentsStep ==
  ASSUME [PartsNext]_partsVars
  PROVE  /\ [MobileNext]_mobileVars /\ [ReaderNext]_readerVars /\ [LauncherNext]_launcherVars
         /\ [ShellNext]_shellVars /\ [TerminalNext]_terminalVars /\ [PkiNext]_pkiVars
         /\ [SettingsNext]_settingsVars /\ [GridNext]_gridVars
<1>1. CASE UNCHANGED partsVars
  BY <1>1 DEF partsVars
<1>2. CASE PartsNext
  BY <1>2 DEF PartsNext
<1> QED
  BY <1>1, <1>2

\* So each component behaves, in the whole, as its own specification says.
LEMMA ComponentsBehave ==
  PartsSpec => /\ GridSpec /\ MobileSpec /\ ReaderSpec /\ LauncherSpec
               /\ SettingsSpec /\ ShellSpec /\ TerminalSpec /\ PkiSpec
<1>1. PartsSpec => GridSpec
  BY ComponentsStart, ComponentsStep, PTL DEF PartsSpec, GridSpec
<1>2. PartsSpec => MobileSpec
  BY ComponentsStart, ComponentsStep, PTL DEF PartsSpec, MobileSpec
<1>3. PartsSpec => ReaderSpec
  BY ComponentsStart, ComponentsStep, PTL DEF PartsSpec, ReaderSpec
<1>4. PartsSpec => LauncherSpec
  BY ComponentsStart, ComponentsStep, PTL DEF PartsSpec, LauncherSpec
<1>5. PartsSpec => SettingsSpec
  BY ComponentsStart, ComponentsStep, PTL DEF PartsSpec, SettingsSpec
<1>6. PartsSpec => ShellSpec
  BY ComponentsStart, ComponentsStep, PTL DEF PartsSpec, ShellSpec
<1>7. PartsSpec => TerminalSpec
  BY ComponentsStart, ComponentsStep, PTL DEF PartsSpec, TerminalSpec
<1>8. PartsSpec => PkiSpec
  BY ComponentsStart, ComponentsStep, PTL DEF PartsSpec, PkiSpec
<1> QED
  BY <1>1, <1>2, <1>3, <1>4, <1>5, <1>6, <1>7, <1>8

\* What belongs to one server is never offered, but by a picker left open while another
\* server is chosen (DirPicker.tsx:76-77), nor is its token sent (servers.ts), for
\* another, in the page as a whole.
THEOREM ServersApart == PartsSpec => []ServersKeepApart
<1>1. NothingOfAnotherServer /\ TokensStayHome => ServersKeepApart
  BY DEF ServersKeepApart
<1> QED
  BY <1>1, ComponentsBehave, OffersOnlyItsOwn, TokensOnlyGoHome, PTL

\* Of the page as a whole hold the invariants of its components: a text reader that
\* waits has a request out (PaneTextReader.tsx), the settings page shows what the
\* daemon stores (SettingsPage.tsx) and a terminal says a session ended only when it did
\* (TerminalTile.tsx), each but for what it names, and the daemon's certificates fit
\* and hold (internal/pki).
THEOREM WholePage ==
  PartsSpec => [](/\ LoadingEnds /\ ScreenFollowsDaemon /\ EndIsTrue
                 /\ FilesFit /\ CacheFollowsDisk /\ ServesUnexpired)
BY ComponentsBehave, WaitsForALoad, ScreenFollows, SaysTheEndTruly, EnsureFits, ReloaderFollows,
   ServesWhatHolds, PTL

\* And so do what its components' steps may never do: lose a tile nobody asked to
\* remove, disturb tiles that a filter hides, drop a tile elsewhere than on the one it was
\* dropped on (GridPage.tsx), jump to another session on a phone (MobileSessionView.tsx),
\* show an older text (PaneTextReader.tsx), or wait for nobody (useSessionLauncher.ts,
\* DirPicker.tsx).
THEOREM WholePageSteps ==
  PartsSpec => /\ TilesGoByIntent /\ HiddenTilesStay /\ DropSwapsTheTwo
               /\ StaysOnSession /\ TextNeverGoesBack /\ LoadingIsAnswered
BY ComponentsBehave, GoByIntent, HiddenStay, DropSwaps, LoadingAnswered, KeepsTheSession, NeverGoesBack, PTL

\* Which component moves does not change.
LEMMA PartKept == PartsSpec => [](part \in Component)
<1>1. PartsInit => part \in Component
  BY DEF PartsInit
<1>2. part \in Component /\ [PartsNext]_partsVars => (part \in Component)'
  BY DEF PartsNext, partsVars
<1> QED
  BY <1>1, <1>2, PTL DEF PartsSpec

\* The state of every component keeps its types, whichever moves: the grid, the mobile
\* view, the text reader, the launcher, the settings page, the shell, the terminals
\* (web/src) and the private CA (internal/pki).
THEOREM TypesFit == PartsSpec => []PartsTypeOK
<1>1. /\ part \in Component /\ GridTypeOK /\ MobileTypeOK /\ ReaderTypeOK /\ LauncherTypeOK
      /\ SettingsTypeOK /\ ShellTypeOK /\ TerminalTypeOK /\ PkiTypeOK
      => PartsTypeOK
  BY DEF PartsTypeOK
<1> QED
  BY <1>1, PartKept, ComponentsBehave, GridTypeCorrect, MobileTypeCorrect, ReaderTypeCorrect, LauncherTypeCorrect,
     SettingsTypeCorrect, ShellTypeCorrect, TerminalTypeCorrect, PkiTypeCorrect, PTL
=============================================================================
