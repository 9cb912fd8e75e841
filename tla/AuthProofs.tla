----------------------------- MODULE AuthProofs -----------------------------
(***************************************************************************)
(* The safety of Auth for every number of requests, passkeys, tokens and   *)
(* tries, and every length of the expiry.                                  *)
(***************************************************************************)
EXTENDS Auth, FiniteSetTheorems, TLAPS

\* A challenge is the registration under way, or one request is about to store an
\* answer to it, or it has one: no two of these.
Ceremonies ==
  /\ reg <= issued
  /\ \A r \in Req : req[r].answers <= issued
  /\ \A c \in Challenge : answered[c] # {} => c <= issued /\ c # reg
  /\ \A r \in Req : req[r].at = "add" =>
       /\ req[r].answers \in Challenge /\ req[r].answers # reg
       /\ answered[req[r].answers] = {}
  /\ \A r, q \in Req : req[r].at = "add" /\ req[q].at = "add" /\ req[r].answers = req[q].answers => r = q
  /\ \A c \in Challenge : \A k, l \in answered[c] : k = l

\* A code there is counts the wrong ones, and setup is pending or being completed.
Codes ==
  code # "none" =>
    /\ wrong = tries
    /\ creds = {} \/ \E r \in Req : req[r].at = "clear"

\* A token outlives its last use by the threshold, and a request knows an expiry no later
\* than it has: both unless a slow slide has set it back.
Tokens ==
  /\ \A t \in Token : Live(t) => t \in minted
  /\ \A t \in Token : Live(t) /\ t \notin setBack => used[t] + SlideBelow <= expires[t]
  /\ \A r \in Req : req[r].at \in {"token", "read", "expired", "touch"} => req[r].token \in minted
  /\ \A r \in Req : req[r].at \in {"read", "expired"} /\ Live(req[r].token) /\ req[r].token \notin setBack
       => req[r].row <= expires[req[r].token]
  /\ \A r \in Req : req[r].at = "expired" => req[r].row < now

\* A request that deletes a passkey has counted two or more.
Counted == \A r \in Req : req[r].at = "delete" => Cardinality(req[r].keys) > 1

IInv == TypeOK /\ Ceremonies /\ Codes /\ Tokens /\ Counted

----------------------------------------------------------------------------
(* Steps *)

\* The steps of one request, and those of none.
ReqStep(r) ==
  \/ \E c \in 0 .. MaxChallenges :
       \/ SetupRequest(r, "setupBegin", 0) \/ SetupRequest(r, "setupFinish", c) \/ LoginRequest(r, c)
       \/ \E t \in Token :
            \/ ProtectedRequest(r, "finish", t, c)
            \/ \E then \in {"none", "begin", "session", "count", "revoke"} :
                 ProtectedRequest(r, then, t, 0)
  \/ RightCode(r) \/ WrongCode(r) \/ BeginRegistration(r) \/ FinishRegistration(r)
  \/ ClearSetupCode(r) \/ FinishLogin(r) \/ VerifyLogin(r) \/ GetAuthSession(r) \/ ReadClock(r) \/ TouchAuthSession(r)
  \/ DeleteExpired(r) \/ CountCredentials(r) \/ Fail(r)
  \/ \E k \in Passkey : AddCredential(r, k) \/ DeleteCredential(r, k)
  \/ \E t \in Token : CreateSession(r, t) \/ DeleteAuthSession(r, t)

LEMMA NextCases ==
  ASSUME [Next]_vars
  PROVE  \/ \E r \in Req : ReqStep(r)
         \/ BeginLogin \/ CodeExpires \/ Sweep \/ ResetAuth \/ Restart \/ TimePasses
         \/ UNCHANGED vars
BY BoundsAssumption DEF Next, Arrives, ReqStep, Challenge

LEMMA Zeros == 0 \in 0 .. MaxChallenges /\ 0 \in 0 .. MaxTime /\ 0 \in 0 .. MaxTime + TTL
BY BoundsAssumption

\* A request's readings are numbers.
LEMMA ReadingsType ==
  ASSUME NEW q \in Request
  PROVE  q.row \in 0 .. MaxTime + TTL /\ q.row \in Int /\ q.asOf \in 0 .. MaxTime /\ q.asOf \in Int
<1>1. q.row \in 0 .. MaxTime + TTL /\ q.asOf \in 0 .. MaxTime
  BY DEF Request
<1> QED
  BY <1>1, BoundsAssumption

\* A request that arrives.
Arrival(r) ==
  /\ req[r] = Idle
  /\ \E q \in Request :
       /\ q.at \in {"setupBegin", "setupFinish", "loginFinish", "token"}
       /\ q.answers <= issued
       /\ q.at = "token" => q.token \in minted
       /\ req' = [req EXCEPT ![r] = q]
  /\ UNCHANGED <<tables, manager, issued, minted, now, history>>

\* The steps of a request by what they do.
Steps(r) ==
  \/ Arrival(r)
  \/ RightCode(r) \/ WrongCode(r) \/ BeginRegistration(r) \/ FinishRegistration(r)
  \/ ClearSetupCode(r) \/ FinishLogin(r) \/ VerifyLogin(r) \/ GetAuthSession(r) \/ ReadClock(r) \/ TouchAuthSession(r)
  \/ DeleteExpired(r) \/ CountCredentials(r) \/ Fail(r)
  \/ \E k \in Passkey : AddCredential(r, k) \/ DeleteCredential(r, k)
  \/ \E t \in Token : CreateSession(r, t) \/ DeleteAuthSession(r, t)

LEMMA Arrivals == ASSUME TypeOK, NEW r \in Req, ReqStep(r) PROVE Steps(r)
<1> USE BoundsAssumption
<1>1. ASSUME NEW c \in 0 .. MaxChallenges, NEW at \in {"setupBegin", "setupFinish"},
             SetupRequest(r, at, c)
      PROVE  Arrival(r)
  <2> DEFINE q == [Idle EXCEPT !.at = at, !.setup = TRUE, !.answers = c]
  <2>1. q \in Request /\ q.at = at /\ q.answers = c
    BY Zeros DEF Idle, Request
  <2> QED
    BY <1>1, <2>1 DEF SetupRequest, Arrival
<1>2. ASSUME NEW c \in 0 .. MaxChallenges, LoginRequest(r, c) PROVE Arrival(r)
  <2> DEFINE q == [Idle EXCEPT !.at = "loginFinish", !.answers = c]
  <2>1. q \in Request /\ q.at = "loginFinish" /\ q.answers = c
    BY Zeros DEF Idle, Request
  <2> QED
    BY <1>2, <2>1 DEF LoginRequest, Arrival
<1>3. ASSUME NEW c \in 0 .. MaxChallenges, NEW t \in Token,
             NEW then \in {"none", "begin", "finish", "session", "count", "revoke"},
             ProtectedRequest(r, then, t, c)
      PROVE  Arrival(r)
  <2> DEFINE q == [Idle EXCEPT !.at = "token", !.token = t, !.then = then, !.answers = c]
  <2>1. q \in Request /\ q.at = "token" /\ q.answers = c /\ q.token = t
    BY Zeros DEF Idle, Request
  <2> QED
    BY <1>3, <2>1 DEF ProtectedRequest, Arrival
<1>4. 0 \in 0 .. MaxChallenges
  BY Zeros
<1>5. ASSUME NEW c \in 0 .. MaxChallenges,
             \/ SetupRequest(r, "setupBegin", 0) \/ SetupRequest(r, "setupFinish", c)
             \/ LoginRequest(r, c)
             \/ \E t \in Token :
                  \/ ProtectedRequest(r, "finish", t, c)
                  \/ \E then \in {"none", "begin", "session", "count", "revoke"} :
                       ProtectedRequest(r, then, t, 0)
      PROVE  Arrival(r)
  <2>1. CASE SetupRequest(r, "setupBegin", 0) \/ SetupRequest(r, "setupFinish", c)
    BY <2>1, <1>1, <1>4
  <2>2. CASE LoginRequest(r, c)
    BY <2>2, <1>2
  <2>3. ASSUME NEW t \in Token,
               \/ ProtectedRequest(r, "finish", t, c)
               \/ \E then \in {"none", "begin", "session", "count", "revoke"} :
                    ProtectedRequest(r, then, t, 0)
        PROVE  Arrival(r)
    BY <2>3, <1>3, <1>4
  <2> QED
    BY <1>5, <2>1, <2>2, <2>3
<1> QED
  BY <1>5 DEF ReqStep, Steps

LEMMA IdleType == Idle \in Request
BY Zeros DEF Idle, Request

LEMMA IdleFields == Idle.at = "none" /\ Idle.answers = 0 /\ [Idle EXCEPT !.at = "session"].at = "session"
BY DEF Idle

LEMMA ClearRequestType ==
  ASSUME NEW p \in Request PROVE [p EXCEPT !.at = "clear", !.answers = 0] \in Request
BY Zeros DEF Request

LEMMA Updates ==
  ASSUME NEW p \in Request, NEW S
  PROVE  /\ [p EXCEPT !.at = "delete", !.keys = S].keys = S
         /\ [p EXCEPT !.at = "delete", !.keys = S].at = "delete"
         /\ [p EXCEPT !.at = "delete", !.keys = S].answers = p.answers
         /\ [p EXCEPT !.at = "clear", !.answers = 0].at = "clear"
         /\ [p EXCEPT !.at = "clear", !.answers = 0].answers = 0
BY DEF Request

\* What ValidateToken has read of the token's row, and of the clock.
KnowsRow(p, row) == [p EXCEPT !.at = "read", !.row = row]
KnowsClock(p, asOf) == [p EXCEPT !.at = "touch", !.row = 0, !.asOf = asOf]

LEMMA Readings ==
  ASSUME NEW p \in Request, NEW row \in 0 .. MaxTime + TTL, NEW asOf \in 0 .. MaxTime
  PROVE  /\ KnowsRow(p, row) \in Request /\ KnowsClock(p, asOf) \in Request
         /\ KnowsRow(p, row).at = "read" /\ KnowsRow(p, row).answers = p.answers
         /\ KnowsRow(p, row).token = p.token /\ KnowsRow(p, row).row = row
         /\ KnowsClock(p, asOf).at = "touch" /\ KnowsClock(p, asOf).answers = p.answers
         /\ KnowsClock(p, asOf).token = p.token
BY Zeros DEF Request, KnowsRow, KnowsClock

LEMMA RequestType ==
  ASSUME TypeOK, Tokens, NEW r \in Req, Steps(r)
  PROVE  req' \in [Req -> Request]
<1> USE BoundsAssumption, IdleType DEF TypeOK
<1> DEFINE Reqs == [Req -> Request]
<1>1. CASE Arrival(r)
  BY <1>1 DEF Arrival
<1>2. \A at \in {"begin", "finish", "verify", "add", "expired", "touch", "clear"} : To(r, at) \in Reqs
  BY DEF To, Request
<1>3. Answered(r) \in Reqs /\ Served(r) \in Reqs
  BY DEF Answered, Served, Request, Idle
<1>4. \A at \in {"session"} : [req EXCEPT ![r] = [Idle EXCEPT !.at = at]] \in Reqs
  BY DEF Request, Idle
<1>5. CASE RightCode(r) \/ WrongCode(r) \/ BeginRegistration(r) \/ FinishRegistration(r) \/ FinishLogin(r)
  BY <1>2, <1>3, <1>5 DEF RightCode, WrongCode, BeginRegistration, FinishRegistration, FinishLogin
<1>6. CASE ClearSetupCode(r) \/ VerifyLogin(r)
  BY <1>3, <1>4, <1>6 DEF ClearSetupCode, VerifyLogin
<1>7. CASE GetAuthSession(r) \/ ReadClock(r) \/ TouchAuthSession(r)
  <2>1. req[r] \in Request /\ now \in 0 .. MaxTime
    OBVIOUS
  <2>2. CASE GetAuthSession(r)
    <3>1. req' = Answered(r) \/ (Live(req[r].token) /\ req' = [req EXCEPT ![r] = KnowsRow(req[r], expires[req[r].token])])
      BY <2>2 DEF GetAuthSession, KnowsRow
    <3>2. CASE Live(req[r].token) /\ req' = [req EXCEPT ![r] = KnowsRow(req[r], expires[req[r].token])]
      <4>1. expires[req[r].token] \in 0 .. MaxTime + TTL
        <5>1. req[r].token \in Token /\ minted \subseteq Token
          BY <2>2 DEF GetAuthSession, Tokens
        <5> QED
          BY <3>2, <5>1 DEF Live, NoSession
      <4> QED
        BY <2>1, <3>2, <4>1, Readings
    <3> QED
      BY <1>3, <3>1, <3>2
  <2>3. CASE ReadClock(r)
    <3>1. req' \in {Served(r), To(r, "expired"), [req EXCEPT ![r] = KnowsClock(req[r], now)]}
      BY <2>3 DEF ReadClock, KnowsClock
    <3>2. KnowsClock(req[r], now) \in Request
      BY <2>1, Readings, Zeros
    <3> QED
      BY <1>2, <1>3, <3>1, <3>2
  <2>4. CASE TouchAuthSession(r)
    BY <1>3, <2>4 DEF TouchAuthSession
  <2> QED
    BY <1>7, <2>2, <2>3, <2>4
<1>8. CASE DeleteExpired(r) \/ Fail(r)
  BY <1>3, <1>8 DEF DeleteExpired, Fail
<1>9. CASE CountCredentials(r)
  <2>1. req[r] \in Request /\ creds \in SUBSET Passkey
    OBVIOUS
  <2>2. [req[r] EXCEPT !.at = "delete", !.keys = creds] \in Request
    BY <2>1 DEF Request
  <2> QED
    BY <1>3, <1>9, <2>2 DEF CountCredentials
<1>10. ASSUME NEW k \in Passkey, AddCredential(r, k) \/ DeleteCredential(r, k)
      PROVE  req' \in Reqs
  <2> DEFINE q == [req[r] EXCEPT !.at = "clear", !.answers = 0]
  <2>1. q \in Request
    BY ClearRequestType, req[r] \in Request
  <2> QED
    <3>1. [req EXCEPT ![r] = q] \in Reqs
      BY <2>1
    <3>2. req' = Answered(r) \/ req' = [req EXCEPT ![r] = q]
      BY <1>10 DEF AddCredential, DeleteCredential
    <3> QED
      BY <1>3, <3>1, <3>2
<1>11. ASSUME NEW t \in Token, CreateSession(r, t) \/ DeleteAuthSession(r, t)
      PROVE  req' \in Reqs
  BY <1>3, <1>11 DEF CreateSession, DeleteAuthSession
<1> QED
  BY <1>1, <1>5, <1>6, <1>7, <1>8, <1>9, <1>10, <1>11 DEF Steps

Times ==
  /\ expires \in [Token -> {NoSession} \cup 0 .. MaxTime + TTL]
  /\ used \in [Token -> 0 .. MaxTime] /\ setBack \in SUBSET Token

LEMMA TimesType ==
  ASSUME TypeOK, Tokens, NEW r \in Req, Steps(r)
  PROVE  Times'
<1> USE BoundsAssumption DEF TypeOK, Times
<1>1. CASE Arrival(r) \/ RightCode(r) \/ WrongCode(r) \/ BeginRegistration(r) \/ FinishRegistration(r)
           \/ ClearSetupCode(r) \/ FinishLogin(r) \/ VerifyLogin(r) \/ CountCredentials(r) \/ Fail(r)
  BY <1>1 DEF Arrival, RightCode, WrongCode, BeginRegistration, FinishRegistration, ClearSetupCode,
              FinishLogin, VerifyLogin, CountCredentials, Fail, tables, manager, history
<1>2. CASE GetAuthSession(r) \/ ReadClock(r) \/ DeleteExpired(r)
  BY <1>2 DEF GetAuthSession, ReadClock, DeleteExpired, Used, Dropped, UsedKept, tables, history
<1>5. CASE TouchAuthSession(r)
  <2>1. req[r].token \in Token /\ req[r] \in Request
    BY <1>5 DEF TouchAuthSession, Tokens
  <2>2. req[r].asOf \in 0 .. MaxTime /\ req[r].asOf + TTL \in 0 .. MaxTime + TTL
    BY <2>1, ReadingsType
  <2> QED
    BY <1>5, <2>1, <2>2 DEF TouchAuthSession, Touched, Used
<1>3. ASSUME NEW k \in Passkey, AddCredential(r, k) \/ DeleteCredential(r, k) PROVE Times'
  BY <1>3 DEF AddCredential, DeleteCredential, history
<1>4. ASSUME NEW t \in Token, CreateSession(r, t) \/ DeleteAuthSession(r, t) PROVE Times'
  BY <1>4 DEF CreateSession, DeleteAuthSession, Dropped, UsedKept
<1> QED
  BY <1>1, <1>2, <1>3, <1>4, <1>5 DEF Steps

Counts ==
  /\ creds \in SUBSET Passkey /\ minted \in SUBSET Token
  /\ reg \in 0 .. MaxChallenges /\ login \in 0 .. MaxChallenges
  /\ issued \in 0 .. MaxChallenges /\ now \in 0 .. MaxTime
  /\ answered \in [Challenge -> SUBSET Passkey]

LEMMA CountsType ==
  ASSUME TypeOK, NEW r \in Req, Steps(r)
  PROVE  Counts'
<1> USE BoundsAssumption DEF TypeOK, Counts
<1>1. CASE Arrival(r) \/ RightCode(r) \/ WrongCode(r) \/ BeginRegistration(r) \/ FinishRegistration(r)
           \/ ClearSetupCode(r) \/ FinishLogin(r) \/ VerifyLogin(r) \/ CountCredentials(r) \/ Fail(r)
  BY <1>1 DEF Arrival, RightCode, WrongCode, BeginRegistration, FinishRegistration, ClearSetupCode,
              FinishLogin, VerifyLogin, CountCredentials, Fail, Taken, tables, manager, history
<1>2. CASE GetAuthSession(r) \/ ReadClock(r) \/ TouchAuthSession(r) \/ DeleteExpired(r)
  BY <1>2 DEF GetAuthSession, ReadClock, TouchAuthSession, DeleteExpired, tables, manager, marks, history
<1>3. ASSUME NEW k \in Passkey, AddCredential(r, k) \/ DeleteCredential(r, k) PROVE Counts'
  BY <1>3 DEF AddCredential, DeleteCredential, manager, history
<1>4. ASSUME NEW t \in Token, CreateSession(r, t) \/ DeleteAuthSession(r, t) PROVE Counts'
  BY <1>4 DEF CreateSession, DeleteAuthSession, manager, marks
<1> QED
  BY <1>1, <1>2, <1>3, <1>4 DEF Steps

Setup ==
  /\ code \in {"none", "valid", "expired"} /\ tries \in 0 .. MaxSetupTries - 1
  /\ wrong \in Nat /\ enrolled \in BOOLEAN

LEMMA SetupType ==
  ASSUME TypeOK, NEW r \in Req, Steps(r)
  PROVE  Setup'
<1> USE BoundsAssumption DEF TypeOK, Setup
<1>1. CASE Arrival(r) \/ RightCode(r) \/ BeginRegistration(r) \/ FinishRegistration(r)
           \/ FinishLogin(r) \/ VerifyLogin(r) \/ CountCredentials(r) \/ Fail(r)
  BY <1>1 DEF Arrival, RightCode, BeginRegistration, FinishRegistration,
              FinishLogin, VerifyLogin, CountCredentials, Fail, tables, manager, history
<1>2. CASE WrongCode(r) \/ ClearSetupCode(r)
  BY <1>2 DEF WrongCode, ClearSetupCode, LocksAt, Cleared
<1>3. CASE GetAuthSession(r) \/ ReadClock(r) \/ TouchAuthSession(r) \/ DeleteExpired(r)
  BY <1>3 DEF GetAuthSession, ReadClock, TouchAuthSession, DeleteExpired, manager, marks, history
<1>4. ASSUME NEW k \in Passkey, AddCredential(r, k) \/ DeleteCredential(r, k) PROVE Setup'
  BY <1>4 DEF AddCredential, DeleteCredential, manager, history
<1>5. ASSUME NEW t \in Token, CreateSession(r, t) \/ DeleteAuthSession(r, t) PROVE Setup'
  BY <1>5 DEF CreateSession, DeleteAuthSession, manager, marks
<1> QED
  BY <1>1, <1>2, <1>3, <1>4, <1>5 DEF Steps

LEMMA TypeStep == ASSUME TypeOK, Tokens, [Next]_vars PROVE TypeOK'
<1> USE BoundsAssumption, IdleType
<1>1. ASSUME NEW r \in Req, ReqStep(r) PROVE TypeOK'
  BY <1>1, Arrivals, RequestType, TimesType, CountsType, SetupType DEF TypeOK, Times, Counts, Setup
<1>2. CASE BeginLogin \/ CodeExpires \/ TimePasses \/ UNCHANGED vars
  BY <1>2 DEF TypeOK, BeginLogin, CodeExpires, TimePasses, vars, tables, manager, history
<1>3. CASE Sweep
  BY <1>3 DEF TypeOK, Sweep, UsedKept, manager, marks
<1>4. CASE ResetAuth
  <2>1. Setup' /\ req' \in [Req -> Request]
    BY <1>4 DEF ResetAuth, TypeOK, Setup, manager
  <2>2. Counts' /\ Times'
    BY <1>4 DEF ResetAuth, TypeOK, Counts, Times, UsedKept, manager
  <2> QED
    BY <2>1, <2>2 DEF TypeOK, Setup, Counts, Times
<1>5. CASE Restart
  <2>1. req' \in [Req -> Request]
    BY <1>5 DEF Restart
  <2>2. Setup'
    BY <1>5 DEF Restart, TypeOK, Setup
  <2>3. Counts' /\ Times'
    BY <1>5 DEF Restart, TypeOK, Counts, Times, tables
  <2> QED
    BY <2>1, <2>2, <2>3 DEF TypeOK, Setup, Counts, Times
<1> QED
  BY <1>1, <1>2, <1>3, <1>4, <1>5, NextCases

----------------------------------------------------------------------------
(* The invariant *)

LEMMA Spared == ASSUME TypeOK, Spare PROVE Cardinality(creds) > 1
BY DEF Spare

\* A request's step is its own.
LEMMA Others ==
  ASSUME TypeOK, NEW r \in Req, Steps(r)
  PROVE  \A x \in Req : x # r => req'[x] = req[x]
<1> USE DEF TypeOK
<1>1. CASE Arrival(r)
  BY <1>1 DEF Arrival
<1>2. CASE RightCode(r) \/ WrongCode(r) \/ BeginRegistration(r) \/ FinishRegistration(r)
  BY <1>2 DEF RightCode, WrongCode, BeginRegistration, FinishRegistration, To, Answered
<1>3. CASE ClearSetupCode(r) \/ FinishLogin(r) \/ VerifyLogin(r)
  BY <1>3 DEF ClearSetupCode, FinishLogin, VerifyLogin, To, Answered
<1>4. CASE GetAuthSession(r) \/ ReadClock(r) \/ TouchAuthSession(r)
  BY <1>4 DEF GetAuthSession, ReadClock, TouchAuthSession, Served, To, Answered
<1>5. CASE DeleteExpired(r) \/ CountCredentials(r) \/ Fail(r)
  BY <1>5 DEF DeleteExpired, CountCredentials, Fail, Answered
<1>6. ASSUME NEW k \in Passkey, AddCredential(r, k) \/ DeleteCredential(r, k)
      PROVE  \A x \in Req : x # r => req'[x] = req[x]
  BY <1>6 DEF AddCredential, DeleteCredential, Answered
<1>7. ASSUME NEW t \in Token, CreateSession(r, t) \/ DeleteAuthSession(r, t)
      PROVE  \A x \in Req : x # r => req'[x] = req[x]
  BY <1>7 DEF CreateSession, DeleteAuthSession, Answered
<1> QED
  BY <1>1, <1>2, <1>3, <1>4, <1>5, <1>6, <1>7 DEF Steps

RowRead(r) ==
  LET t == req[r].token IN Live(t) /\ req'[r] = KnowsRow(req[r], expires[t])

\* What each step makes of the request.
LEMMA Moves ==
  ASSUME TypeOK, NEW r \in Req
  PROVE  /\ Arrival(r) => req'[r].at \in {"setupBegin", "setupFinish", "loginFinish", "token"}
         /\ RightCode(r) => req' = To(r, "begin") \/ req' = To(r, "finish")
         /\ WrongCode(r) \/ BeginRegistration(r) \/ DeleteExpired(r) \/ Fail(r) => req'[r] = Idle
         /\ FinishRegistration(r) => req'[r] = Idle \/ (req' = To(r, "add") /\ reg # 0 /\ req[r].answers = reg)
         /\ FinishLogin(r) => req'[r] = Idle \/ req' = To(r, "verify")
         /\ ClearSetupCode(r) \/ VerifyLogin(r) => req'[r] = Idle \/ req'[r] = [Idle EXCEPT !.at = "session"]
         /\ GetAuthSession(r) => req'[r] = Idle \/ RowRead(r)
         /\ ReadClock(r) => \/ req' = Served(r) \/ req'[r] = KnowsClock(req[r], now)
                            \/ req' = To(r, "expired") /\ now > req[r].row
         /\ TouchAuthSession(r) => req' = Served(r)
         /\ \A k \in Passkey : DeleteCredential(r, k) => req'[r] = Idle
         /\ \A t \in Token : CreateSession(r, t) \/ DeleteAuthSession(r, t) => req'[r] = Idle
<1> USE DEF TypeOK
<1>1. Arrival(r) => req'[r].at \in {"setupBegin", "setupFinish", "loginFinish", "token"}
  BY DEF Arrival
<1>2. /\ RightCode(r) => req' = To(r, "begin") \/ req' = To(r, "finish")
      /\ WrongCode(r) \/ BeginRegistration(r) \/ DeleteExpired(r) \/ Fail(r) => req'[r] = Idle
  BY DEF RightCode, WrongCode, BeginRegistration, DeleteExpired, Fail, Answered
<1>3. FinishRegistration(r) => req'[r] = Idle \/ (req' = To(r, "add") /\ reg # 0 /\ req[r].answers = reg)
  BY DEF FinishRegistration, Answered
<1>4. /\ FinishLogin(r) => req'[r] = Idle \/ req' = To(r, "verify")
      /\ ClearSetupCode(r) \/ VerifyLogin(r) => req'[r] = Idle \/ req'[r] = [Idle EXCEPT !.at = "session"]
  BY DEF ClearSetupCode, FinishLogin, VerifyLogin, Answered
<1>5. GetAuthSession(r) => req'[r] = Idle \/ RowRead(r)
  <2>1. GetAuthSession(r) =>
          \/ req' = [req EXCEPT ![r] = Idle]
          \/ Live(req[r].token) /\ req' = [req EXCEPT ![r] = KnowsRow(req[r], expires[req[r].token])]
    BY DEF GetAuthSession, KnowsRow, Answered
  <2> QED
    BY <2>1 DEF RowRead
<1>8. ReadClock(r) => \/ req' = Served(r) \/ req'[r] = KnowsClock(req[r], now)
                      \/ req' = To(r, "expired") /\ now > req[r].row
  <2>1. ReadClock(r) => \/ req' = Served(r) \/ req' = [req EXCEPT ![r] = KnowsClock(req[r], now)]
                        \/ req' = To(r, "expired") /\ now > req[r].row
    BY DEF ReadClock, KnowsClock
  <2> QED
    BY <2>1
<1>6. TouchAuthSession(r) => req' = Served(r)
  BY DEF TouchAuthSession
<1>7. /\ \A k \in Passkey : DeleteCredential(r, k) => req'[r] = Idle
      /\ \A t \in Token : CreateSession(r, t) \/ DeleteAuthSession(r, t) => req'[r] = Idle
  BY DEF DeleteCredential, CreateSession, DeleteAuthSession, Answered
<1> QED
  BY <1>1, <1>2, <1>3, <1>4, <1>5, <1>6, <1>7, <1>8

LEMMA CountedStep == ASSUME TypeOK, TypeOK', Counted, [Next]_vars PROVE Counted'
<1> USE DEF Counted, TypeOK
<1>1. ASSUME NEW r \in Req, Steps(r) PROVE Counted'
  <2>1. \A x \in Req : x # r => req'[x] = req[x]
    BY <1>1, Others
  <2>2. req'[r].at = "delete" => Cardinality(req'[r].keys) > 1
    <3>1. CASE CountCredentials(r)
      <4>1. req'[r] = Idle \/ (Spare /\ req'[r] = [req[r] EXCEPT !.at = "delete", !.keys = creds])
        BY <3>1 DEF CountCredentials, Answered
      <4>2. CASE Spare /\ req'[r] = [req[r] EXCEPT !.at = "delete", !.keys = creds]
        <5>1. req'[r].keys = creds
          BY <4>2, Updates, req[r] \in Request
        <5> QED
          BY <4>2, <5>1, Spared
      <4> QED
        BY <4>1, <4>2, IdleFields
    <3>2. ASSUME NEW k \in Passkey, AddCredential(r, k) PROVE req'[r].at # "delete"
      <4>1. req'[r] = Idle \/ req'[r] = [req[r] EXCEPT !.at = "clear", !.answers = 0]
        BY <3>2 DEF AddCredential, Answered
      <4>2. req[r] \in Request
        OBVIOUS
      <4>3. [req[r] EXCEPT !.at = "clear", !.answers = 0].at # "delete"
        BY <4>2, Updates
      <4> QED
        BY <4>1, <4>3, IdleFields
    <3>3. req[r].then # "delete"
      BY DEF Request
    <3>4. Served(r)[r].at # "delete" /\ Idle.at # "delete"
      BY <3>3 DEF Served, Idle
    <3>5. \A at \in {"begin", "finish", "verify", "add", "expired", "touch"} : To(r, at)[r].at = at
      BY DEF To, Request
    <3>6. [Idle EXCEPT !.at = "session"].at # "delete"
      BY DEF Idle
    <3>7. \A row : KnowsRow(req[r], row).at # "delete" /\ KnowsClock(req[r], row).at # "delete"
      <4>1. req[r] \in Request
        OBVIOUS
      <4>2. \A row : \A p \in Request : KnowsRow(p, row).at = "read" /\ KnowsClock(p, row).at = "touch"
        BY ONLY Zenon DEF KnowsRow, KnowsClock, Request
      <4> QED
        BY <4>1, <4>2
    <3>8. CASE GetAuthSession(r) \/ ReadClock(r)
      BY <3>4, <3>5, <3>7, <3>8, Moves DEF RowRead
    <3> QED
      BY <1>1, <3>1, <3>2, <3>4, <3>5, <3>6, <3>8, Moves DEF Steps
  <2> QED
    BY <2>1, <2>2
<1>2. CASE BeginLogin \/ CodeExpires \/ Sweep \/ ResetAuth \/ TimePasses \/ UNCHANGED vars
  BY <1>2 DEF BeginLogin, CodeExpires, Sweep, ResetAuth, TimePasses, vars
<1>3. CASE Restart
  BY <1>3 DEF Restart, Idle
<1> QED
  BY <1>1, <1>2, <1>3, NextCases, Arrivals

LEMMA CodesStep == ASSUME TypeOK, TypeOK', Codes, [Next]_vars PROVE Codes'
<1> USE DEF Codes, TypeOK
<1>1. ASSUME NEW r \in Req, Steps(r) PROVE Codes'
  <2>1. CASE Arrival(r)
    <3>1. \A x \in Req : req[x].at = "clear" => req'[x] = req[x]
      BY <1>1, <2>1, Others, IdleFields DEF Arrival
    <3> QED
      BY <2>1, <3>1 DEF Arrival, tables, manager, history
  <2>2. CASE RightCode(r) \/ BeginRegistration(r) \/ FinishRegistration(r) \/ FinishLogin(r) \/ VerifyLogin(r)
    BY <2>2 DEF RightCode, BeginRegistration, FinishRegistration, FinishLogin, VerifyLogin,
                To, Answered, Idle, tables, manager, history
  <2>3. CASE WrongCode(r)
    BY <2>3 DEF WrongCode, Answered, LocksAt, tables
  <2>4. CASE ClearSetupCode(r)
    BY <2>4 DEF ClearSetupCode, Cleared
  <2>5. CASE GetAuthSession(r) \/ ReadClock(r) \/ TouchAuthSession(r) \/ DeleteExpired(r)
    <3>1. \A x \in Req : req[x].at = "clear" => req'[x] = req[x]
      BY <1>1, <2>5, Others DEF GetAuthSession, ReadClock, TouchAuthSession, DeleteExpired
    <3>2. UNCHANGED <<creds, code, wrong, tries>>
      BY <2>5 DEF GetAuthSession, ReadClock, TouchAuthSession, DeleteExpired, tables, manager, marks, history
    <3> QED
      BY <3>1, <3>2
  <2>6. CASE CountCredentials(r) \/ Fail(r)
    BY <2>6 DEF CountCredentials, Fail, Answered, Idle, tables, manager, history
  <2>7. ASSUME NEW k \in Passkey, AddCredential(r, k) \/ DeleteCredential(r, k) PROVE Codes'
    <3>1. CASE AddCredential(r, k)
      <4>1. CASE k \in creds
        <5>1. creds' = creds /\ code' = code /\ wrong' = wrong /\ tries' = tries
          BY <3>1, <4>1 DEF AddCredential, manager
        <5>2. \A x \in Req : req[x].at = "clear" => req'[x] = req[x]
          BY <1>1, <3>1, Others DEF AddCredential
        <5> QED
          BY <5>1, <5>2
      <4>2. CASE k \notin creds
        <5>1. code' = code /\ wrong' = wrong /\ tries' = tries
          BY <3>1, <4>2 DEF AddCredential, manager
        <5>2. req'[r] = [req[r] EXCEPT !.at = "clear", !.answers = 0]
          BY <3>1, <4>2 DEF AddCredential
        <5>3. req'[r].at = "clear"
          BY <5>2, Updates, req[r] \in Request
        <5> QED
          BY <5>1, <5>3
      <4> QED
        BY <4>1, <4>2
    <3>2. CASE DeleteCredential(r, k)
      <4>1. creds' \subseteq creds /\ code' = code /\ wrong' = wrong /\ tries' = tries
        BY <3>2 DEF DeleteCredential, manager, history
      <4>2. \A x \in Req : req[x].at = "clear" => req'[x] = req[x]
        BY <1>1, <3>2, Others DEF DeleteCredential
      <4> QED
        BY <4>1, <4>2
    <3> QED
      BY <2>7, <3>1, <3>2
  <2>8. ASSUME NEW t \in Token, CreateSession(r, t) \/ DeleteAuthSession(r, t) PROVE Codes'
    BY <2>8 DEF CreateSession, DeleteAuthSession, Answered, Idle, manager, marks
  <2> QED
    BY <1>1, <2>1, <2>2, <2>3, <2>4, <2>5, <2>6, <2>7, <2>8 DEF Steps
<1>2. CASE BeginLogin \/ CodeExpires \/ TimePasses \/ UNCHANGED vars
  BY <1>2 DEF BeginLogin, CodeExpires, TimePasses, vars, tables, manager, history
<1>3. CASE Sweep \/ ResetAuth
  BY <1>3 DEF Sweep, ResetAuth, manager, marks
<1>4. CASE Restart
  BY <1>4 DEF Restart, tables, SetupPending
<1> QED
  BY <1>1, <1>2, <1>3, <1>4, NextCases, Arrivals

\* What each step does to the tokens.
Rows ==
  \A t \in Token : Live(t)' =>
    /\ t \in minted'
    /\ t \notin setBack' => used'[t] + SlideBelow <= expires'[t]
    /\ \/ Live(t) /\ (t \notin setBack' => t \notin setBack /\ expires[t] <= expires'[t])
       \/ t \notin minted

LEMMA TokenRows ==
  ASSUME TypeOK, Tokens, NEW r \in Req, Steps(r)
  PROVE  now' = now /\ minted \subseteq minted' /\ Rows
<1> DEFINE Goal == now' = now /\ minted \subseteq minted' /\ Rows
<1> USE BoundsAssumption DEF TypeOK, Tokens, Live, NoSession, Rows
<1>1. CASE UNCHANGED <<expires, minted, now, used, setBack>>
  BY <1>1
<1>2. CASE ReadClock(r)
  <2> DEFINE t == req[r].token
  <2>1. UNCHANGED <<expires, minted, now, setBack>> /\ req[r].at = "read" /\ t \in Token
    BY <1>2 DEF ReadClock, tables
  <2>2. CASE used' = used
    BY <2>1, <2>2
  <2>3. CASE used' = Used(t, now) /\ ~Slides(req[r].row)
    <3>1. \A u \in Token : u # t => used'[u] = used[u]
      BY <2>3 DEF Used
    <3>2. Live(t) => used'[t] = now \/ used'[t] = used[t]
      BY <2>1, <2>3 DEF Used
    <3>3. req[r].row \in Int
      BY ReadingsType, req[r] \in Request
    <3>4. Live(t) /\ t \notin setBack => now + SlideBelow <= expires[t]
      BY <2>1, <2>3, <3>3 DEF Slides
    <3> QED
      BY <2>1, <3>1, <3>2, <3>4
  <2> QED
    BY <1>2, <2>2, <2>3 DEF ReadClock
<1>3. CASE TouchAuthSession(r)
  <2> DEFINE t == req[r].token
             asOf == req[r].asOf
  <2>1. UNCHANGED <<minted, now>> /\ t \in Token
    BY <1>3 DEF TouchAuthSession, manager
  <2>2. asOf \in 0 .. MaxTime
    BY ReadingsType, req[r] \in Request
  <2> HIDE DEF asOf
  <2>3. CASE Live(t)
    <3>1. expires' = [expires EXCEPT ![t] = asOf + TTL]
      BY <1>3, <2>1, <2>3 DEF TouchAuthSession, Touched, asOf
    <3>2. (\A u \in Token : u # t => used'[u] = used[u]) /\ (used'[t] = asOf \/ used'[t] = used[t])
      BY <1>3, <2>1, <2>3 DEF TouchAuthSession, Used, asOf
    <3>3. setBack' = IF asOf + TTL < expires[t] THEN setBack \cup {t} ELSE setBack
      BY <1>3, <2>1, <3>1 DEF TouchAuthSession
    <3> QED
      BY <2>1, <2>2, <2>3, <3>1, <3>2, <3>3
  <2>4. CASE ~Live(t)
    <3>1. used' = used /\ expires' = expires
      BY <1>3, <2>1, <2>4 DEF TouchAuthSession, Touched, Used
    <3>2. setBack' = setBack
      BY <1>3, <3>1 DEF TouchAuthSession
    <3> QED
      BY <2>1, <3>1, <3>2
  <2> QED
    BY <2>3, <2>4
<1>4. ASSUME NEW t \in Token, expires' = Dropped(t), UsedKept, UNCHANGED <<minted, now>> PROVE Goal
  BY <1>4 DEF Dropped, UsedKept
<1>5. ASSUME NEW t \in Token, CreateSession(r, t) PROVE Goal
  BY <1>5 DEF CreateSession, manager
<1>6. CASE DeleteExpired(r)
  <2>1. req[r].token \in Token
    BY <1>6 DEF DeleteExpired
  <2> QED
    BY <1>4, <1>6, <2>1 DEF DeleteExpired
<1>7. ASSUME NEW t \in Token, DeleteAuthSession(r, t) PROVE Goal
  BY <1>4, <1>7 DEF DeleteAuthSession
<1>8. CASE Arrival(r) \/ RightCode(r) \/ WrongCode(r) \/ BeginRegistration(r) \/ FinishRegistration(r)
           \/ ClearSetupCode(r) \/ FinishLogin(r) \/ VerifyLogin(r) \/ CountCredentials(r) \/ Fail(r)
           \/ GetAuthSession(r)
  <2>1. UNCHANGED <<expires, minted, now, used, setBack>>
    BY <1>8 DEF Arrival, RightCode, WrongCode, BeginRegistration, FinishRegistration, ClearSetupCode,
                FinishLogin, VerifyLogin, CountCredentials, Fail, GetAuthSession, tables, history
  <2> QED
    BY <1>1, <2>1
<1>9. ASSUME NEW k \in Passkey, AddCredential(r, k) \/ DeleteCredential(r, k) PROVE Goal
  <2>1. UNCHANGED <<expires, minted, now, used, setBack>>
    BY <1>9 DEF AddCredential, DeleteCredential, history
  <2> QED
    BY <1>1, <2>1
<1> QED
  BY <1>2, <1>3, <1>5, <1>6, <1>7, <1>8, <1>9 DEF Steps

\* What each step knows of its token.
WithToken == {"token", "read", "expired", "touch"}
Known(q) ==
  /\ q.at \in WithToken => q.token \in minted
  /\ q.at \in {"read", "expired"} =>
       /\ UNCHANGED <<expires, setBack>>
       /\ Live(q.token) /\ q.token \notin setBack => q.row <= expires[q.token]
  /\ q.at = "expired" => q.row < now

LEMMA TokenKnown ==
  ASSUME TypeOK, Tokens, NEW r \in Req, Steps(r)
  PROVE  Known(req'[r])
<1>1. CASE Arrival(r)
  BY <1>1 DEF Arrival, TypeOK, Known, WithToken
<1>2. CASE req'[r].at \notin WithToken
  BY <1>2 DEF Known, WithToken
<1>3. req[r] \in Request /\ now \in 0 .. MaxTime
  BY DEF TypeOK
<1>4. \A at \in {"begin", "finish", "verify", "add", "expired", "touch"} :
        To(r, at)[r].at = at /\ To(r, at)[r].token = req[r].token /\ To(r, at)[r].row = req[r].row
  BY <1>3 DEF To, Request, TypeOK
<1>5. Served(r)[r].at \notin WithToken
  BY <1>3 DEF Served, Request, Idle, TypeOK, WithToken
<1>6. CASE GetAuthSession(r)
  <2>1. req[r].at = "token" /\ UNCHANGED <<expires, setBack>> /\ req[r].token \in minted
    BY <1>6 DEF GetAuthSession, Tokens, tables, history
  <2>2. CASE req'[r] = Idle
    BY <1>2, <2>2, IdleFields DEF WithToken
  <2>3. CASE RowRead(r)
    <3> DEFINE t == req[r].token
    <3>1. Live(t) /\ req'[r] = KnowsRow(req[r], expires[t])
      BY <2>3 DEF RowRead
    <3>2. expires[t] \in 0 .. MaxTime + TTL
      BY <2>1, <3>1 DEF TypeOK, Live, NoSession
    <3>3. req'[r].at = "read" /\ req'[r].token = t /\ req'[r].row = expires[t]
      BY <1>3, <3>1, <3>2, Readings
    <3> QED
      BY <2>1, <3>2, <3>3, BoundsAssumption DEF Known, WithToken
  <2> QED
    BY <1>6, <2>2, <2>3, Moves
<1>13. CASE ReadClock(r)
  <2>1. req[r].at = "read" /\ UNCHANGED <<expires, setBack>> /\ req[r].token \in minted
    BY <1>13 DEF ReadClock, Tokens, tables
  <2>2. CASE req' = Served(r)
    BY <1>2, <1>5, <2>2
  <2>3. CASE req'[r] = KnowsClock(req[r], now)
    <3>1. req'[r].at = "touch" /\ req'[r].token = req[r].token
      BY <1>3, <2>3, Readings, Zeros
    <3> QED
      BY <2>1, <3>1 DEF Known
  <2>4. CASE req' = To(r, "expired") /\ now > req[r].row
    <3>1. req'[r].at = "expired" /\ req'[r].token = req[r].token /\ req'[r].row = req[r].row
      BY <1>4, <2>4
    <3>2. req[r].row \in Int
      BY <1>3, ReadingsType
    <3> QED
      BY <1>3, <2>1, <2>4, <3>1, <3>2, BoundsAssumption DEF Known, Tokens
  <2> QED
    BY <1>13, <2>2, <2>3, <2>4, Moves
<1>7. ASSUME NEW k \in Passkey, AddCredential(r, k) PROVE Known(req'[r])
  <2>1. req'[r] = Idle \/ req'[r] = [req[r] EXCEPT !.at = "clear", !.answers = 0]
    BY <1>7 DEF AddCredential, Answered, TypeOK
  <2>2. req'[r].at \in {"none", "clear"}
    BY <1>3, <2>1, IdleFields, Updates
  <2> QED
    BY <1>2, <2>2 DEF WithToken
<1>8. CASE CountCredentials(r)
  <2>1. req'[r] = Idle \/ req'[r] = [req[r] EXCEPT !.at = "delete", !.keys = creds]
    BY <1>8 DEF CountCredentials, Answered, TypeOK
  <2>2. [req[r] EXCEPT !.at = "delete", !.keys = creds].at = "delete"
    BY <1>3, Updates
  <2>3. req'[r].at \notin WithToken
    BY <2>1, <2>2, IdleFields DEF WithToken
  <2> QED
    BY <1>2, <2>3
<1>9. CASE RightCode(r) \/ FinishRegistration(r) \/ FinishLogin(r) \/ TouchAuthSession(r)
  BY <1>2, <1>4, <1>5, <1>9, Moves, IdleFields DEF WithToken
<1>10. CASE WrongCode(r) \/ BeginRegistration(r) \/ DeleteExpired(r) \/ Fail(r)
            \/ ClearSetupCode(r) \/ VerifyLogin(r)
  BY <1>2, <1>10, Moves, IdleFields DEF WithToken
<1>11. ASSUME NEW k \in Passkey, DeleteCredential(r, k) PROVE Known(req'[r])
  BY <1>2, <1>11, Moves, IdleFields DEF WithToken
<1>12. ASSUME NEW t \in Token, CreateSession(r, t) \/ DeleteAuthSession(r, t) PROVE Known(req'[r])
  BY <1>2, <1>12, Moves, IdleFields DEF WithToken
<1> QED
  BY <1>1, <1>6, <1>7, <1>8, <1>9, <1>10, <1>11, <1>12, <1>13 DEF Steps

LEMMA TokensStep == ASSUME TypeOK, TypeOK', Tokens, [Next]_vars PROVE Tokens'
<1>0. /\ \A t \in Token : Live(t) => expires[t] \in Int
      /\ \A x \in Req : req[x].row \in Int /\ req'[x].row \in Int
      /\ now \in Int /\ minted \subseteq Token /\ minted' \subseteq Token
  <2>1. \A q \in Request : q.row \in Int
    BY ReadingsType
  <2>2. \A x \in Req : req[x] \in Request /\ req'[x] \in Request
    BY DEF TypeOK
  <2>3. \A t \in Token : Live(t) => expires[t] \in 0 .. MaxTime + TTL
    BY DEF TypeOK, Live, NoSession
  <2>4. now \in 0 .. MaxTime /\ minted \subseteq Token /\ minted' \subseteq Token
    BY DEF TypeOK
  <2> QED
    BY <2>1, <2>2, <2>3, <2>4, BoundsAssumption
<1>1. ASSUME NEW r \in Req, Steps(r) PROVE Tokens'
  <2>1. \A x \in Req : x # r => req'[x] = req[x]
    BY <1>1, Others
  <2>2. now' = now /\ minted \subseteq minted' /\ Rows
    BY <1>1, TokenRows
  <2>3. Known(req'[r])
    BY <1>1, TokenKnown
  <2>4. ASSUME NEW x \in Req, req'[x].at \in {"token", "read", "expired", "touch"}
        PROVE  req'[x].token \in minted'
    BY <2>1, <2>2, <2>3, <2>4 DEF Tokens, Known, WithToken
  <2>5. ASSUME NEW x \in Req, req'[x].at \in {"read", "expired"}, expires'[req'[x].token] # NoSession,
               req'[x].token \notin setBack'
        PROVE  req'[x].row <= expires'[req'[x].token]
    <3> DEFINE t == req'[x].token
    <3>1. t \in Token
      BY <1>0, <2>4, <2>5
    <3>2. CASE x = r
      <4>1. expires' = expires /\ setBack' = setBack
        BY <2>3, <2>5, <3>2 DEF Known
      <4>2. Live(t)
        BY <2>5, <4>1 DEF Live
      <4> QED
        BY <2>3, <2>5, <3>2, <4>1, <4>2 DEF Known
    <3>3. CASE x # r
      <4>1. req[x] = req'[x] /\ t \in minted
        BY <2>1, <2>5, <3>3 DEF Tokens
      <4>2. Live(t) /\ t \notin setBack /\ expires[t] <= expires'[t]
        BY <2>2, <2>5, <3>1, <4>1 DEF Rows, Live
      <4>3. req[x].row <= expires[t]
        BY <2>5, <4>1, <4>2 DEF Tokens
      <4>4. expires'[t] \in Int
        BY <2>5, <3>1, BoundsAssumption DEF TypeOK, Live, NoSession
      <4> QED
        BY <1>0, <3>1, <4>1, <4>2, <4>3, <4>4
    <3> QED
      BY <3>2, <3>3
  <2>6. \A x \in Req : req'[x].at = "expired" => req'[x].row < now'
    BY <2>1, <2>2, <2>3 DEF Tokens, Known
  <2>7. \A t \in Token : Live(t)' => t \in minted' /\ (t \notin setBack' => used'[t] + SlideBelow <= expires'[t])
    BY <2>2 DEF Rows
  <2>8. \A x \in Req : req'[x].at \in {"read", "expired"} /\ expires'[req'[x].token] # NoSession
                       /\ req'[x].token \notin setBack'
                       => req'[x].row <= expires'[req'[x].token]
    BY <2>5 DEF Live
  <2> QED
    BY <2>4, <2>6, <2>7, <2>8 DEF Tokens, Live
<1>2. CASE BeginLogin \/ CodeExpires \/ UNCHANGED vars
  BY <1>2 DEF Tokens, Live, BeginLogin, CodeExpires, vars, tables, manager, history
<1>3. CASE Sweep \/ ResetAuth
  <2>1. UNCHANGED <<req, now, minted>>
    BY <1>3 DEF Sweep, ResetAuth
  <2>2. \A t \in Token : \/ expires'[t] = NoSession
                         \/ expires'[t] = expires[t] /\ used'[t] = used[t] /\ (t \in setBack => t \in setBack')
    BY <1>3 DEF Sweep, ResetAuth, UsedKept, Live
  <2>3. \A x \in Req : req[x].at \in {"token", "read", "expired", "touch"} => req[x].token \in Token
    BY <1>0 DEF Tokens
  <2>4. \A t \in Token : Live(t)' => Live(t) /\ expires'[t] = expires[t] /\ used'[t] = used[t]
                                     /\ (t \in setBack => t \in setBack')
    BY <2>2 DEF Live
  <2> QED
    BY <2>1, <2>3, <2>4 DEF Tokens, Live
<1>4. CASE Restart
  BY <1>4, IdleFields DEF Tokens, Live, Restart, tables
<1>5. CASE TimePasses
  <2>1. req' = req /\ now' = now + 1 /\ UNCHANGED <<expires, minted, used, setBack>>
    BY <1>5 DEF TimePasses, tables, history
  <2>2. \A x \in Req : req[x].at = "expired" => req[x].row < now + 1
    BY <1>0 DEF Tokens
  <2> QED
    BY <2>1, <2>2 DEF Tokens, Live
<1> QED
  BY <1>1, <1>2, <1>3, <1>4, <1>5, NextCases, Arrivals

\* What each step does to the ceremonies.
LEMMA CeremonyRows ==
  ASSUME TypeOK, Ceremonies, NEW r \in Req, Steps(r)
  PROVE  /\ issued <= issued' /\ req'[r].answers <= issued'
         /\ reg' \in {reg, 0} \/ (reg' = issued' /\ issued < issued')
         /\ req'[r].at = "add" => reg # 0 /\ reg' = 0 /\ req'[r].answers = reg /\ answered' = answered
         /\ answered' = answered
              \/ (req[r].at = "add" /\ req'[r].at # "add" /\ reg' = reg /\ issued' = issued
                  /\ \E k \in Passkey : answered' = [answered EXCEPT ![req[r].answers] = @ \cup {k}])
<1> DEFINE Goal ==
         /\ issued <= issued' /\ req'[r].answers <= issued'
         /\ reg' \in {reg, 0} \/ (reg' = issued' /\ issued < issued')
         /\ req'[r].at = "add" => reg # 0 /\ reg' = 0 /\ req'[r].answers = reg /\ answered' = answered
         /\ answered' = answered
              \/ (req[r].at = "add" /\ req'[r].at # "add" /\ reg' = reg /\ issued' = issued
                  /\ \E k \in Passkey : answered' = [answered EXCEPT ![req[r].answers] = @ \cup {k}])
           Quiet == issued' = issued /\ reg' \in {reg, 0} /\ answered' = answered
<1>1. req[r] \in Request /\ req[r].answers \in 0 .. MaxChallenges /\ issued \in Nat /\ 0 <= issued
      /\ req[r].answers <= issued
  <2>1. req[r] \in Request /\ issued \in 0 .. MaxChallenges
    BY DEF TypeOK
  <2>2. req[r].answers <= issued
    BY DEF Ceremonies
  <2>3. req[r].answers \in 0 .. MaxChallenges
    BY <2>1 DEF Request
  <2> QED
    BY <2>1, <2>2, <2>3, BoundsAssumption
<1>2. CASE Quiet /\ req'[r].answers <= issued /\ req'[r].at # "add"
  BY <1>1, <1>2
<1>3. \A at \in {"begin", "finish", "verify", "add", "expired", "touch"} :
        To(r, at)[r].at = at /\ To(r, at)[r].answers = req[r].answers
  BY <1>1 DEF To, Request, TypeOK
<1>4. Served(r)[r].at # "add" /\ Served(r)[r].answers = req[r].answers
  BY <1>1 DEF Served, Request, Idle, TypeOK
<1>5. [Idle EXCEPT !.at = "session"].answers = 0
  BY DEF Idle
<1>6. CASE Arrival(r)
  <2>1. Quiet /\ req'[r].answers <= issued /\ req'[r].at # "add"
    BY <1>6 DEF Arrival, manager, history, TypeOK
  <2> QED
    BY <1>2, <2>1
<1>7. CASE RightCode(r) \/ FinishLogin(r) \/ GetAuthSession(r) \/ ReadClock(r) \/ TouchAuthSession(r)
  <2>1. Quiet
    BY <1>7 DEF RightCode, FinishLogin, GetAuthSession, ReadClock, TouchAuthSession, manager, history, marks
  <2>2. req'[r].at # "add" /\ (req'[r].answers = 0 \/ req'[r].answers = req[r].answers)
    <3>1. \A v : /\ KnowsRow(req[r], v).at = "read" /\ KnowsRow(req[r], v).answers = req[r].answers
                /\ KnowsClock(req[r], v).at = "touch" /\ KnowsClock(req[r], v).answers = req[r].answers
      BY <1>1 DEF KnowsRow, KnowsClock, Request
    <3> QED
      BY <1>3, <1>4, <1>7, <3>1, Moves, IdleFields DEF RowRead
  <2> QED
    BY <1>1, <1>2, <2>1, <2>2
<1>8. CASE WrongCode(r) \/ DeleteExpired(r) \/ Fail(r) \/ ClearSetupCode(r) \/ VerifyLogin(r)
  <2>1. Quiet
    BY <1>8 DEF WrongCode, DeleteExpired, Fail, ClearSetupCode, VerifyLogin, Taken, manager, history, marks
  <2>2. req'[r].at # "add" /\ req'[r].answers = 0
    BY <1>5, <1>8, Moves, IdleFields
  <2> QED
    BY <1>1, <1>2, <2>1, <2>2
<1>9. CASE BeginRegistration(r)
  <2>1. req'[r] = Idle /\ reg' = issued' /\ issued' = issued + 1 /\ answered' = answered
    BY <1>9, Moves DEF BeginRegistration, history
  <2> QED
    BY <1>1, <2>1, IdleFields
<1>10. CASE FinishRegistration(r)
  <2>1. issued' = issued /\ reg' = 0 /\ answered' = answered
    BY <1>10 DEF FinishRegistration, Taken, history
  <2>2. CASE req'[r] = Idle
    BY <1>1, <2>1, <2>2, IdleFields
  <2>3. CASE req' = To(r, "add") /\ reg # 0 /\ req[r].answers = reg
    BY <1>1, <1>3, <2>1, <2>3
  <2> QED
    BY <1>10, <2>2, <2>3, Moves
<1>11. CASE CountCredentials(r)
  <2>1. Quiet
    BY <1>11 DEF CountCredentials, manager, history
  <2>2. req'[r] = Idle \/ req'[r] = [req[r] EXCEPT !.at = "delete", !.keys = creds]
    BY <1>11 DEF CountCredentials, Answered, TypeOK
  <2>3. [req[r] EXCEPT !.at = "delete", !.keys = creds].at = "delete"
        /\ [req[r] EXCEPT !.at = "delete", !.keys = creds].answers = req[r].answers
    BY <1>1, Updates
  <2>4. req'[r].at # "add" /\ (req'[r].answers = 0 \/ req'[r].answers = req[r].answers)
    BY <2>2, <2>3, IdleFields
  <2> QED
    BY <1>1, <1>2, <2>1, <2>4
<1>12. ASSUME NEW k \in Passkey, AddCredential(r, k) PROVE Goal
  <2>1. req[r].at = "add" /\ issued' = issued /\ reg' = reg
    BY <1>12 DEF AddCredential, manager
  <2> DEFINE cleared == [req[r] EXCEPT !.at = "clear", !.answers = 0]
  <2>2. req'[r] = Idle \/ req'[r] = cleared
    BY <1>12 DEF AddCredential, Answered, TypeOK
  <2>3. req'[r].at # "add" /\ req'[r].answers = 0
    <3>1. cleared.at = "clear" /\ cleared.answers = 0
      BY <1>1, Updates
    <3> HIDE DEF cleared
    <3> QED
      BY <2>2, <3>1, IdleFields
  <2>4. answered' = answered \/ answered' = [answered EXCEPT ![req[r].answers] = @ \cup {k}]
    BY <1>12 DEF AddCredential
  <2>5. issued <= issued' /\ req'[r].answers <= issued' /\ reg' \in {reg, 0}
    BY <1>1, <2>1, <2>3
  <2> QED
    BY <2>1, <2>3, <2>4, <2>5
<1>13. ASSUME NEW k \in Passkey, DeleteCredential(r, k) PROVE Goal
  <2>1. Quiet /\ req'[r] = Idle
    BY <1>13, Moves DEF DeleteCredential, manager, history
  <2> QED
    BY <1>1, <1>2, <2>1, IdleFields
<1>14. ASSUME NEW t \in Token, CreateSession(r, t) \/ DeleteAuthSession(r, t) PROVE Goal
  <2>1. Quiet /\ req'[r] = Idle
    BY <1>14, Moves DEF CreateSession, DeleteAuthSession, manager, marks
  <2> QED
    BY <1>1, <1>2, <2>1, IdleFields
<1> QED
  BY <1>6, <1>7, <1>8, <1>9, <1>10, <1>11, <1>12, <1>13, <1>14 DEF Steps

LEMMA CeremoniesOfRequest ==
  ASSUME TypeOK, Ceremonies, NEW r \in Req, Steps(r), TypeOK'
  PROVE  Ceremonies'
<1>1. issued \in Nat /\ issued' \in Nat /\ reg \in 0 .. MaxChallenges /\ reg' \in 0 .. MaxChallenges
      /\ answered \in [Challenge -> SUBSET Passkey] /\ issued <= issued'
  BY BoundsAssumption, CeremonyRows DEF TypeOK
<1>2. \A c \in Challenge : c \in Nat /\ c # 0
  BY BoundsAssumption DEF Challenge
<1>3. \A x \in Req : x # r => req'[x] = req[x]
  BY Others
<1>4. reg' \in {reg, 0} \/ (reg' = issued' /\ issued < issued')
  BY CeremonyRows
<1>5. req'[r].at = "add" =>
        /\ reg \in Challenge /\ reg' = 0 /\ req'[r].answers = reg
        /\ answered' = answered /\ answered[reg] = {}
  <2>1. req'[r].at = "add" => reg # 0 /\ reg' = 0 /\ req'[r].answers = reg /\ answered' = answered
    BY CeremonyRows
  <2>2. reg # 0 => reg \in Challenge
    BY <1>1, BoundsAssumption DEF Challenge
  <2> QED
    BY <2>1, <2>2 DEF Ceremonies
<1>6. answered' = answered
        \/ (req[r].at = "add" /\ req'[r].at # "add" /\ reg' = reg
            /\ \E k \in Passkey : answered' = [answered EXCEPT ![req[r].answers] = @ \cup {k}])
  BY CeremonyRows
<1>7. req[r].at = "add" => req[r].answers \in Challenge /\ answered[req[r].answers] = {}
                           /\ req[r].answers # reg
  BY DEF Ceremonies
<1>8. \A c \in Challenge : answered'[c] = answered[c]
        \/ (req[r].at = "add" /\ req'[r].at # "add" /\ c = req[r].answers /\ reg' = reg
            /\ \E k \in Passkey : answered'[c] = {k})
  BY <1>1, <1>6, <1>7
<1>9. reg' <= issued'
  BY <1>1, <1>4, BoundsAssumption DEF Ceremonies
<1>10. \A x \in Req : req'[x].answers <= issued'
  <2>1. ASSUME NEW x \in Req, x # r PROVE req'[x].answers <= issued'
    <3>1. req[x].answers <= issued /\ req[x] \in Request
      BY DEF Ceremonies, TypeOK
    <3>2. req[x].answers \in 0 .. MaxChallenges
      BY <3>1 DEF Request
    <3> QED
      BY <1>1, <1>3, <2>1, <3>1, <3>2, BoundsAssumption
  <2>2. req'[r].answers <= issued'
    BY CeremonyRows
  <2> QED
    BY <2>1, <2>2
<1>11. ASSUME NEW c \in Challenge, answered'[c] # {} PROVE c <= issued' /\ c # reg'
  <2>1. CASE answered'[c] = answered[c]
    <3>1. c <= issued /\ c # reg
      BY <1>11, <2>1 DEF Ceremonies
    <3> QED
      BY <1>1, <1>2, <1>4, <3>1
  <2>2. CASE req[r].at = "add" /\ c = req[r].answers /\ reg' = reg
    <3>1. c # reg /\ c <= issued
      BY <1>7, <2>2 DEF Ceremonies
    <3> QED
      BY <1>1, <1>2, <2>2, <3>1
  <2> QED
    BY <1>8, <2>1, <2>2
<1>12. ASSUME NEW x \in Req, req'[x].at = "add"
       PROVE  req'[x].answers \in Challenge /\ req'[x].answers # reg' /\ answered'[req'[x].answers] = {}
  <2>1. CASE x = r
    BY <1>2, <1>5, <1>12, <2>1
  <2>2. CASE x # r
    <3> DEFINE c == req[x].answers
    <3>1. req'[x] = req[x] /\ req[x].at = "add"
      BY <1>3, <1>12, <2>2
    <3>2. c \in Challenge /\ c # reg /\ c <= issued /\ answered[c] = {}
      BY <3>1 DEF Ceremonies
    <3>3. c # reg'
      BY <1>1, <1>2, <1>4, <3>2
    <3>4. req[r].at = "add" => c # req[r].answers
      BY <2>2, <3>1 DEF Ceremonies
    <3> QED
      BY <1>8, <3>1, <3>2, <3>3, <3>4
  <2> QED
    BY <2>1, <2>2
<1>13. ASSUME NEW x \in Req, NEW q \in Req, req'[x].at = "add", req'[q].at = "add",
              req'[x].answers = req'[q].answers
       PROVE  x = q
  <2>1. ASSUME NEW y \in Req, y # r, req'[y].at = "add", req'[r].at = "add"
        PROVE  req'[y].answers # req'[r].answers
    <3>1. req'[y] = req[y] /\ req'[r].answers = reg
      BY <1>3, <1>5, <2>1
    <3> QED
      BY <2>1, <3>1 DEF Ceremonies
  <2>2. CASE x # r /\ q # r
    BY <1>3, <1>13, <2>2 DEF Ceremonies
  <2> QED
    BY <1>13, <2>1, <2>2
<1>14. ASSUME NEW c \in Challenge PROVE \A k, l \in answered'[c] : k = l
  <2>1. CASE answered'[c] = answered[c]
    BY <2>1 DEF Ceremonies
  <2>2. CASE \E k \in Passkey : answered'[c] = {k}
    BY <2>2
  <2> QED
    BY <1>8, <2>1, <2>2
<1> QED
  BY <1>9, <1>10, <1>11, <1>12, <1>13, <1>14 DEF Ceremonies

LEMMA CeremoniesStep ==
  ASSUME TypeOK, Ceremonies, [Next]_vars, TypeOK'
  PROVE  Ceremonies'
<1>1. ASSUME NEW r \in Req, ReqStep(r) PROVE Ceremonies'
  BY <1>1, Arrivals, CeremoniesOfRequest
<1>2. CASE CodeExpires \/ Sweep \/ ResetAuth \/ TimePasses \/ UNCHANGED vars
  <2>1. UNCHANGED <<reg, issued, answered, req>>
    BY <1>2 DEF CodeExpires, Sweep, ResetAuth, TimePasses, vars, tables, manager, history, marks
  <2> QED
    BY <2>1 DEF Ceremonies
<1>3. CASE BeginLogin
  <2>1. UNCHANGED <<reg, answered, req>> /\ issued' = issued + 1
    BY <1>3 DEF BeginLogin, history
  <2>2. issued \in Nat /\ reg \in Nat /\ \A c \in Challenge : c \in Nat
    BY BoundsAssumption DEF TypeOK, Challenge
  <2>3. \A x \in Req : req[x].answers \in 0 .. MaxChallenges
    <3>1. \A x \in Req : req[x] \in Request
      BY DEF TypeOK
    <3> QED
      BY <3>1 DEF Request
  <2>4. reg <= issued' /\ \A x \in Req : req[x].answers <= issued'
    BY <2>1, <2>2, <2>3, BoundsAssumption DEF Ceremonies
  <2>5. \A c \in Challenge : answered[c] # {} => c <= issued' /\ c # reg
    BY <2>1, <2>2 DEF Ceremonies
  <2> QED
    BY <2>1, <2>4, <2>5 DEF Ceremonies
<1>4. CASE Restart
  <2>1. reg' = 0 /\ (\A x \in Req : req'[x] = Idle) /\ UNCHANGED <<issued, answered>>
    BY <1>4 DEF Restart
  <2>2. issued \in Nat /\ \A c \in Challenge : c # 0
    BY BoundsAssumption DEF TypeOK, Challenge
  <2>3. \A x \in Req : req'[x].answers = 0 /\ req'[x].at = "none"
    BY <2>1, IdleFields
  <2>4. reg' <= issued' /\ \A x \in Req : req'[x].answers <= issued'
    BY <2>1, <2>2, <2>3
  <2> QED
    BY <2>1, <2>2, <2>3, <2>4 DEF Ceremonies
<1> QED
  BY <1>1, <1>2, <1>3, <1>4, NextCases

LEMMA InitIInv == Init => IInv
<1> SUFFICES ASSUME Init PROVE IInv
  OBVIOUS
<1>1. TypeOK
  <2>1. Counts /\ Setup
    <3>1. 0 \in 0 .. MaxChallenges /\ 0 \in 0 .. MaxTime /\ 0 \in 0 .. MaxSetupTries - 1
      BY BoundsAssumption
    <3>2. creds = {} /\ minted = {} /\ answered \in [Challenge -> SUBSET Passkey]
      BY DEF Init
    <3> QED
      BY <3>1, <3>2 DEF Init, Counts, Setup
  <2>2. Times
    BY BoundsAssumption DEF Init, Times
  <2>3. req \in [Req -> Request]
    BY IdleType DEF Init
  <2> QED
    BY <2>1, <2>2, <2>3 DEF TypeOK, Counts, Setup, Times
<1>2. \A r \in Req : req[r].at = "none" /\ req[r].answers = 0
  BY IdleFields DEF Init
<1>3. Ceremonies
  BY <1>2 DEF Init, Ceremonies
<1>4. Codes /\ Tokens /\ Counted
  BY <1>2 DEF Init, Codes, Tokens, Counted, Live
<1> QED
  BY <1>1, <1>3, <1>4 DEF IInv

LEMMA Invariance == Spec => []IInv
<1>1. IInv /\ [Next]_vars => IInv'
  BY TypeStep, CeremoniesStep, CodesStep, TokensStep, CountedStep DEF IInv
<1> QED
  BY InitIInv, <1>1, PTL DEF Spec

----------------------------------------------------------------------------
(* Theorems *)

\* The state keeps its shape: in particular no run of wrong codes counts past
\* MaxSetupTries, and no expiry lies more than a TTL ahead of the clock's end.
THEOREM TypeCorrect == Spec => []TypeOK
<1>1. IInv => TypeOK
  BY DEF IInv
<1> QED
  BY Invariance, <1>1, PTL

\* However many requests answer a challenge at once, one passkey at most comes of it.
THEOREM OneKey == Spec => []OneKeyPerChallenge
<1>1. IInv => OneKeyPerChallenge
  <2> SUFFICES ASSUME IInv, NEW c \in Challenge PROVE Cardinality(answered[c]) <= 1
    BY DEF OneKeyPerChallenge
  <2>1. CASE answered[c] = {}
    BY <2>1, FS_EmptySet
  <2>2. ASSUME NEW k \in answered[c] PROVE Cardinality(answered[c]) <= 1
    <3>1. answered[c] = {k}
      BY DEF IInv, Ceremonies
    <3>2. Cardinality({k}) = 1
      BY FS_Singleton
    <3> QED
      BY <3>1, <3>2
  <2> QED
    BY <2>1, <2>2
<1> QED
  BY Invariance, <1>1, PTL

\* A setup code there is opens only setup, and has tries left.
THEOREM CodeForSetup == Spec => []CodeOpensOnlySetup
<1>1. IInv => CodeOpensOnlySetup
  BY BoundsAssumption DEF IInv, Codes, TypeOK, CodeOpensOnlySetup
<1> QED
  BY Invariance, <1>1, PTL

\* No request brings a token back, whatever it read before the token went.
THEOREM DeadStayDead == Spec => DeadTokensStayDead
<1>1. ASSUME IInv, [Next]_vars, NEW t \in Token, t \in minted, ~Live(t) PROVE ~Live(t)'
  <2>1. TypeOK /\ Tokens
    BY <1>1 DEF IInv
  <2>2. ASSUME NEW r \in Req, Steps(r) PROVE ~Live(t)'
    BY <1>1, <2>1, <2>2, TokenRows DEF Rows
  <2>3. CASE BeginLogin \/ CodeExpires \/ Restart \/ TimePasses \/ UNCHANGED vars
    BY <1>1, <2>3 DEF Live, BeginLogin, CodeExpires, Restart, TimePasses, vars, tables
  <2>4. CASE Sweep \/ ResetAuth
    BY <1>1, <2>4 DEF Live, Sweep, ResetAuth
  <2> QED
    BY <1>1, <2>1, <2>2, <2>3, <2>4, NextCases, Arrivals
<1>2. IInv => minted \subseteq Token
  BY DEF IInv, TypeOK
<1>3. IInv /\ [Next]_vars => [\A t \in minted : ~Live(t) => ~Live(t)']_vars
  BY <1>1, <1>2
<1> QED
  BY Invariance, <1>3, PTL DEF Spec, DeadTokensStayDead

\* What expires has been unused for SlideBelow days, for every TTL and threshold and
\* however long ValidateToken's steps take, but for the two races the property names.
THEOREM UnusedExpire == Spec => OnlyUnusedExpire
<1>1. ASSUME IInv, NEW t \in Token, t \notin setBack, Live(t), expires[t] < now
      PROVE  now > used[t] + SlideBelow
  <2>1. used[t] \in Nat /\ used[t] + SlideBelow <= expires[t] /\ SlideBelow \in Nat /\ now \in Nat
    BY <1>1, BoundsAssumption DEF IInv, TypeOK, Tokens
  <2>2. expires[t] \in Int
    BY <1>1, BoundsAssumption DEF IInv, TypeOK, NoSession
  <2> QED
    BY <1>1, <2>1, <2>2
<1>2. ASSUME IInv, NEW t \in Token, Live(t), ~Live(t)',
             Sweep \/ \E r \in Req : DeleteExpired(r) /\ expires[t] = req[r].row
      PROVE  expires[t] < now
  <2>1. CASE Sweep
    BY <1>2, <2>1 DEF Sweep, Live
  <2>2. ASSUME NEW r \in Req, DeleteExpired(r), expires[t] = req[r].row PROVE expires[t] < now
    <3>1. Tokens /\ req[r].at = "expired"
      BY <1>2, <2>2 DEF DeleteExpired, IInv
    <3>2. req[r].row < now
      BY <3>1 DEF Tokens
    <3> QED
      BY <2>2, <3>2
  <2> QED
    BY <1>2, <2>1, <2>2
<1>3. IInv => [\A t \in Token \ setBack :
                 /\ Live(t) /\ ~Live(t)'
                 /\ Sweep \/ \E r \in Req : DeleteExpired(r) /\ expires[t] = req[r].row
                 => now > used[t] + SlideBelow]_vars
  BY <1>1, <1>2
<1> QED
  BY Invariance, <1>3, PTL DEF OnlyUnusedExpire

\* A delete that takes the last passkey counted more than there were left.
THEOREM RunsOutByRace == Spec => RunsOutOnlyByRace
<1>1. ASSUME IInv, NEW r \in Req, NEW k \in Passkey, DeleteCredential(r, k), creds # {}, creds' = {}
      PROVE  Cardinality(req[r].keys) > Cardinality(creds)
  <2>1. creds = {k}
    BY <1>1 DEF DeleteCredential
  <2>2. Cardinality(creds) = 1
    BY <2>1, FS_Singleton
  <2>3. Cardinality(req[r].keys) > 1
    BY <1>1 DEF DeleteCredential, IInv, Counted
  <2> QED
    BY <2>2, <2>3
<1>2. IInv => [\A r \in Req, k \in Passkey :
                 DeleteCredential(r, k) /\ creds # {} /\ creds' = {}
                   => Cardinality(req[r].keys) > Cardinality(creds)]_vars
  BY <1>1
<1> QED
  BY Invariance, <1>2, PTL DEF RunsOutOnlyByRace
=============================================================================
