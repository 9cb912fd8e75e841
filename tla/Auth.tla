-------------------------------- MODULE Auth --------------------------------
(***************************************************************************)
(* Passkeys and tokens: internal/auth/auth.go, internal/auth/webauthn.go,  *)
(* the handlers of internal/server/authapi.go behind the gates of          *)
(* internal/server/server.go, the tables of internal/store/creds.go, and   *)
(* `multimux auth reset` of cmd/auth.go, which is a process of its own.    *)
(*                                                                         *)
(* Manager.mu covers one look at the setup code or one exchange of a       *)
(* ceremony's session, the database one statement: handlers run            *)
(* concurrently and each of these is an action.  A passkey answers one     *)
(* challenge; challenges are numbered as they are made.  Time is in days,  *)
(* the steps of the sliding expiry.                                        *)
(***************************************************************************)
EXTENDS Integers, FiniteSets

CONSTANTS
  Req,            \* slots for requests being handled
  Passkey, Token,
  MaxSetupTries,
  TTL,            \* sessionTTL
  SlideBelow,     \* slideThreshold
  MaxChallenges,  \* bound on the ceremonies begun
  MaxTime         \* bound on the clock

ASSUME BoundsAssumption ==
  /\ MaxSetupTries \in Nat \ {0} /\ MaxChallenges \in Nat /\ MaxTime \in Nat
  /\ TTL \in Nat /\ SlideBelow \in Nat /\ SlideBelow <= TTL
ASSUME NamesAssumption == IsFiniteSet(Passkey) /\ "" \notin Token

VARIABLES
  creds,    \* credentials table
  expires,  \* auth_sessions table: token -> expires_at, or NoSession
  code,     \* setupCode: none, or valid or not by setupExpiry
  tries,    \* setupTries
  reg,      \* regSession: the challenge, 0 when there is none
  login,    \* loginSession
  req,      \* request slot -> what its handler is doing
  issued,   \* challenges made so far
  minted,   \* tokens made so far
  now

\* Recorded to state the properties.
VARIABLES
  answered,  \* challenge -> passkeys registered by an answer to it
  wrong,     \* wrong codes presented against the code there is
  used,      \* live token -> the clock's latest reading that let a request through
  setBack,   \* live tokens a slow slide left with an earlier expiry than they had
  enrolled   \* a passkey was registered since the last reset

tables == <<creds, expires>>
manager == <<code, tries, reg, login>>
history == <<answered, wrong, used, setBack, enrolled>>
vars == <<tables, manager, req, issued, minted, now, history>>

----------------------------------------------------------------------------
(* State *)

NoSession == -1
Challenge == 1 .. MaxChallenges

\* What a handler does next; whether it is one of setup's; the challenge its body
\* answers; the token it came with; the expiry and the clock it has read for it; the
\* passkeys it knows of.
Request == [at : {"none", "setupBegin", "setupFinish", "begin", "finish", "loginFinish",
                  "verify", "add", "clear", "session", "token", "read", "expired", "touch", "count",
                  "delete", "revoke"},
            setup : BOOLEAN, answers : 0 .. MaxChallenges, token : Token \cup {""},
            row : 0 .. MaxTime + TTL, asOf : 0 .. MaxTime,
            then : {"none", "begin", "finish", "session", "count", "revoke"},
            keys : SUBSET Passkey]

Idle == [at |-> "none", setup |-> FALSE, answers |-> 0, token |-> "", row |-> 0, asOf |-> 0,
         then |-> "none", keys |-> {}]

\* The state's shape.
TypeOK ==
  /\ creds \in SUBSET Passkey
  /\ expires \in [Token -> {NoSession} \cup 0 .. MaxTime + TTL]
  /\ code \in {"none", "valid", "expired"}
  /\ tries \in 0 .. MaxSetupTries - 1
  /\ reg \in 0 .. MaxChallenges /\ login \in 0 .. MaxChallenges
  /\ req \in [Req -> Request]
  /\ issued \in 0 .. MaxChallenges
  /\ minted \in SUBSET Token
  /\ now \in 0 .. MaxTime
  /\ answered \in [Challenge -> SUBSET Passkey]
  /\ wrong \in Nat
  /\ used \in [Token -> 0 .. MaxTime] /\ setBack \in SUBSET Token
  /\ enrolled \in BOOLEAN

\* First run: serve has made a code.
Init ==
  /\ creds = {} /\ expires = [t \in Token |-> NoSession]
  /\ code = "valid" /\ tries = 0 /\ reg = 0 /\ login = 0
  /\ req = [r \in Req |-> Idle]
  /\ issued = 0 /\ minted = {} /\ now = 0
  /\ answered = [c \in Challenge |-> {}]
  /\ wrong = 0 /\ used = [t \in Token |-> 0] /\ setBack = {} /\ enrolled = FALSE

Live(t) == expires[t] # NoSession
SetupPending == creds = {}

To(r, at) == [req EXCEPT ![r].at = at]
Answered(r) == [req EXCEPT ![r] = Idle]

\* next.ServeHTTP: a handler that changes nothing here is done.
Served(r) == [req EXCEPT ![r] = [Idle EXCEPT !.at = req[r].then, !.answers = req[r].answers]]

\* SQL: an UPDATE or a DELETE of a row that is gone changes nothing.
Dropped(t) == [expires EXCEPT ![t] = NoSession]
Touched_Upsert(t, asOf) == [expires EXCEPT ![t] = asOf + TTL]
Touched(t, asOf) == [expires EXCEPT ![t] = IF @ = NoSession THEN NoSession ELSE asOf + TTL]

\* Nothing is recorded of a token that is gone.
UsedKept ==
  /\ used' = [t \in Token |-> IF Live(t)' THEN used[t] ELSE 0]
  /\ setBack' = {t \in setBack : Live(t)'}
Used(t, asOf) == [used EXCEPT ![t] = IF Live(t) /\ asOf > @ THEN asOf ELSE @]
marks == <<answered, wrong, enrolled>>

----------------------------------------------------------------------------
(* Setup: handleSetupBegin, handleSetupFinish.  Both pass the gates. *)

\* SetupPending.  The request presents an answer to a challenge made before.
SetupRequest(r, at, c) ==
  /\ req[r] = Idle
  /\ SetupPending
  /\ c <= issued
  /\ req' = [req EXCEPT ![r] = [Idle EXCEPT !.at = at, !.setup = TRUE, !.answers = c]]
  /\ UNCHANGED <<tables, manager, issued, minted, now, history>>

\* ConsumeSetupCode: a code is invalid after MaxSetupTries wrong ones.
LocksAt_OneMore == tries + 1 > MaxSetupTries
LocksAt == tries + 1 >= MaxSetupTries

RightCode(r) ==
  /\ req[r].at \in {"setupBegin", "setupFinish"}
  /\ code = "valid"
  /\ req' = To(r, IF req[r].at = "setupBegin" THEN "begin" ELSE "finish")
  /\ UNCHANGED <<tables, manager, issued, minted, now, history>>

WrongCode(r) ==
  /\ req[r].at \in {"setupBegin", "setupFinish"}
  /\ req' = Answered(r)
  /\ IF code = "valid"
     THEN /\ wrong' = IF LocksAt THEN 0 ELSE wrong + 1
          /\ code' = IF LocksAt THEN "none" ELSE code
          /\ tries' = IF LocksAt THEN 0 ELSE tries + 1
     ELSE UNCHANGED <<wrong, code, tries>>
  /\ UNCHANGED <<tables, reg, login, issued, minted, now, answered, used, setBack, enrolled>>

CodeExpires ==
  /\ code = "valid"
  /\ code' = "expired"
  /\ UNCHANGED <<tables, tries, reg, login, req, issued, minted, now, history>>

----------------------------------------------------------------------------
(* Ceremonies: BeginRegistration, FinishRegistration, BeginLogin, FinishLogin *)

BeginRegistration(r) ==
  /\ req[r].at = "begin"
  /\ issued < MaxChallenges
  /\ issued' = issued + 1
  /\ reg' = issued'
  /\ req' = Answered(r)
  /\ UNCHANGED <<tables, code, tries, login, minted, now, history>>

\* FinishRegistration takes the session, whatever comes of it.
Taken_Left == reg
Taken == 0

FinishRegistration(r) ==
  /\ req[r].at = "finish"
  /\ reg' = Taken
  /\ req' = IF reg # 0 /\ req[r].answers = reg THEN To(r, "add") ELSE Answered(r)
  /\ UNCHANGED <<tables, code, tries, login, issued, minted, now, history>>

\* AddCredential: the id is the primary key.
AddCredential(r, k) ==
  /\ req[r].at = "add"
  /\ creds' = creds \cup {k}
  /\ IF k \in creds
     THEN req' = Answered(r) /\ UNCHANGED <<answered, enrolled>>
     ELSE /\ req' = [req EXCEPT ![r] = [@ EXCEPT !.at = "clear", !.answers = 0]]
          /\ answered' = [answered EXCEPT ![req[r].answers] = @ \cup {k}]
          /\ enrolled' = TRUE
  /\ UNCHANGED <<expires, manager, issued, minted, now, wrong, used, setBack>>

\* ClearSetupCode, once in FinishRegistration and again in handleSetupFinish.
Cleared_TriesOnly == code
Cleared == "none"

ClearSetupCode(r) ==
  /\ req[r].at = "clear"
  /\ code' = Cleared /\ tries' = 0 /\ wrong' = 0
  /\ req' = IF req[r].setup THEN [req EXCEPT ![r] = [Idle EXCEPT !.at = "session"]] ELSE Answered(r)
  /\ UNCHANGED <<tables, reg, login, issued, minted, now, answered, used, setBack, enrolled>>

\* CreateSession: after setup, after a login, and for handleMintToken.
CreateSession(r, t) ==
  /\ req[r].at = "session"
  /\ t \notin minted
  /\ minted' = minted \cup {t}
  /\ expires' = [expires EXCEPT ![t] = now + TTL]
  /\ used' = [used EXCEPT ![t] = now]
  /\ req' = Answered(r)
  /\ UNCHANGED <<creds, manager, issued, now, setBack, marks>>

BeginLogin ==
  /\ issued < MaxChallenges
  /\ issued' = issued + 1
  /\ login' = issued'
  /\ UNCHANGED <<tables, code, tries, reg, req, minted, now, history>>

LoginRequest(r, c) ==
  /\ req[r] = Idle
  /\ c <= issued
  /\ req' = [req EXCEPT ![r] = [Idle EXCEPT !.at = "loginFinish", !.answers = c]]
  /\ UNCHANGED <<tables, manager, issued, minted, now, history>>

\* FinishLogin takes the session as FinishRegistration does.
FinishLogin(r) ==
  /\ req[r].at = "loginFinish"
  /\ login' = 0
  /\ req' = IF login # 0 /\ req[r].answers = login THEN To(r, "verify") ELSE Answered(r)
  /\ UNCHANGED <<tables, code, tries, reg, issued, minted, now, history>>

\* FinishDiscoverableLogin: loadOwner finds the passkey that answered.
VerifyLogin(r) ==
  /\ req[r].at = "verify"
  /\ req' = IF SetupPending THEN Answered(r) ELSE [req EXCEPT ![r] = [Idle EXCEPT !.at = "session"]]
  /\ UNCHANGED <<tables, manager, issued, minted, now, history>>

----------------------------------------------------------------------------
(* Requests with a token: setupGate, then Middleware, then the handler *)

ProtectedRequest(r, then, t, c) ==
  /\ req[r] = Idle
  /\ ~SetupPending
  /\ c <= issued
  /\ t \in minted
  /\ req' = [req EXCEPT ![r] = [Idle EXCEPT !.at = "token", !.token = t, !.then = then, !.answers = c]]
  /\ UNCHANGED <<tables, manager, issued, minted, now, history>>

\* ValidateToken: it reads the row, then the clock, and writes as of these readings,
\* whatever other requests write between its steps, and however long they take.
GetAuthSession(r) ==
  LET t == req[r].token IN
  /\ req[r].at = "token"
  /\ req' = IF Live(t) THEN [req EXCEPT ![r] = [@ EXCEPT !.at = "read", !.row = expires[t]]]
                        ELSE Answered(r)
  /\ UNCHANGED <<tables, manager, issued, minted, now, history>>

Slides_Late(row) == row - now < SlideBelow - 1
Slides(row) == row - now < SlideBelow

ReadClock(r) ==
  LET row == req[r].row IN
  /\ req[r].at = "read"
  /\ \/ now > row /\ req' = To(r, "expired") /\ UNCHANGED used
     \/ now <= row /\ Slides(row) /\ UNCHANGED used
        /\ req' = [req EXCEPT ![r] = [@ EXCEPT !.at = "touch", !.row = 0, !.asOf = now]]
     \/ now <= row /\ ~Slides(row) /\ req' = Served(r) /\ used' = Used(req[r].token, now)
  /\ UNCHANGED <<tables, manager, issued, minted, now, setBack, marks>>

TouchAuthSession(r) ==
  LET t == req[r].token IN
  /\ req[r].at = "touch"
  /\ expires' = Touched(t, req[r].asOf)
  /\ used' = Used(t, req[r].asOf)
  /\ setBack' = IF expires'[t] < expires[t] THEN setBack \cup {t} ELSE setBack
  /\ req' = Served(r)
  /\ UNCHANGED <<creds, manager, issued, minted, now, marks>>

DeleteExpired(r) ==
  /\ req[r].at = "expired"
  /\ expires' = Dropped(req[r].token)
  /\ req' = Answered(r)
  /\ UsedKept
  /\ UNCHANGED <<creds, manager, issued, minted, now, marks>>

\* handleDeleteAuthSession, and handleLogout, which names the request's own token.
DeleteAuthSession(r, t) ==
  /\ req[r].at = "revoke"
  /\ expires' = Dropped(t)
  /\ req' = Answered(r)
  /\ UsedKept
  /\ UNCHANGED <<creds, manager, issued, minted, now, marks>>

\* handleDeleteCredential: CountCredentials, then DeleteCredential.
Spare_One == creds # {}
Spare == Cardinality(creds) > 1

CountCredentials(r) ==
  /\ req[r].at = "count"
  /\ req' = IF Spare THEN [req EXCEPT ![r] = [@ EXCEPT !.at = "delete", !.keys = creds]] ELSE Answered(r)
  /\ UNCHANGED <<tables, manager, issued, minted, now, history>>

DeleteCredential(r, k) ==
  /\ req[r].at = "delete"
  /\ creds' = creds \ {k}
  /\ req' = Answered(r)
  /\ UNCHANGED <<expires, manager, issued, minted, now, history>>

----------------------------------------------------------------------------
(* The rest *)

\* A statement fails, or the library refuses the answer: the handler gives up.
Fail(r) ==
  /\ req[r].at \notin {"none", "clear"}
  /\ req' = Answered(r)
  /\ reg' = IF req[r].at = "finish" THEN Taken ELSE reg
  /\ login' = IF req[r].at = "loginFinish" THEN 0 ELSE login
  /\ UNCHANGED <<tables, code, tries, issued, minted, now, history>>

\* DeleteExpiredAuthSessions, hourly.
Sweep ==
  /\ expires' = [t \in Token |-> IF expires[t] < now THEN NoSession ELSE expires[t]]
  /\ UsedKept
  /\ UNCHANGED <<creds, manager, req, issued, minted, now, marks>>

\* multimux auth reset: ResetAuth, one transaction, with the daemon up or not.
ResetAuth ==
  /\ creds' = {} /\ expires' = [t \in Token |-> NoSession]
  /\ enrolled' = FALSE
  /\ UsedKept
  /\ UNCHANGED <<manager, req, issued, minted, now, answered, wrong>>

\* The daemon goes down and up: serve makes a code when setup is pending.
Restart ==
  /\ code' = IF SetupPending THEN "valid" ELSE "none"
  /\ tries' = 0 /\ wrong' = 0 /\ reg' = 0 /\ login' = 0
  /\ req' = [r \in Req |-> Idle]
  /\ UNCHANGED <<tables, issued, minted, now, answered, used, setBack, enrolled>>

TimePasses ==
  /\ now < MaxTime
  /\ now' = now + 1
  /\ UNCHANGED <<tables, manager, req, issued, minted, history>>

\* A body that answers no challenge is refused as one that fails.
Arrives(r) ==
  \/ SetupRequest(r, "setupBegin", 0)
  \/ \E c \in Challenge :
       \/ SetupRequest(r, "setupFinish", c) \/ LoginRequest(r, c)
       \/ \E t \in Token : ProtectedRequest(r, "finish", t, c)
  \/ \E t \in Token, then \in {"none", "begin", "session", "count", "revoke"} :
       ProtectedRequest(r, then, t, 0)

Next ==
  \/ \E r \in Req : Arrives(r)
  \/ \E r \in Req :
       \/ RightCode(r) \/ WrongCode(r) \/ BeginRegistration(r) \/ FinishRegistration(r)
       \/ ClearSetupCode(r) \/ FinishLogin(r) \/ VerifyLogin(r) \/ GetAuthSession(r) \/ ReadClock(r)
       \/ TouchAuthSession(r) \/ DeleteExpired(r) \/ CountCredentials(r) \/ Fail(r)
       \/ \E k \in Passkey : AddCredential(r, k) \/ DeleteCredential(r, k)
       \/ \E t \in Token : CreateSession(r, t) \/ DeleteAuthSession(r, t)
  \/ BeginLogin \/ CodeExpires \/ Sweep \/ ResetAuth \/ Restart \/ TimePasses

Spec == Init /\ [][Next]_vars

----------------------------------------------------------------------------
(* Properties *)

\* FinishRegistration takes the session under the lock and verifies outside it: of
\* two requests that answer the same challenge at most one registers a passkey.
OneKeyPerChallenge == \A c \in Challenge : Cardinality(answered[c]) <= 1

\* "The code stays valid until registration completes", and no longer: no setup code
\* outlives the first registration, across failures, resets and restarts, and none
\* survives MaxSetupTries wrong tries, which the code counts across right ones too.
CodeOpensOnlySetup ==
  code # "none" =>
    /\ wrong < MaxSetupTries
    /\ creds = {} \/ \E r \in Req : req[r].at = "clear"

\* A token that was logged out, revoked, reset or swept away lets nothing through
\* again, although a request that came with it may still be about to extend it.
DeadTokensStayDead == [][\A t \in minted : ~Live(t) => ~Live(t)']_vars

\* "30-day sliding expiry": only a token that let no request through for SlideBelow
\* days expires, but for what two slow requests may do to one: delete a row that was
\* slid since the deletion was decided, or slide it less far than another had.
OnlyUnusedExpire ==
  [][\A t \in Token \ setBack :
       /\ Live(t) /\ ~Live(t)'
       /\ Sweep \/ \E r \in Req : DeleteExpired(r) /\ expires[t] = req[r].row
       => now > used[t] + SlideBelow]_vars

\* handleDeleteCredential spares the last passkey: the table runs out only when it
\* shrank between the count and the delete.
RunsOutOnlyByRace ==
  [][\A r \in Req, k \in Passkey :
       DeleteCredential(r, k) /\ creds # {} /\ creds' = {}
         => Cardinality(req[r].keys) > Cardinality(creds)]_vars

\* "cannot delete the last passkey" (authapi.go:163): once there is a passkey, only a
\* reset takes the daemon back to where none is.
LastPasskeyKept == enrolled => creds # {}
=============================================================================
