--------------------------- MODULE Authentication ---------------------------
(***************************************************************************)
(* Getting in: one-time codes by phone, accounts, and the sessions behind  *)
(* refresh tokens.  Source: modules/auth/auth.service.ts and               *)
(* otp.service.ts, the operations that auth.controller.ts and              *)
(* admin.controller.ts route to (the routes of passwords and of separate   *)
(* login codes are commented out).                                         *)
(*                                                                         *)
(* A request in flight occupies a slot of AuthReqs; pc names the statement *)
(* it comes to next.  Requests that are refused before they write are      *)
(* stuttering steps.  Rows of OtpCode are numbered in the order of their   *)
(* createdAt.  A session stands for the login that began it (origin).      *)
(***************************************************************************)
EXTENDS Naturals, FiniteSetsExt

CONSTANTS Phones, Values, \* texts of codes
          Sess,           \* rows of Session, over the life of the system
          AuthReqs, Nobody,
          MaxCodes,       \* bound on the rows of OtpCode
          MaxClock,       \* bound on the time
          MaxAttempts,    \* how often a code may be tried (5)
          Window, Ttl     \* OTP_RESEND_WINDOW_SECONDS, OTP_TTL_MINUTES

ASSUME AuthNumbers == {MaxCodes, MaxClock, MaxAttempts, Window, Ttl} \subseteq Nat
ASSUME NobodyAssumption == Nobody \notin Phones \cup Values \cup Sess
ASSUME SlotsAssumption == Sess \cap AuthReqs = {}

VARIABLES account,   \* User by phone: its isVerified, or that it is an administrator's
          otp,       \* OtpCode
          codes,     \* how many rows it has
          session,   \* Session
          authReq,   \* the requests in flight
          clock,
          tries,     \* comparisons of each code with one that came in (history)
          accepted,  \* verifications each code was accepted in (history)
          alone,     \* codes no two verifications were at at once (history)
          calm       \* phones no two registrations were at at once (history)

otpVars == <<otp, codes, tries, accepted, alone>>
authVars == <<account, otpVars, session, authReq, clock, calm>>

CodeIds == 1 .. MaxCodes
Times == 0 .. MaxClock
Accounts == {"absent", "new", "verified", "admin"}
OtpRows == [phone : Phones \cup {Nobody}, value : Values \cup {Nobody}, at : Times,
            attempts : Nat, used : BOOLEAN]
SessionRows == [state : {"unused", "live", "deleted"}, phone : Phones \cup {Nobody},
                origin : Sess \cup {Nobody}]
AuthSteps == {"idle", "find", "create", "store", "pick", "try", "spend", "use", "sweep",
              "confirm", "rotate", "issue"}
AuthCalls == [pc : AuthSteps, phone : Phones \cup {Nobody}, value : Values \cup {Nobody},
              seen : Accounts, code : 0 .. MaxCodes, from : Sess \cup {Nobody}]
AtRest == [pc |-> "idle", phone |-> Nobody, value |-> Nobody, seen |-> "absent",
           code |-> 0, from |-> Nobody]

AuthTypeOK ==
    /\ account \in [Phones -> Accounts]
    /\ otp \in [CodeIds -> OtpRows]
    /\ codes \in 0 .. MaxCodes
    /\ session \in [Sess -> SessionRows]
    /\ authReq \in [AuthReqs -> AuthCalls]
    /\ clock \in Times
    /\ tries \in [CodeIds -> Nat]
    /\ accepted \in [CodeIds -> Nat]
    /\ alone \subseteq CodeIds
    /\ calm \subseteq Phones

AuthInit ==
    /\ account = [p \in Phones |-> "absent"]
    /\ otp = [c \in CodeIds |->
                [phone |-> Nobody, value |-> Nobody, at |-> 0, attempts |-> 0, used |-> FALSE]]
    /\ codes = 0
    /\ session = [s \in Sess |-> [state |-> "unused", phone |-> Nobody, origin |-> Nobody]]
    /\ authReq = [r \in AuthReqs |-> AtRest]
    /\ clock = 0
    /\ tries = [c \in CodeIds |-> 0]
    /\ accepted = [c \in CodeIds |-> 0]
    /\ alone = CodeIds
    /\ calm = Phones

Stored == 1 .. codes

Takes(r, call) == authReq[r] = AtRest /\ authReq' = [authReq EXCEPT ![r] = call]

GoesOn(r, pc) == authReq' = [authReq EXCEPT ![r].pc = pc]

Answers(r) == authReq' = [authReq EXCEPT ![r] = AtRest]

-----------------------------------------------------------------------------
(* register: a code for a phone.  An operator whose name has an underscore *)
(* is a defective variant of the one that follows it.                      *)

\* assertRateLimit
RecentCodes(p) == {c \in Stored : otp[c].phone = p /\ otp[c].at + Window >= clock}

Registering(p) == {r \in AuthReqs : authReq[r].phone = p /\ authReq[r].pc \in {"find", "create", "store"}
                                    /\ authReq[r].value = Nobody}

RegisterBegins(r, p) ==
    /\ RecentCodes(p) = {}
    /\ Takes(r, [AtRest EXCEPT !.pc = "find", !.phone = p])
    /\ calm' = IF Registering(p) = {} THEN calm ELSE calm \ {p}
    /\ UNCHANGED <<account, otpVars, session, clock>>

\* The two uses of a user: register stores a code, verification looks for one.
AfterUser(r) == IF authReq[r].value = Nobody THEN "store" ELSE "pick"

FindsUser(r) ==
    LET p == authReq[r].phone IN
    /\ authReq[r].pc = "find"
    /\ authReq' = [authReq EXCEPT
           ![r].seen = account[p],
           ![r].pc = IF account[p] = "absent" THEN "create" ELSE AfterUser(r)]
    /\ UNCHANGED <<account, otpVars, session, clock, calm>>

\* User.phone is unique: if another request was first, this one fails.
CreatesUser(r) ==
    LET p == authReq[r].phone IN
    /\ authReq[r].pc = "create"
    /\ IF account[p] = "absent"
       THEN /\ account' = [account EXCEPT ![p] = "new"]
            /\ authReq' = [authReq EXCEPT ![r].seen = "new", ![r].pc = AfterUser(r)]
       ELSE Answers(r) /\ UNCHANGED account
    /\ UNCHANGED <<otpVars, session, clock, calm>>

\* generateAndStoreOtp; codes are short, and that of the test number is always
\* the same, so the text is any.
StoresCode(r, v) ==
    /\ authReq[r].pc = "store"
    /\ codes < MaxCodes
    /\ codes' = codes + 1
    /\ otp' = [otp EXCEPT ![codes + 1] =
           [phone |-> authReq[r].phone, value |-> v, at |-> clock, attempts |-> 0, used |-> FALSE]]
    /\ Answers(r)
    /\ UNCHANGED <<account, session, clock, tries, accepted, alone, calm>>

-----------------------------------------------------------------------------
(* verifyOtpForRegistration: the user, the code, a session.                *)

VerifyBegins(r, p, v) ==
    /\ Takes(r, [AtRest EXCEPT !.pc = "find", !.phone = p, !.value = v])
    /\ UNCHANGED <<account, otpVars, session, clock, calm>>

Usable(p) == {c \in Stored : otp[c].phone = p /\ ~ otp[c].used /\ otp[c].at + Ttl >= clock}

\* verifyOtp: the newest unused and unexpired code of the phone.
PicksCode(r) ==
    LET p == authReq[r].phone IN
    /\ authReq[r].pc = "pick"
    /\ IF Usable(p) = {}
       THEN Answers(r) /\ UNCHANGED alone
       ELSE LET c == Max(Usable(p)) IN
            /\ authReq' = [authReq EXCEPT ![r].pc = "try", ![r].code = c]
            /\ alone' = IF \E q \in AuthReqs : authReq[q].code = c THEN alone \ {c} ELSE alone
    /\ UNCHANGED <<account, otp, codes, tries, accepted, session, clock, calm>>

\* The attempts are counted after the comparison only.
TooMany_Stale(c) == otp[c].attempts > MaxAttempts

\* attemptsCount as the increment returns it
TooMany(c) == otp[c].attempts + 1 > MaxAttempts

\* Counts beyond the first that is too high are not told apart.
Counted(c) == [otp EXCEPT ![c].attempts = IF @ > MaxAttempts THEN @ ELSE @ + 1]

TriesCode(r) ==
    LET c == authReq[r].code IN
    /\ authReq[r].pc = "try"
    /\ otp' = Counted(c)
    /\ IF TooMany(c)
       THEN GoesOn(r, "spend") /\ UNCHANGED tries
       ELSE /\ tries' = [tries EXCEPT ![c] = @ + 1]
            /\ IF otp[c].value = authReq[r].value THEN GoesOn(r, "use") ELSE Answers(r)
    /\ UNCHANGED <<account, codes, accepted, alone, session, clock, calm>>

\* A code tried too often is of no use any more.
SpendsCode(r) ==
    /\ authReq[r].pc = "spend"
    /\ otp' = [otp EXCEPT ![authReq[r].code].used = TRUE]
    /\ Answers(r)
    /\ UNCHANGED <<account, codes, tries, accepted, alone, session, clock, calm>>

Used(c) == [otp EXCEPT ![c].used = TRUE]

UsesCode(r) ==
    LET c == authReq[r].code IN
    /\ authReq[r].pc = "use"
    /\ otp' = Used(c)
    /\ accepted' = [accepted EXCEPT ![c] = @ + 1]
    /\ GoesOn(r, "sweep")
    /\ UNCHANGED <<account, codes, tries, alone, session, clock, calm>>

\* updateMany on the other codes of the phone, then the user if it was not
\* verified when read.
SweepsCodes(r) ==
    /\ authReq[r].pc = "sweep"
    /\ otp' = [c \in CodeIds |->
           IF otp[c].phone = authReq[r].phone /\ c # authReq[r].code
           THEN [otp[c] EXCEPT !.used = TRUE] ELSE otp[c]]
    /\ authReq' = [authReq EXCEPT
           ![r].code = 0, ![r].pc = IF authReq[r].seen = "new" THEN "confirm" ELSE "issue"]
    /\ UNCHANGED <<account, codes, tries, accepted, alone, session, clock, calm>>

ConfirmsUser(r) ==
    LET p == authReq[r].phone IN
    /\ authReq[r].pc = "confirm"
    /\ account' = [account EXCEPT ![p] = IF @ = "new" THEN "verified" ELSE @]
    /\ GoesOn(r, "issue")
    /\ UNCHANGED <<otpVars, session, clock, calm>>

-----------------------------------------------------------------------------
(* Sessions: issueTokensAndPersistSession, refresh, logout, adminLogin.    *)

IssuesSession(r, s) ==
    /\ authReq[r].pc = "issue"
    /\ session[s].state = "unused"
    /\ session' = [session EXCEPT ![s] =
           [state |-> "live", phone |-> authReq[r].phone,
            origin |-> IF authReq[r].from = Nobody THEN s ELSE authReq[r].from]]
    /\ Answers(r)
    /\ UNCHANGED <<account, otpVars, clock, calm>>

LiveOf(p) == {s \in Sess : session[s].state = "live" /\ session[s].phone = p}

\* A valid refresh token matches a session of its user.  Which one is left open:
\* bcrypt compares 72 bytes, and the tokens of a user begin alike.
RefreshBegins(r, p) ==
    /\ \E s \in LiveOf(p) :
           Takes(r, [AtRest EXCEPT !.pc = "rotate", !.phone = p, !.from = s])
    /\ UNCHANGED <<account, otpVars, session, clock, calm>>

\* deleteMany instead of delete.
MayRotate_Always(s) == TRUE

\* delete throws if the session is gone.
MayRotate(s) == session[s].state = "live"

RotatesSession(r) ==
    LET s == authReq[r].from IN
    /\ authReq[r].pc = "rotate"
    /\ IF MayRotate(s)
       THEN /\ session' = [session EXCEPT ![s].state = "deleted"]
            /\ authReq' = [authReq EXCEPT ![r].pc = "issue", ![r].from = session[s].origin]
       ELSE Answers(r) /\ UNCHANGED session
    /\ UNCHANGED <<account, otpVars, clock, calm>>

Logout(p) ==
    /\ LiveOf(p) # {}
    /\ session' = [s \in Sess |->
           IF s \in LiveOf(p) THEN [session[s] EXCEPT !.state = "deleted"] ELSE session[s]]
    /\ UNCHANGED <<account, otpVars, authReq, clock, calm>>

\* createAdmin: no such user yet, and the unique phone decides races.
CreateAdmin(p) ==
    /\ account[p] = "absent"
    /\ account' = [account EXCEPT ![p] = "admin"]
    /\ UNCHANGED <<otpVars, session, authReq, clock, calm>>

AdminLogin(r, p) ==
    /\ account[p] = "admin"
    /\ Takes(r, [AtRest EXCEPT !.pc = "issue", !.phone = p])
    /\ UNCHANGED <<account, otpVars, session, clock, calm>>

-----------------------------------------------------------------------------

\* A statement fails, or the process stops: the request is not continued.
CutOff(r) ==
    /\ authReq[r] # AtRest
    /\ Answers(r)
    /\ UNCHANGED <<account, otpVars, session, clock, calm>>

Tick ==
    /\ clock < MaxClock
    /\ clock' = clock + 1
    /\ UNCHANGED <<account, otpVars, session, authReq, calm>>

VerifyStep(r) ==
    \/ PicksCode(r) \/ TriesCode(r) \/ SpendsCode(r)
    \/ UsesCode(r) \/ SweepsCodes(r) \/ ConfirmsUser(r)

AuthNext ==
    \/ \E r \in AuthReqs, p \in Phones :
           RegisterBegins(r, p) \/ RefreshBegins(r, p) \/ AdminLogin(r, p)
    \/ \E r \in AuthReqs, p \in Phones, v \in Values : VerifyBegins(r, p, v)
    \/ \E r \in AuthReqs, v \in Values : StoresCode(r, v)
    \/ \E r \in AuthReqs, s \in Sess : IssuesSession(r, s)
    \/ \E r \in AuthReqs : FindsUser(r) \/ CreatesUser(r) \/ VerifyStep(r) \/ RotatesSession(r) \/ CutOff(r)
    \/ \E p \in Phones : Logout(p) \/ CreateAdmin(p)
    \/ Tick

AuthSpec == AuthInit /\ [][AuthNext]_authVars

-----------------------------------------------------------------------------
(* Properties.                                                             *)

\* Rows not yet inserted are blank; the comparisons made with a code stay within
\* the attempts counted in its row, and those within the limit.
CodesOK ==
    \A c \in CodeIds :
        /\ c \notin Stored => otp[c].phone = Nobody /\ tries[c] = 0 /\ accepted[c] = 0
        /\ c \in Stored => otp[c].phone \in Phones
        /\ tries[c] <= otp[c].attempts
        /\ tries[c] <= MaxAttempts

Tries == {"try", "spend", "use"}

\* What a request carries fits the step it is at.
CallsOK ==
    \A r \in AuthReqs :
        LET q == authReq[r] IN
        /\ q.pc = "idle" <=> q.phone = Nobody
        /\ q.code # 0 <=> q.pc \in Tries \cup {"sweep"}
        /\ q.code # 0 => q.code \in Stored /\ otp[q.code].phone = q.phone
        /\ q.pc \in {"store", "pick", "sweep", "confirm"} \cup Tries =>
               q.seen # "absent" /\ account[q.phone] # "absent"
        /\ q.seen \in {"verified", "admin"} => account[q.phone] \in {"verified", "admin"}
        /\ q.pc \in {"rotate", "issue"} => account[q.phone] \in {"verified", "admin"}
        /\ q.pc = "rotate" => q.from \in Sess /\ session[q.from].state # "unused"
                                /\ session[q.from].phone = q.phone
        /\ q.pc = "issue" /\ q.from # Nobody =>
               session[q.from].state = "deleted" /\ session[q.from].phone = q.phone
        /\ q.pc \notin {"rotate", "issue"} => q.from = Nobody

\* Sessions belong to people who proved their phone, or to administrators, and go
\* back to the session of a login of the same person.
SessionsOK ==
    \A s \in Sess :
        session[s].state # "unused" =>
            LET o == session[s].origin IN
            /\ session[s].phone \in Phones
            /\ account[session[s].phone] \in {"verified", "admin"}
            /\ o \in Sess
            /\ session[o].state # "unused"
            /\ session[o].origin = o
            /\ session[o].phone = session[s].phone

\* The live sessions of a login, and the refreshes that have deleted one of its
\* sessions and not yet stored the next.
Holders(o) ==
    {s \in Sess : session[s].state = "live" /\ session[s].origin = o}
        \cup {r \in AuthReqs : authReq[r].pc = "issue" /\ authReq[r].from = o}

\* However refreshes, logouts and failures overlap, one login never has two
\* usable refresh tokens (auth.service.ts:212: the second delete throws).
OneTokenPerLogin ==
    \A o \in Sess : \A h, k \in Holders(o) : h = k

OriginsOK ==
    \A r \in AuthReqs :
        authReq[r].pc = "issue" /\ authReq[r].from # Nobody =>
            session[authReq[r].from].origin = authReq[r].from

\* Sessions, accounts and requests in flight fit together: only people who proved
\* their phone hold sessions, and a login has one usable refresh token at most,
\* whatever refreshes overlap (auth.service.ts:212).
AuthInv ==
    /\ AuthTypeOK
    /\ CodesOK
    /\ CallsOK
    /\ SessionsOK
    /\ OriginsOK
    /\ OneTokenPerLogin

\* A code no two verifications were at at once is accepted once at most, and is
\* marked used by then.
AcceptedOnce ==
    \A c \in alone :
        /\ \A r, q \in AuthReqs : authReq[r].code = c /\ authReq[q].code = c => r = q
        /\ accepted[c] <= 1
        /\ accepted[c] = 1 =>
               otp[c].used /\ \A r \in AuthReqs : authReq[r].code = c => authReq[r].pc = "sweep"

\* If no two registrations of a phone overlap, its codes lie more than the resend
\* window apart.
SpacedOut ==
    \A c, d \in Stored :
        c < d /\ otp[c].phone = otp[d].phone /\ otp[c].phone \in calm =>
            otp[c].at + Window < otp[d].at

\* The rules for codes: each is compared MaxAttempts times at most, even when
\* verifications overlap (otp.service.ts:59); it is accepted once unless they do
\* (line 71); and codes of a phone are spaced out unless registrations overlap
\* (line 20).
CodeRules ==
    /\ \A c \in CodeIds : tries[c] <= MaxAttempts
    /\ AcceptedOnce
    /\ SpacedOut

Fate(s) ==
    IF session[s].state = "unused" \/ session[s].origin # s THEN "none"
    ELSE IF Holders(s) # {} THEN "live" ELSE "dead"

Fates == [s \in Sess |-> Fate(s)]

LoginChains == INSTANCE LoginChain WITH Logins <- Sess, chain <- Fates

\* A login lives through the rotations of its refresh token and, once it has ended
\* by a logout, a failure or a lost race, never comes back.
LoginSpec == LoginChains!Spec
=============================================================================
