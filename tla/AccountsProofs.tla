--------------------------- MODULE AccountsProofs ----------------------------
(***************************************************************************)
(* Two parts of the account of a user, for any instance.                   *)
(*                                                                         *)
(* Codes, accounts and logins: the invariant of the rows and of the        *)
(* requests in flight, the rules for codes, and that Authentication        *)
(* implements LoginChain.  A request's call fits the rows (CallFits); rows *)
(* only move on (World), so that the calls of all other requests go on     *)
(* fitting; what remains of each action is the new call of its own         *)
(* request.                                                                *)
(*                                                                         *)
(* Saved cards: only the user who proved a card is charged with it.        *)
(***************************************************************************)
EXTENDS Authentication, SavedCards, TLAPS

(* Codes and logins.                                                       *)

Proved == {"verified", "admin"}

\* A free slot carries nothing, and only registrations store codes.
SlotsOK ==
    \A r \in AuthReqs :
        /\ authReq[r].pc = "idle" => authReq[r] = AtRest
        /\ authReq[r].pc = "store" => authReq[r].value = Nobody

CallFits(q) ==
    /\ q.pc = "idle" => q = AtRest
    /\ q.pc = "store" => q.value = Nobody
    /\ q.pc = "idle" <=> q.phone = Nobody
    /\ q.code # 0 <=> q.pc \in Tries \cup {"sweep"}
    /\ q.code # 0 => q.code \in Stored /\ otp[q.code].phone = q.phone
    /\ q.pc \in {"store", "pick", "sweep", "confirm"} \cup Tries =>
           q.seen # "absent" /\ account[q.phone] # "absent"
    /\ q.seen \in Proved => account[q.phone] \in Proved
    /\ q.pc \in {"rotate", "issue"} => account[q.phone] \in Proved
    /\ q.pc = "rotate" => q.from \in Sess /\ session[q.from].state # "unused"
                            /\ session[q.from].phone = q.phone
    /\ q.pc = "issue" /\ q.from # Nobody =>
           /\ session[q.from].state = "deleted" /\ session[q.from].phone = q.phone
           /\ session[q.from].origin = q.from
    /\ q.pc \notin {"rotate", "issue"} => q.from = Nobody

AllCallsFit == \A r \in AuthReqs : CallFits(authReq[r])

LEMMA AllFit == CallsOK /\ OriginsOK /\ SlotsOK <=> AllCallsFit
<1>1. ASSUME CallsOK, OriginsOK, SlotsOK PROVE AllCallsFit
  BY <1>1 DEF CallsOK, OriginsOK, SlotsOK, AllCallsFit, CallFits, Proved
<1>2. ASSUME AllCallsFit PROVE CallsOK /\ OriginsOK /\ SlotsOK
  BY <1>2 DEF CallsOK, OriginsOK, SlotsOK, AllCallsFit, CallFits, Proved
<1>3. QED  BY <1>1, <1>2

\* Accounts are not lost, codes keep their phones, sessions their owners, and what was
\* deleted stays so.
World ==
    /\ \A p \in Phones : account[p] # "absent" => account'[p] # "absent"
    /\ \A p \in Phones : account[p] \in Proved => account'[p] \in Proved
    /\ codes' \in Nat /\ codes' >= codes
    /\ \A c \in Stored : otp'[c].phone = otp[c].phone
    /\ \A s \in Sess : session[s].state # "unused" =>
           /\ session'[s].state # "unused"
           /\ session'[s].phone = session[s].phone /\ session'[s].origin = session[s].origin
    /\ \A s \in Sess : session[s].state = "deleted" => session'[s].state = "deleted"

LEMMA RestIsCall ==
    /\ AtRest \in AuthCalls
    /\ AtRest.pc = "idle" /\ AtRest.phone = Nobody /\ AtRest.value = Nobody
    /\ AtRest.seen = "absent" /\ AtRest.code = 0 /\ AtRest.from = Nobody
BY AuthNumbers DEF AtRest, AuthCalls, AuthSteps, Accounts

LEMMA RestFits == CallFits(AtRest)
BY RestIsCall DEF CallFits, Tries, Proved

\* A call goes on fitting as rows move on.
LEMMA FitsOn ==
    ASSUME AuthTypeOK, World, NEW q \in AuthCalls, CallFits(q)
    PROVE  CallFits(q)'
<1>1. /\ codes \in Nat
      /\ q.phone \in Phones \cup {Nobody} /\ q.from \in Sess \cup {Nobody}
  BY AuthNumbers DEF AuthCalls, AuthTypeOK
<1>2. q.pc # "idle" => q.phone \in Phones
  BY <1>1 DEF CallFits
<1>3. q.seen \in Proved => q.phone \in Phones
  BY <1>2, RestIsCall DEF CallFits, Proved
<1>4. q.code # 0 => q.code \in Stored' /\ otp'[q.code].phone = q.phone
  <2>1. q.code # 0 => q.code \in Stored /\ otp[q.code].phone = q.phone
    BY DEF CallFits
  <2>2. Stored \subseteq Stored'
    BY <1>1 DEF World, Stored
  <2>3. QED  BY <2>1, <2>2 DEF World
<1>5. /\ q.seen # "absent" /\ account[q.phone] # "absent" /\ q.phone \in Phones =>
             account'[q.phone] # "absent"
      /\ account[q.phone] \in Proved /\ q.phone \in Phones => account'[q.phone] \in Proved
  BY DEF World
<1>6. q.pc \in {"rotate", "issue"} /\ q.from # Nobody =>
          q.from \in Sess /\ session[q.from].state # "unused"
  BY <1>1 DEF CallFits
<1>7. q.pc \in {"rotate", "issue"} /\ q.from # Nobody =>
          /\ session'[q.from].state # "unused"
          /\ session'[q.from].phone = session[q.from].phone
          /\ session'[q.from].origin = session[q.from].origin
          /\ session[q.from].state = "deleted" => session'[q.from].state = "deleted"
  BY <1>6 DEF World
<1>8. /\ q.pc = "idle" => q = AtRest
      /\ q.pc = "store" => q.value = Nobody
      /\ q.pc = "idle" <=> q.phone = Nobody
      /\ q.code # 0 <=> q.pc \in Tries \cup {"sweep"}
      /\ q.pc \notin {"rotate", "issue"} => q.from = Nobody
  BY DEF CallFits
<1>9. /\ q.pc \in {"store", "pick", "sweep", "confirm"} \cup Tries =>
             q.seen # "absent" /\ account'[q.phone] # "absent"
      /\ q.seen \in Proved => account'[q.phone] \in Proved
      /\ q.pc \in {"rotate", "issue"} => account'[q.phone] \in Proved
  BY <1>2, <1>3, <1>5 DEF CallFits, Tries
<1>10. /\ q.pc = "rotate" => q.from \in Sess /\ session'[q.from].state # "unused"
                               /\ session'[q.from].phone = q.phone
       /\ q.pc = "issue" /\ q.from # Nobody =>
              /\ session'[q.from].state = "deleted" /\ session'[q.from].phone = q.phone
              /\ session'[q.from].origin = q.from
  BY <1>6, <1>7, NobodyAssumption DEF CallFits
<1>11. QED  BY <1>4, <1>8, <1>9, <1>10 DEF CallFits, Tries, Proved

\* Every request but one keeps its call, and that one has a new call that fits.
LEMMA CallsGoOn ==
    ASSUME AuthTypeOK, CallsOK, OriginsOK, SlotsOK, World,
           NEW r \in AuthReqs, NEW w \in AuthCalls,
           authReq' = [authReq EXCEPT ![r] = w], CallFits(w)'
    PROVE  /\ authReq' \in [AuthReqs -> AuthCalls]
           /\ authReq'[r] = w /\ \A n \in AuthReqs : n # r => authReq'[n] = authReq[n]
           /\ CallsOK' /\ OriginsOK' /\ SlotsOK'
<1>1. /\ authReq' \in [AuthReqs -> AuthCalls] /\ authReq'[r] = w
      /\ \A n \in AuthReqs : n # r => authReq'[n] = authReq[n]
  BY DEF AuthTypeOK
<1>2. ASSUME NEW n \in AuthReqs, n # r PROVE CallFits(authReq[n])'
  <2>1. PICK q : q = authReq[n]
    OBVIOUS
  <2>2. q = authReq'[n] /\ q \in AuthCalls
    BY <1>1, <1>2, <2>1 DEF AuthTypeOK
  <2>3. CallFits(q)
    BY <2>1, AllFit DEF AllCallsFit
  <2>4. CallFits(q)'
    BY <2>2, <2>3, FitsOn
  <2>5. QED  BY <2>2, <2>4
<1>3. AllCallsFit'
  BY <1>1, <1>2 DEF AllCallsFit
<1>4. CallsOK' /\ OriginsOK' /\ SlotsOK'
  BY <1>3, AllFit, PTL
<1>5. QED  BY <1>1, <1>4

-----------------------------------------------------------------------------
(* The inductive invariant, and what leaves its parts alone.               *)

\* That the newest of some codes exists is not to be had from the library without an
\* induction over data; as an invariant it needs none, since codes come one by one.
HasNewest == \A T \in SUBSET Stored : T # {} => \E c \in T : \A d \in T : c >= d

\* A registration of a calm phone is the only one, and passed the window already.
Spacing ==
    /\ SpacedOut
    /\ \A c \in Stored : otp[c].at <= clock
    /\ \A p \in calm : \A r, q \in Registering(p) : r = q
    /\ \A p \in calm : Registering(p) # {} =>
           \A c \in Stored : otp[c].phone = p => otp[c].at + Window < clock

Fitting == AuthTypeOK /\ CallsOK /\ OriginsOK /\ SlotsOK
CodesInd == CodesOK /\ AcceptedOnce /\ Spacing /\ HasNewest
SessionsInd == SessionsOK /\ OneTokenPerLogin
AuthInd == Fitting /\ CodesInd /\ SessionsInd

LEMMA AcceptedKept ==
    ASSUME AuthTypeOK, AcceptedOnce, otp' = otp, accepted' = accepted, alone' \subseteq alone,
           \A n \in AuthReqs : authReq'[n].code # 0 =>
               authReq'[n].code = authReq[n].code /\ authReq'[n].pc = authReq[n].pc
    PROVE  AcceptedOnce'
<1>1. alone \subseteq CodeIds /\ 0 \notin CodeIds
  BY DEF AuthTypeOK, CodeIds
<1>2. QED  BY <1>1 DEF AcceptedOnce

LEMMA SpacingKept ==
    ASSUME Spacing, UNCHANGED <<codes, clock>>, calm' \subseteq calm,
           \A c \in Stored : otp'[c].phone = otp[c].phone /\ otp'[c].at = otp[c].at,
           \A n \in AuthReqs : \/ authReq'[n].pc \notin {"find", "create", "store"}
                               \/ authReq'[n].value # Nobody
                               \/ /\ authReq[n].pc \in {"find", "create", "store"}
                                  /\ authReq[n].value = Nobody
                                  /\ authReq[n].phone = authReq'[n].phone
    PROVE  Spacing'
<1>1. Stored' = Stored
  BY DEF Stored
<1>2. \A p : Registering(p)' \subseteq Registering(p)
  BY DEF Registering
<1>3. SpacedOut'
  BY <1>1 DEF Spacing, SpacedOut
<1>4. \A c \in Stored' : otp'[c].at <= clock'
  BY <1>1 DEF Spacing
<1>5. \A p \in calm' : \A r, q \in Registering(p)' : r = q
  BY <1>2 DEF Spacing
<1>6. \A p \in calm' : Registering(p)' # {} =>
          \A c \in Stored' : otp'[c].phone = p => otp'[c].at + Window < clock'
  BY <1>1, <1>2 DEF Spacing
<1>7. QED  BY <1>3, <1>4, <1>5, <1>6 DEF Spacing

LEMMA SessionsKept ==
    ASSUME SessionsInd, session' = session,
           \A p \in Phones : account[p] \in Proved => account'[p] \in Proved,
           \A n \in AuthReqs : authReq'[n].pc = "issue" /\ authReq'[n].from \in Sess =>
               authReq[n].pc = "issue" /\ authReq[n].from = authReq'[n].from
    PROVE  SessionsInd'
<1>1. SessionsOK'
  BY DEF SessionsInd, SessionsOK, Proved
<1>2. \A o \in Sess : Holders(o)' \subseteq Holders(o)
  BY DEF Holders
<1>3. QED  BY <1>1, <1>2 DEF SessionsInd, OneTokenPerLogin

LEMMA NewestKept == HasNewest /\ codes' = codes => HasNewest'
BY DEF HasNewest, Stored

LEMMA CodesOKKept == CodesOK /\ UNCHANGED <<otp, codes, tries, accepted>> => CodesOK'
BY DEF CodesOK, Stored

\* A request goes on, or ends, without writing a code or a session.
LEMMA GoesOnStep ==
    ASSUME AuthInd, UNCHANGED <<session, otp, codes, tries, accepted, clock, alone, calm>>,
           account' \in [Phones -> Accounts], World,
           NEW r \in AuthReqs, NEW w \in AuthCalls, authReq' = [authReq EXCEPT ![r] = w],
           CallFits(w)', w.code = 0, w.pc = "issue" => w.from = Nobody,
           \/ w.pc \notin {"find", "create", "store"}
           \/ w.value # Nobody
           \/ /\ authReq[r].pc \in {"find", "create", "store"}
              /\ authReq[r].value = Nobody /\ authReq[r].phone = w.phone
    PROVE  AuthInd'
<1>1. AuthTypeOK /\ CallsOK /\ OriginsOK /\ SlotsOK /\ codes' \in Nat
  BY AuthNumbers DEF AuthInd, Fitting, AuthTypeOK
<1>2. /\ authReq' \in [AuthReqs -> AuthCalls]
      /\ authReq'[r] = w /\ \A n \in AuthReqs : n # r => authReq'[n] = authReq[n]
      /\ CallsOK' /\ OriginsOK' /\ SlotsOK'
  BY <1>1, CallsGoOn
<1>3. AuthTypeOK'
  BY <1>1, <1>2 DEF AuthTypeOK
<1>4. AcceptedOnce'
  BY <1>1, <1>2, AcceptedKept DEF AuthInd, CodesInd
<1>5. Spacing'
  BY <1>2, SpacingKept DEF AuthInd, CodesInd
<1>6. SessionsInd'
  BY <1>2, NobodyAssumption, SessionsKept DEF AuthInd, World
<1>7. CodesOK' /\ HasNewest'
  BY CodesOKKept, NewestKept DEF AuthInd, CodesInd
<1>8. QED  BY <1>2, <1>3, <1>4, <1>5, <1>6, <1>7 DEF AuthInd, Fitting, CodesInd

LEMMA WorldStays ==
    ASSUME AuthTypeOK, UNCHANGED <<account, otp, codes, session>>
    PROVE  World /\ account' \in [Phones -> Accounts]
BY AuthNumbers DEF AuthTypeOK, World

\* What a request in flight is about.
LEMMA CallOf ==
    ASSUME AuthInd, NEW r \in AuthReqs
    PROVE  /\ authReq[r] \in AuthCalls /\ CallFits(authReq[r])
           /\ authReq[r].pc # "idle" => authReq[r].phone \in Phones
           /\ authReq[r].code # 0 => authReq[r].code \in CodeIds
<1>1. authReq[r] \in AuthCalls /\ CallFits(authReq[r])
  BY AllFit DEF AuthInd, Fitting, AuthTypeOK, AllCallsFit
<1>2. QED
  BY <1>1, AuthNumbers DEF CallFits, AuthCalls, CodeIds

LEMMA FitsStill ==
    ASSUME UNCHANGED <<account, otp, codes, session>>, NEW w, CallFits(w)
    PROVE  CallFits(w)'
BY DEF CallFits, Stored, Tries, Proved

\* A request is over.
LEMMA CutOffStep ==
    ASSUME AuthInd, NEW r \in AuthReqs, Answers(r),
           UNCHANGED <<account, session, otpVars, clock, calm>>
    PROVE  AuthInd'
<1>1. AuthTypeOK /\ UNCHANGED <<account, session, otp, codes, tries, accepted, clock, alone, calm>>
  BY DEF AuthInd, Fitting, otpVars
<1>2. CallFits(AtRest)'
  BY <1>1, RestFits, FitsStill
<1>3. QED  BY <1>1, <1>2, RestIsCall, WorldStays, GoesOnStep DEF Answers

LEMMA FindsUserStep ==
    ASSUME AuthInd, NEW r \in AuthReqs, FindsUser(r)
    PROVE  AuthInd'
<1>1. PICK q : q = authReq[r]
  OBVIOUS
<1>2. PICK a : a = account[q.phone]
  OBVIOUS
<1>3. PICK w : w = [q EXCEPT !.seen = a, !.pc = IF a = "absent" THEN "create"
                              ELSE IF q.value = Nobody THEN "store" ELSE "pick"]
  OBVIOUS
<1>4. q \in AuthCalls /\ CallFits(q) /\ q.pc = "find" /\ q.phone \in Phones
  BY <1>1, CallOf DEF FindsUser
<1>5. AuthTypeOK /\ a \in Accounts
  BY <1>2, <1>4 DEF AuthInd, Fitting, AuthTypeOK
<1>6. /\ w \in AuthCalls /\ w.code = q.code /\ w.phone = q.phone /\ w.value = q.value
      /\ w.from = q.from /\ w.seen = a
      /\ w.pc = IF a = "absent" THEN "create" ELSE IF q.value = Nobody THEN "store" ELSE "pick"
  BY <1>3, <1>4, <1>5 DEF AuthCalls, AuthSteps
<1>7. /\ authReq' = [authReq EXCEPT ![r] = w]
      /\ UNCHANGED <<account, session, otp, codes, tries, accepted, alone, clock, calm>>
  BY <1>1, <1>2, <1>3, <1>5 DEF FindsUser, AfterUser, AuthTypeOK, otpVars
<1>8. q.code = 0 /\ q.from = Nobody
  BY <1>4 DEF CallFits, Tries
<1>9. CallFits(w)
  BY <1>2, <1>4, <1>6, <1>8 DEF CallFits, Tries, Proved
<1>10. CallFits(w)' /\ World /\ account' \in [Phones -> Accounts]
  BY <1>5, <1>7, <1>9, FitsStill, WorldStays
<1>11. w.value # Nobody \/ authReq[r].value = Nobody
  BY <1>1, <1>6
<1>12. QED  BY <1>1, <1>4, <1>6, <1>7, <1>8, <1>10, <1>11, GoesOnStep

LEMMA CreatesUserStep ==
    ASSUME AuthInd, NEW r \in AuthReqs, CreatesUser(r)
    PROVE  AuthInd'
<1>1. PICK q : q = authReq[r]
  OBVIOUS
<1>2. q \in AuthCalls /\ CallFits(q) /\ q.pc = "create" /\ q.phone \in Phones /\ AuthTypeOK
  BY <1>1, CallOf DEF CreatesUser, AuthInd, Fitting
<1>3. CASE account[q.phone] = "absent"
  <2>1. PICK w : w = [q EXCEPT !.seen = "new", !.pc = IF q.value = Nobody THEN "store" ELSE "pick"]
    OBVIOUS
  <2>2. /\ w \in AuthCalls /\ w.code = q.code /\ w.phone = q.phone /\ w.value = q.value
        /\ w.from = q.from /\ w.seen = "new" /\ w.pc = IF q.value = Nobody THEN "store" ELSE "pick"
    BY <1>2, <2>1 DEF AuthCalls, AuthSteps, Accounts
  <2>3. /\ authReq' = [authReq EXCEPT ![r] = w]
        /\ account' = [account EXCEPT ![q.phone] = "new"]
        /\ UNCHANGED <<session, otp, codes, tries, accepted, alone, clock, calm>>
    BY <1>1, <1>2, <1>3, <2>1 DEF CreatesUser, AfterUser, AuthTypeOK, otpVars
  <2>4. /\ account' \in [Phones -> Accounts] /\ account'[q.phone] = "new"
        /\ \A p \in Phones : p # q.phone => account'[p] = account[p]
    BY <1>2, <2>3 DEF AuthTypeOK, Accounts
  <2>5. World
    BY <1>2, <1>3, <2>3, <2>4, AuthNumbers DEF AuthTypeOK, World, Proved
  <2>6. q.code = 0 /\ q.from = Nobody
    BY <1>2 DEF CallFits, Tries
  <2>7. CallFits(w)'
    BY <1>2, <2>2, <2>4, <2>6 DEF CallFits, Tries, Proved
  <2>8. w.value # Nobody \/ authReq[r].value = Nobody
    BY <1>1, <2>2
  <2>9. QED  BY <1>1, <1>2, <2>2, <2>3, <2>4, <2>5, <2>6, <2>7, <2>8, GoesOnStep
<1>4. CASE account[q.phone] # "absent"
  BY <1>1, <1>4, CutOffStep DEF CreatesUser
<1>5. QED  BY <1>3, <1>4

\* A request begins: a call made of AtRest.
LEMMA VerifyBeginsStep ==
    ASSUME AuthInd, NEW r \in AuthReqs, NEW p \in Phones, NEW v \in Values, VerifyBegins(r, p, v)
    PROVE  AuthInd'
<1>1. PICK w : w = [AtRest EXCEPT !.pc = "find", !.phone = p, !.value = v]
  OBVIOUS
<1>2. /\ w \in AuthCalls /\ w.pc = "find" /\ w.phone = p /\ w.value = v
      /\ w.code = 0 /\ w.from = Nobody /\ w.seen = "absent"
  BY <1>1, RestIsCall DEF AtRest, AuthCalls, AuthSteps
<1>3. /\ authReq' = [authReq EXCEPT ![r] = w] /\ AuthTypeOK
      /\ UNCHANGED <<account, session, otp, codes, tries, accepted, alone, clock, calm>>
  BY <1>1 DEF VerifyBegins, Takes, otpVars, AuthInd, Fitting
<1>4. CallFits(w)
  BY <1>2, NobodyAssumption DEF CallFits, Tries, Proved
<1>5. w.value # Nobody
  BY <1>2, NobodyAssumption
<1>6. CallFits(w)' /\ World /\ account' \in [Phones -> Accounts]
  BY <1>3, <1>4, FitsStill, WorldStays
<1>7. QED  BY <1>2, <1>3, <1>5, <1>6, GoesOnStep

LEMMA AdminLoginStep ==
    ASSUME AuthInd, NEW r \in AuthReqs, NEW p \in Phones, AdminLogin(r, p)
    PROVE  AuthInd'
<1>1. PICK w : w = [AtRest EXCEPT !.pc = "issue", !.phone = p]
  OBVIOUS
<1>2. /\ w \in AuthCalls /\ w.pc = "issue" /\ w.phone = p
      /\ w.code = 0 /\ w.from = Nobody /\ w.seen = "absent"
  BY <1>1, RestIsCall DEF AtRest, AuthCalls, AuthSteps
<1>3. /\ authReq' = [authReq EXCEPT ![r] = w] /\ AuthTypeOK /\ account[p] = "admin"
      /\ UNCHANGED <<account, session, otp, codes, tries, accepted, alone, clock, calm>>
  BY <1>1 DEF AdminLogin, Takes, otpVars, AuthInd, Fitting
<1>4. CallFits(w)
  BY <1>2, <1>3, NobodyAssumption DEF CallFits, Tries, Proved
<1>5. CallFits(w)' /\ World /\ account' \in [Phones -> Accounts]
  BY <1>3, <1>4, FitsStill, WorldStays
<1>6. QED  BY <1>2, <1>3, <1>5, GoesOnStep

LEMMA RefreshBeginsStep ==
    ASSUME AuthInd, NEW r \in AuthReqs, NEW p \in Phones, RefreshBegins(r, p)
    PROVE  AuthInd'
<1>1. PICK s \in LiveOf(p) : Takes(r, [AtRest EXCEPT !.pc = "rotate", !.phone = p, !.from = s])
  BY DEF RefreshBegins
<1>2. s \in Sess /\ session[s].state = "live" /\ session[s].phone = p
  BY <1>1 DEF LiveOf
<1>3. PICK w : w = [AtRest EXCEPT !.pc = "rotate", !.phone = p, !.from = s]
  OBVIOUS
<1>4. /\ w \in AuthCalls /\ w.pc = "rotate" /\ w.phone = p
      /\ w.code = 0 /\ w.from = s /\ w.seen = "absent"
  BY <1>2, <1>3, RestIsCall DEF AtRest, AuthCalls, AuthSteps
<1>5. /\ authReq' = [authReq EXCEPT ![r] = w] /\ AuthTypeOK
      /\ UNCHANGED <<account, session, otp, codes, tries, accepted, alone, clock, calm>>
  BY <1>1, <1>3 DEF RefreshBegins, Takes, otpVars, AuthInd, Fitting
<1>6. account[p] \in Proved
  BY <1>2 DEF AuthInd, SessionsInd, SessionsOK, Proved
<1>7. CallFits(w)
  BY <1>2, <1>4, <1>6, NobodyAssumption DEF CallFits, Tries, Proved
<1>8. CallFits(w)' /\ World /\ account' \in [Phones -> Accounts]
  BY <1>5, <1>7, FitsStill, WorldStays
<1>9. QED  BY <1>4, <1>5, <1>8, GoesOnStep

LEMMA ConfirmsUserStep ==
    ASSUME AuthInd, NEW r \in AuthReqs, ConfirmsUser(r)
    PROVE  AuthInd'
<1>1. PICK q : q = authReq[r]
  OBVIOUS
<1>2. q \in AuthCalls /\ CallFits(q) /\ q.pc = "confirm" /\ q.phone \in Phones /\ AuthTypeOK
  BY <1>1, CallOf DEF ConfirmsUser, AuthInd, Fitting
<1>3. PICK w : w = [q EXCEPT !.pc = "issue"]
  OBVIOUS
<1>4. /\ w \in AuthCalls /\ w.code = q.code /\ w.phone = q.phone
      /\ w.from = q.from /\ w.seen = q.seen /\ w.pc = "issue"
  BY <1>2, <1>3 DEF AuthCalls, AuthSteps
<1>5. /\ authReq' = [authReq EXCEPT ![r] = w]
      /\ account' = [account EXCEPT ![q.phone] = IF @ = "new" THEN "verified" ELSE @]
      /\ UNCHANGED <<session, otp, codes, tries, accepted, alone, clock, calm>>
  BY <1>1, <1>3 DEF ConfirmsUser, GoesOn, otpVars
<1>6. /\ account' \in [Phones -> Accounts]
      /\ \A p \in Phones : p # q.phone => account'[p] = account[p]
      /\ account'[q.phone] = IF account[q.phone] = "new" THEN "verified" ELSE account[q.phone]
  BY <1>2, <1>5 DEF AuthTypeOK, Accounts
<1>7. World
  BY <1>2, <1>5, <1>6, AuthNumbers DEF AuthTypeOK, World, Proved
<1>8. q.code = 0 /\ q.from = Nobody /\ account[q.phone] # "absent"
  BY <1>2 DEF CallFits, Tries
<1>9. account[q.phone] \in Accounts
  BY <1>2 DEF AuthTypeOK
<1>10. account'[q.phone] \in Proved
  BY <1>6, <1>8, <1>9 DEF Accounts, Proved
<1>11. CallFits(w)'
  BY <1>2, <1>4, <1>8, <1>10 DEF CallFits, Tries, Proved
<1>12. QED  BY <1>1, <1>4, <1>5, <1>6, <1>7, <1>8, <1>11, GoesOnStep

\* A registration passes the window while no other of its phone is under way, or the
\* phone is calm no longer.
LEMMA RegisterBeginsStep ==
    ASSUME AuthInd, NEW r \in AuthReqs, NEW p \in Phones, RegisterBegins(r, p)
    PROVE  AuthInd'
<1>1. PICK w : w = [AtRest EXCEPT !.pc = "find", !.phone = p]
  OBVIOUS
<1>2. /\ w \in AuthCalls /\ w.pc = "find" /\ w.phone = p
      /\ w.code = 0 /\ w.from = Nobody /\ w.seen = "absent"
  BY <1>1, RestIsCall DEF AtRest, AuthCalls, AuthSteps
<1>3. /\ authReq' = [authReq EXCEPT ![r] = w] /\ AuthTypeOK /\ RecentCodes(p) = {}
      /\ calm' = IF Registering(p) = {} THEN calm ELSE calm \ {p}
      /\ UNCHANGED <<account, session, otp, codes, tries, accepted, alone, clock>>
  BY <1>1 DEF RegisterBegins, Takes, otpVars, AuthInd, Fitting
<1>4. CallFits(w)
  BY <1>2, NobodyAssumption DEF CallFits, Tries, Proved
<1>5. CallFits(w)' /\ World /\ account' \in [Phones -> Accounts]
  BY <1>3, <1>4, FitsStill, WorldStays
<1>6. /\ authReq' \in [AuthReqs -> AuthCalls]
      /\ authReq'[r] = w /\ \A n \in AuthReqs : n # r => authReq'[n] = authReq[n]
      /\ CallsOK' /\ OriginsOK' /\ SlotsOK'
  BY <1>2, <1>3, <1>5, CallsGoOn DEF AuthInd, Fitting
<1>7. AuthTypeOK'
  BY <1>3, <1>6 DEF AuthTypeOK
<1>8. AcceptedOnce'
  BY <1>2, <1>3, <1>6, AcceptedKept DEF AuthInd, CodesInd
<1>9. SessionsInd'
  BY <1>2, <1>3, <1>6, SessionsKept DEF AuthInd
<1>10. CodesOK' /\ HasNewest'
  BY <1>3, CodesOKKept, NewestKept DEF AuthInd, CodesInd
<1>11. Stored' = Stored /\ Spacing /\ calm' \subseteq calm /\ (p \in calm' => Registering(p) = {})
  BY <1>3 DEF Stored, AuthInd, CodesInd
<1>12. /\ \A m : m # p => Registering(m)' \subseteq Registering(m)
       /\ Registering(p)' \subseteq Registering(p) \cup {r}
  BY <1>2, <1>6 DEF Registering
<1>13. \A c \in Stored : otp[c].phone = p => otp[c].at + Window < clock
  <2> SUFFICES ASSUME NEW c \in Stored, otp[c].phone = p PROVE otp[c].at + Window < clock
    OBVIOUS
  <2>1. ~ (otp[c].at + Window >= clock)
    BY <1>3 DEF RecentCodes
  <2>2. c \in CodeIds
    BY <1>3, AuthNumbers DEF Stored, CodeIds, AuthTypeOK
  <2>3. otp[c].at \in Nat /\ clock \in Nat /\ Window \in Nat
    BY <1>3, <2>2, AuthNumbers DEF AuthTypeOK, OtpRows, Times
  <2>4. QED  BY <2>1, <2>3
<1>14. Spacing'
  <2>1. SpacedOut' /\ \A c \in Stored' : otp'[c].at <= clock'
    BY <1>3, <1>11 DEF Spacing, SpacedOut
  <2>2. \A m \in calm' : \A k, n \in Registering(m)' : k = n
    BY <1>11, <1>12 DEF Spacing
  <2>3. \A m \in calm' : Registering(m)' # {} =>
            \A c \in Stored' : otp'[c].phone = m => otp'[c].at + Window < clock'
    BY <1>3, <1>11, <1>12, <1>13 DEF Spacing
  <2>4. QED  BY <2>1, <2>2, <2>3 DEF Spacing
<1>15. QED  BY <1>6, <1>7, <1>8, <1>9, <1>10, <1>14 DEF AuthInd, Fitting, CodesInd

LEMMA StoresCodeStep ==
    ASSUME AuthInd, NEW r \in AuthReqs, NEW v \in Values, StoresCode(r, v)
    PROVE  AuthInd'
<1>1. PICK q : q = authReq[r]
  OBVIOUS
<1>2. PICK c : c = codes + 1
  OBVIOUS
<1>3. PICK row : row = [phone |-> q.phone, value |-> v, at |-> clock, attempts |-> 0, used |-> FALSE]
  OBVIOUS
<1>4. /\ codes < MaxCodes /\ codes' = c /\ otp' = [otp EXCEPT ![c] = row]
      /\ authReq' = [authReq EXCEPT ![r] = AtRest]
      /\ UNCHANGED <<account, session, clock, tries, accepted, alone, calm>>
  BY <1>1, <1>2, <1>3 DEF StoresCode, Answers
<1>5. /\ q \in AuthCalls /\ CallFits(q) /\ q.pc = "store" /\ q.phone \in Phones /\ AuthTypeOK
      /\ q.value = Nobody
  BY <1>1, CallOf DEF StoresCode, AuthInd, Fitting, CallFits
<1>6. codes \in Nat /\ c \in Nat /\ c \in CodeIds /\ c \notin Stored /\ Stored' = Stored \cup {c}
  <2>1. codes \in Nat /\ MaxCodes \in Nat
    BY <1>5, AuthNumbers DEF AuthTypeOK
  <2>2. QED  BY <1>2, <1>4, <2>1 DEF CodeIds, Stored
<1>7. /\ otp' \in [CodeIds -> OtpRows] /\ otp'[c] = row
      /\ \A d \in CodeIds : d # c => otp'[d] = otp[d]
  BY <1>3, <1>4, <1>5, <1>6 DEF AuthTypeOK, OtpRows
<1>8. Stored \subseteq CodeIds
  BY <1>5, AuthNumbers DEF Stored, CodeIds, AuthTypeOK
<1>9. World
  BY <1>2, <1>4, <1>6, <1>7, <1>8 DEF World
<1>10. CallFits(AtRest)'
  BY RestIsCall DEF CallFits, Tries, Proved
<1>11. /\ authReq' \in [AuthReqs -> AuthCalls]
       /\ authReq'[r] = AtRest /\ \A n \in AuthReqs : n # r => authReq'[n] = authReq[n]
       /\ CallsOK' /\ OriginsOK' /\ SlotsOK'
  BY <1>4, <1>9, <1>10, RestIsCall, CallsGoOn DEF AuthInd, Fitting
<1>12. AuthTypeOK'
  <2>1. codes' \in 0 .. MaxCodes
    BY <1>2, <1>4, <1>6, AuthNumbers
  <2>2. QED  BY <1>4, <1>5, <1>7, <1>11, <2>1 DEF AuthTypeOK
<1>13. tries[c] = 0 /\ accepted[c] = 0
  BY <1>6 DEF AuthInd, CodesInd, CodesOK
<1>14. CodesOK'
  <2>1. ASSUME NEW d \in CodeIds
        PROVE  /\ d \notin Stored' => otp'[d].phone = Nobody /\ tries'[d] = 0 /\ accepted'[d] = 0
               /\ d \in Stored' => otp'[d].phone \in Phones
               /\ tries'[d] <= otp'[d].attempts
               /\ tries'[d] <= MaxAttempts
    <3>1. CASE d = c
      BY <1>3, <1>4, <1>5, <1>6, <1>7, <1>13, <3>1, AuthNumbers
    <3>2. CASE d # c
      BY <1>4, <1>6, <1>7, <3>2 DEF AuthInd, CodesInd, CodesOK
    <3>3. QED  BY <3>1, <3>2
  <2>2. QED  BY <2>1 DEF CodesOK
<1>15. AcceptedOnce'
  <2>1. ASSUME NEW d \in alone
        PROVE  /\ \A k, n \in AuthReqs : authReq'[k].code = d /\ authReq'[n].code = d => k = n
               /\ accepted'[d] <= 1
               /\ accepted'[d] = 1 =>
                      /\ otp'[d].used
                      /\ \A n \in AuthReqs : authReq'[n].code = d => authReq'[n].pc = "sweep"
    <3>1. d \in CodeIds /\ d # 0
      BY <1>5 DEF AuthTypeOK, CodeIds
    <3>2. \A n \in AuthReqs : authReq'[n].code = d => authReq'[n] = authReq[n]
      BY <1>11, <3>1, RestIsCall
    <3>3. accepted[d] = 1 => d # c
      BY <1>13
    <3>4. accepted'[d] = accepted[d] /\ (d # c => otp'[d] = otp[d])
      BY <1>4, <1>7, <3>1
    <3>5. QED  BY <3>2, <3>3, <3>4 DEF AuthInd, CodesInd, AcceptedOnce
  <2>2. QED  BY <1>4, <2>1 DEF AcceptedOnce
<1>16. Spacing'
  <2>1. Spacing /\ clock' = clock /\ calm' = calm
    BY <1>4 DEF AuthInd, CodesInd
  <2>2. r \in Registering(q.phone)
    BY <1>1, <1>5 DEF Registering
  <2>3. \A m : Registering(m)' \subseteq Registering(m) \ {r}
    BY <1>11, RestIsCall DEF Registering
  <2>4. \A d \in Stored : otp'[d] = otp[d]
    BY <1>6, <1>7, <1>8
  <2>5. otp'[c].at = clock /\ otp'[c].phone = q.phone
    BY <1>3, <1>7
  <2>6. \A d \in Stored : d < c /\ d \in Nat
    BY <1>2, <1>6 DEF Stored
  <2>7. SpacedOut'
    <3> SUFFICES ASSUME NEW d \in Stored', NEW e \in Stored', d < e,
                        otp'[d].phone = otp'[e].phone, otp'[d].phone \in calm'
                 PROVE  otp'[d].at + Window < otp'[e].at
      BY DEF SpacedOut
    <3>1. d # c
      BY <1>6, <2>6
    <3>2. d \in Stored /\ otp'[d] = otp[d]
      BY <1>6, <2>4, <3>1
    <3>3. CASE e = c
      BY <2>1, <2>2, <2>5, <3>2, <3>3 DEF Spacing
    <3>4. CASE e # c
      BY <1>6, <2>1, <2>4, <3>2, <3>4 DEF Spacing, SpacedOut
    <3>5. QED  BY <3>3, <3>4
  <2>8. \A d \in Stored' : otp'[d].at <= clock'
    <3>1. clock \in Nat
      BY <1>5, AuthNumbers DEF AuthTypeOK, Times
    <3>2. QED  BY <1>6, <2>1, <2>4, <2>5, <3>1 DEF Spacing
  <2>9. \A m \in calm' : \A k, n \in Registering(m)' : k = n
    BY <2>1, <2>3 DEF Spacing
  <2>10. \A m \in calm' : Registering(m)' # {} =>
             \A d \in Stored' : otp'[d].phone = m => otp'[d].at + Window < clock'
    <3> SUFFICES ASSUME NEW m \in calm, Registering(m)' # {}, NEW d \in Stored', otp'[d].phone = m
                 PROVE  otp'[d].at + Window < clock
      BY <2>1
    <3>1. m # q.phone
      BY <2>1, <2>2, <2>3 DEF Spacing
    <3>2. d \in Stored
      BY <1>6, <2>5, <3>1
    <3>3. QED  BY <2>1, <2>3, <2>4, <3>2 DEF Spacing
  <2>11. QED  BY <2>7, <2>8, <2>9, <2>10 DEF Spacing
<1>17. SessionsInd'
  BY <1>4, <1>11, RestIsCall, SessionsKept DEF AuthInd
<1>18. HasNewest'
  <2> SUFFICES ASSUME NEW T \in SUBSET Stored', T # {} PROVE \E d \in T : \A e \in T : d >= e
    BY DEF HasNewest
  <2>1. \A d \in Stored : d <= c /\ d \in Nat
    BY <1>2, <1>6 DEF Stored
  <2>2. CASE c \in T
    BY <1>6, <2>1, <2>2
  <2>3. CASE c \notin T
    BY <1>6, <2>3 DEF AuthInd, CodesInd, HasNewest
  <2>4. QED  BY <2>2, <2>3
<1>19. QED
  BY <1>11, <1>12, <1>14, <1>15, <1>16, <1>17, <1>18 DEF AuthInd, Fitting, CodesInd

-----------------------------------------------------------------------------
(* The steps of a verification write codes; what they have in common.      *)

LEMMA VerifyFrame ==
    ASSUME AuthInd, UNCHANGED <<account, codes, session, clock, calm>>, alone' \subseteq alone,
           otp' \in [CodeIds -> OtpRows], tries' \in [CodeIds -> Nat], accepted' \in [CodeIds -> Nat],
           \A c \in CodeIds : otp'[c].phone = otp[c].phone /\ otp'[c].at = otp[c].at,
           NEW r \in AuthReqs, NEW w \in AuthCalls, authReq' = [authReq EXCEPT ![r] = w],
           CallFits(w), w.pc = "issue" => w.from = Nobody,
           w.pc \notin {"find", "create", "store"}
    PROVE  /\ authReq' \in [AuthReqs -> AuthCalls]
           /\ authReq'[r] = w /\ \A n \in AuthReqs : n # r => authReq'[n] = authReq[n]
           /\ CodesOK' /\ AcceptedOnce' => AuthInd'
<1>1. AuthTypeOK /\ Stored \subseteq CodeIds
  BY AuthNumbers DEF AuthInd, Fitting, AuthTypeOK, Stored, CodeIds
<1>2. World /\ Stored' = Stored
  BY <1>1, AuthNumbers DEF World, AuthTypeOK, Stored
<1>3. CallFits(w)'
  BY <1>1, <1>2, FitsOn
<1>4. /\ authReq' \in [AuthReqs -> AuthCalls]
      /\ authReq'[r] = w /\ \A n \in AuthReqs : n # r => authReq'[n] = authReq[n]
      /\ CallsOK' /\ OriginsOK' /\ SlotsOK'
  BY <1>2, <1>3, CallsGoOn DEF AuthInd, Fitting
<1>5. AuthTypeOK'
  BY <1>1, <1>4 DEF AuthTypeOK
<1>6. Spacing'
  BY <1>1, <1>4, SpacingKept DEF AuthInd, CodesInd
<1>7. SessionsInd'
  BY <1>4, NobodyAssumption, SessionsKept DEF AuthInd
<1>8. HasNewest'
  BY NewestKept DEF AuthInd, CodesInd
<1>9. QED  BY <1>4, <1>5, <1>6, <1>7, <1>8 DEF AuthInd, Fitting, CodesInd

\* A code is picked that was not accepted yet, and by one verification at a time or
\* it is not alone.
LEMMA PicksCodeStep ==
    ASSUME AuthInd, NEW r \in AuthReqs, PicksCode(r)
    PROVE  AuthInd'
<1>1. PICK q : q = authReq[r]
  OBVIOUS
<1>2. q \in AuthCalls /\ CallFits(q) /\ q.pc = "pick" /\ q.phone \in Phones /\ AuthTypeOK
  BY <1>1, CallOf DEF PicksCode, AuthInd, Fitting
<1>3. CASE Usable(q.phone) = {}
  BY <1>1, <1>3, CutOffStep DEF PicksCode, otpVars
<1>4. CASE Usable(q.phone) # {}
  <2>1. PICK c : c = Max(Usable(q.phone))
    OBVIOUS
  <2>2. c \in Usable(q.phone)
    <3>1. Usable(q.phone) \in SUBSET Stored
      BY DEF Usable
    <3>2. \E d \in Usable(q.phone) : \A e \in Usable(q.phone) : d >= e
      BY <1>4, <3>1 DEF AuthInd, CodesInd, HasNewest
    <3>3. QED  BY <2>1, <3>2 DEF Max
  <2>3. /\ c \in Stored /\ otp[c].phone = q.phone /\ ~ otp[c].used
        /\ c \in CodeIds /\ c # 0 /\ c \in 0 .. MaxCodes
    BY <1>2, <2>2, AuthNumbers DEF Usable, Stored, CodeIds, AuthTypeOK
  <2>4. PICK w : w = [q EXCEPT !.pc = "try", !.code = c]
    OBVIOUS
  <2>5. /\ w \in AuthCalls /\ w.pc = "try" /\ w.code = c /\ w.phone = q.phone
        /\ w.from = q.from /\ w.seen = q.seen /\ w.value = q.value
    BY <1>2, <2>3, <2>4 DEF AuthCalls, AuthSteps
  <2>6. /\ authReq' = [authReq EXCEPT ![r] = w]
        /\ alone' = IF \E n \in AuthReqs : authReq[n].code = c THEN alone \ {c} ELSE alone
        /\ UNCHANGED <<account, otp, codes, tries, accepted, session, clock, calm>>
    BY <1>1, <1>2, <1>4, <2>1, <2>4 DEF PicksCode, AuthTypeOK
  <2>7. CallFits(w)
    BY <1>2, <2>3, <2>5 DEF CallFits, Tries, Proved
  <2>8. /\ otp' \in [CodeIds -> OtpRows] /\ tries' \in [CodeIds -> Nat]
        /\ accepted' \in [CodeIds -> Nat] /\ alone' \subseteq alone
        /\ \A d \in CodeIds : otp'[d].phone = otp[d].phone /\ otp'[d].at = otp[d].at
    BY <1>2, <2>6 DEF AuthTypeOK
  <2>9. /\ authReq'[r] = w /\ \A n \in AuthReqs : n # r => authReq'[n] = authReq[n]
        /\ CodesOK' /\ AcceptedOnce' => AuthInd'
    BY <2>5, <2>6, <2>7, <2>8, VerifyFrame
  <2>10. CodesOK'
    BY <2>6, CodesOKKept DEF AuthInd, CodesInd
  <2>11. accepted[c] # 1 \/ c \notin alone
    BY <2>3 DEF AuthInd, CodesInd, AcceptedOnce
  <2>12. c \in alone' => \A n \in AuthReqs : authReq[n].code # c
    BY <2>6
  <2>13. AcceptedOnce'
    <3>1. ASSUME NEW d \in alone'
          PROVE  /\ \A k, n \in AuthReqs : authReq'[k].code = d /\ authReq'[n].code = d => k = n
                 /\ accepted'[d] <= 1
                 /\ accepted'[d] = 1 =>
                        /\ otp'[d].used
                        /\ \A n \in AuthReqs : authReq'[n].code = d => authReq'[n].pc = "sweep"
      <4>1. d \in alone /\ accepted'[d] = accepted[d] /\ otp'[d] = otp[d]
        BY <2>6, <2>8
      <4>2. CASE d = c
        BY <2>5, <2>9, <2>11, <2>12, <4>1, <4>2 DEF AuthInd, CodesInd, AcceptedOnce
      <4>3. CASE d # c
        <5>1. \A n \in AuthReqs : authReq'[n].code = d => authReq'[n] = authReq[n]
          BY <2>5, <2>9, <4>3
        <5>2. QED  BY <4>1, <5>1 DEF AuthInd, CodesInd, AcceptedOnce
      <4>4. QED  BY <4>2, <4>3
    <3>2. QED  BY <3>1 DEF AcceptedOnce
  <2>14. QED  BY <2>9, <2>10, <2>13
<1>5. QED  BY <1>3, <1>4

\* A code at which a verification has not got through yet was not accepted, if alone.
LEMMA NotYetAccepted ==
    ASSUME AuthInd, NEW r \in AuthReqs, authReq[r].pc \in Tries, authReq[r].code \in alone
    PROVE  accepted[authReq[r].code] = 0
<1>1. authReq[r].code \in CodeIds /\ authReq[r].pc # "sweep"
  BY DEF AuthInd, Fitting, AuthTypeOK, Tries
<1>2. accepted[authReq[r].code] \in Nat
  BY <1>1 DEF AuthInd, Fitting, AuthTypeOK
<1>3. QED  BY <1>1, <1>2 DEF AuthInd, CodesInd, AcceptedOnce

LEMMA AcceptedTried ==
    ASSUME AuthInd, NEW r \in AuthReqs, authReq[r].pc \in Tries,
           authReq'[r].code \in {0, authReq[r].code},
           \A n \in AuthReqs : n # r => authReq'[n] = authReq[n],
           \A d \in CodeIds : d # authReq[r].code => otp'[d] = otp[d],
           UNCHANGED <<accepted, alone>>
    PROVE  AcceptedOnce'
<1>1. PICK c : c = authReq[r].code
  OBVIOUS
<1>2. alone \subseteq CodeIds /\ 0 \notin CodeIds
  BY DEF AuthInd, Fitting, AuthTypeOK, CodeIds
<1>3. ASSUME NEW d \in alone
      PROVE  /\ \A k, n \in AuthReqs : authReq'[k].code = d /\ authReq'[n].code = d => k = n
             /\ accepted[d] <= 1
             /\ accepted[d] = 1 =>
                    /\ otp'[d].used
                    /\ \A n \in AuthReqs : authReq'[n].code = d => authReq'[n].pc = "sweep"
  <2>1. \A n \in AuthReqs : authReq'[n].code = d => authReq[n].code = d
    BY <1>2
  <2>2. CASE d = c
    BY <1>1, <2>1, <2>2, NotYetAccepted DEF AuthInd, CodesInd, AcceptedOnce
  <2>3. CASE d # c
    <3>1. \A n \in AuthReqs : authReq'[n].code = d => authReq'[n] = authReq[n]
      BY <1>1, <1>2, <2>3
    <3>2. QED  BY <1>1, <1>2, <2>3, <3>1 DEF AuthInd, CodesInd, AcceptedOnce
  <2>4. QED  BY <2>2, <2>3
<1>4. QED  BY <1>3 DEF AcceptedOnce

LEMMA TriesCodeStep ==
    ASSUME AuthInd, NEW r \in AuthReqs, TriesCode(r)
    PROVE  AuthInd'
<1>1. PICK q : q = authReq[r]
  OBVIOUS
<1>2. PICK c : c = q.code
  OBVIOUS
<1>3. q \in AuthCalls /\ CallFits(q) /\ q.pc = "try" /\ q.phone \in Phones /\ AuthTypeOK
  BY <1>1, CallOf DEF TriesCode, AuthInd, Fitting
<1>4. c \in CodeIds /\ c # 0
  BY <1>1, <1>2, <1>3, CallOf DEF CallFits, Tries
<1>5. otp[c] \in OtpRows /\ otp[c].attempts \in Nat /\ tries[c] \in Nat /\ MaxAttempts \in Nat
  BY <1>3, <1>4, AuthNumbers DEF AuthTypeOK, OtpRows
<1>6. PICK row : row = [otp[c] EXCEPT !.attempts = IF @ > MaxAttempts THEN @ ELSE @ + 1]
  OBVIOUS
<1>7. /\ row \in OtpRows /\ row.phone = otp[c].phone /\ row.at = otp[c].at /\ row.used = otp[c].used
      /\ row.attempts = IF otp[c].attempts > MaxAttempts THEN otp[c].attempts ELSE otp[c].attempts + 1
  BY <1>5, <1>6 DEF OtpRows
<1>8. /\ otp' = [otp EXCEPT ![c] = row]
      /\ UNCHANGED <<account, codes, accepted, alone, session, clock, calm>>
  <2>1. otp' = Counted(c)
    BY <1>1, <1>2 DEF TriesCode
  <2>2. otp' = [otp EXCEPT ![c] = row]
    BY <1>3, <1>4, <1>6, <2>1 DEF Counted, AuthTypeOK
  <2>3. QED  BY <2>2 DEF TriesCode
<1>9. /\ otp' \in [CodeIds -> OtpRows] /\ otp'[c] = row
      /\ \A d \in CodeIds : d # c => otp'[d] = otp[d]
  BY <1>3, <1>4, <1>7, <1>8 DEF AuthTypeOK
<1>10. /\ \A d \in CodeIds : otp'[d].phone = otp[d].phone /\ otp'[d].at = otp[d].at
       /\ \A d \in CodeIds : otp'[d].attempts >= otp[d].attempts
  <2>1. \A d \in CodeIds : otp[d].attempts \in Nat
    BY <1>3 DEF AuthTypeOK, OtpRows
  <2>2. QED  BY <1>5, <1>7, <1>9, <2>1
<1>11. \/ TooMany(c) /\ tries' = tries
       \/ ~ TooMany(c) /\ tries' = [tries EXCEPT ![c] = @ + 1]
  BY <1>1, <1>2 DEF TriesCode
<1>12. /\ tries' \in [CodeIds -> Nat]
       /\ \A d \in CodeIds : tries'[d] <= otp'[d].attempts /\ tries'[d] <= MaxAttempts
       /\ \A d \in CodeIds : d # c => tries'[d] = tries[d]
  <2>1. \A d \in CodeIds : /\ tries[d] \in Nat /\ otp[d].attempts \in Nat /\ otp'[d].attempts \in Nat
                           /\ tries[d] <= otp[d].attempts /\ tries[d] <= MaxAttempts
    BY <1>3, <1>9 DEF AuthTypeOK, OtpRows, AuthInd, CodesInd, CodesOK
  <2>2. CASE TooMany(c) /\ tries' = tries
    BY <1>3, <1>5, <1>10, <2>1, <2>2 DEF AuthTypeOK
  <2>3. CASE ~ TooMany(c) /\ tries' = [tries EXCEPT ![c] = @ + 1]
    <3>1. otp[c].attempts + 1 <= MaxAttempts /\ otp'[c].attempts = otp[c].attempts + 1
      BY <1>5, <1>7, <1>9, <2>3 DEF TooMany
    <3>2. /\ tries' \in [CodeIds -> Nat] /\ tries'[c] = tries[c] + 1
          /\ \A d \in CodeIds : d # c => tries'[d] = tries[d]
      BY <1>3, <1>4, <2>3 DEF AuthTypeOK
    <3>3. tries'[c] <= otp'[c].attempts /\ tries'[c] <= MaxAttempts
      BY <1>4, <1>5, <2>1, <3>1, <3>2
    <3>4. QED  BY <1>10, <2>1, <3>2, <3>3
  <2>4. QED  BY <1>11, <2>2, <2>3
<1>13. CodesOK'
  <2>1. Stored' = Stored /\ (c \in Stored)
    BY <1>2, <1>3, <1>4, <1>8 DEF Stored, CallFits
  <2>2. QED
    BY <1>8, <1>9, <1>10, <1>12, <2>1 DEF AuthInd, CodesInd, CodesOK
<1>14. PICK w \in {AtRest, [q EXCEPT !.pc = "spend"], [q EXCEPT !.pc = "use"]} :
           authReq' = [authReq EXCEPT ![r] = w]
  <2>1. \/ authReq' = [authReq EXCEPT ![r] = AtRest]
        \/ authReq' = [authReq EXCEPT ![r].pc = "spend"]
        \/ authReq' = [authReq EXCEPT ![r].pc = "use"]
    BY <1>1, <1>2 DEF TriesCode, Answers, GoesOn
  <2>2. QED  BY <1>1, <2>1
<1>15. /\ w \in AuthCalls /\ w.pc \in {"idle", "spend", "use"} /\ w.code \in {0, c} /\ CallFits(w)
  <2>1. CASE w = AtRest
    BY <2>1, RestIsCall, RestFits
  <2>2. CASE w # AtRest
    <3>1. /\ w \in AuthCalls /\ w.pc \in {"spend", "use"} /\ w.code = c /\ w.phone = q.phone
          /\ w.from = q.from /\ w.seen = q.seen /\ w.value = q.value
      BY <1>2, <1>3, <1>14, <2>2 DEF AuthCalls, AuthSteps
    <3>2. QED  BY <1>2, <1>3, <3>1 DEF CallFits, Tries, Proved
  <2>3. QED  BY <2>1, <2>2
<1>16. accepted' \in [CodeIds -> Nat] /\ alone' \subseteq alone
  BY <1>3, <1>8 DEF AuthTypeOK
<1>17. /\ authReq'[r] = w /\ \A n \in AuthReqs : n # r => authReq'[n] = authReq[n]
       /\ CodesOK' /\ AcceptedOnce' => AuthInd'
  BY <1>8, <1>9, <1>10, <1>12, <1>14, <1>15, <1>16, VerifyFrame
<1>18. AcceptedOnce'
  BY <1>1, <1>2, <1>3, <1>8, <1>9, <1>15, <1>17, AcceptedTried DEF Tries
<1>19. QED  BY <1>13, <1>17, <1>18

\* Marking a code used keeps its row otherwise.
LEMMA MarkedUsed ==
    ASSUME AuthTypeOK, NEW c \in CodeIds, otp' = [otp EXCEPT ![c].used = TRUE]
    PROVE  /\ otp' \in [CodeIds -> OtpRows] /\ otp'[c].used
           /\ \A d \in CodeIds : /\ otp'[d].phone = otp[d].phone /\ otp'[d].at = otp[d].at
                                 /\ otp'[d].attempts = otp[d].attempts
                                 /\ otp[d].used => otp'[d].used
           /\ \A d \in CodeIds : d # c => otp'[d] = otp[d]
BY DEF AuthTypeOK, OtpRows

LEMMA SpendsCodeStep ==
    ASSUME AuthInd, NEW r \in AuthReqs, SpendsCode(r)
    PROVE  AuthInd'
<1>1. PICK c : c = authReq[r].code
  OBVIOUS
<1>2. /\ authReq[r].pc = "spend" /\ otp' = [otp EXCEPT ![c].used = TRUE]
      /\ authReq' = [authReq EXCEPT ![r] = AtRest] /\ AuthTypeOK
      /\ UNCHANGED <<account, codes, tries, accepted, alone, session, clock, calm>>
  BY <1>1 DEF SpendsCode, Answers, AuthInd, Fitting
<1>3. c \in CodeIds
  BY <1>1, <1>2, CallOf DEF CallFits, Tries
<1>4. /\ otp' \in [CodeIds -> OtpRows]
      /\ \A d \in CodeIds : /\ otp'[d].phone = otp[d].phone /\ otp'[d].at = otp[d].at
                            /\ otp'[d].attempts = otp[d].attempts
      /\ \A d \in CodeIds : d # c => otp'[d] = otp[d]
  BY <1>2, <1>3, MarkedUsed
<1>5. /\ tries' \in [CodeIds -> Nat] /\ accepted' \in [CodeIds -> Nat] /\ alone' \subseteq alone
  BY <1>2 DEF AuthTypeOK
<1>6. /\ authReq'[r] = AtRest /\ \A n \in AuthReqs : n # r => authReq'[n] = authReq[n]
      /\ CodesOK' /\ AcceptedOnce' => AuthInd'
  BY <1>2, <1>4, <1>5, RestIsCall, RestFits, VerifyFrame
<1>7. CodesOK'
  BY <1>2, <1>4 DEF AuthInd, CodesInd, CodesOK, Stored
<1>8. AcceptedOnce'
  BY <1>1, <1>2, <1>4, <1>6, RestIsCall, AcceptedTried DEF Tries
<1>9. QED  BY <1>6, <1>7, <1>8

\* The one verification of an alone code gets through, and marks it used.
LEMMA UsesCodeStep ==
    ASSUME AuthInd, NEW r \in AuthReqs, UsesCode(r)
    PROVE  AuthInd'
<1>1. PICK q : q = authReq[r]
  OBVIOUS
<1>2. PICK c : c = q.code
  OBVIOUS
<1>3. q \in AuthCalls /\ CallFits(q) /\ q.pc = "use" /\ q.phone \in Phones /\ AuthTypeOK
  BY <1>1, CallOf DEF UsesCode, AuthInd, Fitting
<1>4. c \in CodeIds /\ c # 0 /\ c \in Stored
  BY <1>1, <1>2, <1>3, CallOf DEF CallFits, Tries
<1>5. PICK w : w = [q EXCEPT !.pc = "sweep"]
  OBVIOUS
<1>6. /\ w \in AuthCalls /\ w.pc = "sweep" /\ w.code = c /\ w.phone = q.phone
      /\ w.from = q.from /\ w.seen = q.seen /\ w.value = q.value
  BY <1>2, <1>3, <1>5 DEF AuthCalls, AuthSteps
<1>7. /\ otp' = [otp EXCEPT ![c].used = TRUE] /\ accepted' = [accepted EXCEPT ![c] = @ + 1]
      /\ authReq' = [authReq EXCEPT ![r] = w]
      /\ UNCHANGED <<account, codes, tries, alone, session, clock, calm>>
  BY <1>1, <1>2, <1>5 DEF UsesCode, Used, GoesOn
<1>8. /\ otp' \in [CodeIds -> OtpRows] /\ otp'[c].used
      /\ \A d \in CodeIds : /\ otp'[d].phone = otp[d].phone /\ otp'[d].at = otp[d].at
                            /\ otp'[d].attempts = otp[d].attempts
      /\ \A d \in CodeIds : d # c => otp'[d] = otp[d]
  BY <1>3, <1>4, <1>7, MarkedUsed
<1>9. /\ accepted' \in [CodeIds -> Nat] /\ accepted'[c] = accepted[c] + 1
      /\ \A d \in CodeIds : d # c => accepted'[d] = accepted[d]
      /\ tries' \in [CodeIds -> Nat] /\ alone' \subseteq alone
  BY <1>3, <1>4, <1>7 DEF AuthTypeOK
<1>10. CallFits(w)
  BY <1>2, <1>3, <1>6 DEF CallFits, Tries, Proved
<1>11. /\ authReq'[r] = w /\ \A n \in AuthReqs : n # r => authReq'[n] = authReq[n]
       /\ CodesOK' /\ AcceptedOnce' => AuthInd'
  BY <1>6, <1>7, <1>8, <1>9, <1>10, VerifyFrame
<1>12. CodesOK'
  BY <1>4, <1>7, <1>8, <1>9 DEF AuthInd, CodesInd, CodesOK, Stored
<1>13. AcceptedOnce'
  <2>1. ASSUME NEW d \in alone
        PROVE  /\ \A k, n \in AuthReqs : authReq'[k].code = d /\ authReq'[n].code = d => k = n
               /\ accepted'[d] <= 1
               /\ accepted'[d] = 1 =>
                      /\ otp'[d].used
                      /\ \A n \in AuthReqs : authReq'[n].code = d => authReq'[n].pc = "sweep"
    <3>1. d \in CodeIds /\ \A n \in AuthReqs : authReq'[n].code = authReq[n].code
      BY <1>1, <1>2, <1>3, <1>6, <1>11 DEF AuthTypeOK
    <3>2. \A k, n \in AuthReqs : authReq[k].code = d /\ authReq[n].code = d => k = n
      BY DEF AuthInd, CodesInd, AcceptedOnce
    <3>3. CASE d = c
      <4>1. accepted'[d] = 1
        BY <1>1, <1>2, <1>3, <1>9, <3>3, NotYetAccepted DEF Tries
      <4>2. \A n \in AuthReqs : authReq[n].code = d => n = r
        BY <1>1, <1>2, <3>2, <3>3
      <4>3. QED  BY <1>6, <1>8, <1>11, <3>1, <3>2, <3>3, <4>1, <4>2
    <3>4. CASE d # c
      <4>1. \A n \in AuthReqs : authReq'[n].code = d => authReq'[n] = authReq[n]
        BY <1>6, <1>11, <3>4
      <4>2. QED  BY <1>8, <1>9, <3>1, <3>4, <4>1 DEF AuthInd, CodesInd, AcceptedOnce
    <3>5. QED  BY <3>3, <3>4
  <2>2. QED  BY <1>7, <2>1 DEF AcceptedOnce
<1>14. QED  BY <1>11, <1>12, <1>13

LEMMA SweepsCodesStep ==
    ASSUME AuthInd, NEW r \in AuthReqs, SweepsCodes(r)
    PROVE  AuthInd'
<1>1. PICK q : q = authReq[r]
  OBVIOUS
<1>2. q \in AuthCalls /\ CallFits(q) /\ q.pc = "sweep" /\ q.phone \in Phones /\ AuthTypeOK
  BY <1>1, CallOf DEF SweepsCodes, AuthInd, Fitting
<1>3. PICK w : w = [q EXCEPT !.code = 0, !.pc = IF q.seen = "new" THEN "confirm" ELSE "issue"]
  OBVIOUS
<1>4. /\ w \in AuthCalls /\ w.code = 0 /\ w.phone = q.phone
      /\ w.from = q.from /\ w.seen = q.seen /\ w.value = q.value
      /\ w.pc = IF q.seen = "new" THEN "confirm" ELSE "issue"
  <2>1. 0 \in 0 .. MaxCodes
    BY AuthNumbers
  <2>2. QED  BY <1>2, <1>3, <2>1 DEF AuthCalls, AuthSteps
<1>5. /\ authReq' = [authReq EXCEPT ![r] = w]
      /\ otp' = [c \in CodeIds |->
             IF otp[c].phone = q.phone /\ c # q.code THEN [otp[c] EXCEPT !.used = TRUE] ELSE otp[c]]
      /\ UNCHANGED <<account, codes, tries, accepted, alone, session, clock, calm>>
  BY <1>1, <1>2, <1>3 DEF SweepsCodes, AuthTypeOK
<1>6. /\ otp' \in [CodeIds -> OtpRows]
      /\ \A d \in CodeIds : /\ otp'[d].phone = otp[d].phone /\ otp'[d].at = otp[d].at
                            /\ otp'[d].attempts = otp[d].attempts
                            /\ otp[d].used => otp'[d].used
  BY <1>2, <1>5 DEF AuthTypeOK, OtpRows
<1>7. q.from = Nobody /\ q.seen # "absent" /\ account[q.phone] # "absent" /\ q.seen \in Accounts
  BY <1>2 DEF CallFits, AuthCalls
<1>8. CallFits(w)
  BY <1>2, <1>4, <1>7 DEF CallFits, Tries, Proved, Accounts
<1>9. /\ tries' \in [CodeIds -> Nat] /\ accepted' \in [CodeIds -> Nat] /\ alone' \subseteq alone
  BY <1>2, <1>5 DEF AuthTypeOK
<1>10. /\ authReq'[r] = w /\ \A n \in AuthReqs : n # r => authReq'[n] = authReq[n]
       /\ CodesOK' /\ AcceptedOnce' => AuthInd'
  BY <1>4, <1>5, <1>6, <1>7, <1>8, <1>9, VerifyFrame
<1>11. CodesOK'
  BY <1>5, <1>6 DEF AuthInd, CodesInd, CodesOK, Stored
<1>12. AcceptedOnce'
  <2>1. alone \subseteq CodeIds /\ 0 \notin CodeIds
    BY <1>2 DEF AuthTypeOK, CodeIds
  <2>2. \A n \in AuthReqs : authReq'[n].code # 0 => authReq'[n] = authReq[n]
    BY <1>4, <1>10
  <2>3. QED  BY <1>5, <1>6, <2>1, <2>2 DEF AuthInd, CodesInd, AcceptedOnce
<1>13. QED  BY <1>10, <1>11, <1>12
-----------------------------------------------------------------------------
(* Steps of sessions.                                                      *)

\* A session is stored or deleted, and the request that did it goes on or ends.
LEMMA SessionFrame ==
    ASSUME AuthInd, UNCHANGED <<account, otpVars, clock, calm>>, World,
           session' \in [Sess -> SessionRows],
           NEW r \in AuthReqs, NEW w \in AuthCalls, authReq' = [authReq EXCEPT ![r] = w],
           CallFits(w)', w.code = 0, w.pc \in {"idle", "issue"}
    PROVE  /\ authReq'[r] = w /\ \A n \in AuthReqs : n # r => authReq'[n] = authReq[n]
           /\ SessionsInd' => AuthInd'
<1>1. /\ AuthTypeOK /\ CallsOK /\ OriginsOK /\ SlotsOK
      /\ UNCHANGED <<account, otp, codes, tries, accepted, alone, clock, calm>>
  BY DEF AuthInd, Fitting, otpVars
<1>2. /\ authReq' \in [AuthReqs -> AuthCalls]
      /\ authReq'[r] = w /\ \A n \in AuthReqs : n # r => authReq'[n] = authReq[n]
      /\ CallsOK' /\ OriginsOK' /\ SlotsOK'
  BY <1>1, CallsGoOn
<1>3. AuthTypeOK'
  BY <1>1, <1>2 DEF AuthTypeOK
<1>4. AcceptedOnce'
  BY <1>1, <1>2, AcceptedKept DEF AuthInd, CodesInd
<1>5. Spacing'
  BY <1>1, <1>2, SpacingKept DEF AuthInd, CodesInd
<1>6. CodesOK' /\ HasNewest'
  BY <1>1, CodesOKKept, NewestKept DEF AuthInd, CodesInd
<1>7. QED  BY <1>2, <1>3, <1>4, <1>5, <1>6 DEF AuthInd, Fitting, CodesInd

\* The session of a login that begins stands for it; that of a refresh takes the place
\* of the request, the one holder of its login.
LEMMA IssuesSessionStep ==
    ASSUME AuthInd, NEW r \in AuthReqs, NEW s \in Sess, IssuesSession(r, s)
    PROVE  /\ AuthInd'
           /\ session[s].state = "unused"
           /\ session'[s].state = "live"
           /\ \A t \in Sess : t # s => session'[t] = session[t]
           /\ \/ /\ session'[s].origin = s
                 /\ \A o \in Sess : o # s => Holders(o)' = Holders(o)
              \/ /\ session'[s].origin # s /\ r \in Holders(session'[s].origin)
                 /\ \A o \in Sess : o # session'[s].origin => Holders(o)' = Holders(o)
           /\ s \in Holders(session[s].origin)'
<1>1. PICK q : q = authReq[r]
  OBVIOUS
<1>2. q \in AuthCalls /\ CallFits(q) /\ q.pc = "issue" /\ q.phone \in Phones /\ AuthTypeOK
  BY <1>1, CallOf DEF IssuesSession, AuthInd, Fitting
<1>3. PICK o : o = IF q.from = Nobody THEN s ELSE q.from
  OBVIOUS
<1>4. PICK row : row = [state |-> "live", phone |-> q.phone, origin |-> o]
  OBVIOUS
<1>5. /\ session[s].state = "unused" /\ session' = [session EXCEPT ![s] = row]
      /\ authReq' = [authReq EXCEPT ![r] = AtRest]
      /\ UNCHANGED <<account, otpVars, clock, calm>>
  BY <1>1, <1>3, <1>4 DEF IssuesSession, Answers
<1>6. /\ o \in Sess /\ row \in SessionRows
      /\ row.state = "live" /\ row.phone = q.phone /\ row.origin = o
  BY <1>2, <1>3, <1>4 DEF AuthCalls, SessionRows
<1>7. /\ session' \in [Sess -> SessionRows] /\ session'[s] = row
      /\ \A t \in Sess : t # s => session'[t] = session[t]
  BY <1>2, <1>5, <1>6 DEF AuthTypeOK
<1>8. World
  BY <1>2, <1>5, <1>7, AuthNumbers DEF World, otpVars, AuthTypeOK
<1>9. CallFits(AtRest)'
  BY RestIsCall DEF CallFits, Tries, Proved
<1>10. /\ authReq'[r] = AtRest /\ \A n \in AuthReqs : n # r => authReq'[n] = authReq[n]
       /\ SessionsInd' => AuthInd'
  BY <1>5, <1>7, <1>8, <1>9, RestIsCall, SessionFrame
<1>11. account[q.phone] \in Proved
  BY <1>2 DEF CallFits
<1>12. q.from # Nobody => /\ q.from \in Sess /\ q.from # s /\ o = q.from
                          /\ session[o].state = "deleted" /\ session[o].phone = q.phone
                          /\ session[o].origin = o
  BY <1>2, <1>3, <1>5, <1>6 DEF CallFits
<1>13. SessionsOK'
  <2>1. ASSUME NEW t \in Sess, session'[t].state # "unused"
        PROVE  /\ session'[t].phone \in Phones
               /\ account[session'[t].phone] \in {"verified", "admin"}
               /\ session'[t].origin \in Sess
               /\ session'[session'[t].origin].state # "unused"
               /\ session'[session'[t].origin].origin = session'[t].origin
               /\ session'[session'[t].origin].phone = session'[t].phone
    <3>1. CASE t = s
      <4>1. CASE q.from = Nobody
        BY <1>2, <1>3, <1>6, <1>7, <1>11, <3>1, <4>1 DEF Proved
      <4>2. CASE q.from # Nobody
        BY <1>2, <1>6, <1>7, <1>11, <1>12, <3>1, <4>2 DEF Proved
      <4>3. QED  BY <4>1, <4>2
    <3>2. CASE t # s
      <4>1. /\ session[t].state # "unused" /\ session'[t] = session[t]
            /\ session[t].origin \in Sess /\ session[session[t].origin].state # "unused"
        BY <1>7, <2>1, <3>2 DEF AuthInd, SessionsInd, SessionsOK
      <4>2. session'[session[t].origin] = session[session[t].origin]
        BY <1>5, <1>7, <4>1
      <4>3. QED  BY <4>1, <4>2 DEF AuthInd, SessionsInd, SessionsOK
    <3>3. QED  BY <3>1, <3>2
  <2>2. QED  BY <1>5, <2>1 DEF SessionsOK
<1>14. r \notin Sess /\ AtRest.pc # "issue"
  BY SlotsAssumption, RestIsCall
<1>15. \A h \in Holders(o)' : h = s
  <2>1. CASE q.from = Nobody
    <3>1. \A t \in Sess : t # s => ~ (session'[t].state = "live" /\ session'[t].origin = s)
      BY <1>5, <1>7 DEF AuthInd, SessionsInd, SessionsOK
    <3>2. \A n \in AuthReqs : authReq'[n].pc = "issue" => authReq'[n].from # s
      <4>1. SUFFICES ASSUME NEW n \in AuthReqs, authReq'[n].pc = "issue", authReq'[n].from = s
                     PROVE  FALSE
        OBVIOUS
      <4>2. authReq[n].pc = "issue" /\ authReq[n].from = s /\ CallFits(authReq[n])
        BY <1>10, <1>14, <4>1, CallOf
      <4>3. session[s].state = "deleted"
        BY <4>2, NobodyAssumption DEF CallFits
      <4>4. QED  BY <1>5, <4>3
    <3>3. QED  BY <1>3, <2>1, <3>1, <3>2 DEF Holders
  <2>2. CASE q.from # Nobody
    <3>1. r \in Holders(o)
      BY <1>1, <1>2, <1>12, <2>2 DEF Holders
    <3>2. \A h \in Holders(o) : h = r
      BY <1>6, <3>1 DEF AuthInd, SessionsInd, OneTokenPerLogin
    <3>3. ASSUME NEW t \in Sess, t # s, session'[t].state = "live", session'[t].origin = o
          PROVE  FALSE
      <4>1. t \in Holders(o)
        BY <1>7, <3>3 DEF Holders
      <4>2. QED  BY <1>14, <3>2, <4>1
    <3>4. ASSUME NEW n \in AuthReqs, authReq'[n].pc = "issue", authReq'[n].from = o
          PROVE  FALSE
      <4>1. n # r /\ n \in Holders(o)
        BY <1>10, <1>14, <3>4 DEF Holders
      <4>2. QED  BY <3>2, <4>1
    <3>5. QED  BY <3>3, <3>4 DEF Holders
  <2>3. QED  BY <2>1, <2>2
<1>16. s \in Holders(o)'
  BY <1>6, <1>7 DEF Holders
<1>17. \A p \in Sess : p # o => Holders(p)' = Holders(p)
  <2>1. SUFFICES ASSUME NEW p \in Sess, p # o PROVE Holders(p)' = Holders(p)
    OBVIOUS
  <2>2. \A t \in Sess : session'[t].state = "live" /\ session'[t].origin = p
                            <=> session[t].state = "live" /\ session[t].origin = p
    BY <1>5, <1>6, <1>7, <2>1
  <2>3. q.from # p
    BY <1>3, <2>1, NobodyAssumption
  <2>4. \A n \in AuthReqs : authReq'[n].pc = "issue" /\ authReq'[n].from = p
                                <=> authReq[n].pc = "issue" /\ authReq[n].from = p
    BY <1>1, <1>10, <1>14, <2>3
  <2>5. QED  BY <2>2, <2>4 DEF Holders
<1>18. OneTokenPerLogin'
  <2>1. \A p \in Sess : \A h, k \in Holders(p) : h = k
    BY DEF AuthInd, SessionsInd, OneTokenPerLogin
  <2>2. \A p \in Sess : \A h, k \in Holders(p)' : h = k
    BY <1>15, <1>17, <2>1
  <2>3. QED  BY <2>2 DEF OneTokenPerLogin
<1>19. AuthInd'
  BY <1>10, <1>13, <1>18 DEF SessionsInd
<1>20. q.from = Nobody => o = s
  BY <1>3
<1>21. q.from # Nobody => o # s /\ r \in Holders(o)
  BY <1>1, <1>2, <1>12 DEF Holders
<1>22. session'[s].origin = o
  BY <1>6, <1>7
<1>23. s \in Holders(session[s].origin)'
  BY <1>7, <1>22, <1>6 DEF Holders
<1>24. \/ /\ session'[s].origin = s
          /\ \A p \in Sess : p # s => Holders(p)' = Holders(p)
       \/ /\ session'[s].origin # s /\ r \in Holders(session'[s].origin)
          /\ \A p \in Sess : p # session'[s].origin => Holders(p)' = Holders(p)
  BY <1>17, <1>20, <1>21, <1>22
<1>25. QED  BY <1>5, <1>6, <1>7, <1>19, <1>23, <1>24
\* Rows go on, as far as logins are concerned.
RowsStay ==
    \A t \in Sess : /\ session'[t].state = "unused" <=> session[t].state = "unused"
                    /\ session'[t].origin = session[t].origin

\* A refresh that deletes its session holds the login from then on.
LEMMA RotatesSessionStep ==
    ASSUME AuthInd, NEW r \in AuthReqs, RotatesSession(r), session[authReq[r].from].state = "live"
    PROVE  /\ AuthInd' /\ RowsStay
           /\ \E o \in Sess : /\ Holders(o) # {} /\ Holders(o)' # {}
                              /\ \A p \in Sess : p # o => Holders(p)' = Holders(p)
<1>1. PICK q : q = authReq[r]
  OBVIOUS
<1>2. q \in AuthCalls /\ CallFits(q) /\ q.pc = "rotate" /\ q.phone \in Phones /\ AuthTypeOK
  BY <1>1, CallOf DEF RotatesSession, AuthInd, Fitting
<1>3. PICK s : s = q.from
  OBVIOUS
<1>4. s \in Sess /\ session[s].state = "live" /\ session[s].phone = q.phone
  BY <1>1, <1>2, <1>3 DEF CallFits
<1>5. PICK o : o = session[s].origin
  OBVIOUS
<1>6. /\ o \in Sess /\ session[o].state # "unused" /\ session[o].origin = o
      /\ session[o].phone = q.phone /\ account[q.phone] \in Proved
  BY <1>4, <1>5 DEF AuthInd, SessionsInd, SessionsOK, Proved
<1>7. PICK w : w = [q EXCEPT !.pc = "issue", !.from = o]
  OBVIOUS
<1>8. /\ w \in AuthCalls /\ w.code = q.code /\ w.phone = q.phone
      /\ w.from = o /\ w.seen = q.seen /\ w.pc = "issue" /\ w.value = q.value
  BY <1>2, <1>6, <1>7 DEF AuthCalls, AuthSteps
<1>9. /\ session' = [session EXCEPT ![s].state = "deleted"]
      /\ authReq' = [authReq EXCEPT ![r] = w]
      /\ UNCHANGED <<account, otpVars, clock, calm>>
  BY <1>1, <1>2, <1>3, <1>4, <1>5, <1>7 DEF RotatesSession, MayRotate, AuthTypeOK
<1>10. PICK row : row = [session[s] EXCEPT !.state = "deleted"]
  OBVIOUS
<1>11. /\ row \in SessionRows /\ row.state = "deleted"
       /\ row.phone = session[s].phone /\ row.origin = o
  BY <1>2, <1>4, <1>5, <1>10 DEF AuthTypeOK, SessionRows
<1>12. /\ session' \in [Sess -> SessionRows] /\ session'[s] = row
       /\ \A t \in Sess : t # s => session'[t] = session[t]
  BY <1>2, <1>4, <1>9, <1>10, <1>11 DEF AuthTypeOK
<1>13. World
  BY <1>2, <1>4, <1>5, <1>9, <1>11, <1>12, AuthNumbers DEF World, otpVars, AuthTypeOK
<1>14. s \in Holders(o)
  BY <1>4, <1>5 DEF Holders
<1>15. \A h \in Holders(o) : h = s
  BY <1>6, <1>14 DEF AuthInd, SessionsInd, OneTokenPerLogin
<1>16. session'[o].state = "deleted" /\ session'[o].phone = q.phone /\ session'[o].origin = o
  <2>1. CASE o = s
    BY <1>4, <1>11, <1>12, <2>1
  <2>2. CASE o # s
    <3>1. session[o].state # "live"
      BY <1>6, <1>15, <2>2 DEF Holders
    <3>2. session[o].state \in {"unused", "live", "deleted"}
      BY <1>2, <1>6 DEF AuthTypeOK, SessionRows
    <3>3. QED  BY <1>6, <1>12, <2>2, <3>1, <3>2
  <2>3. QED  BY <2>1, <2>2
<1>17. q.code = 0
  BY <1>2 DEF CallFits, Tries
<1>18. q.seen \in Proved => account[q.phone] \in Proved
  BY <1>6
<1>19. CallFits(w)'
  <2>1. account' = account
    BY <1>9
  <2>2. QED
    BY <1>2, <1>6, <1>8, <1>16, <1>17, <2>1, NobodyAssumption DEF CallFits, Tries, Proved
<1>20. /\ authReq'[r] = w /\ \A n \in AuthReqs : n # r => authReq'[n] = authReq[n]
       /\ SessionsInd' => AuthInd'
  BY <1>8, <1>9, <1>12, <1>13, <1>17, <1>19, SessionFrame
<1>21. \A t \in Sess : /\ session'[t].phone = session[t].phone
                       /\ session'[t].origin = session[t].origin
                       /\ session'[t].state = "unused" <=> session[t].state = "unused"
  BY <1>4, <1>5, <1>11, <1>12
<1>22. SessionsOK'
  BY <1>9, <1>21 DEF AuthInd, SessionsInd, SessionsOK
<1>23. r \in Holders(o)'
  BY <1>8, <1>20 DEF Holders
<1>24. s \notin AuthReqs
  BY <1>4, SlotsAssumption
<1>25. \A h \in Holders(o)' : h = r
  <2>1. ASSUME NEW t \in Sess, session'[t].state = "live", session'[t].origin = o
        PROVE  FALSE
    <3>1. t # s /\ t \in Holders(o)
      BY <1>11, <1>12, <2>1 DEF Holders
    <3>2. QED  BY <1>15, <3>1
  <2>2. ASSUME NEW n \in AuthReqs, n # r, authReq'[n].pc = "issue", authReq'[n].from = o
        PROVE  FALSE
    <3>1. n \in Holders(o)
      BY <1>20, <2>2 DEF Holders
    <3>2. QED  BY <1>15, <1>24, <3>1
  <2>3. QED  BY <2>1, <2>2 DEF Holders
<1>26. ASSUME NEW p \in Sess, p # o PROVE Holders(p)' = Holders(p)
  <2>1. \A t \in Sess : session'[t].state = "live" /\ session'[t].origin = p
                            <=> session[t].state = "live" /\ session[t].origin = p
    BY <1>5, <1>11, <1>12, <1>26
  <2>2. \A n \in AuthReqs : authReq'[n].pc = "issue" /\ authReq'[n].from = p
                                <=> authReq[n].pc = "issue" /\ authReq[n].from = p
    BY <1>1, <1>2, <1>8, <1>20, <1>26
  <2>3. QED  BY <2>1, <2>2 DEF Holders
<1>27. OneTokenPerLogin'
  <2>1. \A p \in Sess : \A h, k \in Holders(p) : h = k
    BY DEF AuthInd, SessionsInd, OneTokenPerLogin
  <2>2. \A p \in Sess : \A h, k \in Holders(p)' : h = k
    BY <1>25, <1>26, <2>1
  <2>3. QED  BY <2>2 DEF OneTokenPerLogin
<1>28. AuthInd' /\ RowsStay
  BY <1>20, <1>21, <1>22, <1>27 DEF SessionsInd, RowsStay
<1>29. QED  BY <1>6, <1>14, <1>23, <1>26, <1>28

LEMMA LogoutStep ==
    ASSUME AuthInd, NEW p \in Phones, Logout(p)
    PROVE  AuthInd' /\ RowsStay /\ \A o \in Sess : Holders(o)' \subseteq Holders(o)
<1>1. /\ AuthTypeOK /\ CallsOK /\ OriginsOK /\ SlotsOK
      /\ UNCHANGED <<account, otp, codes, tries, accepted, alone, authReq, clock, calm>>
  BY DEF Logout, otpVars, AuthInd, Fitting
<1>2. /\ session' \in [Sess -> SessionRows]
      /\ \A t \in Sess : /\ session'[t].phone = session[t].phone
                         /\ session'[t].origin = session[t].origin
                         /\ session'[t].state \in {session[t].state, "deleted"}
                         /\ session'[t].state = "unused" <=> session[t].state = "unused"
  BY <1>1 DEF Logout, LiveOf, AuthTypeOK, SessionRows
<1>3. World
  BY <1>1, <1>2, AuthNumbers DEF World, AuthTypeOK
<1>4. ASSUME NEW n \in AuthReqs PROVE CallFits(authReq[n])'
  <2>1. PICK q : q = authReq[n]
    OBVIOUS
  <2>2. q = authReq'[n] /\ q \in AuthCalls
    BY <1>1, <2>1 DEF AuthTypeOK
  <2>3. CallFits(q)
    BY <1>1, <2>1, AllFit DEF AllCallsFit
  <2>4. CallFits(q)'
    BY <1>1, <1>3, <2>2, <2>3, FitsOn
  <2>5. QED  BY <2>2, <2>4
<1>5. AllCallsFit'
  BY <1>4 DEF AllCallsFit
<1>6. CallsOK' /\ OriginsOK' /\ SlotsOK'
  BY <1>5, AllFit, PTL
<1>7. AuthTypeOK'
  BY <1>1, <1>2 DEF AuthTypeOK
<1>8. AcceptedOnce'
  BY <1>1, AcceptedKept DEF AuthInd, CodesInd
<1>9. Spacing'
  BY <1>1, SpacingKept DEF AuthInd, CodesInd
<1>10. CodesOK' /\ HasNewest'
  BY <1>1, CodesOKKept, NewestKept DEF AuthInd, CodesInd
<1>11. \A o \in Sess : Holders(o)' \subseteq Holders(o)
  BY <1>1, <1>2 DEF Holders
<1>12. SessionsOK' /\ OneTokenPerLogin'
  BY <1>1, <1>2, <1>11 DEF AuthInd, SessionsInd, SessionsOK, OneTokenPerLogin
<1>13. QED
  BY <1>2, <1>6, <1>7, <1>8, <1>9, <1>10, <1>11, <1>12
     DEF AuthInd, Fitting, CodesInd, SessionsInd, RowsStay
-----------------------------------------------------------------------------
(* Steps no request takes part in, and the whole.                          *)

LEMMA QuietStep ==
    ASSUME AuthInd, UNCHANGED <<session, otp, codes, tries, accepted, alone, authReq, calm>>,
           World, account' \in [Phones -> Accounts], clock' \in Times, clock' >= clock
    PROVE  AuthInd'
<1>1. AuthTypeOK /\ CallsOK /\ OriginsOK /\ SlotsOK
  BY DEF AuthInd, Fitting
<1>2. ASSUME NEW n \in AuthReqs PROVE CallFits(authReq[n])'
  <2>1. PICK q : q = authReq[n]
    OBVIOUS
  <2>2. q = authReq'[n] /\ q \in AuthCalls
    BY <1>1, <2>1 DEF AuthTypeOK
  <2>3. CallFits(q)
    BY <1>1, <2>1, AllFit DEF AllCallsFit
  <2>4. CallFits(q)'
    BY <1>1, <2>2, <2>3, FitsOn
  <2>5. QED  BY <2>2, <2>4
<1>3. AllCallsFit'
  BY <1>2 DEF AllCallsFit
<1>4. CallsOK' /\ OriginsOK' /\ SlotsOK'
  BY <1>3, AllFit, PTL
<1>5. AuthTypeOK'
  BY <1>1 DEF AuthTypeOK
<1>6. AcceptedOnce'
  BY <1>1, AcceptedKept DEF AuthInd, CodesInd
<1>7. Spacing'
  <2>1. /\ \A p \in Phones : Registering(p)' = Registering(p)
        /\ Stored' = Stored /\ calm' = calm /\ calm \subseteq Phones
    BY <1>1 DEF Registering, Stored, AuthTypeOK
  <2>2. /\ \A c \in Stored : c \in CodeIds /\ otp[c].at \in Nat
        /\ clock \in Nat /\ clock' \in Nat /\ Window \in Nat
    <3>1. MaxCodes \in Nat /\ MaxClock \in Nat /\ Window \in Nat
      BY AuthNumbers
    <3>2. Stored \subseteq CodeIds
      BY <1>1, <3>1 DEF AuthTypeOK, Stored, CodeIds
    <3>3. QED  BY <1>1, <3>1, <3>2 DEF AuthTypeOK, OtpRows, Times
  <2>3. SpacedOut'
    BY <2>1 DEF AuthInd, CodesInd, Spacing, SpacedOut
  <2>4. \A c \in Stored' : otp'[c].at <= clock'
    <3>1. \A c \in Stored : otp[c].at <= clock
      BY DEF AuthInd, CodesInd, Spacing
    <3>2. QED  BY <2>1, <2>2, <3>1
  <2>5. \A p \in calm' : \A r, q \in Registering(p)' : r = q
    <3>1. \A p \in calm : \A r, q \in Registering(p) : r = q
      BY DEF AuthInd, CodesInd, Spacing
    <3>2. QED  BY <2>1, <3>1
  <2>6. \A p \in calm' : Registering(p)' # {} =>
            \A c \in Stored' : otp'[c].phone = p => otp'[c].at + Window < clock'
    <3>1. \A p \in calm : Registering(p) # {} =>
              \A c \in Stored : otp[c].phone = p => otp[c].at + Window < clock
      BY DEF AuthInd, CodesInd, Spacing
    <3>2. \A p \in calm : Registering(p)' = Registering(p)
      BY DEF Registering
    <3>3. QED  BY <2>1, <2>2, <3>1, <3>2
  <2>7. QED  BY <2>3, <2>4, <2>5, <2>6 DEF Spacing
<1>8. SessionsInd'
  BY SessionsKept DEF AuthInd, World
<1>9. CodesOK' /\ HasNewest'
  BY CodesOKKept, NewestKept DEF AuthInd, CodesInd
<1>10. QED  BY <1>4, <1>5, <1>6, <1>7, <1>8, <1>9 DEF AuthInd, Fitting, CodesInd

LEMMA CreateAdminStep ==
    ASSUME AuthInd, NEW p \in Phones, CreateAdmin(p)
    PROVE  AuthInd'
<1>1. /\ AuthTypeOK /\ account[p] = "absent" /\ account' = [account EXCEPT ![p] = "admin"]
      /\ UNCHANGED <<session, otp, codes, tries, accepted, alone, authReq, calm, clock>>
  BY DEF CreateAdmin, otpVars, AuthInd, Fitting
<1>2. /\ account' \in [Phones -> Accounts] /\ account'[p] = "admin"
      /\ \A x \in Phones : x # p => account'[x] = account[x]
  BY <1>1 DEF AuthTypeOK, Accounts
<1>3. clock' \in Times /\ clock' >= clock
  BY <1>1, AuthNumbers DEF AuthTypeOK, Times
<1>4. World
  BY <1>1, <1>2, AuthNumbers DEF World, Proved, AuthTypeOK
<1>5. QED  BY <1>1, <1>2, <1>3, <1>4, QuietStep

LEMMA TickStep ==
    ASSUME AuthInd, Tick
    PROVE  AuthInd'
<1>1. /\ AuthTypeOK /\ clock < MaxClock /\ clock' = clock + 1
      /\ UNCHANGED <<account, session, otp, codes, tries, accepted, alone, authReq, calm>>
  BY DEF Tick, otpVars, AuthInd, Fitting
<1>2. clock' \in Times /\ clock' >= clock
  BY <1>1, AuthNumbers DEF AuthTypeOK, Times
<1>3. QED  BY <1>1, <1>2, WorldStays, QuietStep

LEMMA AuthStutter ==
    ASSUME AuthInd, UNCHANGED authVars
    PROVE  AuthInd'
<1>1. /\ AuthTypeOK
      /\ UNCHANGED <<account, session, otp, codes, tries, accepted, alone, authReq, calm, clock>>
  BY DEF authVars, otpVars, AuthInd, Fitting
<1>2. clock' \in Times /\ clock' >= clock
  BY <1>1, AuthNumbers DEF AuthTypeOK, Times
<1>3. QED  BY <1>1, <1>2, WorldStays, QuietStep

LEMMA AuthStep == AuthInd /\ [AuthNext]_authVars => AuthInd'
<1> SUFFICES ASSUME AuthInd, [AuthNext]_authVars PROVE AuthInd'
  OBVIOUS
<1>1. ASSUME NEW r \in AuthReqs, NEW p \in Phones,
             RegisterBegins(r, p) \/ RefreshBegins(r, p) \/ AdminLogin(r, p)
      PROVE  AuthInd'
  BY <1>1, RegisterBeginsStep, RefreshBeginsStep, AdminLoginStep
<1>2. ASSUME NEW r \in AuthReqs, NEW p \in Phones, NEW v \in Values, VerifyBegins(r, p, v)
      PROVE  AuthInd'
  BY <1>2, VerifyBeginsStep
<1>3. ASSUME NEW r \in AuthReqs, NEW v \in Values, StoresCode(r, v) PROVE AuthInd'
  BY <1>3, StoresCodeStep
<1>4. ASSUME NEW r \in AuthReqs, NEW s \in Sess, IssuesSession(r, s) PROVE AuthInd'
  BY <1>4, IssuesSessionStep
<1>5. ASSUME NEW r \in AuthReqs, VerifyStep(r) PROVE AuthInd'
  BY <1>5, PicksCodeStep, TriesCodeStep, SpendsCodeStep, UsesCodeStep, SweepsCodesStep,
     ConfirmsUserStep DEF VerifyStep
<1>6. ASSUME NEW r \in AuthReqs, RotatesSession(r) PROVE AuthInd'
  <2>1. CASE session[authReq[r].from].state = "live"
    BY <1>6, <2>1, RotatesSessionStep
  <2>2. CASE session[authReq[r].from].state # "live"
    BY <1>6, <2>2, CutOffStep DEF RotatesSession, MayRotate
  <2>3. QED  BY <2>1, <2>2
<1>7. ASSUME NEW r \in AuthReqs, CutOff(r) PROVE AuthInd'
  BY <1>7, CutOffStep DEF CutOff
<1>8. ASSUME NEW r \in AuthReqs, FindsUser(r) \/ CreatesUser(r) PROVE AuthInd'
  BY <1>8, FindsUserStep, CreatesUserStep
<1>9. ASSUME NEW p \in Phones, Logout(p) \/ CreateAdmin(p) PROVE AuthInd'
  BY <1>9, LogoutStep, CreateAdminStep
<1>10. QED
  BY <1>1, <1>2, <1>3, <1>4, <1>5, <1>6, <1>7, <1>8, <1>9, TickStep, AuthStutter DEF AuthNext

LEMMA AuthInitInd == AuthInit => AuthInd
<1> SUFFICES ASSUME AuthInit PROVE AuthInd
  OBVIOUS
<1>1. MaxCodes \in Nat /\ MaxClock \in Nat /\ MaxAttempts \in Nat
  BY AuthNumbers
<1>2. AuthTypeOK
  <2>1. otp \in [CodeIds -> OtpRows] /\ codes \in 0 .. MaxCodes /\ clock \in Times
    BY <1>1 DEF AuthInit, OtpRows, Times
  <2>2. /\ account \in [Phones -> Accounts] /\ session \in [Sess -> SessionRows]
        /\ authReq \in [AuthReqs -> AuthCalls]
    BY RestIsCall DEF AuthInit, Accounts, SessionRows
  <2>3. /\ tries \in [CodeIds -> Nat] /\ accepted \in [CodeIds -> Nat]
        /\ alone \subseteq CodeIds /\ calm \subseteq Phones
    BY DEF AuthInit
  <2>4. QED  BY <2>1, <2>2, <2>3 DEF AuthTypeOK
<1>3. \A r \in AuthReqs : authReq[r] = AtRest
  BY DEF AuthInit
<1>4. AllCallsFit
  BY <1>3, RestFits DEF AllCallsFit
<1>5. Stored = {}
  BY DEF AuthInit, Stored
<1>6. CodesOK
  BY <1>1, <1>5 DEF AuthInit, CodesOK
<1>7. AcceptedOnce
  BY <1>3, RestIsCall DEF AuthInit, AcceptedOnce, CodeIds
<1>8. \A p \in Phones : Registering(p) = {}
  BY <1>3, RestIsCall DEF Registering
<1>9. Spacing /\ HasNewest
  BY <1>2, <1>5, <1>8 DEF Spacing, SpacedOut, HasNewest, AuthTypeOK
<1>10. \A o \in Sess : Holders(o) = {}
  BY <1>3, RestIsCall DEF AuthInit, Holders
<1>11. SessionsInd
  BY <1>10 DEF AuthInit, SessionsInd, SessionsOK, OneTokenPerLogin
<1>12. QED
  BY <1>2, <1>4, <1>6, <1>7, <1>9, <1>11, AllFit DEF AuthInd, Fitting, CodesInd

LEMMA AuthIndAlways == AuthSpec => []AuthInd
BY AuthInitInd, AuthStep, PTL DEF AuthSpec

\* For any number of people, codes, sessions and requests in flight: sessions, accounts
\* and requests fit together, only people who proved their phone hold sessions, and no
\* overlap of refreshes, logouts and failures leaves a login two usable refresh tokens.
THEOREM LoginsFit == AuthSpec => []AuthInv
<1>1. AuthInd => AuthInv
  BY DEF AuthInd, Fitting, CodesInd, SessionsInd, AuthInv
<1>2. QED  BY <1>1, AuthIndAlways, PTL

\* No code is compared more often than the limit, however verifications overlap; codes
\* that were verified one request at a time are accepted once; phones that register one
\* request at a time get codes more than the resend window apart.
THEOREM CodesKeepRules == AuthSpec => []CodeRules
<1>1. AuthInd => CodeRules
  BY DEF AuthInd, CodesInd, CodesOK, Spacing, CodeRules
<1>2. QED  BY <1>1, AuthIndAlways, PTL
-----------------------------------------------------------------------------
(* Authentication implements LoginChain.                                   *)

FewerHolders == RowsStay /\ \A o \in Sess : Holders(o)' \subseteq Holders(o)

\* Where no login gains a holder, some logins end, or none.
LEMMA EndsSome == FewerHolders => LoginChains!Next
<1> SUFFICES ASSUME FewerHolders PROVE LoginChains!Next
  OBVIOUS
<1>1. \A o \in Sess : Fate(o)' = Fate(o) \/ (Fate(o) = "live" /\ Fate(o)' = "dead")
  BY DEF FewerHolders, RowsStay, Fate
<1>2. PICK ls : ls = {o \in Sess : Fate(o) = "live" /\ Fate(o)' = "dead"}
  OBVIOUS
<1>3. Fates' = [o \in Sess |-> IF o \in ls THEN "dead" ELSE Fates[o]]
  BY <1>1, <1>2 DEF Fates
<1>4. \A o \in ls : Fates[o] = "live"
  BY <1>2 DEF Fates
<1>5. LoginChains!End(ls)
  BY <1>3, <1>4 DEF LoginChains!End
<1>6. ls \in SUBSET Sess
  BY <1>2
<1>7. QED  BY <1>5, <1>6 DEF LoginChains!Next

\* A request that does not come to replace a session of a login.
LEMMA NoNewHolder ==
    ASSUME AuthTypeOK, session' = session, NEW r \in AuthReqs, NEW w,
           authReq' = [authReq EXCEPT ![r] = w], w.pc = "issue" => w.from = Nobody
    PROVE  FewerHolders
<1>1. \A n \in AuthReqs : authReq'[n] = IF n = r THEN w ELSE authReq[n]
  BY DEF AuthTypeOK
<1>2. \A o \in Sess : Holders(o)' \subseteq Holders(o)
  BY <1>1, NobodyAssumption DEF Holders
<1>3. QED  BY <1>2 DEF FewerHolders, RowsStay

LEMMA TakesHolds ==
    ASSUME AuthInd, session' = session, NEW r \in AuthReqs, NEW pc, NEW w,
           \/ Answers(r)
           \/ Takes(r, w) /\ (w.pc = "issue" => w.from = Nobody)
           \/ authReq' = [authReq EXCEPT ![r] = w] /\ w.pc # "issue"
           \/ GoesOn(r, pc) /\ (pc = "issue" => authReq[r].from = Nobody)
    PROVE  FewerHolders
<1>1. AuthTypeOK
  BY DEF AuthInd, Fitting
<1>2. CASE Answers(r)
  BY <1>1, <1>2, NoNewHolder, RestIsCall DEF Answers
<1>3. CASE Takes(r, w) /\ (w.pc = "issue" => w.from = Nobody)
  BY <1>1, <1>3, NoNewHolder DEF Takes
<1>4. CASE authReq' = [authReq EXCEPT ![r] = w] /\ w.pc # "issue"
  BY <1>1, <1>4, NoNewHolder
<1>5. CASE GoesOn(r, pc) /\ (pc = "issue" => authReq[r].from = Nobody)
  <2>1. PICK v : v = [authReq[r] EXCEPT !.pc = pc]
    OBVIOUS
  <2>2. v.pc = pc /\ v.from = authReq[r].from
    BY <1>1, <2>1 DEF AuthTypeOK, AuthCalls
  <2>3. authReq' = [authReq EXCEPT ![r] = v]
    BY <1>5, <2>1 DEF GoesOn
  <2>4. QED  BY <1>1, <1>5, <2>2, <2>3, NoNewHolder
<1>6. QED  BY <1>2, <1>3, <1>4, <1>5
LEMMA BeginningsHold ==
    ASSUME AuthInd, NEW r \in AuthReqs, NEW p \in Phones,
           \/ RegisterBegins(r, p) \/ RefreshBegins(r, p) \/ AdminLogin(r, p)
           \/ \E v \in Values : VerifyBegins(r, p, v)
    PROVE  FewerHolders
<1>1. ASSUME RegisterBegins(r, p) PROVE FewerHolders
  <2>1. PICK w : w = [AtRest EXCEPT !.pc = "find", !.phone = p]
    OBVIOUS
  <2>2. w.pc # "issue"
    BY <2>1, RestIsCall DEF AuthCalls
  <2>3. QED  BY <1>1, <2>1, <2>2, TakesHolds DEF RegisterBegins
<1>2. ASSUME RefreshBegins(r, p) PROVE FewerHolders
  <2>1. PICK s \in LiveOf(p) : Takes(r, [AtRest EXCEPT !.pc = "rotate", !.phone = p, !.from = s])
    BY <1>2 DEF RefreshBegins
  <2>2. PICK w : w = [AtRest EXCEPT !.pc = "rotate", !.phone = p, !.from = s]
    OBVIOUS
  <2>3. w.pc # "issue"
    BY <2>2, RestIsCall DEF AuthCalls
  <2>4. QED  BY <1>2, <2>1, <2>2, <2>3, TakesHolds DEF RefreshBegins
<1>3. ASSUME AdminLogin(r, p) PROVE FewerHolders
  <2>1. PICK w : w = [AtRest EXCEPT !.pc = "issue", !.phone = p]
    OBVIOUS
  <2>2. w.from = Nobody
    BY <2>1, RestIsCall DEF AuthCalls
  <2>3. QED  BY <1>3, <2>1, <2>2, TakesHolds DEF AdminLogin
<1>4. ASSUME NEW v \in Values, VerifyBegins(r, p, v) PROVE FewerHolders
  <2>1. PICK w : w = [AtRest EXCEPT !.pc = "find", !.phone = p, !.value = v]
    OBVIOUS
  <2>2. w.pc # "issue"
    BY <2>1, RestIsCall DEF AuthCalls
  <2>3. QED  BY <1>4, <2>1, <2>2, TakesHolds DEF VerifyBegins
<1>5. QED  BY <1>1, <1>2, <1>3, <1>4

LEMMA CodesHold ==
    ASSUME AuthInd, NEW r \in AuthReqs,
           FindsUser(r) \/ CreatesUser(r) \/ VerifyStep(r) \/ \E v \in Values : StoresCode(r, v)
    PROVE  FewerHolders
<1>1. PICK q : q = authReq[r]
  OBVIOUS
<1>2. q \in AuthCalls /\ CallFits(q) /\ AuthTypeOK
  BY <1>1, CallOf DEF AuthInd, Fitting
<1>3. ASSUME FindsUser(r) PROVE FewerHolders
  <2>1. PICK w : w = [q EXCEPT !.seen = account[q.phone],
                               !.pc = IF account[q.phone] = "absent" THEN "create"
                                      ELSE IF q.value = Nobody THEN "store" ELSE "pick"]
    OBVIOUS
  <2>2. w.pc # "issue"
    BY <1>2, <2>1 DEF AuthCalls
  <2>3. authReq' = [authReq EXCEPT ![r] = w] /\ session' = session
    BY <1>1, <1>2, <1>3, <2>1 DEF FindsUser, AfterUser, AuthTypeOK
  <2>4. QED  BY <2>2, <2>3, TakesHolds
<1>4. ASSUME CreatesUser(r) PROVE FewerHolders
  <2>1. PICK w : w = [q EXCEPT !.seen = "new", !.pc = IF q.value = Nobody THEN "store" ELSE "pick"]
    OBVIOUS
  <2>2. w.pc # "issue"
    BY <1>2, <2>1 DEF AuthCalls
  <2>3. (authReq' = [authReq EXCEPT ![r] = w] \/ Answers(r)) /\ session' = session
    BY <1>1, <1>2, <1>4, <2>1 DEF CreatesUser, AfterUser, AuthTypeOK
  <2>4. QED  BY <2>2, <2>3, TakesHolds
<1>5. ASSUME PicksCode(r) PROVE FewerHolders
  <2>1. PICK w : w = [q EXCEPT !.pc = "try", !.code = Max(Usable(q.phone))]
    OBVIOUS
  <2>2. w.pc # "issue"
    BY <1>2, <2>1 DEF AuthCalls
  <2>3. (authReq' = [authReq EXCEPT ![r] = w] \/ Answers(r)) /\ session' = session
    BY <1>1, <1>2, <1>5, <2>1 DEF PicksCode, AuthTypeOK
  <2>4. QED  BY <2>2, <2>3, TakesHolds
<1>6. ASSUME TriesCode(r) PROVE FewerHolders
  <2>1. GoesOn(r, "spend") \/ GoesOn(r, "use") \/ Answers(r)
    BY <1>6 DEF TriesCode
  <2>2. QED  BY <1>6, <2>1, TakesHolds DEF TriesCode
<1>7. ASSUME SpendsCode(r) PROVE FewerHolders
  BY <1>7, TakesHolds DEF SpendsCode
<1>8. ASSUME UsesCode(r) PROVE FewerHolders
  BY <1>8, TakesHolds DEF UsesCode
<1>9. ASSUME SweepsCodes(r) PROVE FewerHolders
  <2>1. PICK w : w = [q EXCEPT !.code = 0, !.pc = IF q.seen = "new" THEN "confirm" ELSE "issue"]
    OBVIOUS
  <2>2. w.from = Nobody
    BY <1>1, <1>2, <1>9, <2>1 DEF AuthCalls, CallFits, SweepsCodes
  <2>3. authReq' = [authReq EXCEPT ![r] = w] /\ session' = session
    BY <1>1, <1>2, <1>9, <2>1 DEF SweepsCodes, AuthTypeOK
  <2>4. QED  BY <1>2, <2>2, <2>3, NoNewHolder
<1>10. ASSUME ConfirmsUser(r) PROVE FewerHolders
  <2>1. authReq[r].from = Nobody
    BY <1>1, <1>2, <1>10 DEF CallFits, ConfirmsUser
  <2>2. QED  BY <1>10, <2>1, TakesHolds DEF ConfirmsUser
<1>11. ASSUME NEW v \in Values, StoresCode(r, v) PROVE FewerHolders
  BY <1>11, TakesHolds DEF StoresCode
<1>12. QED
  BY <1>3, <1>4, <1>5, <1>6, <1>7, <1>8, <1>9, <1>10, <1>11 DEF VerifyStep

\* The session of a new login begins it; that of a refresh leaves all fates alone.
LEMMA IssuesMap ==
    ASSUME AuthInd, NEW r \in AuthReqs, NEW s \in Sess, IssuesSession(r, s)
    PROVE  LoginChains!Next \/ UNCHANGED Fates
<1>1. /\ session[s].state = "unused" /\ session'[s].state = "live"
      /\ \A t \in Sess : t # s => session'[t] = session[t]
      /\ \/ /\ session'[s].origin = s
            /\ \A o \in Sess : o # s => Holders(o)' = Holders(o)
         \/ /\ session'[s].origin # s /\ r \in Holders(session'[s].origin)
            /\ \A o \in Sess : o # session'[s].origin => Holders(o)' = Holders(o)
      /\ s \in Holders(session[s].origin)'
  BY IssuesSessionStep
<1>2. Fate(s) = "none"
  BY <1>1 DEF Fate
<1>3. CASE session'[s].origin = s
  <2>1. Fate(s)' = "live"
    BY <1>1, <1>3 DEF Fate
  <2>2. \A t \in Sess : t # s => Fate(t)' = Fate(t)
    BY <1>1, <1>3 DEF Fate
  <2>3. Fates' = [Fates EXCEPT ![s] = "live"]
    BY <2>1, <2>2 DEF Fates
  <2>4. LoginChains!Begin(s)
    BY <1>2, <2>3 DEF Fates, LoginChains!Begin
  <2>5. QED  BY <2>4 DEF LoginChains!Next
<1>4. CASE session'[s].origin # s
  <2>1. PICK o : o = session'[s].origin
    OBVIOUS
  <2>2. Fate(s)' = "none"
    BY <1>4 DEF Fate
  <2>3. Holders(o) # {} /\ Holders(o)' # {}
    BY <1>1, <1>4, <2>1
  <2>4. \A t \in Sess : t # s => Fate(t)' = Fate(t)
    BY <1>1, <1>4, <2>1, <2>3 DEF Fate
  <2>5. \A t \in Sess : Fate(t)' = Fate(t)
    BY <1>2, <2>2, <2>4
  <2>6. QED  BY <2>5 DEF Fates
<1>5. QED  BY <1>3, <1>4

LEMMA RotatesMap ==
    ASSUME AuthInd, NEW r \in AuthReqs, RotatesSession(r)
    PROVE  LoginChains!Next \/ UNCHANGED Fates
<1>1. CASE session[authReq[r].from].state = "live"
  <2>1. RowsStay
    BY <1>1, RotatesSessionStep
  <2>2. PICK o \in Sess : /\ Holders(o) # {} /\ Holders(o)' # {}
                          /\ \A p \in Sess : p # o => Holders(p)' = Holders(p)
    BY <1>1, RotatesSessionStep
  <2>3. \A t \in Sess : Fate(t)' = Fate(t)
    BY <2>1, <2>2 DEF Fate, RowsStay
  <2>4. QED  BY <2>3 DEF Fates
<1>2. CASE session[authReq[r].from].state # "live"
  <2>1. FewerHolders
    BY <1>2, TakesHolds DEF RotatesSession, MayRotate
  <2>2. QED  BY <2>1, EndsSome
<1>3. QED  BY <1>1, <1>2

LEMMA QuietHolds ==
    UNCHANGED <<session, authReq>> => FewerHolders
BY DEF FewerHolders, RowsStay, Holders

LEMMA ChainStep ==
    AuthInd /\ [AuthNext]_authVars => [LoginChains!Next]_Fates
<1> SUFFICES ASSUME AuthInd, [AuthNext]_authVars
             PROVE  LoginChains!Next \/ UNCHANGED Fates
  OBVIOUS
<1>1. ASSUME NEW r \in AuthReqs, NEW p \in Phones,
             \/ RegisterBegins(r, p) \/ RefreshBegins(r, p) \/ AdminLogin(r, p)
             \/ \E v \in Values : VerifyBegins(r, p, v)
      PROVE  LoginChains!Next
  BY <1>1, BeginningsHold, EndsSome
<1>2. ASSUME NEW r \in AuthReqs,
             FindsUser(r) \/ CreatesUser(r) \/ VerifyStep(r) \/ \E v \in Values : StoresCode(r, v)
      PROVE  LoginChains!Next
  BY <1>2, CodesHold, EndsSome
<1>3. ASSUME NEW r \in AuthReqs, CutOff(r) PROVE LoginChains!Next
  BY <1>3, TakesHolds, EndsSome DEF CutOff
<1>4. ASSUME NEW p \in Phones, Logout(p) PROVE LoginChains!Next
  BY <1>4, LogoutStep, EndsSome DEF FewerHolders
<1>5. ASSUME (\E p \in Phones : CreateAdmin(p)) \/ Tick \/ UNCHANGED authVars
      PROVE  LoginChains!Next
  BY <1>5, QuietHolds, EndsSome DEF CreateAdmin, Tick, authVars
<1>6. QED
  BY <1>1, <1>2, <1>3, <1>4, <1>5, IssuesMap, RotatesMap DEF AuthNext

\* Authentication implements LoginChain: a login begins once, lives through rotations,
\* and does not come back once a logout, a failure or a lost race has ended it.
THEOREM LoginsEndForGood == AuthSpec => LoginSpec
<1>1. AuthInit => LoginChains!Init
  <2> SUFFICES ASSUME AuthInit PROVE LoginChains!Init
    OBVIOUS
  <2>1. \A t \in Sess : Fate(t) = "none"
    BY DEF AuthInit, Fate
  <2>2. QED  BY <2>1 DEF LoginChains!Init, Fates
<1>2. QED
  BY <1>1, AuthIndAlways, ChainStep, PTL DEF AuthSpec, LoginSpec, LoginChains!Spec

-----------------------------------------------------------------------------
(* Saved cards.                                                            *)

LEMMA CardInitInv == CardInit => CardsInv
BY NoOneAssumption
   DEF CardInit, CardsInv, CardTypeOK, RowsOK, CardCallsOK, CardRows, CardCalls, Resting, Saved

\* A request that fits: what CardCallsOK says of one of them.
CardFits(q) ==
    /\ q.pc # "idle" => q.owner \in Owners
    /\ q.pc = "request" => q.number \in Numbers
    /\ q.pc = "save" => q.token \in Tokens
    /\ q.pc \in {"verify", "mark", "pay"} =>
           /\ q.row \in Rows
           /\ card[q.row].state # "unused"
           /\ card[q.row].owner = q.owner
           /\ card[q.row].token = q.token
    /\ q.pc \in {"mark", "pay"} => <<q.owner, q.token>> \in proved

LEMMA CallsAsOne == CardCallsOK <=> \A r \in CardReqs : CardFits(cardReq[r])
BY DEF CardCallsOK, CardFits

\* Rows keep their owner and token once they are in use, and proofs stay.
RowsKept ==
    /\ \A i \in Rows : card[i].state # "unused" =>
           /\ card'[i].state # "unused"
           /\ card'[i].owner = card[i].owner
           /\ card'[i].token = card[i].token
    /\ proved \subseteq proved'

\* A request that goes on with w fits if w does and the others are left alone.
LEMMA OneGoesOn ==
    ASSUME CardTypeOK, CardCallsOK, RowsKept, NEW r \in CardReqs, NEW w \in CardCalls,
           cardReq' = [cardReq EXCEPT ![r] = w], CardFits(w)
    PROVE  CardCallsOK' /\ cardReq' \in [CardReqs -> CardCalls]
<1>1. cardReq' \in [CardReqs -> CardCalls]
  BY DEF CardTypeOK
<1>2. ASSUME NEW q \in CardReqs PROVE CardFits(cardReq[q]) /\ cardReq'[q] \in {w, cardReq[q]}
  BY CallsAsOne DEF CardTypeOK
<1>3. ASSUME NEW v, CardFits(v) PROVE
         /\ v.pc # "idle" => v.owner \in Owners
         /\ v.pc = "request" => v.number \in Numbers
         /\ v.pc = "save" => v.token \in Tokens
         /\ v.pc \in {"verify", "mark", "pay"} =>
                /\ v.row \in Rows
                /\ card'[v.row].state # "unused"
                /\ card'[v.row].owner = v.owner
                /\ card'[v.row].token = v.token
         /\ v.pc \in {"mark", "pay"} => <<v.owner, v.token>> \in proved'
  BY <1>3 DEF CardFits, RowsKept
<1>4. CardCallsOK'
  BY <1>2, <1>3 DEF CardCallsOK
<1>5. QED  BY <1>1, <1>4

LEMMA CallFitsResting == CardFits(Resting) /\ Resting \in CardCalls
BY DEF CardFits, Resting, CardCalls

\* Each step leaves requests that fit, whatever the rows do meanwhile.
LEMMA CardCallsStep ==
    ASSUME CardsInv, RowsKept, [CardNext]_cardVars
    PROVE  CardCallsOK' /\ cardReq' \in [CardReqs -> CardCalls]
<1> USE DEF CardsInv
<1>1. ASSUME NEW r \in CardReqs, NEW o \in Owners, NEW n \in Numbers, AddBegins(r, o, n)
      PROVE  CardCallsOK' /\ cardReq' \in [CardReqs -> CardCalls]
  <2> DEFINE w == [Resting EXCEPT !.pc = "request", !.owner = o, !.number = n]
  <2>1. w \in CardCalls /\ CardFits(w)
    BY DEF Resting, CardCalls, CardFits
  <2>2. cardReq' = [cardReq EXCEPT ![r] = w]
    BY <1>1 DEF AddBegins, CardCall
  <2> QED  BY <2>1, <2>2, OneGoesOn
<1>2. ASSUME NEW r \in CardReqs, NEW t \in Tokens, ClickIssues(r, t)
      PROVE  CardCallsOK' /\ cardReq' \in [CardReqs -> CardCalls]
  <2> DEFINE w == [cardReq[r] EXCEPT !.pc = "save", !.token = t]
  <2>1. cardReq[r] \in CardCalls /\ cardReq[r].owner \in Owners
    BY <1>2 DEF CardTypeOK, CardCallsOK, ClickIssues
  <2>2. w \in CardCalls /\ CardFits(w)
    BY <2>1 DEF CardCalls, CardFits
  <2>3. cardReq' = [cardReq EXCEPT ![r] = w]
    BY <1>2, Zenon DEF ClickIssues
  <2> QED  BY <2>2, <2>3, OneGoesOn
<1>3. ASSUME NEW r \in CardReqs, NEW o \in Owners, NEW i \in Rows,
             VerifyCardBegins(r, o, i) \/ PayBegins(r, o, i)
      PROVE  CardCallsOK' /\ cardReq' \in [CardReqs -> CardCalls]
  <2>1. /\ card[i].state # "unused" /\ card[i].owner = o /\ card[i].token \in Tokens
        /\ card[i].verified => <<o, card[i].token>> \in proved
    BY <1>3 DEF VerifyCardBegins, PayBegins, MayPay, Saved, RowsOK
  <2>2. ASSUME NEW pc \in {"verify", "pay"}, pc = "pay" => card[i].verified,
               CardCall(r, [Resting EXCEPT !.pc = pc, !.owner = o, !.row = i,
                                           !.token = card[i].token])
        PROVE  CardCallsOK' /\ cardReq' \in [CardReqs -> CardCalls]
    <3> DEFINE w == [Resting EXCEPT !.pc = pc, !.owner = o, !.row = i, !.token = card[i].token]
    <3>1. w \in CardCalls /\ CardFits(w)
      BY <2>1, <2>2 DEF Resting, CardCalls, CardFits
    <3>2. cardReq' = [cardReq EXCEPT ![r] = w]
      BY <2>2 DEF CardCall
    <3> QED  BY <3>1, <3>2, OneGoesOn
  <2>3. QED  BY <1>3, <2>2 DEF VerifyCardBegins, PayBegins, MayPay
<1>4. ASSUME NEW r \in CardReqs, ClickConfirms(r)
      PROVE  CardCallsOK' /\ cardReq' \in [CardReqs -> CardCalls]
  <2> DEFINE w == [cardReq[r] EXCEPT !.pc = "mark"]
  <2>1. cardReq[r] \in CardCalls /\ CardFits(cardReq[r]) /\ cardReq[r].pc = "verify"
    BY <1>4, CallsAsOne DEF CardTypeOK, ClickConfirms
  <2>2. w \in CardCalls /\ w.pc = "mark" /\ w.owner = cardReq[r].owner
        /\ w.token = cardReq[r].token /\ w.row = cardReq[r].row
    BY <2>1 DEF CardCalls
  <2>3. cardReq' = [cardReq EXCEPT ![r] = w]
    BY <1>4, Zenon DEF ClickConfirms
  <2>4. /\ proved' = proved \cup {<<w.owner, w.token>>}
        /\ card' = card
    BY <1>4, <2>2 DEF ClickConfirms
  <2> HIDE DEF w
  <2>5. cardReq' \in [CardReqs -> CardCalls]
    BY <2>2, <2>3 DEF CardTypeOK
  <2>6. ASSUME NEW q \in CardReqs, q # r PROVE cardReq'[q] = cardReq[q]
    BY <2>3, <2>6 DEF CardTypeOK
  <2>7. cardReq'[r] = w
    BY <2>3 DEF CardTypeOK
  <2>8. CardCallsOK'
    BY <2>1, <2>2, <2>4, <2>6, <2>7 DEF CardCallsOK, CardFits
  <2> QED  BY <2>5, <2>8
<1>5. ASSUME NEW r \in CardReqs, CardDone(r)
      PROVE  CardCallsOK' /\ cardReq' \in [CardReqs -> CardCalls]
  BY <1>5, CallFitsResting, OneGoesOn DEF CardDone
<1>6. ASSUME UNCHANGED cardReq PROVE CardCallsOK' /\ cardReq' \in [CardReqs -> CardCalls]
  <2>1. cardReq' \in [CardReqs -> CardCalls]
    BY <1>6 DEF CardTypeOK
  <2>2. ASSUME NEW r \in CardReqs
        PROVE  CardCallsOK'
    <3>1. cardReq[r] \in CardCalls /\ CardFits(cardReq[r])
      BY CallsAsOne DEF CardTypeOK
    <3>2. cardReq' = [cardReq EXCEPT ![r] = cardReq[r]]
      BY <1>6 DEF CardTypeOK
    <3> QED  BY <3>1, <3>2, OneGoesOn
  <2> QED  BY <2>1, <2>2 DEF CardCallsOK
<1>7. QED
  BY <1>1, <1>2, <1>3, <1>4, <1>5, <1>6
     DEF CardNext, cardVars, Saves, MarksVerified, ClickCharges, CardCutOff, DeleteCard

-----------------------------------------------------------------------------

\* What the rows and the proofs look like after a step.
RowsAfter ==
    /\ RowsKept
    /\ RowsOK'
    /\ card' \in [Rows -> CardRows]
    /\ proved' \subseteq Owners \X Tokens

LEMMA RowsAlone == CardsInv /\ UNCHANGED <<card, proved>> => RowsAfter
BY DEF CardsInv, CardTypeOK, RowsAfter, RowsKept, RowsOK, Saved

LEMMA RowsStep == CardsInv /\ [CardNext]_cardVars => RowsAfter
<1> SUFFICES ASSUME CardsInv, [CardNext]_cardVars PROVE RowsAfter
  OBVIOUS
<1>1. ASSUME NEW r \in CardReqs, NEW i \in Rows, Saves(r, i) PROVE RowsAfter
  <2> DEFINE q == cardReq[r]
             held == {j \in Saved : card[j].token = q.token}
  <2>1. CASE held # {}
    BY <1>1, <2>1, RowsAlone DEF Saves, OnConflict
  <2>2. CASE held = {}
    <3>1. PICK o \in Owners, t \in Tokens : o = q.owner /\ t = q.token
      BY <1>1 DEF CardsInv, CardCallsOK, Saves
    <3>2. /\ card[i].state = "unused" /\ proved' = proved
          /\ card' = [card EXCEPT ![i] =
                 [state |-> "saved", owner |-> o, token |-> t, verified |-> FALSE]]
      BY <1>1, <2>2, <3>1 DEF Saves
    <3>3. \A j \in Rows : card[j].state = "saved" => card[j].token # t
      BY <2>2, <3>1 DEF Saved
    <3>4. card' \in [Rows -> CardRows] /\ proved' \subseteq Owners \X Tokens
      BY <3>2 DEF CardsInv, CardTypeOK, CardRows
    <3>5. /\ card'[i] = [state |-> "saved", owner |-> o, token |-> t, verified |-> FALSE]
          /\ \A j \in Rows : j # i => card'[j] = card[j]
      BY <3>2 DEF CardsInv, CardTypeOK
    <3>6. RowsKept
      BY <3>2, <3>5 DEF RowsKept
    <3>7. RowsOK'
      BY <3>2, <3>3, <3>5 DEF CardsInv, RowsOK, Saved
    <3> QED  BY <3>4, <3>6, <3>7 DEF RowsAfter
  <2> QED  BY <2>1, <2>2
<1>2. ASSUME NEW r \in CardReqs, ClickConfirms(r) PROVE RowsAfter
  <2>1. <<cardReq[r].owner, cardReq[r].token>> \in Owners \X Tokens
    BY <1>2 DEF ClickConfirms, CardsInv, CardCallsOK, RowsOK
  <2>2. card' = card /\ proved' = proved \cup {<<cardReq[r].owner, cardReq[r].token>>}
    BY <1>2 DEF ClickConfirms
  <2> QED  BY <2>1, <2>2 DEF CardsInv, CardTypeOK, RowsAfter, RowsKept, RowsOK, Saved
<1>3. ASSUME NEW r \in CardReqs, MarksVerified(r) PROVE RowsAfter
  <2>1. PICK i \in Rows : i = cardReq[r].row
    BY <1>3 DEF MarksVerified, CardsInv, CardCallsOK
  <2>2. /\ <<card[i].owner, card[i].token>> \in proved
    BY <1>3, <2>1 DEF MarksVerified, CardsInv, CardCallsOK
  <2>3. proved' = proved /\ (card' = [card EXCEPT ![i].verified = TRUE] \/ card' = card)
    BY <1>3, <2>1 DEF MarksVerified
  <2>4. CASE card' = [card EXCEPT ![i].verified = TRUE]
    <3>1. /\ card' \in [Rows -> CardRows]
          /\ card'[i].state = card[i].state /\ card'[i].owner = card[i].owner
          /\ card'[i].token = card[i].token
          /\ \A j \in Rows : j # i => card'[j] = card[j]
      BY <2>4 DEF CardsInv, CardTypeOK, CardRows
    <3>2. RowsKept
      BY <2>3, <3>1 DEF RowsKept
    <3>3. RowsOK'
      BY <2>2, <2>3, <3>1 DEF CardsInv, RowsOK, Saved
    <3> QED  BY <2>3, <3>1, <3>2, <3>3 DEF RowsAfter, CardsInv, CardTypeOK
  <2> QED  BY <2>3, <2>4, RowsAlone
<1>4. ASSUME NEW o \in Owners, NEW i \in Rows, DeleteCard(o, i) PROVE RowsAfter
  <2>1. card' = [card EXCEPT ![i].state = "deleted"] /\ proved' = proved
    BY <1>4 DEF DeleteCard
  <2>2. /\ card' \in [Rows -> CardRows]
        /\ card'[i].state = "deleted" /\ card'[i].owner = card[i].owner
        /\ card'[i].token = card[i].token /\ card'[i].verified = card[i].verified
        /\ \A j \in Rows : j # i => card'[j] = card[j]
    BY <2>1 DEF CardsInv, CardTypeOK, CardRows
  <2>3. card[i].state = "saved"
    BY <1>4 DEF DeleteCard, Saved
  <2>4. RowsKept
    BY <2>1, <2>2 DEF RowsKept
  <2>5. RowsOK'
    BY <2>1, <2>2, <2>3 DEF CardsInv, RowsOK, Saved
  <2> QED  BY <2>1, <2>2, <2>4, <2>5 DEF RowsAfter, CardsInv, CardTypeOK
<1>5. QED
  BY <1>1, <1>2, <1>3, <1>4, RowsAlone
     DEF CardNext, cardVars, AddBegins, ClickIssues, VerifyCardBegins, PayBegins, ClickCharges, CardCutOff

\* What Click knows and what was paid.
LEMMA ChargedStep ==
    CardsInv /\ [CardNext]_cardVars =>
        /\ number' \in [Tokens -> Numbers \cup {NoOne}]
        /\ charged' \subseteq proved'
<1> SUFFICES ASSUME CardsInv, [CardNext]_cardVars
             PROVE  number' \in [Tokens -> Numbers \cup {NoOne}] /\ charged' \subseteq proved'
  OBVIOUS
<1>1. proved \subseteq proved'
  BY RowsStep DEF RowsAfter, RowsKept
<1>2. ASSUME NEW r \in CardReqs, ClickCharges(r)
      PROVE  number' \in [Tokens -> Numbers \cup {NoOne}] /\ charged' \subseteq proved'
  BY <1>1, <1>2 DEF ClickCharges, CardsInv, CardTypeOK, CardCallsOK
<1>3. ASSUME NEW r \in CardReqs, NEW t \in Tokens, ClickIssues(r, t)
      PROVE  number' \in [Tokens -> Numbers \cup {NoOne}] /\ charged' \subseteq proved'
  BY <1>1, <1>3 DEF ClickIssues, CardsInv, CardTypeOK, CardCallsOK
<1>4. ASSUME UNCHANGED <<number, charged>>
      PROVE  number' \in [Tokens -> Numbers \cup {NoOne}] /\ charged' \subseteq proved'
  BY <1>1, <1>4 DEF CardsInv, CardTypeOK
<1>5. QED
  BY <1>2, <1>3, <1>4
     DEF CardNext, cardVars, AddBegins, Saves, VerifyCardBegins, PayBegins, ClickConfirms,
         MarksVerified, CardCutOff, DeleteCard

\* A card is charged only for the user who gave its SMS code: tokens stay in the rows
\* of their first owners when Click gives them out again, and a request that charges
\* carries the owner and the token of a row that was proved.
THEOREM ChargedWasProved == CardSpec => []CardsInv
<1>1. CardsInv /\ [CardNext]_cardVars => CardsInv'
  <2> SUFFICES ASSUME CardsInv, [CardNext]_cardVars PROVE CardsInv'
    OBVIOUS
  <2>1. RowsAfter
    BY RowsStep
  <2>2. CardCallsOK' /\ cardReq' \in [CardReqs -> CardCalls]
    BY <2>1, CardCallsStep DEF RowsAfter
  <2>3. number' \in [Tokens -> Numbers \cup {NoOne}] /\ charged' \subseteq proved'
    BY ChargedStep
  <2>4. QED  BY <2>1, <2>2, <2>3 DEF RowsAfter, CardsInv, CardTypeOK
<1>2. QED  BY <1>1, CardInitInv, PTL DEF CardSpec
=============================================================================
