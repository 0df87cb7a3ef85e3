--------------------------- MODULE AccountsProofs ---------------------------
(***************************************************************************)
(* What holds of module Accounts for any number of addresses, handlers,    *)
(* codes and attempts.  A handler writes after an await what it has read   *)
(* before, so the invariant says what of it is still true by then: the     *)
(* account exists, an account that was verified is verified, and a reset   *)
(* code that is waited with is marked, has not written yet and is waited   *)
(* with by nobody else.  With it the handlers are steps of SessionVersions.*)
(***************************************************************************)
EXTENDS Accounts, TLAPS

(* what a handler has read that nobody takes back while it waits *)
HandlersSound ==
    \A s \in Slots :
        /\ pending[s] # None /\ pending[s].kind \in {"login", "reset"} =>
              Exists(pending[s].email)
        /\ pending[s] # None /\ pending[s].kind = "login" /\ pending[s].verified =>
              users[pending[s].email].verified

(* s waits for the key of a new password *)
IsReset(s) == pending[s] # None /\ pending[s].kind = "reset"

CodesSound ==
    /\ \A c \in Codes : resets[c] = None \/ ~ resets[c].used => written[c] = 0
    /\ \A c \in Codes : c > issued => resets[c] = None
    /\ \A c \in Codes : resets[c] # None => Exists(resets[c].user)
    /\ \A s \in Slots : IsReset(s) =>
          /\ IsCodeOf(pending[s].code, pending[s].email)
          /\ resets[pending[s].code].used
          /\ written[pending[s].code] = 0
    /\ \A s, r \in Slots :
          IsReset(s) /\ IsReset(r) /\ pending[s].code = pending[r].code => s = r

IInv == TypeOK /\ HandlersSound /\ CodesSound /\ VerifiedSessions

-----------------------------------------------------------------------------
(* Accounts *)

(* no account disappears and none is unverified again *)
Grows ==
    \A e \in Emails : Exists(e) =>
        /\ users'[e] # None
        /\ users[e].verified => users'[e].verified

LEMMA UserIsNotNone == \A user \in User : user # None
BY AccountsAssumption

LEMMA OneUser ==
    ASSUME TypeOK, NEW e \in Emails, NEW user \in User,
           users' = [users EXCEPT ![e] = user],
           Exists(e) /\ users[e].verified => user.verified
    PROVE  /\ users' \in [Emails -> User \cup {None}]
           /\ Grows
BY UserIsNotNone DEF TypeOK, Grows, Exists

(* an account with another code *)
LEMMA OtherCode ==
    ASSUME NEW user \in User, NEW c \in Codes \cup {None}
    PROVE  /\ [user EXCEPT !.code = c] \in User
           /\ [user EXCEPT !.code = c].hash = user.hash
           /\ [user EXCEPT !.code = c].verified = user.verified
           /\ [user EXCEPT !.code = c].ver = user.ver
BY DEF User

LEMMA ClearedType ==
    ASSUME TypeOK, NEW c \in Codes \cup {None}
    PROVE  Cleared(c) \in [Codes -> 0..MaxMistakes]
BY AccountsAssumption DEF TypeOK, Cleared

LEMMA DrawCodeType ==
    ASSUME TypeOK, DrawCode
    PROVE  issued' = issued + 1 /\ issued' \in Codes /\ issued' \in 0..MaxCodes
           /\ live' \in SUBSET Codes
BY AccountsAssumption DEF TypeOK, DrawCode, CodesLeft, Codes

LEMMA SetVerificationCodeStep ==
    ASSUME TypeOK, NEW e \in Emails, NEW user \in User, SetVerificationCode(e, user),
           Exists(e) /\ users[e].verified => user.verified
    PROVE  /\ users' \in [Emails -> User \cup {None}]
           /\ Grows
           /\ issued' \in 0..MaxCodes /\ issued' >= issued
           /\ live' \in SUBSET Codes
           /\ mistakes' \in [Codes -> 0..MaxMistakes]
           /\ users' = [users EXCEPT ![e] = [user EXCEPT !.code = issued + 1]]
<1>1. DrawCode /\ users' = [users EXCEPT ![e] = [user EXCEPT !.code = issued + 1]]
      /\ mistakes' = Cleared(user.code)
  BY DEF SetVerificationCode
<1>2. issued + 1 \in Codes /\ issued' \in 0..MaxCodes /\ issued' >= issued
      /\ live' \in SUBSET Codes
  BY <1>1, DrawCodeType DEF TypeOK
<1>3. user.code \in Codes \cup {None}
  BY DEF User
<1>4. users' \in [Emails -> User \cup {None}] /\ Grows
  BY <1>1, <1>2, OtherCode, OneUser
<1>. QED BY <1>1, <1>2, <1>3, <1>4, ClearedType

-----------------------------------------------------------------------------
(* What a step has to leave alone *)

LEMMA CodesKept ==
    ASSUME IInv, Grows, UNCHANGED <<resets, written>>, issued' \in Nat, issued' >= issued,
           \A s \in Slots : IsReset(s)' => pending'[s] = pending[s]
    PROVE  CodesSound'
<1>1. \A c \in Codes : resets[c] # None => resets[c].user \in Emails
  BY DEF IInv, TypeOK, Reset
<1>. QED BY <1>1 DEF IInv, CodesSound, IsReset, IsCodeOf, TypeOK, Codes, Grows, Exists

LEMMA HandlersKept ==
    ASSUME IInv, Grows,
           \A s \in Slots : pending'[s] = None \/ pending'[s] = pending[s]
    PROVE  HandlersSound'
<1>1. \A s \in Slots : pending[s] # None => pending[s].email \in Emails
  BY DEF IInv, TypeOK, Handler, Signup, Login, Change
<1>. QED BY <1>1 DEF IInv, HandlersSound, Grows, Exists

LEMMA SessionsKept ==
    ASSUME IInv, Grows, sessions' \subseteq sessions
    PROVE  VerifiedSessions' /\ sessions' \in SUBSET Session
BY DEF IInv, TypeOK, Session, VerifiedSessions, Grows, Exists

LEMMA SessionIssued ==
    ASSUME IInv, Grows, NEW e \in Emails, NEW user \in User, IssueSession(e, user),
           users'[e] # None, users'[e].verified
    PROVE  VerifiedSessions' /\ sessions' \in SUBSET Session
<1>1. sessions' = sessions \cup {[user |-> e, ver |-> user.ver]}
      /\ [user |-> e, ver |-> user.ver] \in Session
  BY DEF IssueSession, Session, User
<1>. QED BY <1>1 DEF IInv, TypeOK, Session, VerifiedSessions, Grows, Exists
LEMMA FinishType ==
    ASSUME TypeOK, NEW s \in Slots, Finish(s)
    PROVE  /\ pending' \in [Slots -> Handler \cup {None}]
           /\ \A r \in Slots : pending'[r] = None \/ pending'[r] = pending[r]
BY DEF TypeOK, Finish

LEMMA AwaitType ==
    ASSUME TypeOK, NEW s \in Slots, NEW handler \in Handler, Await(s, handler)
    PROVE  /\ pending' \in [Slots -> Handler \cup {None}]
           /\ pending[s] = None /\ pending'[s] = handler
           /\ \A r \in Slots : r # s => pending'[r] = pending[r]
BY DEF TypeOK, Await

LEMMA UnchangedUsers ==
    ASSUME UNCHANGED users
    PROVE  Grows
BY DEF Grows, Exists

-----------------------------------------------------------------------------
(* Signing up *)

LEMMA BeginSignupStep ==
    ASSUME IInv, NEW s \in Slots, NEW e \in Emails, NEW p \in Passwords, BeginSignup(s, e, p)
    PROVE  IInv'
<1>. DEFINE handler == [kind |-> "signup", email |-> e, hash |-> p]
<1>1. handler \in Handler /\ handler.kind = "signup"
  BY DEF Handler, Signup
<1>2. Await(s, handler)
      /\ UNCHANGED <<users, resets, issued, live, mistakes, cooling, sessions, written>>
  BY DEF BeginSignup
<1>. HIDE DEF handler
<1>3. /\ pending' \in [Slots -> Handler \cup {None}]
      /\ pending[s] = None /\ pending'[s] = handler
      /\ \A r \in Slots : r # s => pending'[r] = pending[r]
  BY <1>1, <1>2, AwaitType DEF IInv
<1>4. CodesSound'
  BY <1>1, <1>2, <1>3, CodesKept, UnchangedUsers DEF IInv, TypeOK, IsReset
<1>5. HandlersSound'
  BY <1>1, <1>2, <1>3 DEF IInv, HandlersSound, Exists
<1>. QED BY <1>2, <1>3, <1>4, <1>5 DEF IInv, TypeOK, VerifiedSessions, Exists

LEMMA EndSignupStep ==
    ASSUME IInv, NEW s \in Slots, EndSignup(s)
    PROVE  IInv'
<1>. DEFINE e == pending[s].email
            user == NewUser(pending[s].hash, FALSE)
<1>1. pending[s] \in Signup
  BY DEF EndSignup, Waiting, IInv, TypeOK, Handler, Login, Change
<1>2. e \in Emails /\ user \in User
  BY <1>1 DEF Signup, NewUser, User
<1>3. /\ Finish(s) /\ UNCHANGED <<resets, cooling, sessions, written>>
      /\ IF Exists(e) THEN UNCHANGED <<users, issued, live, mistakes>>
                      ELSE SetVerificationCode(e, user)
  BY DEF EndSignup
<1>. HIDE DEF e, user
<1>4. /\ users' \in [Emails -> User \cup {None}]
      /\ Grows
      /\ issued' \in 0..MaxCodes /\ issued' >= issued
      /\ live' \in SUBSET Codes
      /\ mistakes' \in [Codes -> 0..MaxMistakes]
  <2>1. CASE Exists(e)
    BY <1>3, <2>1, UnchangedUsers DEF IInv, TypeOK
  <2>2. CASE ~ Exists(e)
    BY <1>2, <1>3, <2>2, SetVerificationCodeStep DEF IInv
  <2>. QED BY <2>1, <2>2
<1>5. /\ pending' \in [Slots -> Handler \cup {None}]
      /\ \A r \in Slots : pending'[r] = None \/ pending'[r] = pending[r]
  BY <1>3, FinishType DEF IInv
<1>6. CodesSound'
  BY <1>3, <1>4, <1>5, CodesKept DEF IsReset
<1>7. HandlersSound'
  BY <1>4, <1>5, HandlersKept
<1>8. VerifiedSessions' /\ sessions' \in SUBSET Session
  BY <1>3, <1>4, SessionsKept
<1>. QED BY <1>3, <1>4, <1>5, <1>6, <1>7, <1>8 DEF IInv, TypeOK

LEMMA ResendCodeStep ==
    ASSUME IInv, NEW e \in Emails, ResendCode(e)
    PROVE  IInv'
<1>1. /\ users[e] \in User
      /\ SetVerificationCode(e, users[e])
      /\ cooling' \in SUBSET (Emails \cup Hosts)
      /\ UNCHANGED <<resets, pending, sessions, written>>
  BY DEF ResendCode, Exists, IInv, TypeOK
<1>2. /\ users' \in [Emails -> User \cup {None}]
      /\ Grows
      /\ issued' \in 0..MaxCodes /\ issued' >= issued
      /\ live' \in SUBSET Codes
      /\ mistakes' \in [Codes -> 0..MaxMistakes]
  BY <1>1, SetVerificationCodeStep DEF IInv
<1>3. CodesSound' /\ HandlersSound'
  BY <1>1, <1>2, CodesKept, HandlersKept
<1>4. VerifiedSessions' /\ sessions' \in SUBSET Session
  BY <1>1, <1>2, SessionsKept
<1>. QED BY <1>1, <1>2, <1>3, <1>4 DEF IInv, TypeOK

LEMMA VerifyStep ==
    ASSUME IInv, NEW e \in Emails, Verify(e)
    PROVE  IInv'
<1>. DEFINE user == [users[e] EXCEPT !.verified = TRUE, !.code = None]
<1>1. /\ users[e] \in User
      /\ mistakes' = Cleared(users[e].code)
      /\ IssueSession(e, users[e])
      /\ users' = [users EXCEPT ![e] = user]
      /\ UNCHANGED <<resets, issued, live, cooling, pending, written>>
  BY DEF Verify, Exists, IInv, TypeOK
<1>2. user \in User /\ user.verified /\ users[e].code \in Codes \cup {None}
  BY <1>1 DEF User
<1>. HIDE DEF user
<1>3. users' \in [Emails -> User \cup {None}] /\ Grows
  BY <1>1, <1>2, OneUser DEF IInv
<1>4. mistakes' \in [Codes -> 0..MaxMistakes]
  BY <1>1, <1>2, ClearedType DEF IInv
<1>5. users'[e] # None /\ users'[e].verified
  BY <1>1, <1>2, UserIsNotNone DEF IInv, TypeOK
<1>6. VerifiedSessions' /\ sessions' \in SUBSET Session
  BY <1>1, <1>3, <1>5, SessionIssued
<1>7. CodesSound' /\ HandlersSound'
  BY <1>1, <1>3, CodesKept, HandlersKept DEF IInv, TypeOK
<1>. QED BY <1>1, <1>3, <1>4, <1>6, <1>7 DEF IInv, TypeOK

LEMMA VerifyWronglyStep ==
    ASSUME IInv, NEW e \in Emails, VerifyWrongly(e)
    PROVE  IInv'
<1>1. /\ users[e] \in User /\ users[e].code \in Codes
      /\ UNCHANGED <<resets, issued, live, cooling, pending, sessions, written>>
  BY DEF VerifyWrongly, Exists, IInv, TypeOK
<1>2. /\ users' \in [Emails -> User \cup {None}] /\ Grows
      /\ mistakes' \in [Codes -> 0..MaxMistakes]
  <2>1. CASE mistakes[users[e].code] < MaxMistakes
    <3>1. UNCHANGED users /\ mistakes' = [mistakes EXCEPT ![users[e].code] = @ + 1]
      BY <2>1 DEF VerifyWrongly
    <3>2. mistakes[users[e].code] + 1 \in 0..MaxMistakes
      BY <1>1, <2>1, AccountsAssumption DEF IInv, TypeOK
    <3>. QED BY <1>1, <3>1, <3>2, UnchangedUsers DEF IInv, TypeOK
  <2>2. CASE ~ (mistakes[users[e].code] < MaxMistakes)
    <3>1. /\ users' = [users EXCEPT ![e] = [users[e] EXCEPT !.code = None]]
          /\ mistakes' = Cleared(users[e].code)
      BY <2>2 DEF VerifyWrongly, IInv, TypeOK
    <3>. QED BY <1>1, <3>1, OtherCode, OneUser, ClearedType DEF IInv
  <2>. QED BY <2>1, <2>2
<1>3. CodesSound' /\ HandlersSound'
  BY <1>1, <1>2, CodesKept, HandlersKept DEF IInv, TypeOK
<1>4. VerifiedSessions' /\ sessions' \in SUBSET Session
  BY <1>1, <1>2, SessionsKept
<1>. QED BY <1>1, <1>2, <1>3, <1>4 DEF IInv, TypeOK

LEMMA OAuthLoginStep ==
    ASSUME IInv, NEW e \in Emails, OAuthLogin(e)
    PROVE  IInv'
<1>. DEFINE user == IF Exists(e) THEN [users[e] EXCEPT !.verified = TRUE]
                                 ELSE NewUser(None, TRUE)
<1>1. /\ users' = [users EXCEPT ![e] = user]
      /\ IssueSession(e, user)
      /\ UNCHANGED <<resets, issued, live, mistakes, cooling, pending, written>>
  BY DEF OAuthLogin
<1>2. user \in User /\ user.verified
  <2>1. Exists(e) => users[e] \in User
    BY DEF Exists, IInv, TypeOK
  <2>. QED BY <2>1 DEF User, NewUser
<1>. HIDE DEF user
<1>3. users' \in [Emails -> User \cup {None}] /\ Grows
  BY <1>1, <1>2, OneUser DEF IInv
<1>4. users'[e] # None /\ users'[e].verified
  BY <1>1, <1>2, UserIsNotNone DEF IInv, TypeOK
<1>5. VerifiedSessions' /\ sessions' \in SUBSET Session
  BY <1>1, <1>2, <1>3, <1>4, SessionIssued
<1>6. CodesSound' /\ HandlersSound'
  BY <1>1, <1>3, CodesKept, HandlersKept DEF IInv, TypeOK
<1>. QED BY <1>1, <1>3, <1>5, <1>6 DEF IInv, TypeOK
-----------------------------------------------------------------------------
(* Logging in and out *)

LEMMA BeginLoginStep ==
    ASSUME IInv, NEW s \in Slots, NEW e \in Emails, NEW p \in Passwords, BeginLogin(s, e, p)
    PROVE  IInv'
<1>. DEFINE handler == [kind |-> "login", email |-> e, ok |-> users[e].hash = p,
                        verified |-> users[e].verified, failed |-> users[e].failed]
<1>1. users[e] \in User /\ Exists(e)
  BY DEF BeginLogin, Exists, IInv, TypeOK
<1>2. users[e].verified \in BOOLEAN /\ users[e].failed \in Nat
      /\ (users[e].hash = p) \in BOOLEAN
  BY <1>1 DEF User
<1>3. handler \in Login
  BY <1>2 DEF Login
<1>4. handler.kind = "login" /\ handler.email = e /\ handler.verified = users[e].verified
  OBVIOUS
<1>5. Await(s, handler)
      /\ UNCHANGED <<users, resets, issued, live, mistakes, cooling, sessions, written>>
  BY DEF BeginLogin
<1>. HIDE DEF handler
<1>6. /\ pending' \in [Slots -> Handler \cup {None}]
      /\ pending[s] = None /\ pending'[s] = handler
      /\ \A r \in Slots : r # s => pending'[r] = pending[r]
  BY <1>3, <1>5, AwaitType DEF IInv, Handler
<1>7. CodesSound'
  BY <1>4, <1>5, <1>6, CodesKept, UnchangedUsers DEF IInv, TypeOK, IsReset
<1>8. HandlersSound'
  BY <1>1, <1>4, <1>5, <1>6 DEF IInv, HandlersSound, Exists
<1>. QED BY <1>5, <1>6, <1>7, <1>8 DEF IInv, TypeOK, VerifiedSessions, Exists

(* the account that a login that waits has read *)
LEMMA WaitingLogin ==
    ASSUME IInv, NEW s \in Slots, Waiting(s, "login")
    PROVE  /\ pending[s] \in Login
           /\ pending[s].email \in Emails
           /\ users[pending[s].email] \in User
           /\ pending[s].verified => users[pending[s].email].verified
BY DEF Waiting, IInv, TypeOK, HandlersSound, Exists, Handler, Signup, Login, Change

LEMMA FailLoginStep ==
    ASSUME IInv, NEW s \in Slots, FailLogin(s)
    PROVE  IInv'
<1>. DEFINE e == pending[s].email
            failed == pending[s].failed + 1
            locked == users[e].locked \/ failed >= MaxFailed
            user == [users[e] EXCEPT !.failed = failed, !.locked = locked]
<1>1. pending[s] \in Login /\ e \in Emails /\ users[e] \in User
  BY WaitingLogin DEF FailLogin
<1>2. failed \in Nat /\ locked \in BOOLEAN
  BY <1>1 DEF Login
<1>3. /\ Finish(s)
      /\ users' = [users EXCEPT ![e] = user]
      /\ UNCHANGED <<resets, issued, live, mistakes, cooling, sessions, written>>
  BY <1>1 DEF FailLogin, IInv, TypeOK
<1>. HIDE DEF failed, locked
<1>4. user \in User /\ user.verified = users[e].verified
  BY <1>1, <1>2 DEF User
<1>. HIDE DEF user, e
<1>5. users' \in [Emails -> User \cup {None}] /\ Grows
  BY <1>1, <1>3, <1>4, OneUser DEF IInv
<1>6. /\ pending' \in [Slots -> Handler \cup {None}]
      /\ \A r \in Slots : pending'[r] = None \/ pending'[r] = pending[r]
  BY <1>3, FinishType DEF IInv
<1>7. CodesSound' /\ HandlersSound'
  BY <1>3, <1>5, <1>6, CodesKept, HandlersKept DEF IInv, TypeOK, IsReset
<1>8. VerifiedSessions' /\ sessions' \in SUBSET Session
  BY <1>3, <1>5, SessionsKept
<1>. QED BY <1>3, <1>5, <1>6, <1>7, <1>8 DEF IInv, TypeOK

(* an account without failures *)
Unlocked(user) == [user EXCEPT !.failed = 0, !.locked = FALSE]

LEMMA UnlockedUser ==
    ASSUME NEW user \in User
    PROVE  /\ Unlocked(user) \in User
           /\ Unlocked(user).hash = user.hash
           /\ Unlocked(user).verified = user.verified
           /\ Unlocked(user).ver = user.ver
BY DEF User, Unlocked

LEMMA EndLoginStep ==
    ASSUME IInv, NEW s \in Slots, EndLogin(s)
    PROVE  IInv'
<1>. DEFINE e == pending[s].email
            user == Unlocked(users[e])
<1>1. /\ e \in Emails /\ users[e] \in User
      /\ pending[s].verified => users[e].verified
  BY WaitingLogin DEF EndLogin
<1>2. /\ Finish(s)
      /\ IF pending[s].verified
         THEN /\ users' = [users EXCEPT ![e] = user]
              /\ IssueSession(e, user)
              /\ UNCHANGED <<issued, live, mistakes>>
         ELSE SetVerificationCode(e, user) /\ UNCHANGED sessions
      /\ UNCHANGED <<resets, cooling, written>>
  BY DEF EndLogin, Unlocked
<1>3. user \in User /\ user.verified = users[e].verified
  BY <1>1, UnlockedUser
<1>. HIDE DEF user, e
<1>4. /\ pending' \in [Slots -> Handler \cup {None}]
      /\ \A r \in Slots : pending'[r] = None \/ pending'[r] = pending[r]
  BY <1>2, FinishType DEF IInv
<1>5. CASE pending[s].verified
  <2>1. /\ users' = [users EXCEPT ![e] = user] /\ IssueSession(e, user)
        /\ UNCHANGED <<issued, live, mistakes>>
    BY <1>2, <1>5
  <2>2. users' \in [Emails -> User \cup {None}] /\ Grows
    BY <1>1, <1>3, <2>1, OneUser DEF IInv
  <2>3. users'[e] # None /\ users'[e].verified
    BY <1>1, <1>3, <1>5, <2>1, UserIsNotNone DEF IInv, TypeOK
  <2>4. VerifiedSessions' /\ sessions' \in SUBSET Session
    BY <1>1, <1>3, <2>1, <2>2, <2>3, SessionIssued
  <2>5. CodesSound' /\ HandlersSound'
    BY <1>2, <1>4, <2>1, <2>2, CodesKept, HandlersKept DEF IInv, TypeOK, IsReset
  <2>. QED BY <1>2, <1>4, <2>1, <2>2, <2>4, <2>5 DEF IInv, TypeOK
<1>6. CASE ~ pending[s].verified
  <2>1. SetVerificationCode(e, user) /\ UNCHANGED sessions
    BY <1>2, <1>6
  <2>2. /\ users' \in [Emails -> User \cup {None}]
        /\ Grows
        /\ issued' \in 0..MaxCodes /\ issued' >= issued
        /\ live' \in SUBSET Codes
        /\ mistakes' \in [Codes -> 0..MaxMistakes]
    BY <1>1, <1>3, <2>1, SetVerificationCodeStep DEF IInv
  <2>3. CodesSound' /\ HandlersSound'
    BY <1>2, <1>4, <2>2, CodesKept, HandlersKept DEF IsReset
  <2>4. VerifiedSessions' /\ sessions' \in SUBSET Session
    BY <2>1, <2>2, SessionsKept
  <2>. QED BY <1>2, <1>4, <2>2, <2>3, <2>4 DEF IInv, TypeOK
<1>. QED BY <1>5, <1>6

(* steps that change an account and nothing else *)
AccountOnly(e, user) ==
    /\ Exists(e)
    /\ users' = [users EXCEPT ![e] = user]
    /\ user.hash = users[e].hash
    /\ user.verified = users[e].verified
    /\ user.ver \in {users[e].ver, users[e].ver + 1}
    /\ UNCHANGED <<resets, issued, live, mistakes, cooling, pending, sessions, written>>

LEMMA AccountSteps ==
    ASSUME IInv,
           \/ \E t \in sessions : Logout(t)
           \/ \E e \in Emails : RevokeSessions(e) \/ Disable(e) \/ Enable(e) \/ Unlock(e)
    PROVE  \E e \in Emails, user \in User : AccountOnly(e, user)
<1>1. ASSUME NEW e \in Emails, Exists(e), users' = Revoked(e),
             UNCHANGED <<resets, issued, live, mistakes, cooling, pending, sessions, written>>
      PROVE  \E user \in User : AccountOnly(e, user)
  <2>. DEFINE user == [users[e] EXCEPT !.ver = @ + 1]
  <2>1. users[e] \in User /\ users' = [users EXCEPT ![e] = user]
    BY <1>1 DEF Revoked, Exists, IInv, TypeOK
  <2>2. user \in User /\ user.hash = users[e].hash /\ user.verified = users[e].verified
        /\ user.ver = users[e].ver + 1
    BY <2>1 DEF User
  <2>. HIDE DEF user
  <2>. QED BY <1>1, <2>1, <2>2 DEF AccountOnly
<1>2. ASSUME NEW e \in Emails, Disable(e)
      PROVE  \E user \in User : AccountOnly(e, user)
  <2>. DEFINE revoked == [users[e] EXCEPT !.ver = @ + 1]
              user == [revoked EXCEPT !.disabled = TRUE]
  <2>1. users[e] \in User /\ users' = [users EXCEPT ![e] = user]
    BY <1>2 DEF Disable, Revoked, Exists, IInv, TypeOK
  <2>2. /\ revoked \in User /\ revoked.hash = users[e].hash
        /\ revoked.verified = users[e].verified /\ revoked.ver = users[e].ver + 1
    BY <2>1 DEF User
  <2>. HIDE DEF revoked
  <2>3. /\ user \in User /\ user.hash = revoked.hash
        /\ user.verified = revoked.verified /\ user.ver = revoked.ver
    BY <2>2 DEF User
  <2>. HIDE DEF user
  <2>. QED BY <1>2, <2>1, <2>2, <2>3 DEF AccountOnly, Disable
<1>3. ASSUME NEW e \in Emails, Enable(e) \/ Unlock(e)
      PROVE  \E user \in User : AccountOnly(e, user)
  <2>1. users[e] \in User
    BY <1>3 DEF Enable, Unlock, Exists, IInv, TypeOK
  <2>2. \E user \in User :
           /\ user \in {[users[e] EXCEPT !.disabled = FALSE], [users[e] EXCEPT !.locked = FALSE]}
           /\ users' = [users EXCEPT ![e] = user]
    BY <1>3, <2>1 DEF Enable, Unlock, User, IInv, TypeOK
  <2>3. \A user \in {[users[e] EXCEPT !.disabled = FALSE],
                     [users[e] EXCEPT !.locked = FALSE]} :
           user.hash = users[e].hash /\ user.verified = users[e].verified
           /\ user.ver = users[e].ver
    BY <2>1 DEF User
  <2>. QED BY <1>3, <2>2, <2>3 DEF AccountOnly, Enable, Unlock
<1>4. \A t \in sessions : t.user \in Emails /\ Exists(t.user)
  BY DEF IInv, TypeOK, VerifiedSessions, Session
<1>. QED BY <1>1, <1>2, <1>3, <1>4 DEF Logout, RevokeSessions

LEMMA AccountOnlyStep ==
    ASSUME IInv, NEW e \in Emails, NEW user \in User, AccountOnly(e, user)
    PROVE  IInv'
<1>1. users' \in [Emails -> User \cup {None}] /\ Grows
  BY OneUser DEF AccountOnly, IInv
<1>2. CodesSound' /\ HandlersSound'
  BY <1>1, CodesKept, HandlersKept DEF AccountOnly, IInv, TypeOK
<1>3. VerifiedSessions' /\ sessions' \in SUBSET Session
  BY <1>1, SessionsKept DEF AccountOnly
<1>. QED BY <1>1, <1>2, <1>3 DEF AccountOnly, IInv, TypeOK
-----------------------------------------------------------------------------
(* Resetting a password *)

LEMMA MarkedReset ==
    ASSUME NEW reset \in Reset
    PROVE  /\ reset # None
           /\ [reset EXCEPT !.used = TRUE] \in Reset
           /\ [reset EXCEPT !.used = TRUE].user = reset.user
           /\ [reset EXCEPT !.used = TRUE].used
BY AccountsAssumption DEF Reset

LEMMA ForgotPasswordStep ==
    ASSUME IInv, NEW h \in Hosts, NEW e \in Emails, ForgotPassword(h, e)
    PROVE  IInv'
<1>. DEFINE c == issued + 1
            reset == [user |-> e, used |-> FALSE]
<1>1. /\ DrawCode
      /\ resets' = [resets EXCEPT ![c] = reset]
      /\ cooling' \in SUBSET (Emails \cup Hosts)
      /\ UNCHANGED <<users, mistakes, pending, sessions, written>>
  BY DEF ForgotPassword, IInv, TypeOK
<1>2. c \in Codes /\ issued' = c /\ issued' \in 0..MaxCodes /\ live' \in SUBSET Codes
  BY <1>1, DrawCodeType DEF IInv
<1>3. reset \in Reset /\ reset # None /\ ~ reset.used /\ reset.user = e /\ Exists(e)
  <2>1. reset \in Reset
    BY DEF Reset
  <2>2. ~ reset.used /\ reset.user = e
    OBVIOUS
  <2>. QED BY <2>1, <2>2, AccountsAssumption DEF ForgotPassword
<1>4. resets[c] = None /\ c > issued
  BY <1>2 DEF IInv, TypeOK, CodesSound
<1>5. \A d \in Codes : d > c => d > issued
  BY DEF IInv, TypeOK, Codes
<1>. HIDE DEF c, reset
<1>6. resets' \in [Codes -> Reset \cup {None}]
  BY <1>1, <1>2, <1>3 DEF IInv, TypeOK
<1>7. \A d \in Codes : resets'[d] = IF d = c THEN reset ELSE resets[d]
  BY <1>1, <1>2 DEF IInv, TypeOK
<1>8. \A d \in Codes : (resets'[d] = None \/ ~ resets'[d].used) => written'[d] = 0
  BY <1>1, <1>4, <1>7 DEF IInv, CodesSound
<1>9. \A d \in Codes : d > issued' => resets'[d] = None
  <2>1. \A d \in Codes : d > c => d # c
    BY <1>2 DEF Codes
  <2>. QED BY <2>1, <1>2, <1>5, <1>7 DEF IInv, CodesSound
<1>10. \A s \in Slots : IsReset(s) => pending[s].code \in Codes /\ pending[s].code # c
  <2>1. \A s \in Slots : IsReset(s) =>
           pending[s].code \in Codes /\ resets[pending[s].code] # None
    BY DEF IInv, TypeOK, CodesSound, IsReset, IsCodeOf, Handler, Signup, Login, Change
  <2>. QED BY <2>1, <1>4
<1>11. CodesSound'
  BY <1>1, <1>3, <1>7, <1>8, <1>9, <1>10
     DEF IInv, CodesSound, IsReset, IsCodeOf, Exists
<1>12. HandlersSound' /\ VerifiedSessions'
  BY <1>1 DEF IInv, HandlersSound, VerifiedSessions, Exists
<1>. QED BY <1>1, <1>2, <1>6, <1>11, <1>12 DEF IInv, TypeOK

(* An unused code of e is marked: no code is drawn or written meanwhile. *)
LEMMA CodeMarked ==
    ASSUME IInv, NEW e \in Emails, NEW c \in Codes, IsActive(c, e),
           resets' = [resets EXCEPT ![c].used = TRUE], UNCHANGED <<issued, written>>
    PROVE  /\ resets' \in [Codes -> Reset \cup {None}]
           /\ resets'[c] # None /\ resets'[c].user = e /\ resets'[c].used
           /\ \A d \in Codes : d # c => resets'[d] = resets[d]
           /\ \A d \in Codes : resets'[d] = None \/ ~ resets'[d].used => written'[d] = 0
           /\ \A d \in Codes : d > issued' => resets'[d] = None
           /\ Exists(e)
           /\ \A d \in Codes : resets'[d] # None => Exists(resets'[d].user)
           /\ written[c] = 0
           /\ \A s \in Slots : IsReset(s) => pending[s].code \in Codes \ {c}
<1>. DEFINE marked == [resets[c] EXCEPT !.used = TRUE]
<1>1. resets[c] # None /\ resets[c] \in Reset /\ resets[c].user = e /\ ~ resets[c].used
  BY DEF IsActive, Unused, IsCodeOf, IInv, TypeOK
<1>2. marked \in Reset /\ marked # None /\ marked.user = e /\ marked.used
  BY <1>1, MarkedReset
<1>3. resets' = [resets EXCEPT ![c] = marked]
  BY DEF IInv, TypeOK
<1>. HIDE DEF marked
<1>4. resets' \in [Codes -> Reset \cup {None}]
      /\ \A d \in Codes : resets'[d] = IF d = c THEN marked ELSE resets[d]
  BY <1>2, <1>3 DEF IInv, TypeOK
<1>5. written[c] = 0 /\ Exists(e)
  BY <1>1 DEF IInv, CodesSound
<1>6. \A s \in Slots : IsReset(s) => pending[s].code \in Codes \ {c}
  <2>1. \A s \in Slots : IsReset(s) =>
           pending[s].code \in Codes /\ resets[pending[s].code].used
    BY DEF IInv, TypeOK, CodesSound, IsReset, Handler, Signup, Login, Change
  <2>. QED BY <2>1, <1>1
<1>7. \A d \in Codes : resets'[d] = None \/ ~ resets'[d].used => written'[d] = 0
  BY <1>4, <1>5 DEF IInv, CodesSound
<1>8. \A d \in Codes : d > issued' => resets'[d] = None
  BY <1>1, <1>4 DEF IInv, CodesSound
<1>9. \A d \in Codes : resets'[d] # None => Exists(resets'[d].user)
  BY <1>2, <1>4, <1>5 DEF IInv, CodesSound
<1>. QED BY <1>2, <1>4, <1>5, <1>6, <1>7, <1>8, <1>9

LEMMA ResetWronglyStep ==
    ASSUME IInv, NEW e \in Emails, NEW c \in Codes, ResetWrongly(e, c)
    PROVE  IInv'
<1>1. UNCHANGED <<users, issued, live, cooling, pending, sessions, written>>
  BY DEF ResetWrongly
<1>2. HandlersSound' /\ VerifiedSessions'
  BY <1>1 DEF IInv, HandlersSound, VerifiedSessions, Exists
<1>3. CASE mistakes[c] < MaxMistakes
  <2>1. UNCHANGED resets /\ mistakes' = [mistakes EXCEPT ![c] = @ + 1]
    BY <1>3 DEF ResetWrongly
  <2>2. mistakes[c] + 1 \in 0..MaxMistakes
    BY <1>3, AccountsAssumption DEF IInv, TypeOK
  <2>3. CodesSound'
    BY <1>1, <2>1, CodesKept, UnchangedUsers DEF IInv, TypeOK
  <2>. QED BY <1>1, <1>2, <2>1, <2>2, <2>3 DEF IInv, TypeOK
<1>4. CASE ~ (mistakes[c] < MaxMistakes)
  <2>1. /\ mistakes' = Cleared(c) /\ resets' = [resets EXCEPT ![c].used = TRUE]
        /\ IsActive(c, e)
    BY <1>4 DEF ResetWrongly
  <2>2. mistakes' \in [Codes -> 0..MaxMistakes]
    BY <2>1, ClearedType DEF IInv
  <2>3. /\ resets' \in [Codes -> Reset \cup {None}]
        /\ resets'[c] # None /\ resets'[c].user = e /\ resets'[c].used
        /\ \A d \in Codes : d # c => resets'[d] = resets[d]
        /\ \A d \in Codes : resets'[d] = None \/ ~ resets'[d].used => written'[d] = 0
        /\ \A d \in Codes : d > issued' => resets'[d] = None
        /\ Exists(e)
        /\ \A d \in Codes : resets'[d] # None => Exists(resets'[d].user)
        /\ written[c] = 0
        /\ \A s \in Slots : IsReset(s) => pending[s].code \in Codes \ {c}
    BY <1>1, <2>1, CodeMarked
  <2>4. CodesSound'
    BY <1>1, <2>3 DEF IInv, TypeOK, CodesSound, IsReset, IsCodeOf, Exists
  <2>. QED BY <1>1, <1>2, <2>2, <2>3, <2>4 DEF IInv, TypeOK
<1>. QED BY <1>3, <1>4

(* the revocation: nothing else of the account changes *)
LEMMA RevokedUser ==
    ASSUME IInv, NEW e \in Emails, Exists(e), users' = Revoked(e)
    PROVE  \E user \in User :
              /\ users' = [users EXCEPT ![e] = user]
              /\ user.hash = users[e].hash
              /\ user.verified = users[e].verified
              /\ user.ver = users[e].ver + 1
<1>. DEFINE user == [users[e] EXCEPT !.ver = @ + 1]
<1>1. users[e] \in User /\ users' = [users EXCEPT ![e] = user]
  BY DEF Revoked, Exists, IInv, TypeOK
<1>2. user \in User /\ user.hash = users[e].hash /\ user.verified = users[e].verified
      /\ user.ver = users[e].ver + 1
  BY <1>1 DEF User
<1>. HIDE DEF user
<1>. QED BY <1>1, <1>2

LEMMA BeginResetStep ==
    ASSUME IInv, NEW s \in Slots, NEW e \in Emails, NEW c \in Codes, NEW p \in Passwords,
           BeginReset(s, e, c, p)
    PROVE  IInv'
<1>. DEFINE handler == [kind |-> "reset", email |-> e, hash |-> p, code |-> c]
<1>1. /\ IsActive(c, e)
      /\ mistakes' = Cleared(c)
      /\ resets' = [resets EXCEPT ![c].used = TRUE]
      /\ users' = Revoked(e)
      /\ Await(s, handler)
      /\ UNCHANGED <<issued, live, cooling, sessions, written>>
  BY DEF BeginReset
<1>2. /\ resets' \in [Codes -> Reset \cup {None}]
      /\ resets'[c] # None /\ resets'[c].user = e /\ resets'[c].used
      /\ \A d \in Codes : d # c => resets'[d] = resets[d]
      /\ \A d \in Codes : resets'[d] = None \/ ~ resets'[d].used => written'[d] = 0
      /\ \A d \in Codes : d > issued' => resets'[d] = None
      /\ Exists(e)
      /\ \A d \in Codes : resets'[d] # None => Exists(resets'[d].user)
      /\ written[c] = 0
      /\ \A r \in Slots : IsReset(r) => pending[r].code \in Codes \ {c}
  BY <1>1, CodeMarked
<1>3. PICK user \in User : /\ users' = [users EXCEPT ![e] = user]
                           /\ user.verified = users[e].verified
  BY <1>1, <1>2, RevokedUser
<1>4. users' \in [Emails -> User \cup {None}] /\ Grows
  BY <1>3, OneUser DEF IInv
<1>5. mistakes' \in [Codes -> 0..MaxMistakes]
  BY <1>1, ClearedType DEF IInv
<1>6. \A d \in Codes : resets'[d] # None => users'[resets'[d].user] # None
  BY <1>2, <1>4 DEF Grows, TypeOK, Reset
<1>7. /\ handler \in Handler /\ handler.kind = "reset"
      /\ handler.email = e /\ handler.code = c
  BY DEF Handler, Change
<1>. HIDE DEF handler
<1>8. /\ pending' \in [Slots -> Handler \cup {None}]
      /\ pending[s] = None /\ pending'[s] = handler
      /\ \A r \in Slots : r # s => pending'[r] = pending[r]
  BY <1>1, <1>7, AwaitType DEF IInv
<1>9. CodesSound'
  <2>1. \A r \in Slots : IsReset(r)' =>
           IF r = s THEN pending'[r].code = c /\ pending'[r].email = e
           ELSE IsReset(r) /\ pending'[r] = pending[r] /\ pending[r].code \in Codes \ {c}
    BY <1>2, <1>7, <1>8 DEF IsReset
  <2>2. ASSUME NEW r \in Slots, IsReset(r)'
        PROVE  /\ IsCodeOf(pending[r].code, pending[r].email)'
               /\ resets'[pending'[r].code].used
               /\ written'[pending'[r].code] = 0
    <3>1. CASE r = s
      BY <2>1, <2>2, <3>1, <1>1, <1>2 DEF IsCodeOf
    <3>2. CASE r # s
      BY <2>1, <2>2, <3>2, <1>1, <1>2 DEF IInv, CodesSound, IsCodeOf
    <3>. QED BY <3>1, <3>2
  <2>3. ASSUME NEW r \in Slots, NEW q \in Slots, IsReset(r)', IsReset(q)',
               pending'[r].code = pending'[q].code
        PROVE  r = q
    <3>1. CASE r = s \/ q = s
      BY <2>1, <2>3, <3>1
    <3>2. CASE r # s /\ q # s
      BY <2>1, <2>3, <3>2 DEF IInv, CodesSound
    <3>. QED BY <3>1, <3>2
  <2>. QED BY <1>2, <1>6, <2>2, <2>3 DEF CodesSound, Exists
<1>10. HandlersSound'
  <2>1. \A r \in Slots : pending[r] # None => pending[r].email \in Emails
    BY DEF IInv, TypeOK, Handler, Signup, Login, Change
  <2>. QED BY <1>2, <1>4, <1>7, <1>8, <2>1 DEF IInv, HandlersSound, Grows, Exists
<1>11. VerifiedSessions' /\ sessions' \in SUBSET Session
  BY <1>1, <1>4, SessionsKept
<1>. QED BY <1>1, <1>2, <1>4, <1>5, <1>8, <1>9, <1>10, <1>11 DEF IInv, TypeOK

LEMMA WaitingReset ==
    ASSUME IInv, NEW s \in Slots, Waiting(s, "reset")
    PROVE  /\ IsReset(s)
           /\ pending[s] \in Change
           /\ users[pending[s].email] \in User
           /\ IsCodeOf(pending[s].code, pending[s].email)
           /\ resets[pending[s].code].used
           /\ written[pending[s].code] = 0
BY DEF Waiting, IsReset, IInv, TypeOK, HandlersSound, CodesSound, Exists,
       Handler, Signup, Login, Change

(* what the end of a reset writes *)
LEMMA EndResetWrites ==
    ASSUME IInv, NEW s \in Slots, EndReset(s)
    PROVE  \E e \in Emails, user \in User, c \in Codes :
              /\ e = pending[s].email /\ c = pending[s].code
              /\ users' = [users EXCEPT ![e] = user]
              /\ Exists(e) /\ user.verified = users[e].verified /\ user.ver = users[e].ver
              /\ IsCodeOf(c, e) /\ resets[c].used
              /\ written[c] = 0
              /\ written' = [written EXCEPT ![c] = 1]
<1>. DEFINE e == pending[s].email
            c == pending[s].code
            user == [users[e] EXCEPT !.hash = pending[s].hash]
<1>1. /\ pending[s] \in Change /\ users[e] \in User /\ IsCodeOf(c, e)
      /\ resets[c].used /\ written[c] = 0
  BY WaitingReset DEF EndReset
<1>2. e \in Emails /\ c \in Codes /\ pending[s].hash \in Passwords
  BY <1>1 DEF Change
<1>3. /\ users' = [users EXCEPT ![e] = user]
      /\ written' = [written EXCEPT ![c] = 1]
  BY <1>1, <1>2 DEF EndReset, IInv, TypeOK
<1>4. user \in User /\ user.verified = users[e].verified /\ user.ver = users[e].ver
  BY <1>1, <1>2 DEF User
<1>5. Exists(e)
  BY <1>1, UserIsNotNone DEF Exists
<1>. HIDE DEF user
<1>. QED BY <1>1, <1>2, <1>3, <1>4, <1>5

LEMMA EndResetStep ==
    ASSUME IInv, NEW s \in Slots, EndReset(s)
    PROVE  IInv'
<1>1. PICK e \in Emails, user \in User, c \in Codes :
         /\ e = pending[s].email /\ c = pending[s].code
         /\ users' = [users EXCEPT ![e] = user]
         /\ Exists(e) /\ user.verified = users[e].verified
         /\ IsCodeOf(c, e) /\ resets[c].used
         /\ written' = [written EXCEPT ![c] = 1]
  BY EndResetWrites
<1>2. /\ Waiting(s, "reset") /\ Finish(s)
      /\ UNCHANGED <<resets, issued, live, mistakes, cooling, sessions>>
  BY DEF EndReset
<1>3. users' \in [Emails -> User \cup {None}] /\ Grows
  BY <1>1, OneUser DEF IInv
<1>4. /\ pending' \in [Slots -> Handler \cup {None}]
      /\ \A r \in Slots : pending'[r] = None \/ pending'[r] = pending[r]
      /\ pending'[s] = None
  BY <1>2, FinishType DEF IInv, TypeOK, Finish
<1>5. written' \in [Codes -> Nat]
      /\ \A d \in Codes : d # c => written'[d] = written[d]
  BY <1>1 DEF IInv, TypeOK
<1>6. IsReset(s)
  BY <1>2, WaitingReset
<1>7. \A r \in Slots : IsReset(r)' =>
         /\ IsReset(r) /\ pending'[r] = pending[r]
         /\ pending[r].code \in Codes \ {c}
  <2>1. \A r \in Slots : IsReset(r)' => r # s /\ IsReset(r) /\ pending'[r] = pending[r]
    BY <1>4 DEF IsReset
  <2>2. \A r \in Slots : IsReset(r) => pending[r].code \in Codes
    BY DEF IsReset, IInv, TypeOK, Handler, Signup, Login, Change
  <2>. QED BY <1>1, <1>6, <2>1, <2>2 DEF IInv, CodesSound
<1>8. \A d \in Codes : resets[d] = None \/ ~ resets[d].used => d # c
  BY <1>1 DEF IsCodeOf
<1>9. \A d \in Codes : resets[d] # None => resets[d].user \in Emails
  BY DEF IInv, TypeOK, Reset
<1>10. CodesSound'
  BY <1>2, <1>3, <1>5, <1>7, <1>8, <1>9 DEF IInv, CodesSound, IsCodeOf, Grows, Exists
<1>11. HandlersSound'
  BY <1>3, <1>4, HandlersKept
<1>12. VerifiedSessions' /\ sessions' \in SUBSET Session
  BY <1>2, <1>3, SessionsKept
<1>. QED BY <1>2, <1>3, <1>4, <1>5, <1>10, <1>11, <1>12 DEF IInv, TypeOK

-----------------------------------------------------------------------------
(* Time and restarts *)

LEMMA TimeSteps ==
    ASSUME IInv,
           \/ \E c \in Codes : ExpireCode(c)
           \/ \E t \in sessions : ExpireSession(t)
           \/ \E k \in cooling : CoolDown(k)
           \/ Restart
    PROVE  IInv'
<1>1. /\ UNCHANGED <<users, resets, issued, written>>
      /\ sessions' \subseteq sessions
      /\ \A s \in Slots : pending'[s] = None \/ pending'[s] = pending[s]
      /\ pending' \in [Slots -> Handler \cup {None}]
  BY DEF ExpireCode, ExpireSession, CoolDown, Restart, IInv, TypeOK
<1>2. /\ live' \in SUBSET Codes
      /\ cooling' \in SUBSET (Emails \cup Hosts)
      /\ mistakes' \in [Codes -> 0..MaxMistakes]
  BY AccountsAssumption DEF ExpireCode, ExpireSession, CoolDown, Restart, IInv, TypeOK
<1>3. CodesSound' /\ HandlersSound'
  BY <1>1, UnchangedUsers, CodesKept, HandlersKept DEF IInv, TypeOK, IsReset
<1>4. VerifiedSessions' /\ sessions' \in SUBSET Session
  BY <1>1, UnchangedUsers, SessionsKept
<1>. QED BY <1>1, <1>2, <1>3, <1>4 DEF IInv, TypeOK

-----------------------------------------------------------------------------
(* The invariant *)

LEMMA InitIInv == Init => IInv
<1>. SUFFICES ASSUME Init PROVE IInv
  OBVIOUS
<1>1. TypeOK
  BY AccountsAssumption DEF Init, TypeOK, Codes
<1>2. HandlersSound /\ VerifiedSessions
  BY DEF Init, HandlersSound, VerifiedSessions
<1>3. CodesSound
  BY DEF Init, CodesSound, IsReset
<1>. QED BY <1>1, <1>2, <1>3 DEF IInv

LEMMA NextIInv == IInv /\ [Next]_vars => IInv'
<1>. SUFFICES ASSUME IInv, [Next]_vars PROVE IInv'
  OBVIOUS
<1>1. CASE UNCHANGED vars
  BY <1>1 DEF vars, IInv, TypeOK, HandlersSound, CodesSound, VerifiedSessions, Exists,
              IsReset, IsCodeOf
<1>2. ASSUME NEW s \in Slots, NEW e \in Emails, NEW p \in Passwords,
             \/ BeginSignup(s, e, p) \/ BeginLogin(s, e, p)
             \/ \E c \in Codes : BeginReset(s, e, c, p)
      PROVE  IInv'
  BY <1>2, BeginSignupStep, BeginLoginStep, BeginResetStep
<1>3. ASSUME NEW s \in Slots,
             EndSignup(s) \/ FailLogin(s) \/ EndLogin(s) \/ EndReset(s)
      PROVE  IInv'
  BY <1>3, EndSignupStep, FailLoginStep, EndLoginStep, EndResetStep
<1>4. ASSUME NEW e \in Emails,
             \/ ResendCode(e) \/ Verify(e) \/ VerifyWrongly(e) \/ OAuthLogin(e)
             \/ \E h \in Hosts : ForgotPassword(h, e)
             \/ \E c \in Codes : ResetWrongly(e, c)
      PROVE  IInv'
  BY <1>4, ResendCodeStep, VerifyStep, VerifyWronglyStep, OAuthLoginStep,
     ForgotPasswordStep, ResetWronglyStep
<1>5. ASSUME \/ \E t \in sessions : Logout(t)
             \/ \E e \in Emails :
                   RevokeSessions(e) \/ Disable(e) \/ Enable(e) \/ Unlock(e)
      PROVE  IInv'
  BY <1>5, AccountSteps, AccountOnlyStep
<1>. QED BY <1>1, <1>2, <1>3, <1>4, <1>5, TimeSteps DEF Next

LEMMA Invariance == Spec => []IInv
BY InitIInv, NextIInv, PTL DEF Spec
-----------------------------------------------------------------------------
(* Passwords and versions *)

(* users.token_version, as SessionVersions sees it *)
Ver == [e \in Emails |-> IF Exists(e) THEN users[e].ver ELSE 0]

(* an account is created, or changed without its password and its version *)
Keeps ==
    \E e \in Emails, user \in User :
        /\ users' = [users EXCEPT ![e] = user]
        /\ IF Exists(e) THEN user.hash = users[e].hash /\ user.ver = users[e].ver
                        ELSE user.ver = 0

LEMMA VerOfOne ==
    ASSUME IInv, NEW e \in Emails, NEW user \in User, users' = [users EXCEPT ![e] = user]
    PROVE  Ver' = [Ver EXCEPT ![e] = user.ver] /\ Ver'[e] = user.ver
BY UserIsNotNone DEF IInv, TypeOK, Ver, Exists

LEMMA KeepsBoth ==
    ASSUME IInv, Keeps
    PROVE  /\ Ver' = Ver
           /\ \A e \in Emails : Exists(e) => users'[e].hash = users[e].hash
<1>1. PICK e \in Emails, user \in User :
         /\ users' = [users EXCEPT ![e] = user]
         /\ IF Exists(e) THEN user.hash = users[e].hash /\ user.ver = users[e].ver
                         ELSE user.ver = 0
  BY DEF Keeps
<1>2. Ver' = [Ver EXCEPT ![e] = user.ver]
  BY <1>1, VerOfOne
<1>3. user.ver = Ver[e]
  BY <1>1 DEF Ver
<1>4. Ver' = Ver
  BY <1>2, <1>3 DEF Ver
<1>5. \A d \in Emails : Exists(d) => users'[d].hash = users[d].hash
  BY <1>1 DEF IInv, TypeOK
<1>. QED BY <1>4, <1>5

LEMMA CodeKeeps ==
    ASSUME IInv, NEW e \in Emails, NEW user \in User, SetVerificationCode(e, user),
           IF Exists(e) THEN user.hash = users[e].hash /\ user.ver = users[e].ver
                        ELSE user.ver = 0
    PROVE  Keeps
<1>. DEFINE coded == [user EXCEPT !.code = issued + 1]
<1>1. users' = [users EXCEPT ![e] = coded] /\ issued + 1 \in Codes
  BY DrawCodeType DEF SetVerificationCode, IInv
<1>2. coded \in User /\ coded.hash = user.hash /\ coded.ver = user.ver
  BY <1>1, OtherCode
<1>. HIDE DEF coded
<1>. QED BY <1>1, <1>2 DEF Keeps

(* the steps that issue a session, of the version the account has *)
LEMMA IssueSteps ==
    ASSUME IInv,
           \/ \E e \in Emails : Verify(e) \/ OAuthLogin(e)
           \/ \E s \in Slots : EndLogin(s) /\ pending[s].verified
    PROVE  Keeps /\ \E e \in Emails : sessions' = sessions \cup {[user |-> e, ver |-> Ver[e]]}
<1>1. ASSUME NEW e \in Emails, Verify(e)
      PROVE  \E user \in User :
                /\ users' = [users EXCEPT ![e] = user] /\ IssueSession(e, user)
                /\ Exists(e) /\ user.hash = users[e].hash /\ user.ver = users[e].ver
  <2>. DEFINE verified == [users[e] EXCEPT !.verified = TRUE]
              user == [verified EXCEPT !.code = None]
  <2>1. users[e] \in User
    BY <1>1 DEF Verify, Exists, IInv, TypeOK
  <2>2. verified \in User /\ verified.hash = users[e].hash /\ verified.ver = users[e].ver
    BY <2>1 DEF User
  <2>3. /\ Exists(e) /\ IssueSession(e, users[e])
        /\ users' = [users EXCEPT ![e] = user]
    BY <1>1, <2>1 DEF Verify, IInv, TypeOK
  <2>. HIDE DEF verified
  <2>4. user \in User /\ user.hash = verified.hash /\ user.ver = verified.ver
    BY <2>2, OtherCode
  <2>. HIDE DEF user
  <2>. QED BY <2>2, <2>3, <2>4 DEF IssueSession
<1>2. ASSUME NEW e \in Emails, OAuthLogin(e)
      PROVE  \E user \in User :
                /\ users' = [users EXCEPT ![e] = user] /\ IssueSession(e, user)
                /\ IF Exists(e) THEN user.hash = users[e].hash /\ user.ver = users[e].ver
                                ELSE user.ver = 0
  <2>. DEFINE user == IF Exists(e) THEN [users[e] EXCEPT !.verified = TRUE]
                                   ELSE NewUser(None, TRUE)
  <2>1. Exists(e) => users[e] \in User
    BY DEF Exists, IInv, TypeOK
  <2>2. user \in User
        /\ IF Exists(e) THEN user.hash = users[e].hash /\ user.ver = users[e].ver
                        ELSE user.ver = 0
    BY <2>1 DEF User, NewUser
  <2>3. users' = [users EXCEPT ![e] = user] /\ IssueSession(e, user)
    BY <1>2 DEF OAuthLogin
  <2>. HIDE DEF user
  <2>. QED BY <2>2, <2>3
<1>3. ASSUME NEW s \in Slots, EndLogin(s), pending[s].verified
      PROVE  \E e \in Emails, user \in User :
                /\ users' = [users EXCEPT ![e] = user] /\ IssueSession(e, user)
                /\ Exists(e) /\ user.hash = users[e].hash /\ user.ver = users[e].ver
  <2>. DEFINE e == pending[s].email
              user == Unlocked(users[e])
  <2>1. e \in Emails /\ users[e] \in User
    BY <1>3, WaitingLogin DEF EndLogin
  <2>2. /\ user \in User /\ user.hash = users[e].hash /\ user.ver = users[e].ver
        /\ Exists(e)
    BY <2>1, UnlockedUser, UserIsNotNone DEF Exists
  <2>3. users' = [users EXCEPT ![e] = user] /\ IssueSession(e, user)
    BY <1>3 DEF EndLogin, Unlocked
  <2>. HIDE DEF user, e
  <2>. QED BY <2>1, <2>2, <2>3
<1>4. PICK e \in Emails, user \in User :
         /\ users' = [users EXCEPT ![e] = user] /\ IssueSession(e, user)
         /\ IF Exists(e) THEN user.hash = users[e].hash /\ user.ver = users[e].ver
                         ELSE user.ver = 0
  BY <1>1, <1>2, <1>3
<1>5. Keeps
  BY <1>4 DEF Keeps
<1>6. user.ver = Ver[e]
  BY <1>4 DEF Ver
<1>. QED BY <1>4, <1>5, <1>6 DEF IssueSession

(* the other steps that write an account and leave its version and password *)
LEMMA KeepingSteps ==
    ASSUME IInv,
           \/ \E s \in Slots : EndSignup(s) \/ FailLogin(s)
                               \/ (EndLogin(s) /\ ~ pending[s].verified)
           \/ \E e \in Emails : ResendCode(e) \/ VerifyWrongly(e)
    PROVE  (Keeps \/ UNCHANGED users) /\ UNCHANGED sessions
<1>1. ASSUME NEW s \in Slots, EndSignup(s)
      PROVE  Keeps \/ UNCHANGED users
  <2>. DEFINE user == NewUser(pending[s].hash, FALSE)
  <2>1. pending[s] \in Signup
    BY <1>1 DEF EndSignup, Waiting, IInv, TypeOK, Handler, Login, Change
  <2>2. pending[s].email \in Emails /\ user \in User /\ user.ver = 0
    BY <2>1 DEF Signup, NewUser, User
  <2>3. IF Exists(pending[s].email) THEN UNCHANGED users
        ELSE SetVerificationCode(pending[s].email, user)
    BY <1>1 DEF EndSignup
  <2>. HIDE DEF user
  <2>. QED BY <2>2, <2>3, CodeKeeps
<1>2. ASSUME NEW s \in Slots, FailLogin(s)
      PROVE  Keeps
  <2>. DEFINE e == pending[s].email
              failed == pending[s].failed + 1
              locked == users[e].locked \/ failed >= MaxFailed
              counted == [users[e] EXCEPT !.failed = failed]
              user == [counted EXCEPT !.locked = locked]
  <2>1. pending[s] \in Login /\ e \in Emails /\ users[e] \in User
    BY <1>2, WaitingLogin DEF FailLogin
  <2>2. failed \in Nat /\ locked \in BOOLEAN
    BY <2>1 DEF Login
  <2>3. users' = [users EXCEPT ![e] = user]
    BY <1>2, <2>1 DEF FailLogin, IInv, TypeOK
  <2>. HIDE DEF failed, locked
  <2>4. counted \in User /\ counted.hash = users[e].hash /\ counted.ver = users[e].ver
    BY <2>1, <2>2 DEF User
  <2>. HIDE DEF counted
  <2>5. user \in User /\ user.hash = counted.hash /\ user.ver = counted.ver
    BY <2>2, <2>4 DEF User
  <2>6. Exists(e)
    BY <2>1, UserIsNotNone DEF Exists
  <2>. HIDE DEF user, e
  <2>. QED BY <2>1, <2>3, <2>4, <2>5, <2>6 DEF Keeps
<1>3. ASSUME NEW s \in Slots, EndLogin(s), ~ pending[s].verified
      PROVE  Keeps /\ UNCHANGED sessions
  <2>1. pending[s].email \in Emails /\ users[pending[s].email] \in User
    BY <1>3, WaitingLogin DEF EndLogin
  <2>2. SetVerificationCode(pending[s].email, Unlocked(users[pending[s].email]))
        /\ UNCHANGED sessions
    BY <1>3 DEF EndLogin, Unlocked
  <2>3. Exists(pending[s].email)
    BY <2>1, UserIsNotNone DEF Exists
  <2>. QED BY <2>1, <2>2, <2>3, UnlockedUser, CodeKeeps
<1>4. ASSUME NEW e \in Emails, ResendCode(e)
      PROVE  Keeps
  <2>1. users[e] \in User /\ Exists(e) /\ SetVerificationCode(e, users[e])
    BY <1>4 DEF ResendCode, Exists, IInv, TypeOK
  <2>. QED BY <2>1, CodeKeeps
<1>5. ASSUME NEW e \in Emails, VerifyWrongly(e)
      PROVE  Keeps \/ UNCHANGED users
  <2>1. users[e] \in User /\ Exists(e)
    BY <1>5 DEF VerifyWrongly, Exists, IInv, TypeOK
  <2>2. UNCHANGED users \/ users' = [users EXCEPT ![e] = [users[e] EXCEPT !.code = None]]
    BY <1>5 DEF VerifyWrongly, IInv, TypeOK
  <2>. QED BY <2>1, <2>2, OtherCode DEF Keeps
<1>. QED BY <1>1, <1>2, <1>3, <1>4, <1>5
     DEF EndSignup, FailLogin, ResendCode, VerifyWrongly

(* the steps that revoke sessions: the version of one account goes up by one *)
LEMMA RevokingSteps ==
    ASSUME IInv,
           \/ \E t \in sessions : Logout(t)
           \/ \E e \in Emails : RevokeSessions(e) \/ Disable(e) \/ Enable(e) \/ Unlock(e)
           \/ \E s \in Slots, e \in Emails, c \in Codes, p \in Passwords : BeginReset(s, e, c, p)
    PROVE  /\ UNCHANGED sessions
           /\ Ver' = Ver \/ \E e \in Emails : Ver' = [Ver EXCEPT ![e] = @ + 1]
           /\ \A e \in Emails : Exists(e) => users'[e].hash = users[e].hash
<1>. DEFINE Steps == \E e \in Emails, user \in User :
         /\ Exists(e) /\ users' = [users EXCEPT ![e] = user]
         /\ user.hash = users[e].hash
         /\ user.ver \in {users[e].ver, users[e].ver + 1}
<1>1. UNCHANGED sessions /\ Steps
  <2>1. ASSUME NEW s \in Slots, NEW e \in Emails, NEW c \in Codes, NEW p \in Passwords,
               BeginReset(s, e, c, p)
        PROVE  UNCHANGED sessions /\ Steps
    <3>1. IsActive(c, e) /\ users' = Revoked(e) /\ UNCHANGED <<issued, written, sessions>>
          /\ resets' = [resets EXCEPT ![c].used = TRUE]
      BY <2>1 DEF BeginReset
    <3>2. Exists(e)
      BY <3>1, CodeMarked
    <3>. QED BY <3>1, <3>2, RevokedUser
  <2>. QED BY <2>1, AccountSteps DEF AccountOnly
<1>2. PICK e \in Emails, user \in User :
         /\ Exists(e) /\ users' = [users EXCEPT ![e] = user]
         /\ user.hash = users[e].hash
         /\ user.ver \in {users[e].ver, users[e].ver + 1}
  BY <1>1
<1>3. Ver' = [Ver EXCEPT ![e] = user.ver] /\ Ver[e] = users[e].ver
  BY <1>2, VerOfOne DEF Ver
<1>4. user.ver = Ver[e] => Ver' = Ver
  BY <1>3 DEF Ver
<1>5. user.ver = Ver[e] + 1 => Ver' = [Ver EXCEPT ![e] = @ + 1]
  BY <1>3
<1>6. \A d \in Emails : Exists(d) => users'[d].hash = users[d].hash
  BY <1>2 DEF IInv, TypeOK
<1>. QED BY <1>1, <1>2, <1>3, <1>4, <1>5, <1>6

-----------------------------------------------------------------------------
(* The theorems *)

LEMMA InitVersions == Init => Versions!Init
BY DEF Init, Versions!Init, Exists

LEMMA NextVersions ==
    ASSUME IInv, [Next]_vars
    PROVE  Versions!Next \/ (Ver' = Ver /\ UNCHANGED sessions)
<1>1. CASE UNCHANGED vars
  BY <1>1 DEF vars, Ver, Exists
<1>2. CASE \/ \E e \in Emails : Verify(e) \/ OAuthLogin(e)
           \/ \E s \in Slots : EndLogin(s) /\ pending[s].verified
  <2>1. PICK e \in Emails : sessions' = sessions \cup {[user |-> e, ver |-> Ver[e]]}
    BY <1>2, IssueSteps
  <2>2. Ver' = Ver
    BY <1>2, IssueSteps, KeepsBoth
  <2>3. Versions!Issue(e)
    BY <2>1, <2>2 DEF Versions!Issue, Ver
  <2>. QED BY <2>3 DEF Versions!Next
<1>3. CASE \/ \E s \in Slots : EndSignup(s) \/ FailLogin(s)
                               \/ (EndLogin(s) /\ ~ pending[s].verified)
           \/ \E e \in Emails : ResendCode(e) \/ VerifyWrongly(e)
  <2>1. (Keeps \/ UNCHANGED users) /\ UNCHANGED sessions
    BY <1>3, KeepingSteps
  <2>. QED BY <2>1, KeepsBoth DEF Ver, Exists
<1>4. CASE \/ \E t \in sessions : Logout(t)
           \/ \E e \in Emails : RevokeSessions(e) \/ Disable(e) \/ Enable(e) \/ Unlock(e)
           \/ \E s \in Slots, e \in Emails, c \in Codes, p \in Passwords : BeginReset(s, e, c, p)
  <2>1. /\ UNCHANGED sessions
        /\ Ver' = Ver \/ \E e \in Emails : Ver' = [Ver EXCEPT ![e] = @ + 1]
    BY <1>4, RevokingSteps
  <2>2. ASSUME NEW e \in Emails, Ver' = [Ver EXCEPT ![e] = @ + 1]
        PROVE  Versions!Next
    BY <2>1, <2>2 DEF Versions!Revoke, Versions!Next, Ver
  <2>. QED BY <2>1, <2>2
<1>5. ASSUME NEW s \in Slots, EndReset(s)
      PROVE  Ver' = Ver /\ UNCHANGED sessions
  <2>1. PICK e \in Emails, user \in User :
           /\ users' = [users EXCEPT ![e] = user]
           /\ Exists(e) /\ user.ver = users[e].ver
    BY <1>5, EndResetWrites
  <2>2. Ver' = [Ver EXCEPT ![e] = Ver[e]]
    BY <2>1, VerOfOne DEF Ver
  <2>. QED BY <1>5, <2>2 DEF EndReset, Ver
<1>6. ASSUME NEW t \in sessions, ExpireSession(t)
      PROVE  Versions!Next
  BY <1>6 DEF ExpireSession, Versions!Expire, Versions!Next, Exists
<1>7. CASE \/ \E s \in Slots, e \in Emails, p \in Passwords :
                 BeginSignup(s, e, p) \/ BeginLogin(s, e, p)
           \/ \E e \in Emails, h \in Hosts : ForgotPassword(h, e)
           \/ \E e \in Emails, c \in Codes : ResetWrongly(e, c)
           \/ \E c \in Codes : ExpireCode(c)
           \/ \E k \in cooling : CoolDown(k)
           \/ Restart
  BY <1>7 DEF BeginSignup, BeginLogin, ForgotPassword, ResetWrongly, ExpireCode, CoolDown,
              Restart, Ver, Exists
<1>. QED BY <1>1, <1>2, <1>3, <1>4, <1>5, <1>6, <1>7 DEF Next

LEMMA NextPasswords ==
    ASSUME IInv, [Next]_vars, NEW e \in Emails, Exists(e), users'[e].hash # users[e].hash
    PROVE  \E c \in Codes : /\ IsCodeOf(c, e) /\ resets[c].used
                            /\ written[c] = 0
                            /\ written'[c] = 1
<1>1. PICK s \in Slots : EndReset(s)
  <2>1. ~ Keeps /\ ~ UNCHANGED users
    BY KeepsBoth
  <2>2. ~ UNCHANGED vars
    BY <2>1 DEF vars
  <2>. QED BY <2>1, <2>2, IssueSteps, KeepingSteps, RevokingSteps
           DEF Next, BeginSignup, BeginLogin, ForgotPassword, ResetWrongly, ExpireCode,
               ExpireSession, CoolDown, Restart
<1>2. PICK d \in Emails, user \in User, c \in Codes :
         /\ users' = [users EXCEPT ![d] = user]
         /\ IsCodeOf(c, d) /\ resets[c].used
         /\ written[c] = 0
         /\ written' = [written EXCEPT ![c] = 1]
  BY <1>1, EndResetWrites
<1>3. d = e
  BY <1>2 DEF IInv, TypeOK
<1>4. written'[c] = 1
  BY <1>2 DEF IInv, TypeOK
<1>. QED BY <1>2, <1>3, <1>4

(* Every variable keeps its type in every reachable state. *)
THEOREM TypeCorrect == Spec => []TypeOK
<1>. IInv => TypeOK
  BY DEF IInv
<1>. QED BY Invariance, PTL

(* Nobody holds a session for an address that nobody has confirmed, although *)
(* /login decides from a row read before it awaited scrypt.                  *)
THEOREM VerifiedSessionsHolds == Spec => []VerifiedSessions
<1>. IInv => VerifiedSessions
  BY DEF IInv
<1>. QED BY Invariance, PTL

(* The password of an account is written only with a reset code of its own   *)
(* that has not written one before (/reset-password).                        *)
THEOREM PasswordNeedsFreshCodeHolds == Spec => PasswordNeedsFreshCode
<1>. DEFINE Fresh == \A e \in Emails : Exists(e) /\ users'[e].hash # users[e].hash =>
                        \E c \in Codes : /\ IsCodeOf(c, e) /\ resets[c].used
                                         /\ written[c] = 0
                                         /\ written'[c] = 1
<1>1. IInv /\ [Next]_vars => [Fresh]_vars
  BY NextPasswords
<1>. QED BY <1>1, Invariance, PTL DEF Spec, PasswordNeedsFreshCode

(* The handlers of auth.ts and admin.ts implement SessionVersions: sessions  *)
(* are of the version of their day, and no revocation is taken back.         *)
THEOREM Implementation == Spec => ImplementsVersions
<1>1. IInv /\ [Next]_vars => [Versions!Next]_<<Ver, sessions>>
  BY NextVersions
<1>. QED BY <1>1, InitVersions, Invariance, PTL DEF Spec, ImplementsVersions, Versions!Spec, Ver
=============================================================================
