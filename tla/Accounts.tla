------------------------------ MODULE Accounts ------------------------------
(***************************************************************************)
(* Accounts of the sync server (sync-server/src/routes/auth.ts, auth.ts    *)
(* and the handlers of routes/admin.ts that write): signing up, the codes  *)
(* that verify an address or reset a password, logging in and out.         *)
(*                                                                         *)
(* The server is one thread.  Three handlers derive a key with scrypt and  *)
(* await it between what they read and what they write: sign-up, login and *)
(* reset.  They are split there, and `pending' holds what they know.  The  *)
(* other handlers await only their body, before they read anything.        *)
(***************************************************************************)
EXTENDS Naturals

CONSTANTS
    Emails,         \* addresses; there is one account for an address
    Passwords,
    Hosts,          \* client addresses, for the cooldown of /forgot-password
    Slots,          \* bound: handlers that wait for scrypt at one time
    MaxMistakes,    \* MAX_VERIFY_ATTEMPTS and MAX_RESET_ATTEMPTS
    MaxFailed,      \* MAX_FAILED_LOGINS
    MaxCodes,       \* bound: codes issued
    MaxVersion,     \* bound: revocations of one account
    None            \* no account, no password, no code, no handler

VARIABLES
    users,          \* table users, by address
    resets,         \* table password_resets, by code
    issued,         \* the codes drawn so far are 1..issued
    live,           \* the codes younger than VERIFICATION_CODE_TTL_MS
    mistakes,       \* codeAttempts and resetAttempts
    cooling,        \* resendCooldowns and forgotCooldowns: keys set a minute ago
    pending,        \* handlers that wait for scrypt
    sessions,       \* signed tokens that have not expired
    written         \* history: how often a reset code has written a password

vars == <<users, resets, issued, live, mistakes, cooling, pending, sessions, written>>

(* A code is drawn at random and stored as a digest; codes are taken to be  *)
(* different, and numbered by age.                                          *)
Codes == 1..MaxCodes

User == [hash : Passwords \cup {None}, verified : BOOLEAN, disabled : BOOLEAN,
         code : Codes \cup {None}, failed : Nat, locked : BOOLEAN, ver : Nat]

Reset == [user : Emails, used : BOOLEAN]

Signup == [kind : {"signup"}, email : Emails, hash : Passwords]
Login  == [kind : {"login"}, email : Emails, ok : BOOLEAN,
           verified : BOOLEAN, failed : Nat]
Change == [kind : {"reset"}, email : Emails, hash : Passwords, code : Codes]
Handler == Signup \cup Login \cup Change

Session == [user : Emails, ver : Nat]

ASSUME AccountsAssumption ==
    /\ MaxMistakes \in Nat
    /\ MaxFailed \in Nat
    /\ MaxCodes \in Nat
    /\ MaxVersion \in Nat
    /\ Emails \cap Hosts = {}
    /\ None \notin Passwords \cup Codes \cup User \cup Reset \cup Handler

TypeOK ==
    /\ users \in [Emails -> User \cup {None}]
    /\ resets \in [Codes -> Reset \cup {None}]
    /\ issued \in 0..MaxCodes
    /\ live \in SUBSET Codes
    /\ mistakes \in [Codes -> 0..MaxMistakes]
    /\ cooling \in SUBSET (Emails \cup Hosts)
    /\ pending \in [Slots -> Handler \cup {None}]
    /\ sessions \in SUBSET Session
    /\ written \in [Codes -> Nat]

Init ==
    /\ users = [e \in Emails |-> None]
    /\ resets = [c \in Codes |-> None]
    /\ issued = 0
    /\ live = {}
    /\ mistakes = [c \in Codes |-> 0]
    /\ cooling = {}
    /\ pending = [s \in Slots |-> None]
    /\ sessions = {}
    /\ written = [c \in Codes |-> 0]

-----------------------------------------------------------------------------
(* Helpers *)

Exists(e) == users[e] # None

(* bounds, for the model checker *)
CodesLeft == issued < MaxCodes
Revocable(e) == users[e].ver < MaxVersion
Countable(e) == users[e].failed =< MaxFailed

NewUser(hash, verified) ==
    [hash |-> hash, verified |-> verified, disabled |-> FALSE, code |-> None,
     failed |-> 0, locked |-> FALSE, ver |-> 0]

(* generateVerificationCode *)
DrawCode ==
    /\ CodesLeft
    /\ issued' = issued + 1
    /\ live' = live \cup {issued + 1}

(* the mistakes made with a code are forgotten with the code *)
Cleared(c) ==
    IF c = None THEN mistakes ELSE [mistakes EXCEPT ![c] = 0]

(* setVerificationCode, on the account as the handler has left it so far *)
SetVerificationCode(e, user) ==
    /\ DrawCode
    /\ users' = [users EXCEPT ![e] = [user EXCEPT !.code = issued + 1]]
    /\ mistakes' = Cleared(user.code)

(* issueSession reads the version as it is now *)
IssueSession(e, user) ==
    sessions' = sessions \cup {[user |-> e, ver |-> user.ver]}

Await(s, handler) ==
    /\ pending[s] = None
    /\ pending' = [pending EXCEPT ![s] = handler]

Waiting(s, kind) ==
    /\ pending[s] # None
    /\ pending[s].kind = kind

Finish(s) == pending' = [pending EXCEPT ![s] = None]

-----------------------------------------------------------------------------
(* Signing up *)

BeginSignup(s, e, p) ==
    /\ ~ Exists(e)
    /\ Await(s, [kind |-> "signup", email |-> e, hash |-> p])
    /\ UNCHANGED <<users, resets, issued, live, mistakes, cooling, sessions, written>>

(* mutant: the account is written over when another sign-up came first *)
EndSignupUpserts(s) ==
    LET e == pending[s].email IN
    /\ Waiting(s, "signup")
    /\ Finish(s)
    /\ SetVerificationCode(e, NewUser(pending[s].hash, FALSE))
    /\ UNCHANGED <<resets, cooling, sessions, written>>

(* the column is UNIQUE: another sign-up, or OAuth, may have come first *)
EndSignup(s) ==
    LET e == pending[s].email IN
    /\ Waiting(s, "signup")
    /\ Finish(s)
    /\ IF Exists(e)
       THEN UNCHANGED <<users, issued, live, mistakes>>
       ELSE SetVerificationCode(e, NewUser(pending[s].hash, FALSE))
    /\ UNCHANGED <<resets, cooling, sessions, written>>

ResendCode(e) ==
    /\ e \notin cooling
    /\ Exists(e)
    /\ ~ users[e].verified
    /\ SetVerificationCode(e, users[e])
    /\ cooling' = cooling \cup {e}
    /\ UNCHANGED <<resets, pending, sessions, written>>

(* POST /verify, with the right code, with a wrong one, and once too often  *)
Verify(e) ==
    /\ Exists(e)
    /\ users[e].code \in live
    /\ mistakes[users[e].code] < MaxMistakes
    /\ users' = [users EXCEPT ![e].verified = TRUE, ![e].code = None]
    /\ mistakes' = Cleared(users[e].code)
    /\ IssueSession(e, users[e])
    /\ UNCHANGED <<resets, issued, live, cooling, pending, written>>

(* mutant: mistakes are counted and never held against the code *)
VerifyWronglyUncapped(e) ==
    /\ Exists(e)
    /\ users[e].code \in live
    /\ mistakes' = [mistakes EXCEPT ![users[e].code] = @ + 1]
    /\ UNCHANGED <<users, resets, issued, live, cooling, pending, sessions, written>>

VerifyWrongly(e) ==
    /\ Exists(e)
    /\ users[e].code \in live
    /\ IF mistakes[users[e].code] < MaxMistakes
       THEN /\ mistakes' = [mistakes EXCEPT ![users[e].code] = @ + 1]
            /\ UNCHANGED users
       ELSE /\ mistakes' = Cleared(users[e].code)
            /\ users' = [users EXCEPT ![e].code = None]
    /\ UNCHANGED <<resets, issued, live, cooling, pending, sessions, written>>

(* the account of an address a provider has confirmed *)
OAuthLogin(e) ==
    LET user == IF Exists(e) THEN [users[e] EXCEPT !.verified = TRUE]
                             ELSE NewUser(None, TRUE)
    IN  /\ users' = [users EXCEPT ![e] = user]
        /\ IssueSession(e, user)
        /\ UNCHANGED <<resets, issued, live, mistakes, cooling, pending, written>>

-----------------------------------------------------------------------------
(* Logging in and out *)

BeginLogin(s, e, p) ==
    /\ Exists(e)
    /\ ~ users[e].locked
    /\ Countable(e)
    /\ Await(s, [kind |-> "login", email |-> e, ok |-> users[e].hash = p,
                 verified |-> users[e].verified, failed |-> users[e].failed])
    /\ UNCHANGED <<users, resets, issued, live, mistakes, cooling, sessions, written>>

(* the failures are counted from what was read before the key was derived   *)
FailLogin(s) ==
    LET e == pending[s].email
        failed == pending[s].failed + 1
    IN  /\ Waiting(s, "login")
        /\ ~ pending[s].ok
        /\ Finish(s)
        /\ users' = [users EXCEPT ![e].failed = failed,
                                  ![e].locked = @ \/ failed >= MaxFailed]
        /\ UNCHANGED <<resets, issued, live, mistakes, cooling, sessions, written>>

(* mutant: an account that is not verified gets a code and a session *)
EndLoginUnverified(s) ==
    LET e == pending[s].email
        user == [users[e] EXCEPT !.failed = 0, !.locked = FALSE]
    IN  /\ Waiting(s, "login")
        /\ pending[s].ok
        /\ Finish(s)
        /\ users' = [users EXCEPT ![e] = user]
        /\ IssueSession(e, user)
        /\ UNCHANGED <<resets, issued, live, mistakes, cooling, written>>

EndLogin(s) ==
    LET e == pending[s].email
        user == [users[e] EXCEPT !.failed = 0, !.locked = FALSE]
    IN  /\ Waiting(s, "login")
        /\ pending[s].ok
        /\ Finish(s)
        /\ IF pending[s].verified
           THEN /\ users' = [users EXCEPT ![e] = user]
                /\ IssueSession(e, user)
                /\ UNCHANGED <<issued, live, mistakes>>
           ELSE /\ SetVerificationCode(e, user)
                /\ UNCHANGED sessions
        /\ UNCHANGED <<resets, cooling, written>>

(* requireAuth *)
Accepted(t) ==
    /\ t.ver = users[t.user].ver
    /\ ~ users[t.user].disabled

Revoked(e) == [users EXCEPT ![e].ver = @ + 1]

Logout(t) ==
    /\ Accepted(t)
    /\ Revocable(t.user)
    /\ users' = Revoked(t.user)
    /\ UNCHANGED <<resets, issued, live, mistakes, cooling, pending, sessions, written>>

RevokeSessions(e) ==
    /\ Exists(e)
    /\ Revocable(e)
    /\ users' = Revoked(e)
    /\ UNCHANGED <<resets, issued, live, mistakes, cooling, pending, sessions, written>>

Disable(e) ==
    /\ Exists(e)
    /\ Revocable(e)
    /\ users' = [Revoked(e) EXCEPT ![e].disabled = TRUE]
    /\ UNCHANGED <<resets, issued, live, mistakes, cooling, pending, sessions, written>>

Enable(e) ==
    /\ Exists(e)
    /\ users' = [users EXCEPT ![e].disabled = FALSE]
    /\ UNCHANGED <<resets, issued, live, mistakes, cooling, pending, sessions, written>>

-----------------------------------------------------------------------------
(* Resetting a password *)

ForgotPassword(h, e) ==
    /\ h \notin cooling
    /\ Exists(e)
    /\ cooling' = cooling \cup {h}
    /\ DrawCode
    /\ resets' = [resets EXCEPT ![issued + 1] = [user |-> e, used |-> FALSE]]
    /\ UNCHANGED <<users, mistakes, pending, sessions, written>>

IsCodeOf(c, e) == resets[c] # None /\ resets[c].user = e

Unused(e) == {c \in Codes : IsCodeOf(c, e) /\ ~ resets[c].used}

(* the code that counts is the latest one that is not used *)
IsActive(c, e) ==
    /\ c \in Unused(e) \cap live
    /\ \A d \in Unused(e) : d =< c

(* /verify-reset-code and /reset-password with a wrong code: both count on  *)
(* the same row, and void the code when there were too many                 *)
ResetWrongly(e, c) ==
    /\ IsActive(c, e)
    /\ IF mistakes[c] < MaxMistakes
       THEN /\ mistakes' = [mistakes EXCEPT ![c] = @ + 1]
            /\ UNCHANGED resets
       ELSE /\ mistakes' = Cleared(c)
            /\ resets' = [resets EXCEPT ![c].used = TRUE]
    /\ UNCHANGED <<users, issued, live, cooling, pending, sessions, written>>

(* mutant: the code is marked as used with the password, not before *)
BeginResetUnmarked(s, e, c, p) ==
    /\ IsActive(c, e)
    /\ mistakes[c] < MaxMistakes
    /\ Revocable(e)
    /\ mistakes' = Cleared(c)
    /\ users' = Revoked(e)
    /\ Await(s, [kind |-> "reset", email |-> e, hash |-> p, code |-> c])
    /\ UNCHANGED <<resets, issued, live, cooling, sessions, written>>

(* with the right code: it is used and the sessions are revoked at once,    *)
(* the password is written when its key is derived                          *)
BeginReset(s, e, c, p) ==
    /\ IsActive(c, e)
    /\ mistakes[c] < MaxMistakes
    /\ Revocable(e)
    /\ mistakes' = Cleared(c)
    /\ resets' = [resets EXCEPT ![c].used = TRUE]
    /\ users' = Revoked(e)
    /\ Await(s, [kind |-> "reset", email |-> e, hash |-> p, code |-> c])
    /\ UNCHANGED <<issued, live, cooling, sessions, written>>

EndReset(s) ==
    /\ Waiting(s, "reset")
    /\ Finish(s)
    /\ users' = [users EXCEPT ![pending[s].email].hash = pending[s].hash]
    /\ written' = [written EXCEPT ![pending[s].code] = @ + 1]
    /\ UNCHANGED <<resets, issued, live, mistakes, cooling, sessions>>

-----------------------------------------------------------------------------
(* Time and restarts *)

ExpireCode(c) ==
    /\ c \in live
    /\ live' = live \ {c}
    /\ UNCHANGED <<users, resets, issued, mistakes, cooling, pending, sessions, written>>

ExpireSession(t) ==
    /\ sessions' = sessions \ {t}
    /\ UNCHANGED <<users, resets, issued, live, mistakes, cooling, pending, written>>

(* LOCKOUT_MS have passed; the failures stay counted *)
Unlock(e) ==
    /\ Exists(e)
    /\ users[e].locked
    /\ users' = [users EXCEPT ![e].locked = FALSE]
    /\ UNCHANGED <<resets, issued, live, mistakes, cooling, pending, sessions, written>>

CoolDown(k) ==
    /\ k \in cooling
    /\ cooling' = cooling \ {k}
    /\ UNCHANGED <<users, resets, issued, live, mistakes, pending, sessions, written>>

(* what is kept in memory is lost, and with it the handlers that wait *)
Restart ==
    /\ mistakes' = [c \in Codes |-> 0]
    /\ cooling' = {}
    /\ pending' = [s \in Slots |-> None]
    /\ UNCHANGED <<users, resets, issued, live, sessions, written>>

Next ==
    \/ \E s \in Slots :
         \/ \E e \in Emails, p \in Passwords :
               \/ BeginSignup(s, e, p)
               \/ BeginLogin(s, e, p)
               \/ \E c \in Codes : BeginReset(s, e, c, p)
         \/ EndSignup(s)
         \/ FailLogin(s)
         \/ EndLogin(s)
         \/ EndReset(s)
    \/ \E e \in Emails :
         \/ ResendCode(e)
         \/ Verify(e)
         \/ VerifyWrongly(e)
         \/ OAuthLogin(e)
         \/ RevokeSessions(e)
         \/ Disable(e)
         \/ Enable(e)
         \/ Unlock(e)
         \/ \E h \in Hosts : ForgotPassword(h, e)
         \/ \E c \in Codes : ResetWrongly(e, c)
    \/ \E t \in sessions : Logout(t) \/ ExpireSession(t)
    \/ \E c \in Codes : ExpireCode(c)
    \/ \E k \in cooling : CoolDown(k)
    \/ Restart

Spec == Init /\ [][Next]_vars

-----------------------------------------------------------------------------
(* Properties *)

(* Nobody holds a session for an address that nobody has confirmed, although *)
(* /login decides from a row that it read before it awaited scrypt.          *)
VerifiedSessions ==
    \A t \in sessions : Exists(t.user) /\ users[t.user].verified

(* An account that exists gets another password only from /reset-password,   *)
(* with a code of its own that has not set a password before: two requests   *)
(* with one code, two sign-ups for one address, or a restart between the     *)
(* marking of the code and the password do not make it two.                  *)
PasswordNeedsFreshCode ==
    [][\A e \in Emails : Exists(e) /\ users'[e].hash # users[e].hash =>
          \E c \in Codes : /\ IsCodeOf(c, e) /\ resets[c].used
                           /\ written[c] = 0
                           /\ written'[c] = 1]_vars

Versions == INSTANCE SessionVersions WITH
    Users   <- Emails,
    version <- [e \in Emails |-> IF Exists(e) THEN users[e].ver ELSE 0]

(* The handlers give out sessions of the current version only and never take *)
(* a revocation back: a session that was revoked stays revoked.              *)
ImplementsVersions == Versions!Spec
=============================================================================
