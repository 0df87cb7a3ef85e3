-------------------------- MODULE SessionVersions --------------------------
(***************************************************************************)
(* What the sessions of sync-server/src/auth.ts promise: a session carries *)
(* the token_version its user had when it was issued and is good as long   *)
(* as the user still has it.  Who may ask for a session, and when sessions *)
(* are revoked, is in module Accounts, which implements this one; module   *)
(* SyncSockets builds the sockets of the hub on it.                        *)
(***************************************************************************)
EXTENDS Naturals

CONSTANTS
    Users           \* user ids

VARIABLES
    version,        \* users.token_version
    sessions        \* the signed tokens that have not expired

Session == [user : Users, ver : Nat]

SessionsTypeOK ==
    /\ version \in [Users -> Nat]
    /\ sessions \in SUBSET Session

(* isSessionRevoked is the negation *)
Good(s) == s.ver = version[s.user]

Issue(u) ==
    /\ sessions' = sessions \cup {[user |-> u, ver |-> version[u]]}
    /\ UNCHANGED version

(* every session issued so far is revoked, and stays so *)
Revoke(u) ==
    /\ version' = [version EXCEPT ![u] = @ + 1]
    /\ UNCHANGED sessions

(* past the expiry in the token *)
Expire(s) ==
    /\ s \in sessions
    /\ sessions' = sessions \ {s}
    /\ UNCHANGED version

Init ==
    /\ version = [u \in Users |-> 0]
    /\ sessions = {}

Next ==
    \/ \E u \in Users : Issue(u) \/ Revoke(u)
    \/ \E s \in sessions : Expire(s)

Spec == Init /\ [][Next]_<<version, sessions>>
=============================================================================
