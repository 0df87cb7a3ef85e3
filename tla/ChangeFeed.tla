----------------------------- MODULE ChangeFeed -----------------------------
(***************************************************************************)
(* What a pull promises (FONCTIONNEMENT.md of sync-server, section 7): it  *)
(* reads the changes of a workspace in one go, applies them, and goes on   *)
(* from the time of the read.  The real pull reads page by page while      *)
(* others push; module SyncPaging, which implements this one, shows that   *)
(* this makes no difference.                                               *)
(*                                                                         *)
(* A row that is written late, with a time a pull has already got past,    *)
(* may be left out of a read; every other row that is due is in it.        *)
(***************************************************************************)
EXTENDS Naturals

CONSTANTS
    Ids,            \* ids of rows of one workspace
    Polls,          \* pulls that run at the same time
    None            \* no row, no copy, no pull, nothing read

VARIABLES
    rows,           \* the rows of the server
    late,           \* rows that were last written late
    since,          \* the cursor of the client, syncCursors
    copy,           \* copy[i]: updatedAt of the entity of the client
    polls           \* the pulls under way

Row == [at : Nat, deleted : BOOLEAN]
Changes == [Ids -> Row \cup {None}]
Pull == [since : Nat, changes : Changes \cup {None}, time : Nat]

FeedTypeOK ==
    /\ rows \in Changes
    /\ late \in SUBSET Ids
    /\ since \in Nat
    /\ copy \in [Ids -> Nat \cup {None}]
    /\ polls \in [Polls -> Pull \cup {None}]

Init ==
    /\ rows = [i \in Ids |-> None]
    /\ late = {}
    /\ since = 0
    /\ copy = [i \in Ids |-> None]
    /\ polls = [s \in Polls |-> None]

(* the last writer wins; the time of an entity never decreases *)
Write(i) ==
    /\ rows'[i] \in Row
    /\ rows[i] # None => rows[i].at =< rows'[i].at
    /\ rows' = [rows EXCEPT ![i] = rows'[i]]
    /\ late' \in {late \cup {i}, late \ {i}}
    /\ UNCHANGED <<since, copy, polls>>

Begin(s) ==
    /\ polls[s] = None
    /\ polls' = [polls EXCEPT ![s] = [since |-> since, changes |-> None, time |-> 0]]
    /\ UNCHANGED <<rows, late, since, copy>>

Due(i, from) == rows[i] # None /\ rows[i].at > from

(* every row that is due, but for late ones *)
Read(s) ==
    /\ polls[s] # None
    /\ polls[s].changes = None
    /\ polls'[s] \in Pull
    /\ polls'[s].since = polls[s].since
    /\ polls'[s].changes # None
    /\ \A i \in Ids \ late :
          polls'[s].changes[i] = IF Due(i, polls[s].since) THEN rows[i] ELSE None
    /\ polls' = [polls EXCEPT ![s] = polls'[s]]
    /\ UNCHANGED <<rows, late, since, copy>>

(* What may become of the entity mine: a tombstone removes it, and a row    *)
(* replaces it, unless it is younger.                                       *)
Results(mine, row) ==
    IF row = None THEN {mine}
    ELSE IF row.deleted THEN {None}
    ELSE {row.at} \cup {c \in {mine} : c # None /\ c >= row.at}

Apply(s) ==
    /\ polls[s] # None
    /\ polls[s].changes # None
    /\ copy' \in [Ids -> Nat \cup {None}]
    /\ \A i \in Ids : copy'[i] \in Results(copy[i], polls[s].changes[i])
    /\ since' = polls[s].time
    /\ polls' = [polls EXCEPT ![s] = None]
    /\ UNCHANGED <<rows, late>>

(* nothing is applied *)
Fail(s) ==
    /\ polls[s] # None
    /\ polls' = [polls EXCEPT ![s] = None]
    /\ UNCHANGED <<rows, late, since, copy>>

Next ==
    \/ \E i \in Ids : Write(i)
    \/ \E s \in Polls : Begin(s) \/ Read(s) \/ Apply(s) \/ Fail(s)

Spec == Init /\ [][Next]_<<rows, late, since, copy, polls>>
=============================================================================
