---------------------------- MODULE MCSyncPaging ----------------------------
(* SyncPaging with one pull, or two at a time *)
EXTENDS SyncPaging

CONSTANTS s1, s2
=============================================================================
