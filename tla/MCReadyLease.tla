---------------------------- MODULE MCReadyLease ----------------------------
(* Small instances of ReadyLease: two requests, one of them a stream, that   *)
(* fail over between two accounts of one lease each.                         *)
EXTENDS ReadyLease, TLC

AccountSymmetry == Permutations(Accounts)
=============================================================================
