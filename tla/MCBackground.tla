---------------------------- MODULE MCBackground ----------------------------
(* A small instance of Background: three accounts in batches of two, cooled  *)
(* by one failed probe; three cookies or files, two of them of one account;  *)
(* the worker that polls for a login and another that is asked for its       *)
(* status.                                                                   *)
EXTENDS Background, TLC

\* Bounds on what happens to a part from outside.
MCEvents == [sweep |-> 1, jobs |-> 2, login |-> 2]
MCOwner == (1 :> "x") @@ (2 :> "y") @@ (3 :> "x")
=============================================================================
