--------------------------- MODULE MCAccountState ---------------------------
(* Small instances of AccountState: one request and one control-plane call,  *)
(* of every kind (MCAccountState.cfg), and the smallest instance that loses  *)
(* a cooldown (AccountDurable.cfg).                                          *)
EXTENDS AccountState, TLC
=============================================================================
