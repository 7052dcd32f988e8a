---------------------------- MODULE MCMaintenance ----------------------------
(* Small instances of Maintenance: two workers that contend for the locks    *)
(* while the switch is used and something fails (MCMaintenance.cfg), with    *)
(* crashes and fairness (MaintenanceLeader.cfg), and with the switch and     *)
(* fairness (MaintenanceEnabled.cfg).                                        *)
EXTENDS Maintenance, TLC

Symmetry == Permutations(Workers) \cup Permutations(Threads)
=============================================================================
