-------------------------- MODULE MCWriterPipeline --------------------------
(* Small instances of WriterPipeline: MCWriterPipeline.cfg (two writers, a   *)
(* healthy, a failing and an undecodable message, safety) and                *)
(* WriterLiveness.cfg (liveness).                                            *)
EXTENDS WriterPipeline, TLC

WriterSymmetry == Permutations(Writers)
=============================================================================
