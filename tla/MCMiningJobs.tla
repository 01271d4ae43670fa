---------------------------- MODULE MCMiningJobs ----------------------------
(* TLC instances of MiningJobs.                                            *)
EXTENDS MiningJobs, TLC

CONSTANTS j1, j2, w1, w2, r1
=============================================================================
