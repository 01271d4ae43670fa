-------------------------- MODULE MCResultRecovery --------------------------
(* Model-checking instance of ResultRecovery, BacktestRun included: the      *)
(* constants are in the cfg.                                                 *)
EXTENDS ResultRecovery
=============================================================================
