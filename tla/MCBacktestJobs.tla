--------------------------- MODULE MCBacktestJobs ---------------------------
(* TLC instances of BacktestJobs.                                          *)
EXTENDS BacktestJobs, TLC

CONSTANTS j1, j2

MCJobs == {j1, j2}
=============================================================================
