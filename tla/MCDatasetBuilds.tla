-------------------------- MODULE MCDatasetBuilds ---------------------------
(* A TLC instance of DatasetBuilds.                                        *)
EXTENDS DatasetBuilds, TLC

CONSTANTS j1, j2, w1, w2, c1, c2

Alike == [j \in Jobs |-> Contents]
Distinct == [j \in Jobs |-> IF j = j1 THEN {c1} ELSE {c2}]
=============================================================================
