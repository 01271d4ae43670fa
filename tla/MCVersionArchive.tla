-------------------------- MODULE MCVersionArchive --------------------------
(* Instances of VersionArchive for TLC.                                    *)
EXTENDS VersionArchive, TLC

CONSTANTS r1, r2, r3, d1, d2

MCRequests == {r1, r2, r3}
MCDrafts == {d1, d2}
=============================================================================
