----------------------- MODULE MCPreparedSubmissions ------------------------
(* A TLC instance of PreparedSubmissions.                                  *)
EXTENDS PreparedSubmissions, TLC

CONSTANTS h1, h2, s1, s2, r1, r2

MCSymmetry == Permutations(Handlers) \cup Permutations(Sessions) \cup Permutations(Requests)
=============================================================================
