--------------------------- MODULE MCTeamAccess ---------------------------
(* Instances of TeamAccess for TLC. *)
EXTENDS TeamAccess, TLC

CONSTANTS u1, u2, s1, s2

MCUserOf == s1 :> u1 @@ s2 :> u2

MCSymmetry == Permutations(Teams) \cup Permutations(Requests)
=============================================================================
