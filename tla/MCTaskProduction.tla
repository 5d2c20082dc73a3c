------------------------- MODULE MCTaskProduction -------------------------
(* Instances of TaskProduction for TLC. *)
EXTENDS TaskProduction

(* Users may swap their sessions, keys and request slots. *)
MCSymmetry ==
    Permutations(Sessions \ {Generated}) \cup Permutations(StatusKeys)
        \cup Permutations(Inputs) \cup Permutations(Requests) \cup Permutations(Moves)
=============================================================================
