-------------------------- MODULE MCTaskWorkflow --------------------------
(* Instances of TaskWorkflow for TLC: one Skill for each scope of the fixed
   definition. *)
EXTENDS TaskWorkflow, TLC

CONSTANTS g1, u1, i1, v1

MCNamed == (g1 :> "global") @@ (u1 :> "understand")
               @@ (i1 :> "implement") @@ (v1 :> "verify")

MCSymmetry == Permutations(States) \cup Permutations(Sessions) \cup Permutations(Commands)
                  \cup Permutations(Calls) \cup Permutations(Managers)
=============================================================================
