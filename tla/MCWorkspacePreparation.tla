---------------------- MODULE MCWorkspacePreparation ----------------------
(***************************************************************************)
(* Small instances of WorkspacePreparation.                                *)
(***************************************************************************)
EXTENDS WorkspacePreparation, TLC

(* Requests and commits are interchangeable; workspaces are ordered by age only
   once they exist. *)
MCSymmetry == Permutations(Setups) \cup Permutations(Polls)
                  \cup Permutations(Commits) \cup Permutations(Workspaces)
=============================================================================
