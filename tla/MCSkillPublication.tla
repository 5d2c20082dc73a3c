------------------------ MODULE MCSkillPublication ------------------------
(* Instances of SkillPublication for TLC. *)
EXTENDS SkillPublication, TLC

MCSymmetry ==
    Permutations(Skills) \cup Permutations(Revisions) \cup Permutations(Zips)
        \cup Permutations(Requests)
=============================================================================
