------------------------- MODULE MCSessionExecution -------------------------
(***************************************************************************)
(* Small instances of SessionExecution.  The bounds leave room for every   *)
(* session to reach its end: MaxRows is never the reason a step is missing. *)
(***************************************************************************)
EXTENDS SessionExecution, TLC

MCContents == {"hello"}
MCSymmetry == Permutations(Messages)
=============================================================================
