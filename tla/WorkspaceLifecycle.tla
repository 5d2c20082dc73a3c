------------------------ MODULE WorkspaceLifecycle ------------------------
(***************************************************************************)
(* What the control plane promises about a Task Workspace, whoever prepares *)
(* it and however: the states of its row and the moves between them.  The   *)
(* preparation protocol (WorkspacePreparation) implements this module; the  *)
(* production of a task relies on no more.                                  *)
(***************************************************************************)
CONSTANT Workspaces

VARIABLE phase    \* phase[w]: TaskWorkspace.state, or "absent"

Phases == {"absent", "queued", "preparing", "ready", "failed", "unavailable"}

(* A ready workspace is never prepared again, and a lost one stays lost. *)
Follows ==
    {<<"absent", "queued">>,
     <<"queued", "preparing">>,
     <<"preparing", "ready">>, <<"preparing", "failed">>,
     <<"failed", "queued">>,
     <<"ready", "unavailable">>}

LifecycleInit == phase = [w \in Workspaces |-> "absent"]

(* One transaction may move several workspaces: a claim that expires some and
   takes another. *)
Move ==
    /\ phase' \in [Workspaces -> Phases]
    /\ \A w \in Workspaces :
          phase'[w] # phase[w] => <<phase[w], phase'[w]>> \in Follows

LifecycleSpec == LifecycleInit /\ [][Move]_phase
=============================================================================
