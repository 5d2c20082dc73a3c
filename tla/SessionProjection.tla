------------------------- MODULE SessionProjection -------------------------
(***************************************************************************)
(* How one SessionEvent moves the materialised Session row: the pure       *)
(* function applySessionEventProjection of packages/shared/src/session.ts. *)
(* The code throws on an event that is illegal in the current state; here  *)
(* Accepts says which events do not throw and Project is what they return. *)
(*                                                                         *)
(* Event kinds keep the names of the catalogue without the prefix          *)
(* "session.".  A payload is abstracted to one value, body: the            *)
(* continuation mode of interrupted and resumed, the content of a user     *)
(* message, the Provider session id of provider_started, "none" elsewhere. *)
(* interruptKind is not kept (every write of it also writes                *)
(* continuationMode) and neither is failureCode (a function of state).     *)
(***************************************************************************)

CONSTANTS Messages,    \* ids of user messages
          NoMessage    \* the null messageId

ASSUME NoMessageAssumption == NoMessage \notin Messages

----------------------------------------------------------------------------
SessionState ==
    {"queued", "dispatched", "message_pending", "running", "ready",
     "interrupted", "waiting_for_handoff", "closed", "failed"}

Terminal == {"closed", "failed"}
NonTerminal == SessionState \ Terminal

ContinuationMode == {"resume_message", "new_message"}

(* Kinds that only record a fact, by the state they are legal in. *)
LaunchFacts == {"created", "system_prompt_configured", "workspace_attached"}
ResponseFacts ==
    {"agent_message_chunk", "agent_thought_chunk", "plan_updated", "tool_call",
     "tool_call_updated", "usage_updated", "input_requested", "approval_requested"}
InterruptFacts == {"input_received", "approval_resolved"}
PassiveKinds ==
    LaunchFacts \cup ResponseFacts \cup InterruptFacts
                \cup {"handoff_accepted", "close_requested"}

FailureKinds == {"response_failed", "runtime_lost", "failed"}
OutcomeKinds == {"response_completed", "response_canceled"}

EventKind ==
    PassiveKinds \cup FailureKinds \cup OutcomeKinds \cup
    {"user_message_submitted", "runtime_dispatched", "provider_started",
     "response_started", "interrupted", "resumed", "handoff_requested",
     "handoff_completed", "closed"}

----------------------------------------------------------------------------
(* The states in which an event of this kind does not throw. *)
AcceptedFrom(kind) ==
    CASE kind \in LaunchFacts               -> {"queued"}
      [] kind \in ResponseFacts             -> {"running"}
      [] kind \in InterruptFacts            -> {"interrupted"}
      [] kind = "handoff_accepted"          -> {"waiting_for_handoff"}
      [] kind = "user_message_submitted"    -> {"queued", "ready", "interrupted"}
      [] kind = "runtime_dispatched"        -> {"queued", "message_pending"}
      [] kind = "provider_started"          -> {"dispatched"}
      [] kind = "response_started"          -> {"dispatched", "message_pending", "interrupted"}
      [] kind = "interrupted"               -> {"running"}
      [] kind = "resumed"                   -> {"interrupted"}
      [] kind = "handoff_requested"         -> {"running", "interrupted"}
      [] kind = "handoff_completed"         -> {"waiting_for_handoff"}
      [] kind \in OutcomeKinds              -> {"running", "interrupted", "waiting_for_handoff"}
      [] kind \in FailureKinds \cup {"closed", "close_requested"} -> NonTerminal

(* Mutant: the projection does not compare the message with the active one. *)
AcceptsAnyMessage(p, e) ==
    /\ p.state \in AcceptedFrom(e.kind)
    /\ e.kind \in OutcomeKinds \cup {"user_message_submitted", "response_started"} =>
          e.msg # NoMessage

(* Mutant: an outcome needs no started response. *)
AcceptsUnstarted(p, e) ==
    /\ p.state \in AcceptedFrom(e.kind) \/ (e.kind \in OutcomeKinds /\ p.state = "dispatched")
    /\ e.kind \in OutcomeKinds \cup {"user_message_submitted", "response_started"} =>
          e.msg # NoMessage
    /\ e.kind \in OutcomeKinds \cup {"response_started"} => e.msg = p.active

(* p is the Session row, e the event. *)
Accepts(p, e) ==
    /\ p.state \in AcceptedFrom(e.kind)
    /\ e.kind = "user_message_submitted" =>
          /\ e.msg # NoMessage
          /\ p.state = "interrupted" => p.mode = "new_message"
    /\ e.kind \in OutcomeKinds \cup {"response_started"} =>
          /\ e.msg # NoMessage
          /\ e.msg = p.active

Project(p, e) ==
    CASE e.kind \in PassiveKinds            -> p
      [] e.kind = "user_message_submitted"  ->
            [p EXCEPT !.state = IF p.state = "queued" THEN "queued" ELSE "message_pending",
                      !.active = e.msg, !.mode = "none"]
      [] e.kind = "runtime_dispatched"      -> [p EXCEPT !.state = "dispatched"]
      [] e.kind = "provider_started"        -> [p EXCEPT !.state = "message_pending"]
      [] e.kind = "response_started"        -> [p EXCEPT !.state = "running", !.mode = "none"]
      [] e.kind = "interrupted"             -> [p EXCEPT !.state = "interrupted", !.mode = e.body]
      [] e.kind = "resumed"                 ->
            [p EXCEPT !.state = IF e.body = "resume_message" THEN "running" ELSE "message_pending",
                      !.mode = "none"]
      [] e.kind = "handoff_requested"       -> [p EXCEPT !.state = "waiting_for_handoff"]
      [] e.kind = "handoff_completed"       ->
            [p EXCEPT !.state = "ready", !.last = p.active, !.active = NoMessage]
      [] e.kind \in OutcomeKinds            ->
            [p EXCEPT !.state = "ready", !.last = e.msg, !.active = NoMessage, !.mode = "none"]
      [] e.kind \in FailureKinds            ->
            [p EXCEPT !.state = "failed", !.active = NoMessage, !.mode = "none"]
      [] e.kind = "closed"                  ->
            [p EXCEPT !.state = "closed", !.active = NoMessage, !.mode = "none"]

----------------------------------------------------------------------------
(* The transition table packages/shared/src/state.ts publishes beside the
   projection; the projection never consults it. *)
AllowedTransitions ==
    [queued              |-> {"dispatched", "closed", "failed"},
     dispatched          |-> {"message_pending", "closed", "failed"},
     message_pending     |-> {"dispatched", "running", "closed", "failed"},
     running             |-> {"ready", "interrupted", "waiting_for_handoff", "closed", "failed"},
     ready               |-> {"message_pending", "closed", "failed"},
     interrupted         |-> {"running", "message_pending", "ready", "waiting_for_handoff",
                              "closed", "failed"},
     waiting_for_handoff |-> {"ready", "closed", "failed"},
     closed              |-> {},
     failed              |-> {}]

CanTransition(from, to) == from = to \/ to \in AllowedTransitions[from]
=============================================================================
