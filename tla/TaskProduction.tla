-------------------------- MODULE TaskProduction --------------------------
(***************************************************************************)
(* The production of one Task on one Runtime: Start requests and Session    *)
(* launches of its users, the continuation that the Runner's report of a    *)
(* ready Workspace triggers, and the status changes that people and the     *)
(* Agent ask for.  A request is a sequence of steps, one for each call of    *)
(* the database or of another service it awaits; what it read in one step it *)
(* still uses in the next.  Transactions are serializable: one step each.   *)
(*                                                                         *)
(* The Workspace is the one WorkspaceLifecycle promises.                    *)
(***************************************************************************)
EXTENDS Naturals, Sequences, SequencesExt, FiniteSets

CONSTANTS Sessions,      \* Session ids: those users make up, and Generated
          Generated,     \* the id that a plain Start generates
          StartKeys,     \* idempotency keys of plain Starts
          StatusKeys,    \* idempotency keys of status requests
          Inputs,        \* what a launch asks for, its ids aside
          Requests,      \* Starts and launches in progress at a time
          Reports,       \* reports of the ready Workspace in progress at a time
          Moves,         \* status requests in progress at a time
          MaxRevision,   \* bound: the Task's status revision
          MaxLag,        \* bound: how old the revision is that a request expects
          MaxOutages,    \* bound: how often a Runtime or a service is found unavailable
          MaxCrashes,    \* bound: restarts of the control plane
          MaxLosses      \* bound: losses of a ready Workspace

Calls == Requests \cup Reports

VARIABLES task,       \* the Task row: status, revision, runtimeId
          history,    \* its TaskStatusTransition rows, oldest first
          context,    \* its TaskExecutionContext row
          workspace,  \* the state of its Workspace row
          sessions,   \* sessions[s]: the launch that made Session s
          calls,      \* calls[c]: a Start, a launch or a continuation
          moves,      \* moves[m]: a status request
          owed,       \* the Runner has had no answer to its report of the ready Workspace
          outages, crashes, losses   \* counted up to the bounds

vars == <<task, history, context, workspace, sessions, calls, moves, owed,
          outages, crashes, losses>>
----------------------------------------------------------------------------
Statuses == {"pending", "in_progress", "blocked", "done", "canceled"}
Terminal == {"done", "canceled"}
People == {"human", "agent"}

(* A Session is launched from the execution context, with the message frozen in
   it, or as somebody asks, with a message id that is new each time. *)
Session == [by : {"none", "context", "request"}, input : Inputs \cup {"none"}]
NoSession == [by |-> "none", input |-> "none"]

Keys == Sessions \cup StartKeys \cup StatusKeys
Revisions == 1..MaxRevision
Failures == {"none", "workspace", "launch"}

Task == [status : Statuses, revision : Revisions, bound : BOOLEAN]   \* runtimeId # null

Transition == [key : Keys, by : People \cup {"assign"}, from : Statuses,
               to : Statuses, revision : Revisions]

Context == [key : Sessions \cup StartKeys, planned : Sessions, input : Inputs,
            attached : BOOLEAN,      \* workspaceId # null
            launched : BOOLEAN,      \* sessionId # null
            failure : Failures,      \* setupFailureCode
            revoked : BOOLEAN]       \* capabilityRevokedAt # null
NoContext == [key |-> "none", planned |-> "none", input |-> "none", attached |-> FALSE,
              launched |-> FALSE, failure |-> "none", revoked |-> FALSE]

Lifecycle == INSTANCE WorkspaceLifecycle
                 WITH Workspaces <- {"task"}, phase <- [w \in {"task"} |-> workspace]

(* Where a call is, which names the call it makes next. *)
Points == {"free", "look", "start", "assign", "prepare", "giveUp", "bind",
           "continue", "check", "attach", "launch", "record", "apologise",
           "setup", "dispatch"}

NoCall == [at |-> "free", key |-> "none", session |-> "none", input |-> "none",
           status |-> "pending", revision |-> 1, bound |-> FALSE,
           ready |-> FALSE, attached |-> FALSE, launched |-> FALSE]

Call == [at : Points,
         key : Sessions \cup StartKeys \cup {"none"},
         session : Sessions \cup {"none"},    \* "none": a continuation
         input : Inputs \cup {"none"},
         status : Statuses, revision : Revisions, bound : BOOLEAN,  \* the Task it read
         ready : BOOLEAN,                     \* the Workspace that setup returned
         attached : BOOLEAN, launched : BOOLEAN]      \* the context it read

Move == [at : {"free", "read", "move", "done"}, by : People, key : StatusKeys \cup {"none"},
         to : Statuses, expected : Revisions, from : Statuses]
NoMove == [at |-> "free", by |-> "human", key |-> "none", to |-> "pending",
           expected |-> 1, from |-> "pending"]

ASSUME SessionsAssumption == Generated \in Sessions /\ "none" \notin Sessions
ASSUME KeysAssumption ==
    /\ Sessions \cap StartKeys = {} /\ (Sessions \cup StartKeys) \cap StatusKeys = {}
    /\ "none" \notin StartKeys \cup StatusKeys
ASSUME InputsAssumption == "none" \notin Inputs
ASSUME CallsAssumption == Requests \cap Reports = {}
ASSUME BoundsAssumption ==
    /\ MaxRevision \in Nat \ {0} /\ MaxLag \in Nat
    /\ MaxOutages \in Nat /\ MaxCrashes \in Nat /\ MaxLosses \in Nat
----------------------------------------------------------------------------
ProductionInit ==
    /\ task = [status |-> "pending", revision |-> 1, bound |-> FALSE]
    /\ history = << >>
    /\ context = NoContext
    /\ workspace = "absent"
    /\ sessions = [s \in Sessions |-> NoSession]
    /\ calls = [c \in Calls |-> NoCall]
    /\ moves = [m \in Moves |-> NoMove]
    /\ owed = FALSE
    /\ outages = 0 /\ crashes = 0 /\ losses = 0

budget == <<outages, crashes, losses>>
statusVars == <<task, history, moves>>

(* The revision that a request expects was the Task's once. *)
Expectable(n) == n <= task.revision /\ task.revision <= n + MaxLag

(* The Runtime or a service is found unavailable. *)
Outage == outages < MaxOutages /\ outages' = outages + 1 /\ UNCHANGED <<crashes, losses>>

At(c, point) == calls[c].at = point

Go(c, point) == calls' = [calls EXCEPT ![c].at = point]

(* ... and nothing of what the call has read so far is used again. *)
Enter(c, point) == calls' = [calls EXCEPT ![c] = [NoCall EXCEPT !.at = point]]

(* The call is answered; what a report hears ends its repetition. *)
Answer(c) ==
    /\ calls' = [calls EXCEPT ![c] = NoCall]
    /\ owed' = (owed /\ c \notin Reports)
----------------------------------------------------------------------------
(* TaskSessionLaunchService.launch: the Task is read first, the context next. *)

BeginLaunch(c, s, i) ==
    /\ At(c, "free") /\ c \in Requests
    /\ s # Generated
    /\ task.status \in {"pending", "in_progress"}
    /\ calls' = [calls EXCEPT ![c] =
                    [NoCall EXCEPT !.at = "look", !.key = s, !.session = s, !.input = i,
                                   !.status = task.status, !.revision = task.revision,
                                   !.bound = task.bound]]
    /\ UNCHANGED <<statusVars, context, workspace, sessions, owed, budget>>

(* Mutant: the context is looked at for a pending Task only. *)
PlannedWhilePending(c) ==
    context.planned = calls[c].session /\ calls[c].status = "pending"

Planned(c) == context.planned = calls[c].session

(* A launch of the planned Session is a repetition of the one that started the
   Task; it continues that one. *)
LookAtOwn(c) ==
    /\ At(c, "look")
    /\ Planned(c)
    /\ LET same == calls[c].bound /\ context.input = calls[c].input
       IN  \/ ~same /\ Answer(c) /\ UNCHANGED budget          \* session_conflict
           \/ same /\ context.launched /\ Answer(c) /\ UNCHANGED budget
           \/ same /\ ~context.launched /\ Answer(c) /\ Outage
           \/ same /\ ~context.launched /\ Enter(c, "continue") /\ UNCHANGED <<owed, budget>>
    /\ UNCHANGED <<statusVars, context, workspace, sessions>>

LookAtOther(c) ==
    /\ At(c, "look")
    /\ ~Planned(c)
    /\ \/ Answer(c) /\ Outage                                 \* runtime_unavailable
       \/ /\ calls[c].status = "pending"
          /\ Go(c, "start") /\ UNCHANGED <<owed, budget>>
       \/ /\ calls[c].status # "pending"
          /\ calls' = [calls EXCEPT ![c] =
                          [NoCall EXCEPT !.at = "setup", !.session = calls[c].session,
                                         !.input = calls[c].input]]
          /\ UNCHANGED <<owed, budget>>
    /\ UNCHANGED <<statusVars, context, workspace, sessions>>
----------------------------------------------------------------------------
(* TaskProductionService.start *)

BeginStart(c, k, i) ==
    /\ At(c, "free") /\ c \in Requests
    /\ \E n \in Revisions :
          /\ Expectable(n)
          /\ calls' = [calls EXCEPT ![c] =
                          [NoCall EXCEPT !.at = "start", !.key = k, !.session = Generated,
                                         !.input = i, !.revision = n]]
    /\ UNCHANGED <<statusVars, context, workspace, sessions, owed, budget>>

(* #findAssignmentReplay: the fingerprint covers the key's request. *)
SameStart(c) ==
    /\ context # NoContext /\ context.key = calls[c].key /\ context.input = calls[c].input
    /\ history[1].revision = calls[c].revision + 1

Start(c) ==
    /\ At(c, "start")
    /\ \/ task.status = "pending" /\ Go(c, "assign") /\ UNCHANGED <<owed, budget>>
       \/ task.status = "pending" /\ Answer(c) /\ Outage
       \/ task.status # "pending" /\ SameStart(c) /\ Enter(c, "prepare") /\ UNCHANGED <<owed, budget>>
       \/ task.status # "pending" /\ ~SameStart(c) /\ Answer(c) /\ UNCHANGED budget
    /\ UNCHANGED <<statusVars, context, workspace, sessions>>

NewContext(c) ==
    [key |-> calls[c].key, planned |-> calls[c].session, input |-> calls[c].input,
     attached |-> FALSE, launched |-> FALSE, failure |-> "none", revoked |-> FALSE]

(* Mutant: what the request read of the Task is not compared again. *)
EligibleOnce(c) == context = NoContext

Eligible(c) ==
    context = NoContext /\ task.status = "pending" /\ task.revision = calls[c].revision

(* startTaskProduction: one transaction, or the replay of one. *)
Assign(c) ==
    /\ At(c, "assign")
    /\ \/ /\ Eligible(c) /\ task.revision < MaxRevision
          /\ task' = [status |-> "in_progress", revision |-> calls[c].revision + 1,
                      bound |-> TRUE]
          /\ history' = Append(history,
                           [key |-> calls[c].key, by |-> "assign", from |-> task.status,
                            to |-> "in_progress", revision |-> calls[c].revision + 1])
          /\ context' = NewContext(c)
          /\ Enter(c, "prepare") /\ UNCHANGED owed
       \/ ~Eligible(c) /\ SameStart(c) /\ Enter(c, "prepare") /\ UNCHANGED <<task, history, context, owed>>
       \/ ~Eligible(c) /\ ~SameStart(c) /\ Answer(c) /\ UNCHANGED <<task, history, context>>
    /\ UNCHANGED <<moves, workspace, sessions, budget>>
----------------------------------------------------------------------------
(* TaskWorkspaceService.setup, as the callers use it: the Workspace is queued if
   there is none or the last attempt failed, and returned as it is otherwise. *)
SetUp ==
    workspace' = IF workspace \in {"absent", "failed"} THEN "queued" ELSE workspace

NeedsRuntime == workspace \in {"absent", "failed"}

(* #prepareAfterCommit *)
Prepare(c) ==
    /\ At(c, "prepare")
    /\ \/ /\ SetUp
          /\ calls' = [calls EXCEPT ![c].at = "bind", ![c].ready = (workspace = "ready")]
          /\ UNCHANGED budget
       \/ NeedsRuntime /\ Go(c, "giveUp") /\ Outage /\ UNCHANGED workspace
    /\ UNCHANGED <<statusVars, context, sessions, owed>>

GiveUp(c) ==
    /\ At(c, "giveUp")
    /\ context' = [context EXCEPT !.failure = "workspace"]
    /\ Answer(c)
    /\ UNCHANGED <<statusVars, workspace, sessions, budget>>

Bind(c) ==
    /\ At(c, "bind")
    /\ context' = [context EXCEPT !.attached = TRUE, !.failure = "none"]
    /\ IF calls[c].ready THEN Enter(c, "continue") /\ UNCHANGED owed ELSE Answer(c)
    /\ UNCHANGED <<statusVars, workspace, sessions, budget>>
----------------------------------------------------------------------------
(* continueAfterWorkspaceReady: called for the Runner's report, at the end of a
   Start and by a repeated launch, each with the context it reads here. *)

(* Mutant: the Runner is answered before the continuation. *)
BeginContinuationAnswered(c) ==
    /\ At(c, "free") /\ c \in Reports
    /\ owed
    /\ IF workspace = "ready"
       THEN Go(c, "continue") /\ owed' = FALSE
       ELSE Answer(c)
    /\ UNCHANGED <<statusVars, context, workspace, sessions, budget>>

BeginContinuation(c) ==
    /\ At(c, "free") /\ c \in Reports
    /\ owed
    /\ IF workspace = "ready"
       THEN Go(c, "continue") /\ UNCHANGED owed
       ELSE Answer(c)
    /\ UNCHANGED <<statusVars, context, workspace, sessions, budget>>

Continue(c) ==
    /\ At(c, "continue")
    /\ calls' = [calls EXCEPT ![c].at = "check", ![c].attached = context.attached,
                              ![c].launched = context.launched]
    /\ UNCHANGED <<statusVars, context, workspace, sessions, owed, budget>>

Check(c) ==
    /\ At(c, "check")
    /\ IF workspace = "ready" /\ ~(calls[c].attached /\ calls[c].launched)
       THEN /\ Enter(c, IF calls[c].attached THEN "launch" ELSE "attach")
            /\ UNCHANGED owed
       ELSE Answer(c)
    /\ UNCHANGED <<statusVars, context, workspace, sessions, budget>>

Attach(c) ==
    /\ At(c, "attach")
    /\ context' = [context EXCEPT !.attached = TRUE]
    /\ IF context.launched THEN Answer(c) ELSE Go(c, "launch") /\ UNCHANGED owed
    /\ UNCHANGED <<statusVars, workspace, sessions, budget>>

Launched(by, input) == [by |-> by, input |-> input]

(* SessionService.launchExecutionContext: the same launch as any other of this
   context, whoever continues it. *)
LaunchPlanned(c) ==
    /\ At(c, "launch")
    /\ workspace = "ready"
    /\ sessions[context.planned].by \in {"none", "context"}
    /\ sessions' = [sessions EXCEPT ![context.planned] = Launched("context", context.input)]
    /\ Go(c, "record")
    /\ UNCHANGED <<statusVars, context, workspace, owed, budget>>

FailPlanned(c) ==
    /\ At(c, "launch")
    /\ \/ workspace # "ready" /\ UNCHANGED budget
       \/ sessions[context.planned].by = "request" /\ UNCHANGED budget
       \/ Outage
    /\ Go(c, "apologise")
    /\ UNCHANGED <<statusVars, context, workspace, sessions, owed>>

Record(c) ==
    /\ At(c, "record")
    /\ context' = [context EXCEPT !.attached = TRUE, !.launched = TRUE, !.failure = "none"]
    /\ Answer(c)
    /\ UNCHANGED <<statusVars, workspace, sessions, budget>>

Apologise(c) ==
    /\ At(c, "apologise")
    /\ context' = [context EXCEPT !.attached = TRUE, !.failure = "launch"]
    /\ Answer(c)
    /\ UNCHANGED <<statusVars, workspace, sessions, budget>>
----------------------------------------------------------------------------
(* A launch of one more Session for a Task in progress. *)

SetUpMore(c) ==
    /\ At(c, "setup")
    /\ \/ /\ SetUp
          /\ IF workspace = "ready" THEN Go(c, "dispatch") /\ UNCHANGED owed ELSE Answer(c)
          /\ UNCHANGED budget
       \/ NeedsRuntime /\ Answer(c) /\ Outage /\ UNCHANGED workspace
    /\ UNCHANGED <<statusVars, context, sessions>>

(* launchForTask *)
Dispatch(c) ==
    /\ At(c, "dispatch")
    /\ workspace = "ready"
    /\ sessions[calls[c].session].by = "none"
    /\ sessions' = [sessions EXCEPT ![calls[c].session] = Launched("request", calls[c].input)]
    /\ Answer(c)
    /\ UNCHANGED <<statusVars, context, workspace, budget>>

(* Its message id is new, so a Session of that id is always a different launch. *)
DispatchConflict(c) ==
    /\ At(c, "dispatch")
    /\ workspace = "ready"
    /\ sessions[calls[c].session].by # "none"
    /\ Answer(c)
    /\ UNCHANGED <<statusVars, context, workspace, sessions, budget>>

DispatchFails(c) ==
    /\ At(c, "dispatch")
    /\ \/ workspace # "ready" /\ UNCHANGED budget
       \/ Outage
    /\ Answer(c)
    /\ UNCHANGED <<statusVars, context, workspace, sessions>>
----------------------------------------------------------------------------
(* TaskStatusService.transition, for people and for the Agent. *)

Allowed(by, from, to) ==
    <<by, from, to>> \in
        {<<"agent", "in_progress", "blocked">>, <<"agent", "blocked", "in_progress">>,
         <<"human", "pending", "canceled">>, <<"human", "in_progress", "canceled">>,
         <<"human", "blocked", "in_progress">>, <<"human", "blocked", "done">>,
         <<"human", "blocked", "canceled">>}

(* AgentExecutionService.#resolve: the execution code still opens the context. *)
Resolvable ==
    /\ context # NoContext
    /\ context.attached /\ context.launched /\ ~context.revoked
    /\ task.status \notin Terminal

BeginMove(m, by, k, to, n) ==
    /\ moves[m].at \in {"free", "done"}
    /\ Expectable(n)
    /\ by = "agent" => Resolvable
    /\ \E from \in Statuses : Allowed(by, from, to)
    /\ moves' = [moves EXCEPT ![m] = [NoMove EXCEPT !.at = "read", !.by = by, !.key = k,
                                                    !.to = to, !.expected = n]]
    /\ UNCHANGED <<task, history, context, workspace, sessions, calls, owed, budget>>

ReadTask(m) ==
    /\ moves[m].at = "read"
    /\ moves' = [moves EXCEPT ![m] =
                    IF /\ task.revision = moves[m].expected
                       /\ ~Allowed(moves[m].by, task.status, moves[m].to)
                    THEN NoMove                               \* invalid_transition
                    ELSE [moves[m] EXCEPT !.at = "move", !.from = task.status]]
    /\ UNCHANGED <<task, history, context, workspace, sessions, calls, owed, budget>>

(* #findTaskStatusReplay: the transition that this key has made, if any. *)
Made(m) == {h \in Range(history) : h.key = moves[m].key}

(* Mutant: the fingerprint is not compared. *)
RepeatsKey(m) == Made(m) # {}

(* The fingerprint: who asks for what, at which revision. *)
Repeats(m) ==
    \E h \in Made(m) :
        /\ h.by = moves[m].by /\ h.to = moves[m].to
        /\ h.revision = moves[m].expected + 1

(* Mutant: the transaction relies on what the request has read. *)
AdmissibleAsRead(m) == Made(m) = {} /\ Allowed(moves[m].by, moves[m].from, moves[m].to)

Admissible(m) ==
    /\ Made(m) = {}
    /\ moves[m].from = task.status
    /\ moves[m].expected = task.revision
    /\ Allowed(moves[m].by, task.status, moves[m].to)

(* Mutant: only the asking Agent's own context is revoked. *)
RevokedByAgent(m) ==
    IF moves[m].to \in Terminal /\ context # NoContext /\ moves[m].by = "agent"
    THEN [context EXCEPT !.revoked = TRUE]
    ELSE context

RevokedBy(m) ==
    IF moves[m].to \in Terminal /\ context # NoContext
    THEN [context EXCEPT !.revoked = TRUE]
    ELSE context

(* transitionTaskStatus *)
Transit(m) ==
    /\ moves[m].at = "move"
    /\ Admissible(m) /\ task.revision < MaxRevision
    /\ task' = [task EXCEPT !.status = moves[m].to, !.revision = moves[m].expected + 1]
    /\ history' = Append(history,
                     [key |-> moves[m].key, by |-> moves[m].by, from |-> moves[m].from,
                      to |-> moves[m].to, revision |-> moves[m].expected + 1])
    /\ context' = RevokedBy(m)
    /\ moves' = [moves EXCEPT ![m] = [@ EXCEPT !.at = "done", !.from = "pending"]]
    /\ UNCHANGED <<workspace, sessions, calls, owed, budget>>

TransitAgain(m) ==
    /\ moves[m].at = "move"
    /\ ~Admissible(m)
    /\ moves' = [moves EXCEPT ![m] =
                    IF Repeats(m) THEN [@ EXCEPT !.at = "done", !.from = "pending"] ELSE NoMove]
    /\ UNCHANGED <<task, history, context, workspace, sessions, calls, owed, budget>>
----------------------------------------------------------------------------
(* What happens around the Task. *)

(* The setup route of the Task page. *)
UserSetUp ==
    /\ task.bound /\ NeedsRuntime
    /\ SetUp
    /\ UNCHANGED <<statusVars, context, sessions, calls, owed, budget>>

Preparation ==
    /\ \E to \in Lifecycle!Phases :
          /\ workspace \in {"queued", "preparing"} /\ to # "failed"
          /\ <<workspace, to>> \in Lifecycle!Follows
          /\ workspace' = to
          /\ owed' = (owed \/ to = "ready")
    /\ UNCHANGED <<statusVars, context, sessions, calls, budget>>

PreparationFails ==
    /\ <<workspace, "failed">> \in Lifecycle!Follows
    /\ workspace' = "failed"
    /\ Outage
    /\ UNCHANGED <<statusVars, context, sessions, calls, owed>>

LoseWorkspace ==
    /\ losses < MaxLosses
    /\ <<workspace, "unavailable">> \in Lifecycle!Follows
    /\ workspace' = "unavailable"
    /\ losses' = losses + 1
    /\ UNCHANGED <<statusVars, context, sessions, calls, owed, outages, crashes>>

(* The control plane stops: what is in progress ends where it is. *)
Crash ==
    /\ crashes < MaxCrashes
    /\ crashes' = crashes + 1
    /\ calls' = [c \in Calls |-> NoCall]
    /\ moves' = [m \in Moves |-> NoMove]
    /\ UNCHANGED <<task, history, context, workspace, sessions, owed, outages, losses>>
----------------------------------------------------------------------------
Step(c) ==
    \/ LookAtOwn(c) \/ LookAtOther(c) \/ Start(c) \/ Assign(c)
    \/ Prepare(c) \/ GiveUp(c) \/ Bind(c)
    \/ Continue(c) \/ Check(c) \/ Attach(c)
    \/ LaunchPlanned(c) \/ FailPlanned(c) \/ Record(c) \/ Apologise(c)
    \/ SetUpMore(c) \/ Dispatch(c) \/ DispatchConflict(c) \/ DispatchFails(c)

ProductionNext ==
    \/ \E c \in Calls :
          \/ \E i \in Inputs : \/ \E s \in Sessions : BeginLaunch(c, s, i)
                               \/ \E k \in StartKeys : BeginStart(c, k, i)
          \/ BeginContinuation(c)
          \/ Step(c)
    \/ \E m \in Moves :
          \/ \E by \in People, k \in StatusKeys, to \in Statuses, n \in Revisions :
                BeginMove(m, by, k, to, n)
          \/ ReadTask(m) \/ Transit(m) \/ TransitAgain(m)
    \/ UserSetUp \/ Preparation \/ PreparationFails \/ LoseWorkspace \/ Crash

ProductionSpec == ProductionInit /\ [][ProductionNext]_vars

(* The control plane goes on with the requests it has; the Runner repeats its
   report until it is answered.  Nobody has to start, launch, set up or move. *)
Fairness ==
    /\ \A c \in Calls : WF_vars(Step(c))
    /\ \A c \in Reports : WF_vars(BeginContinuation(c))

FairProductionSpec == ProductionSpec /\ Fairness
----------------------------------------------------------------------------
ProductionTypeOK ==
    /\ task \in Task
    /\ history \in Seq(Transition)
    /\ context \in Context \cup {NoContext}
    /\ workspace \in Lifecycle!Phases
    /\ sessions \in [Sessions -> Session]
    /\ calls \in [Calls -> Call]
    /\ moves \in [Moves -> Move]
    /\ owed \in BOOLEAN
    /\ outages \in 0..MaxOutages /\ crashes \in 0..MaxCrashes /\ losses \in 0..MaxLosses

(* The history is one chain: each transition leaves the status that the one before
   reached, at the next revision, and the Task is where the last one left it;
   whoever raced for the same revision, one of them made it.  No key has made
   two transitions. *)
HistoryChains ==
    /\ Len(history) = task.revision - 1
    /\ \A n \in DOMAIN history :
          /\ history[n].revision = n + 1
          /\ history[n].from = IF n = 1 THEN "pending" ELSE history[n - 1].to
          /\ \A k \in 1..(n - 1) : history[k].key # history[n].key
    /\ task.status = IF history = << >> THEN "pending" ELSE history[Len(history)].to

(* A Task has a production context exactly if somebody started it: then its first
   transition is the Start with the context's key, and there is no other Start. *)
ContextIsStart ==
    /\ context # NoContext =>
          history # << >> /\ history[1].by = "assign" /\ history[1].key = context.key
    /\ \A n \in DOMAIN history :
          history[n].by = "assign" => n = 1 /\ context # NoContext

(* The Agent's capability ends with the Task and not before. *)
RevokedIffTerminal ==
    context # NoContext => (context.revoked <=> task.status \in Terminal)

(* The planned Session is only ever launched from the context, with the message
   frozen at the Start, and the context names it only when it exists: not one of
   the continuations, repeated launches and launches of further Sessions that run
   at the same time makes another one in its place. *)
SessionOfContext ==
    context # NoContext =>
        /\ sessions[context.planned].by # "request"
        /\ context.launched => sessions[context.planned] = Launched("context", context.input)

(* An answered status request has made the transition it asked for, once, perhaps
   in an earlier try. *)
AnswerRecorded ==
    \A m \in Moves : moves[m].at = "done" =>
        \E n \in DOMAIN history :
            /\ history[n].key = moves[m].key /\ history[n].by = moves[m].by
            /\ history[n].to = moves[m].to /\ history[n].revision = moves[m].expected + 1

(* An Agent moves the Task only while its capability is open, however long ago the
   request was let in. *)
AgentFenced ==
    [][ Len(history') > Len(history) /\ Last(history').by = "agent" => Resolvable ]_vars

(* A started Task whose Workspace gets ready has its Session in the end, if no
   service fails: the report of the Runner is repeated across restarts of the
   control plane. *)
SessionFollows ==
    (context # NoContext /\ workspace = "ready") ~>
        (context.launched \/ workspace = "unavailable" \/ outages > 0)
=============================================================================
