---------------------------- MODULE TaskWorkflow ----------------------------
(***************************************************************************)
(* The fixed Workflow of one Task with one Workspace: managers enable and    *)
(* disable it, its Sessions are bound to the state they were launched under,  *)
(* and their Agents read it, move it on, install the Skills they are answered  *)
(* with and report them.  A request is one step for each call of the       *)
(* database that it awaits: it looks up the Skills one by one, and commits     *)
(* what it has found later.                                                  *)
(*                                                                         *)
(* The Skill library is the one SkillCatalog promises.                      *)
(***************************************************************************)
EXTENDS Naturals, FiniteSets

CONSTANTS States,        \* ids of TaskWorkflowState rows, which enabling takes
          Sessions,      \* Sessions of the Task
          Commands,      \* command ids of transitions
          Calls,         \* launches and requests of Agents in progress at a time
          Managers,      \* requests to enable the Workflow in progress at a time
          Skills, Named, \* Skills of the Team, and the name of each
          Stocked,       \* those that have a revision in the beginning
          Changing,      \* bound: those that are published and archived meanwhile
          MaxChanges,    \* bound: transitions, and twice the enablings
          MaxRevision    \* bound: the revisions of a Skill

VARIABLES states,        \* states[x]: a TaskWorkflowState row
          transitions,   \* the TaskWorkflowTransition rows
          capabilities,  \* capabilities[s]: the SessionWorkflowCapability row
          sources,       \* the WorkspaceSkillSource rows
          projections,   \* projections[k]: the WorkspaceSkillProjection row
          catalog, calls, managers

vars == <<states, transitions, capabilities, sources, projections, catalog, calls, managers>>
desired == <<sources, projections>>

Catalog == INSTANCE SkillCatalog
----------------------------------------------------------------------------
(* FIXED_WORKFLOW_DEFINITION; a Skill has the name of the scope that asks for it. *)
Stages == {"understand", "implement", "verify", "completed"}
Scopes == {"global", "understand", "implement", "verify"}
Contributions(stage) == {"global", stage} \ {"completed"}

Actions == {"understanding-complete", "implementation-complete",
            "verification-failed", "verification-passed"}
FromStage ==
    [a \in Actions |-> CASE a = "understanding-complete" -> "understand"
                         [] a = "implementation-complete" -> "implement"
                         [] OTHER -> "verify"]
ToStage ==
    [a \in Actions |-> CASE a = "implementation-complete" -> "verify"
                         [] a = "verification-passed" -> "completed"
                         [] OTHER -> "implement"]

(* A state has version 1 when it is enabled, and each change adds one. *)
Versions == 1..(MaxChanges + 1)

State == [life : {"none", "active", "disabled"}, stage : Stages, version : Versions]
NoState == [life |-> "none", stage |-> "understand", version |-> 1]

Transition == [state : States, command : Commands, action : Actions,
               version : Versions]                       \* fromStateVersion

Capability == [state : States \cup {"none"}, revoked : BOOLEAN]
NoCapability == [state |-> "none", revoked |-> FALSE]

Lookup == [scope : Scopes, skill : Skills, revision : Nat]
Source == [state : States, scope : Scopes, skill : Skills, revision : Nat,
           generation : Versions]

Projection == [revision : Nat, generation : Versions \cup {0},
               applied : Versions \cup {0}, status : {"none", "pending", "ready", "failed"}]
NoProjection == [revision |-> 0, generation |-> 0, applied |-> 0, status |-> "none"]

Call == [at : {"free", "look", "replace", "bind", "commit", "assign", "install", "correct",
               "write"},
         kind : {"none", "launch", "current", "transition"},
         session : Sessions \cup {"none"}, state : States \cup {"none"},
         generation : Versions,     \* of the Skills looked up, then of the assignment
         need : SUBSET Scopes, found : SUBSET Lookup,
         command : Commands \cup {"none"}, action : Actions \cup {"none"},
         installed : SUBSET Skills,          \* those downloaded
         outcome : {"ready", "failed"}]
NoCall == [at |-> "free", kind |-> "none", session |-> "none", state |-> "none",
           generation |-> 1, need |-> {}, found |-> {}, command |-> "none", action |-> "none",
           installed |-> {}, outcome |-> "ready"]

ASSUME IdsAssumption ==
    "none" \notin States \cup Sessions \cup Commands
ASSUME NamedAssumption ==
    Named \in [Skills -> Scopes] /\ Stocked \subseteq Skills /\ Changing \subseteq Skills
ASSUME BoundsAssumption == MaxChanges \in Nat /\ MaxRevision \in Nat
----------------------------------------------------------------------------
WorkflowInit ==
    /\ states = [x \in States |-> NoState]
    /\ transitions = {}
    /\ capabilities = [s \in Sessions |-> NoCapability]
    /\ sources = {}
    /\ projections = [k \in Skills |-> NoProjection]
    /\ catalog = [k \in Skills |-> [current |-> IF k \in Stocked THEN 1 ELSE 0,
                                    archived |-> FALSE]]
    /\ calls = [c \in Calls |-> NoCall]
    /\ managers = [g \in Managers |-> "free"]

Enabled == {x \in States : states[x].life # "none"}

WithinBound == 2 * Cardinality(Enabled) + Cardinality(transitions) < MaxChanges

Active == {x \in States : states[x].life = "active"}

At(c, point) == calls[c].at = point

Answer(c) == calls' = [calls EXCEPT ![c] = NoCall]
----------------------------------------------------------------------------
(* #replaceWorkflowSkillSourcesInTransaction: the sources of one state give way to
   others, and the projections follow. *)

(* Mutant: only the sources of the scopes that are written give way. *)
ReplacedInScope(x, new) ==
    {q \in sources : q.state # x \/ q.scope \notin {p.scope : p \in new}} \cup new

Replaced(x, new) == {q \in sources : q.state # x} \cup new

Deliverable(new) == \A q \in new : Catalog!Offered(q.skill)

(* No two sources ask for different revisions of a Skill. *)
Agreed(all) == \A p, q \in all : p.skill = q.skill => p.revision = q.revision

Newest(all, k) ==
    CHOOSE q \in all : q.skill = k /\ \A p \in all : p.skill = k => p.generation <= q.generation

Wanted(all, k) ==
    LET q == Newest(all, k)
        p == projections[k]
    IN  IF p.status # "none" /\ p.revision = q.revision /\ p.generation = q.generation
        THEN p
        ELSE [revision |-> q.revision, generation |-> q.generation, applied |-> 0,
              status |-> "pending"]

Replace(x, new) ==
    LET all == Replaced(x, new)
    IN  /\ sources' = all
        /\ projections' = [k \in Skills |-> IF \E q \in all : q.skill = k THEN Wanted(all, k)
                                                                       ELSE NoProjection]

Replaceable(x, new) == Deliverable(new) /\ Agreed(Replaced(x, new))

SourcesOf(c) ==
    {[state |-> calls[c].state, scope |-> q.scope, skill |-> q.skill, revision |-> q.revision,
      generation |-> calls[c].generation] : q \in calls[c].found}
----------------------------------------------------------------------------
(* WorkflowManagementService *)

(* #preflightSkills, when no state is active *)
Preflight(g) ==
    /\ managers[g] = "free"
    /\ Active = {}
    /\ \A scope \in Scopes : \E k \in Skills : Named[k] = scope /\ Catalog!Offered(k)
    /\ managers' = [managers EXCEPT ![g] = "checked"]
    /\ UNCHANGED <<states, transitions, capabilities, desired, catalog, calls>>

(* enableTaskWorkflow: the active key is unique, so a request that finds a state active
   when it inserts its own returns that one; one that repeats its command returns
   what it made before. *)
Enable(g, x) ==
    /\ managers[g] = "checked"
    /\ Active = {} /\ states[x].life = "none" /\ WithinBound
    /\ states' = [states EXCEPT ![x].life = "active"]
    /\ managers' = [managers EXCEPT ![g] = "free"]
    /\ UNCHANGED <<transitions, capabilities, desired, catalog, calls>>

EnableAgain(g) ==
    /\ managers[g] = "checked" /\ Enabled # {}
    /\ managers' = [managers EXCEPT ![g] = "free"]
    /\ UNCHANGED <<states, transitions, capabilities, desired, catalog, calls>>

CutOff(x) ==
    [s \in Sessions |-> IF capabilities[s].state = x
                        THEN [capabilities[s] EXCEPT !.revoked = TRUE]
                        ELSE capabilities[s]]

(* disableTaskWorkflow, asked for at the version the state has. *)
Disable(x) ==
    /\ x \in Active
    /\ Replaceable(x, {})
    /\ states' = [states EXCEPT ![x].life = "disabled", ![x].version = @ + 1]
    /\ capabilities' = CutOff(x)
    /\ Replace(x, {})
    /\ UNCHANGED <<transitions, catalog, calls, managers>>
----------------------------------------------------------------------------
(* The requests of Sessions, up to the Skills they look up. *)

(* resolveWorkflowExecution *)
Resolved(s) ==
    /\ capabilities[s].state # "none" /\ ~capabilities[s].revoked
    /\ capabilities[s].state \in Active

Looking(kind, s, x, stage, generation) ==
    [NoCall EXCEPT !.at = "look", !.kind = kind, !.session = s, !.state = x,
                   !.generation = generation, !.need = Contributions(stage)]

(* WorkflowSessionLaunchService.prepare; without an active state the Session is
   launched without a capability, for good. *)
BeginLaunch(c, s) ==
    /\ At(c, "free")
    /\ capabilities[s] = NoCapability /\ \A d \in Calls : calls[d].session # s
    /\ \E x \in Active :
          calls' = [calls EXCEPT ![c] =
                       Looking("launch", s, x, states[x].stage, states[x].version)]
    /\ UNCHANGED <<states, transitions, capabilities, desired, catalog, managers>>

(* WorkflowWorkloadService.current *)
BeginCurrent(c, s) ==
    /\ At(c, "free")
    /\ Resolved(s)
    /\ LET x == capabilities[s].state
       IN  calls' = [calls EXCEPT ![c] =
                        Looking("current", s, x, states[x].stage, states[x].version)]
    /\ UNCHANGED <<states, transitions, capabilities, desired, catalog, managers>>

(* WorkflowWorkloadService.transition: an action of another stage is refused here
   only for the version that the state has.  The Agent asks at that version (its
   request is stale when it commits, if another has committed first) or repeats a
   request that was answered. *)
BeginTransition(c, s) ==
    /\ At(c, "free")
    /\ Resolved(s)
    /\ LET x == capabilities[s].state
       IN  \E k \in Commands, a \in Actions, n \in 1..states[x].version :
              /\ \/ n = states[x].version /\ states[x].stage = FromStage[a]
                 \/ [state |-> x, command |-> k, action |-> a, version |-> n] \in transitions
              /\ calls' = [calls EXCEPT ![c] =
                              [Looking("transition", s, x, ToStage[a], n + 1)
                                  EXCEPT !.command = k, !.action = a]]
    /\ UNCHANGED <<states, transitions, capabilities, desired, catalog, managers>>

(* WorkflowSkillProjectionService.resolve: the global Skill is looked up first. *)
NextScope(c) ==
    IF "global" \in calls[c].need THEN "global" ELSE CHOOSE scope \in calls[c].need : TRUE

(* ... and after those of the next stage the ones of the stage that is left, whose
   revisions nothing depends on: they are looked up together with the last one. *)
LookedBack(c) ==
    calls[c].kind = "transition" =>
        \A scope \in Contributions(FromStage[calls[c].action]) :
            \E k \in Skills : Named[k] = scope /\ Catalog!Offered(k)

LookUp(c) ==
    /\ At(c, "look")
    /\ LET scope == NextScope(c)
           rest == calls[c].need \ {scope}
           after == IF rest # {} THEN "look"
                    ELSE IF calls[c].kind = "transition" THEN "commit" ELSE "replace"
       IN  /\ rest = {} => LookedBack(c)
           /\ \E k \in Skills :
                 /\ Named[k] = scope /\ Catalog!Offered(k)
                 /\ calls' = [calls EXCEPT
                                 ![c].at = after, ![c].need = rest,
                                 ![c].found = @ \cup {[scope |-> scope, skill |-> k,
                                                       revision |-> catalog[k].current]}]
    /\ UNCHANGED <<states, transitions, capabilities, desired, catalog, managers>>

(* workflow_skill_resolution_failed *)
LookUpFails(c) ==
    /\ At(c, "look")
    /\ \/ \A k \in Skills : Named[k] = NextScope(c) => ~Catalog!Offered(k)
       \/ calls[c].need = {NextScope(c)} /\ ~LookedBack(c)
    /\ Answer(c)
    /\ UNCHANGED <<states, transitions, capabilities, desired, catalog, managers>>
----------------------------------------------------------------------------
(* ... and what they commit. *)

(* The answer: the Skills that were looked up and the version of the state it is made
   from, which is the generation that the Agent will report. *)
Installing(c, version) ==
    [NoCall EXCEPT !.at = "install", !.session = calls[c].session,
                   !.generation = version, !.found = calls[c].found]

Binding(c) ==
    [NoCall EXCEPT !.at = "bind", !.session = calls[c].session, !.state = calls[c].state]

(* reconcile: whatever has become of the state since. *)
Reconcile(c) ==
    /\ At(c, "replace")
    /\ Replaceable(calls[c].state, SourcesOf(c))
    /\ Replace(calls[c].state, SourcesOf(c))
    /\ calls' = [calls EXCEPT ![c] = IF @.kind = "launch" THEN Binding(c)
                                     ELSE Installing(c, calls[c].generation)]
    /\ UNCHANGED <<states, transitions, capabilities, catalog, managers>>

ReconcileFails(c) ==
    /\ At(c, "replace")
    /\ ~Replaceable(calls[c].state, SourcesOf(c))
    /\ Answer(c)
    /\ UNCHANGED <<states, transitions, capabilities, desired, catalog, managers>>

(* Mutant: the state was active when the launch read it. *)
BindableAsRead(c) == TRUE

Bindable(c) == calls[c].state \in Active

(* createSessionWithEvents, as far as the capability goes *)
Bind(c) ==
    /\ At(c, "bind")
    /\ capabilities' = IF Bindable(c)
                       THEN [capabilities EXCEPT ![calls[c].session] =
                                [state |-> calls[c].state, revoked |-> FALSE]]
                       ELSE capabilities
    /\ Answer(c)
    /\ UNCHANGED <<states, transitions, desired, catalog, managers>>

Row(c) == [state |-> calls[c].state, command |-> calls[c].command,
           action |-> calls[c].action, version |-> calls[c].generation - 1]

(* The payload hash covers the command id, the action and the version. *)
Repeats(c) == Row(c) \in transitions

(* Mutant: only a repetition of the very same request counts as one. *)
AdmissibleAnyCommand(c) ==
    LET x == calls[c].state
    IN  /\ x \in Active /\ Resolved(calls[c].session)
        /\ states[x].stage = FromStage[calls[c].action]
        /\ states[x].version = calls[c].generation - 1

Admissible(c) ==
    LET x == calls[c].state
    IN  /\ x \in Active /\ Resolved(calls[c].session)
        /\ states[x].stage = FromStage[calls[c].action]
        /\ states[x].version = calls[c].generation - 1
        /\ \A t \in transitions : t.state = x => t.command # calls[c].command

(* transitionTaskWorkflow *)
Commit(c) ==
    /\ At(c, "commit")
    /\ Admissible(c) /\ WithinBound
    /\ Replaceable(calls[c].state, SourcesOf(c))
    /\ states' = [states EXCEPT ![calls[c].state].stage = ToStage[calls[c].action],
                                ![calls[c].state].version = calls[c].generation]
    /\ transitions' = transitions \cup {Row(c)}
    /\ Replace(calls[c].state, SourcesOf(c))
    /\ calls' = [calls EXCEPT ![c] = Installing(c, calls[c].generation)]
    /\ UNCHANGED <<capabilities, catalog, managers>>

(* findReplay: a repetition is answered from the row that the state has now, but with the
   Skills of the stage that its own transition led to. *)
CommitFails(c) ==
    /\ At(c, "commit")
    /\ ~(Admissible(c) /\ Replaceable(calls[c].state, SourcesOf(c)))
    /\ calls' = [calls EXCEPT ![c] = IF Repeats(c)
                                     THEN Installing(c, states[calls[c].state].version)
                                     ELSE NoCall]
    /\ UNCHANGED <<states, transitions, capabilities, desired, catalog, managers>>
----------------------------------------------------------------------------
(* RuntimeSessionService.#resolveWorkflowSkills: a claim of the Session reads the state ... *)
BeginAssignment(c, s) ==
    /\ At(c, "free")
    /\ Resolved(s)
    /\ LET x == capabilities[s].state
       IN  calls' = [calls EXCEPT ![c] = [NoCall EXCEPT !.at = "assign", !.session = s,
                                                        !.generation = states[x].version]]
    /\ UNCHANGED <<states, transitions, capabilities, desired, catalog, managers>>

AsProjected ==
    {[scope |-> Named[k], skill |-> k, revision |-> projections[k].revision] :
        k \in {k \in Skills : projections[k] # NoProjection}}

(* ... and then assigns to the Runner whatever the Workspace is to have, if all of it has
   the generation of that state. *)
Assign(c) ==
    /\ At(c, "assign")
    /\ calls' = [calls EXCEPT ![c] =
                    IF \A q \in AsProjected : projections[q.skill].generation = @.generation
                    THEN [@ EXCEPT !.at = "install", !.found = AsProjected]
                    ELSE NoCall]
    /\ UNCHANGED <<states, transitions, capabilities, desired, catalog, managers>>

(* The Agent's CLI or the Runner downloads and installs the Skills it was assigned, and
   reports whether it could. *)
Assigned(c) == {q.skill : q \in calls[c].found}

(* materializeWorkflowSkills downloads the Skills one by one, in the order of their ids. *)
Missing(c) == {q \in calls[c].found : q.skill \notin calls[c].installed}

(* WorkflowSkillExecutionDeliveryService.download: only a revision that the Workspace is
   to have is handed out. *)
Download(c) ==
    /\ At(c, "install") /\ Missing(c) # {}
    /\ Resolved(calls[c].session)
    /\ LET q == CHOOSE q \in Missing(c) : TRUE
       IN  /\ projections[q.skill].revision = q.revision
           /\ calls' = [calls EXCEPT ![c].installed = @ \cup {q.skill}]
    /\ UNCHANGED <<states, transitions, capabilities, desired, catalog, managers>>

(* It throws: a download is refused, or anything else fails. *)
Correct(c) == calls' = [calls EXCEPT ![c].at = "correct", ![c].installed = {}]

InstallFails(c) ==
    /\ At(c, "install")
    /\ Correct(c)
    /\ UNCHANGED <<states, transitions, capabilities, desired, catalog, managers>>

MayReport(c, outcome) ==
    \/ At(c, "install") /\ outcome = "ready" /\ Missing(c) = {}
    \/ At(c, "correct") /\ outcome = "failed"

(* WorkflowSkillExecutionDeliveryService.report: who reports and of which Skills is
   looked at first ... *)
Report(c, outcome) ==
    /\ MayReport(c, outcome)
    /\ Resolved(calls[c].session)
    /\ \A k \in Assigned(c) : projections[k] # NoProjection
    /\ calls' = [calls EXCEPT ![c].at = "write", ![c].installed = {}, ![c].outcome = outcome]
    /\ UNCHANGED <<states, transitions, capabilities, desired, catalog, managers>>

(* A report of success that is refused, or not accepted in full, is followed by one of
   failure. *)
AfterRefusal(c, outcome) ==
    IF outcome = "ready" THEN Correct(c) ELSE Answer(c)

ReportRefused(c, outcome) ==
    /\ MayReport(c, outcome)
    /\ \/ ~Resolved(calls[c].session)
       \/ \E k \in Assigned(c) : projections[k] = NoProjection
    /\ AfterRefusal(c, outcome)
    /\ UNCHANGED <<states, transitions, capabilities, desired, catalog, managers>>

(* Mutant: a report is accepted whatever generation it is about. *)
CurrentAlways(c, k) == TRUE

Current(c, k) == projections[k].generation = calls[c].generation

(* ... and reportWorkspaceSkillProjection is called for all of them at once.  Each call
   updates a row of its own, and only in the generation that is reported: one step. *)
Write(c) ==
    /\ At(c, "write")
    /\ projections' = [k \in Skills |->
                         IF k \in Assigned(c) /\ Current(c, k)
                         THEN [projections[k] EXCEPT !.applied = calls[c].generation,
                                                     !.status = calls[c].outcome]
                         ELSE projections[k]]
    /\ IF \A k \in Assigned(c) : Current(c, k)
       THEN Answer(c)
       ELSE AfterRefusal(c, calls[c].outcome)
    /\ UNCHANGED <<states, transitions, capabilities, sources, catalog, managers>>

(* The CLI or the control plane stops, or an answer is lost. *)
GiveUp(c) ==
    /\ ~At(c, "free")
    /\ Answer(c)
    /\ UNCHANGED <<states, transitions, capabilities, desired, catalog, managers>>

(* Meanwhile Skills are published and, at the bound, archived. *)
Library ==
    /\ \E k \in Changing : IF catalog[k].current < MaxRevision
                            THEN Catalog!Publish(k)
                            ELSE Catalog!Archive(k)
    /\ UNCHANGED <<states, transitions, capabilities, desired, calls, managers>>
----------------------------------------------------------------------------
WorkflowNext ==
    \/ \E g \in Managers : Preflight(g) \/ EnableAgain(g) \/ \E x \in States : Enable(g, x)
    \/ \E x \in States : Disable(x)
    \/ \E c \in Calls :
          \/ \E s \in Sessions :
                \/ BeginLaunch(c, s) \/ BeginCurrent(c, s) \/ BeginTransition(c, s)
                \/ BeginAssignment(c, s)
          \/ LookUp(c) \/ LookUpFails(c)
          \/ Reconcile(c) \/ ReconcileFails(c) \/ Bind(c) \/ Commit(c) \/ CommitFails(c)
          \/ Assign(c) \/ Download(c) \/ InstallFails(c)
          \/ \E outcome \in {"ready", "failed"} : Report(c, outcome) \/ ReportRefused(c, outcome)
          \/ Write(c)
          \/ GiveUp(c)
    \/ Library

WorkflowSpec == WorkflowInit /\ [][WorkflowNext]_vars
----------------------------------------------------------------------------
WorkflowTypeOK ==
    /\ states \in [States -> State]
    /\ transitions \subseteq Transition
    /\ capabilities \in [Sessions -> Capability]
    /\ sources \subseteq Source
    /\ projections \in [Skills -> Projection]
    /\ catalog \in [Skills -> [current : Nat, archived : BOOLEAN]]
    /\ calls \in [Calls -> Call]
    /\ managers \in [Managers -> {"free", "checked"}]

(* The stage a state had at a version: where the transition before it led. *)
StageAt(x, n) ==
    IF n = 1 THEN "understand"
    ELSE ToStage[(CHOOSE t \in transitions : t.state = x /\ t.version = n - 1).action]

(* The transitions of a state are one path through the stages: one from each version
   below the last, each from the stage the one before led to, none twice under one
   command, and the state is where the last one led.  Disabling counts as a version
   and leaves the stage.  At most one state is active. *)
TransitionsOf(x) == {t \in transitions : t.state = x}
StagePath ==
    /\ Cardinality(Active) <= 1
    /\ \A x \in States :
          LET last == IF states[x].life = "disabled" THEN states[x].version - 1
                      ELSE states[x].version
          IN  /\ Cardinality(TransitionsOf(x)) = last - 1
              /\ \A n \in 1..(last - 1) : \E t \in TransitionsOf(x) :
                    t.version = n /\ FromStage[t.action] = StageAt(x, n)
              /\ \A t, u \in TransitionsOf(x) : t.command = u.command => t = u
              /\ states[x].stage = StageAt(x, last)

(* A Session can use the Workflow exactly as long as the state it was launched under is
   active: neither a launch that was under way when the Workflow was disabled nor a
   later state gives it another. *)
BoundWhileActive ==
    \A s \in Sessions : capabilities[s].state # "none" =>
        (capabilities[s].revoked <=> capabilities[s].state \notin Active)

(* What the Workspace is to have is the whole of what one stage asks for: the sources of
   a state are those of the stage it had at their generation, for each of its scopes one,
   and there is a projection exactly of each Skill with a source, at the source's
   revision and newest generation, settled at that generation or not at all.  Stale
   requests may put an earlier stage back, but never parts of two, and whoever reports,
   also the Agent of a transition that was answered again, settles a wanted Skill at the
   generation it is wanted for. *)
DesiredOfOneStage ==
    /\ \A x \in States :
          LET own == {q \in sources : q.state = x}
          IN  \A q \in own :
                 /\ q.generation <= states[x].version
                 /\ {p.scope : p \in own} = Contributions(StageAt(x, q.generation))
                 /\ \A p \in own : /\ p.generation = q.generation
                                   /\ p.scope = q.scope => p = q
    /\ \A k \in Skills :
          LET of == {q \in sources : q.skill = k}
              p == projections[k]
          IN  /\ p = NoProjection <=> of = {}
              /\ \A q \in of : q.revision = p.revision /\ q.generation <= p.generation
              /\ p # NoProjection =>
                    /\ \E q \in of : q.generation = p.generation
                    /\ p.applied = IF p.status = "pending" THEN 0 ELSE p.generation
=============================================================================
