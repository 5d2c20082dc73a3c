# Mystra in TLA+

Mystra is a control plane (Next.js, Prisma over PostgreSQL or SQLite) that runs coding
agents on host Runtimes. A *Task* is worked on in a *Workspace*; a *Session* is one
conversation with a Provider process (Codex, Copilot, Pi) that a *runner daemon* starts in
that Workspace. The control plane owns every durable fact; runners poll it over HTTP, claim
work, and post what happened.

This directory models the parts of that system whose correctness depends on the order in
which several actors act, checks them with TLC on small instances, and proves with TLAPS, for every
value of the constants, every safety property that a run checks. Paths below are relative to the
repository root.

## 1. Inventory

### Components, their state and their operations

| Component | State | Operations |
|---|---|---|
| Event projection (`packages/shared/src/session.ts`, `state.ts`) | none: a pure function of a Session row and an event | `applySessionEventProjection`, `canTransitionSessionState` |
| Session ledger (`apps/control-plane/src/lib/db/prisma-provider.ts`) | tables Session, SessionEvent, SessionEventHead, SessionEventStream, SessionDispatchLease | `createSessionWithEvents`, `appendSessionEvents`, `claimSession`, `listExpiredSessionLeases` |
| Session services and runner routes (`lib/sessions`, `app/api/runner/sessions`) | what a handler has read before it writes | `sendMessage`, `close`, `claim`, `reconcileExpiredLeases`, `appendEvents` |
| Runner loop and workers (`apps/runner-daemon/src/session`) | the `active` set, one worker per assignment, one HTTP call per worker | `runSessionLoop`, `executeSessionAssignment`, `appendEvents` with three attempts |
| Runner daemon and liveness (`apps/runner-daemon/src/index.ts`, `lib/runtime`) | the process, an abort signal, an in-memory map of last heartbeats | register, heartbeat, discovery report, SIGTERM, crash |
| Workspace preparation (`lib/task-workspaces`, `workspace-loop.ts`, `workspace-materializer.ts`) | TaskWorkspace, WorkspacePreparationAttempt with a claim lease | create, retry, claim with expiry of timed-out attempts, complete, mark unavailable |
| Task production and Session launch (`lib/tasks`, `lib/sessions/task-session-launch-service.ts`) | Task, TaskExecutionContext; what a request has read | start with its replay, set up, bind, continue when the Workspace is ready, launch in three branches |
| Task status and Agent execution (`lib/tasks`) | Task.status and revision, TaskStatusTransition with idempotency keys | compare-and-set transition for people and the Agent; done and canceled revoke the execution capability |
| Skill publication (`lib/skills`) | Skill, SkillRevision, publication status, the object store | reserve, head, put, finalize, fail, archive |
| Task workflow and Skill projection (`lib/workflows`) | TaskWorkflowState and its transitions, SessionWorkflowCapability, WorkspaceSkillSource, WorkspaceSkillProjection | enable, disable, bind a launch, current, transition, reconcile, report |
| Integration events (`lib/events`) | in one process: the inbox and its byte count, the dedup table, subscriptions, connections with their send queues | admit, drain, expire, process, dispatch; upgrade, subscribe, unsubscribe, disconnect; shut down |
| Agent CLI (`packages/agent-cli`) | local Skill directories, one event connection | install and report Skills; a reconnecting events client |
| Authentication, Teams and roles (`lib/auth`, `lib/rbac`, `app/api/teams`) | User, Team, TeamMembership, AuthSession with its active Team | register, log in, end a login session, resolve the Team of a request, create, archive and switch Teams, add and remove members, change roles, deactivate |
| Secrets, git, GitHub, Linear, UI, operator command line | rows changed one at a time, external services, rendering | not modelled, see section 8 |

### Interactions

    user --setup/retry--> workspace service ---+
                                                |  serializable transactions
    workspace loop --claim--> claim route ------+--> TaskWorkspace, attempts
        |                                       |
        +--materialize--> host directory        +--> continuation of the task
        +--report (resent until answered)-------+

    user --sendMessage/close--> session service --+
                                                   |  serializable transactions
    runner loop --claim--> claim route --reaper----+--> session ledger
        |                                          |
        +--worker--appendEvents (lease token)------+
                |
                +-- Provider process

    user --start/launch/status--> task services --+--> Task, context, transitions
    Runner's report of a ready workspace ---------+        |
        continueAfterWorkspaceReady               |        +--> launch of the planned Session
    Agent --status/workflow/skill report----------+--> workflow state, sources, projections
    user --publish/archive--> Skill library ------+--> Skill revisions, object store

    webhook --> inbox --> worker --> dedup --> router --> connections of event clients

Every fact that is to last goes through a serializable transaction. Between two transactions every
caller works on what it remembers: `sendMessage` on the session it read, the reaper on the
leases it listed, the runner on an assignment whose lease may since have been renewed,
expired or deleted.

### What is hard here

* The reaper awaits between listing, checking and failing a session.
* A request whose answer is lost is sent again while its first copy may still be processed.
* The loop claims the next message of a session whose worker has not quite finished.
* Start events come from an output callback while the Provider process runs.
* The daemon dies with answers under way; the control plane restarts and forgets every
  heartbeat; a serializable transaction is aborted and not retried.
* Preparing a workspace may take longer than the sixty seconds of its claim; claims whose
  Runner is gone go on polling; reports are resent and arrive late; the host keeps directories
  the control plane has given up.
* The projection accepts many paths (interruptions, handoffs, follow-ups) through the same
  states.
* Starts, launches, continuations and status changes of one Task read it, its context and its
  Workspace in separate calls and write later; each may be repeated.
* A publication is spread over two transactions and three calls of a store; another request
  for the same archive may be anywhere in between.
* The Skills of a stage are looked up one by one and written together, when the stage, the
  Workflow or the library may have changed; their installation is reported later still, also
  the one that a repeated transition was answered with.
* A request is permitted on a role and a Team it has read, and acts in a later transaction.
* Event workers overlap, are aborted while they run, and meet connections that come, fill up
  and go; authorizations are awaited in between.

`PROJECT.json` lists each hazard at its line with the properties that watch it.

### What makes each component correct

* Ledger: append-only, contiguous per session and per source, one submission and one outcome
  per message, causal order, a lease exactly while a Runtime owns the session, terminal
  states final.
* Execution: one worker per message, one Provider session per session, worker and ledger in
  step, launched sessions served, ended processes accounted for, sessions of dead Runtimes
  failed.
* Workspaces: an attempt in one hand at a time, no completion of an attempt that expired or
  was superseded, a ready workspace only over a published directory, nothing left queued or
  preparing for ever, and readiness passed on to the task.
* Tasks: transitions form one chain, a key decides one transition, one production per task,
  one planned Session per production and only from its context, a capability that ends with
  the Task, and a Session for a ready Workspace in the end.
* Skills: ready revisions form one numbered, stored chain; outcomes are final; a name is on
  offer once.
* Workflows: one path through the stages and at most one active state; a Session is bound as
  long as its state is active; the Skills wanted are those of one stage.
* Teams: a Team in use has an Owner and an active User a Team in use, whatever races.
* Events: delivered once in the dedup window, only to subscriptions older than the request;
  inbox and router keep true books.

## 2. Modules

| Module | Models | Composition |
|---|---|---|
| `SessionProjection` | `applySessionEventProjection` and the transition table | constants `Messages`, `NoMessage` |
| `SessionLedger` | the five session tables and their transactions | extends `SessionProjection` |
| `SessionLedger_proofs` | theorems about `SessionLedger` | extends it and `TLAPS` |
| `MCSessionLedger` | one session, two messages, adversarial batches | extends `SessionLedger` |
| `SessionExecution` | the callers: services, routes, loop, workers, network, daemon | extends `SessionLedger`; implements `LedgerSpec` |
| `SessionExecution_proofs` | theorems about `SessionExecution` | extends it and `SessionLedger_proofs` |
| `MCSessionExecution` | small instances | extends `SessionExecution` |
| `WorkspaceLifecycle` | what the control plane promises of a workspace's state | abstract specification |
| `WorkspacePreparation` | setup, claim, report and availability requests, the Runner's workspace loop, leases, directories | implements `WorkspaceLifecycle` |
| `WorkspacePreparation_proofs` | theorems about `WorkspacePreparation` | extends it and `TLAPS` |
| `MCWorkspacePreparation` | small instances | extends `WorkspacePreparation` |
| `TaskProduction` | Starts, launches, continuations and status requests of one Task | relies on `WorkspaceLifecycle` |
| `TaskProduction_proofs`, `MCTaskProduction` | theorems; instances | extend `TaskProduction` |
| `SkillCatalog` | what the Skill library promises its readers | abstract specification |
| `SkillPublication` | reservations, uploads and finalization of the Skills of one name | implements `SkillCatalog` |
| `SkillPublication_proofs`, `MCSkillPublication` | theorems; instances | extend `SkillPublication` |
| `TaskWorkflow` | Workflow state, Session capabilities, wanted and installed Skills of one Task | relies on `SkillCatalog` |
| `TaskWorkflow_proofs`, `MCTaskWorkflow` | theorems; the fixed definition with one Skill per scope | extend `TaskWorkflow` |
| `EventDelivery` | inbox, workers, dedup table, router and WebSocket transport of one process | stands alone |
| `EventDelivery_proofs`, `MCEventDelivery` | theorems; two requests with a common event, two connections of one session | extend `EventDelivery` |
| `TeamAccess` | users, Teams, memberships, login sessions and the requests about them | stands alone |
| `TeamAccess_proofs`, `MCTeamAccess` | theorems; two users with two Teams and two requests | extend `TeamAccess` |

The components compose along two abstract specifications. `WorkspacePreparation` implements
`WorkspaceLifecycle`, and `TaskProduction` takes its steps for the Workspace from it;
`SkillPublication` implements `SkillCatalog`, and `TaskWorkflow` takes its steps for the library
from it. `SessionExecution` implements `LedgerSpec`.

### SessionProjection

The code throws on an event that is illegal in the current state. `Accepts(p, e)` says which
events do not throw, `Project(p, e)` what they return. All 30 event kinds are present; kinds
that only record a fact are grouped by the state they need. `interruptKind` and `failureCode`
are left out: they are written together with fields that are kept and nothing reads them.

### SessionLedger

`book[s]` holds all rows of session `s`: the Session row (`state`, `active`, `last`, `mode`),
`head` (SessionEventHead), `streams` (SessionEventStream), `rows` (SessionEvent) and `lease`
(SessionDispatchLease). `claims` counts committed claims; the n-th mints lease token n.
`earlier` is the order of `Session.updatedAt`, which claims are served in.

| Action | Code |
|---|---|
| `LaunchSession` | `createSessionWithEvents`: the row and its four initial events |
| `AppendSessionEvents` | `appendSessionEvents`: lease check, per event resend / resubmission / gap / projection, then head, row and lease deletion |
| `ClaimSession` | `claimSession`: oldest claimable row, new lease or rotated token, dispatch event |
| `SubmitMessage`, `CloseSession`, `LoseRuntime`, `PostBatch` | the batches of `sendMessage`, `close`, the reaper and the runner |
| `LeaseExpires` | six hours without a renewal |

Transactions are serializable (`prisma-client.ts:433-436`), so each is one action, and one
that throws changes nothing. Three details decide much of what follows and are kept: a resend
is recognised by event id and equal content *before* the sequence check but *after* the lease
check; a user message is also recognised by its message id; and `provider_started` puts the
session into `message_pending`, which is claimable, so that it is safe only together with the
`response_started` of the same batch.

The ledger is specified for every caller: any token, any batch of the constant
`RunnerBatches`. That is what the proofs quantify over.

### SessionExecution

| Variable | Code |
|---|---|
| `daemon`, `online` | the runner process and its abort signal; a heartbeat within 180 s |
| `worker[s]` | `executeSessionAssignment` of session s and its one outstanding `appendEvents` call |
| `calls[i]` | the claim request of daemon run i; 0 stands for the runners of other Runtimes, whose claims also reap |
| `sends`, `closes` | `sendMessage` and `close` between their read and their append |
| `late` | append requests whose client stopped waiting |

A claim request is `Poll` (list expired leases), `Examine` per lease (liveness and session
read), `FailSession` (append), `Claim` (transaction), `LoseGrant` (assembly fails or the
answer is lost), `Receive` (skip, refuse or start a worker). A worker is `PrepareFails` or
`Prepare`, `StartProcess`, `SeeThread` (Codex announces itself), `ProcessEnds`,
`PublishStart`, `Conclude`, `Finish` or `WorkerRejects`. An append call is `Answer`,
`StopWaiting` (the client gives this attempt up; the request may still be processed by
`AnswerLate`). The daemon has `StartDaemon`, `Crash`, `Stop`, `Exit`, `GoOffline`,
`Heartbeat`, and the control plane `Restart`.

`Disturbances` says what may go wrong in a run: `network` (lost answers and heartbeats),
`crash` and `shutdown` of the daemon, `restart` of the control plane, `assembly` (an error
after the claim committed), `provider` (missing executable or unavailable Provider),
`expiry` (six hours pass), `contention` (a transaction is aborted; session transactions are
not retried). `RejectionsCrash` is TRUE unless Sentry's handler keeps the process alive.

### WorkspacePreparation

| Variable | Code |
|---|---|
| `row[w]`, `order` | the TaskWorkspace row, its WorkspacePreparationAttempts, and the order by (createdAt, id) |
| `head` | the commit of the configured base branch on the remote |
| `setups[c]` | a `TaskWorkspaceService.setup` call between its reads and its transaction |
| `polls[p]` | a claim request on the server; `heard` says whether its Runner still waits |
| `runner` | `runWorkspaceLoop`: idle, waiting for a claim, materializing, reporting, or down |
| `strays` | report requests whose client stopped waiting |
| `disk[w]` | the directory `resolveReadyWorkspace` would find |
| `continued` | history: the workspaces passed on to their tasks |

A setup is `Look` (the answer, a retry or a new row), `ResolveBase` or
`RepositoryUnavailable`, then `Create` or `Retry`, or `Abandon` (the Runtime is offline). A
claim is `ClaimGrants` or `ClaimFindsNothing`, both expiring what is due in the same
transaction, or `ClaimAborts`; then, outside it, `AnswerClaim` or `BuildClaimFails`. The
Runner has `PollForWork`, `LoseClaim`, then `Adopt`, `Refuse`, `Publish` or `GitFails`, and
`ReportAnswered`, `ReportInterrupted` (the control plane stops between its two transactions)
or `ReportLost`; a lost report arrives later by `StrayArrives`. `LeaseLapses`, `BranchMoves`,
`UseDirectory` and `SessionMisses` are the clock, the remote and the sessions.

Two details decide much: an expired attempt is *failed*, not queued again, and only a user's
retry starts the next; and a directory is identified by the workspace and not by the attempt,
which lets a retry adopt what a late attempt left, since the base commit is frozen in the row.

A workspace is identified with its (task, Runtime) pair. Branch names are frozen with the
base commit and left out. One Runner is modelled, as claims and reports of another Runner
meet other rows. `Disturbances` says what may go wrong: `crash` of the Runner, `network`,
`contention` (a transaction fails three times), `repository` (remote, access or git fail),
`restart` of the control plane, `disk` (the host damages any directory). `ReportsLoss` is
FALSE for the session worker of the code and TRUE for `resolveTaskWorkspaceForSession`, which
is written and tested but not called.

### TaskProduction

| Variable | Code |
|---|---|
| `task`, `history`, `context` | the Task row, its TaskStatusTransition rows, its TaskExecutionContext row |
| `workspace` | the state of its TaskWorkspace, which moves as `WorkspaceLifecycle` allows |
| `sessions[s]` | which launch made the Session: the context's (the message frozen in it) or a user's |
| `calls[c]` | a Start, a launch or a continuation: the call it makes next and what it has read |
| `moves[m]` | a status request: the revision it expects and the status it read |
| `owed` | the Runner has had no answer to its report of the ready Workspace and repeats it |

A Start is `BeginStart`, `Start` (pending: go on; otherwise the replay of the same key and
request, or a conflict), `Assign` (`startTaskProduction`: Task, transition and context in one
transaction, or its replay), `Prepare` (`setup`), then `Bind` or `GiveUp`. A launch is
`BeginLaunch` (reads the Task), then `LookAtOwn` or `LookAtOther` (reads the context): of a
pending Task it is a Start with its own Session id, of the planned Session a continuation, and
otherwise a further Session by `SetUpMore` and `Dispatch`. The continuation is entered by
`BeginContinuation` (the Runner's report), at the end of a Start and by a repeated launch:
`Continue` (reads the context), `Check` (reads the Workspace), `Attach`, `LaunchPlanned` or
`FailPlanned`, `Record` or `Apologise`. A status request is `BeginMove`, `ReadTask`, `Transit`
or `TransitAgain`. `Crash` ends every request where it is.

`Resolvable` is what the Agent's execution code opens; it is looked at when the request
begins, as in the code. That the transaction itself fences the Agent is `AgentFenced`: it
holds because every transition moves the revision that the request expects.

### SkillPublication

A publication request is `CreateSkill`, `CreateAnew`, `CreateAgain` (the three outcomes of
`reserveInitialSkillPublication`), `PublishRevision` or `PublishAgain`, then `FirstHead`, `Put` (or
`PutBadly`: the store acknowledges what it loses or damages), `SecondHead`, and `Finalize`,
`FinalizeRefused` or `Fail`. `GiveUp` ends it anywhere: the store or the control plane stopped,
and the revision stays uploading until somebody sends the archive again. `ArchiveSkill` is one
transaction. All Skills of the model have one name, the only way in which Skills meet. Archives
are told apart by their SHA-256 and the object key is the revision's.

### TaskWorkflow

| Variable | Code |
|---|---|
| `states[x]`, `transitions` | TaskWorkflowState and TaskWorkflowTransition rows |
| `capabilities[s]` | the SessionWorkflowCapability of a Session |
| `sources`, `projections` | WorkspaceSkillSource and WorkspaceSkillProjection rows of the Workspace |
| `catalog` | the Skill library, which moves as `SkillCatalog` allows |
| `calls[c]` | a launch, a `current` or `transition` of an Agent or a claim of the Runner, then the downloads and the report |
| `managers[g]` | an enable between its preflight and its transaction |

A request looks up the Skills one by one (`LookUp`) and then writes: `Reconcile` replaces the
sources of its state, `Commit` also moves the state, `Bind` creates the capability with the
Session. `Replace` is `#replaceWorkflowSkillSourcesInTransaction`: the sources of one state give
way to others, no two sources may want different revisions of a Skill, and each projection
follows the newest source. A Skill has the name of the scope that asks for it, as the fixed
definition names one Skill per scope.

The answer of a request is `Installing`: the Skills it looked up and a generation, which is the
version of the state the answer is made from. For `current` and a new transition that is the
version of the request; a repeated transition (`CommitFails`) is answered from the row the state
has now, with its present version, but with the Skills of the stage its own transition led to
(`findReplay`, `prisma-provider.ts:2196`; `#current`, `workflow-workload-service.ts:108` and
`:132`). A claim of the Runner (`BeginAssignment`, `Assign`) is assigned whatever the Workspace is
to have, if all of it has the generation of the state it read. The Agent's CLI and the Runner then
go the same way: `Download` hands out one Skill at a time and only a revision that is wanted at
that moment, `InstallFails` is any other end, `Report` looks at who reports and `Write` writes
what the generation admits; a report of success that is refused or not accepted in full is
followed by one of failure (`Correct`). That the execution code expires or the lease lapses before a
report is `GiveUp`.

Left out: a transition asked for at a version the state has not reached (it fails in the same
comparison as a stale one), and two launches at a time under one Session id. `Preflight` is one
look at four Skills, which the enabling does not rely on afterwards.

### EventDelivery

What JavaScript does between two awaits is one step. `Admit`, `Drain`, `Expire`, `Sweep` and the
end of a worker keep the inbox; a worker is `Parse` or `Discard`, then `Unresolved` or `Resolve`
for each candidate event in any order: reserve the key, and unless the request was aborted
dispatch to the subscriptions that are not newer than the request. Expiry tells a worker to
stop but takes nothing from it: its bytes are given back when it ends. A connection is
`Upgrade`, `Register` or `Reject`, `BeginSubscribe` and `Subscribe` or `Forbid` around their
awaits, `Unsubscribe`, `Refuse`, `Flush` and `Disconnect`; a full send queue closes it. `Close` and
`Stop` are the two halves of the shutdown in `server.ts`. An event's Project, type and filter
values are one topic. `present` and `sent` are history variables for the properties; a dedup
window ends with `Lapse`.

### TeamAccess

| Variable | Code |
|---|---|
| `users[u]`, `teams[t]`, `members[t][u]` | the status of a User and a Team, the TeamMembership row |
| `sessions[s]` | the AuthSession row: whether there is one, and its `activeTeamId` |
| `requests[q]` | a login or a request of an authenticated user: the point it has come to and the Team, role and member it has read |

`Begin` is `authenticateRequest`. A request that needs a permission then resolves its Team: `Resolve`
(the Team of the login session), or `FallBack` and `SettleFallback` (another one, written into
the session by a call of its own), or `Unresolved`. `Permitted` is `requirePermission`: the
role must allow it and the Team be the one of the URL, either of which may refuse. Changing a role
and removing a member resolve the Team a second time; removing also reads the members
(`ListMembers`). The last step is the transaction: `CreateTeam`, `AddMember`, `SetMemberRole`,
`RemoveMember`, `ArchiveTeam`, `SwitchTeam`, `Deactivate`; or `Fail`. What the transactions check
again is `Elsewhere` (another Team is left to the User) and `OwnedWithout` (another Owner is left
to the Team). The two reads of `Resolve` are one step: neither says anything that the
transaction does not look at again.

## 3. Runs

| Run | Question | Result |
|---|---|---|
| `ledger` | Are the tables consistent under any interleaving of any batches, and does every event of a batch follow the published transition table (up to the one exception of section 7)? | holds |
| `exec_faults` | Crash, restart, network, contention: one worker per message, one Provider session, worker in step with the ledger? | holds |
| `exec_two_sessions` | Two sessions on one loop with shutdown: is a dispatched first message always carried? | holds |
| `exec_live` | Do the real callers implement the ledger specification, and does a renewal spare the older worker? Is a launched session served, an ended process accounted for, the session of a dead Runtime failed? | holds, the last three under fairness |
| `prep_faults` | Late, lost, repeated, interrupted requests and crashes: attempts, rows and directories consistent? | holds |
| `prep_live` | Does a queued workspace become ready or failed, and is a ready one passed on to its task? | holds under fairness |
| `production_status` | A Start with its continuation and two racing status requests: one chain of transitions, one Start, a capability that ends with the Task and fences the Agent, no answer without its transition? | holds |
| `production_launches` | Racing and repeated launches, a restart, an outage, a lost Workspace: is the planned Session only made from the context, and does a ready Workspace get it? | holds, the second under fairness |
| `publication` | Racing and repeated publications, a faulty store, archiving: one numbered chain of stored revisions that implements the catalog? | holds |
| `workflow` | Stale and repeated requests of two Sessions, disabling, enabling again, a Skill published anew and archived: one path of stages, Sessions bound while active, Skills of one stage, settled only at the generation they are wanted for? | holds |
| `events` | Overlapping workers, expiry, slow and returning clients, shutdown: delivered once, nothing older than the subscription, true books? | holds |
| `access` | Racing and stale requests about roles, members, Teams and accounts: a Team in use has an Owner, an active User a Team? | holds |

Every property of a run is broken by a mutant of the code's definitions (`PROJECT.json`,
`mutants`), operators that stand directly before the definition they replace.

## 4. Bounds

* Ledger: one session (transactions touch one book; other sessions matter only for the order
  of claims), two messages (the first and a follow-up), two contents (a resubmission with the
  same and with another content), three claims (first claim, renewal, one more), twelve
  events, source sequences 1 to 3 in posted batches. Sequences beyond the third differ from
  it in nothing: the proofs remove the bound.
* Execution: one or two sessions, two messages in the one-session runs, two claims, one or
  two daemon runs, two attempts instead of three (a retry after a retry adds no new state:
  every attempt may be processed at any time), `MaxRows` 20, which no behaviour reaches. The
  proofs remove these bounds.
* Preparation: one workspace with two setups, two polls, two commits and three attempts (first,
  expired, retried again) in the safety run; two workspaces, so that one can starve behind
  the other, two attempts, one setup and one poll in the liveness run. A retry beyond `MaxAttempts` ends like an
  abandoned request. The proofs remove these bounds.
* A batch has at most two events: the runner never posts more.
* Production, `production_status`: one Start (a generated Session), one report, two status
  requests with two keys and every actor, target and expected revision; `MaxRevision` 4 allows
  the Start and two more transitions, `MaxLag` 1 that a request expects the revision before
  the current one (all staler ones fail in the same comparison). `production_launches`: two
  requests, each a Start, a launch of the planned or of another Session, one report, one
  outage, one restart, one lost Workspace, no status requests. The proofs remove these bounds.
* Publication: two Skills of one name, three revisions, two archives, three requests, one
  fault of the store: a create races a create, a publication races one on the same base, both
  race a repetition, and a Skill is archived in between. The proofs remove these bounds.
* Workflow: two states (one disabled and the next enabled), two commands, two requests of Agents
  or claims at a time, two Sessions, one enabling request, one Skill per scope, of which the
  global one is published again and archived, so that what one request looked up differs from
  what another did. `MaxChanges` counts an enabling twice: one enabling and two transitions let a
  request be repeated after the state has moved on, two enablings with a transition between them
  let one outlive its state. Two enabling requests are beyond five minutes. The proofs remove
  these bounds.
* Events: two requests that share one of two events, two workers, a dedup table of one key, two
  connections of one session that may have one, one subscription id, two frames per queue, two
  subscriptions made. Two ids with two workers are beyond five minutes. `MaxItems` and
  `MaxBytes` are just what the two requests need, so that admission is refused by neither. The
  proofs remove the bounds.
* Teams: two users with one login session each, of which one can end (logins again and ended
  sessions change nothing the property speaks of), two Teams, two requests of every kind that
  changes something, the roles owner and admin given. With two Teams every removal,
  archive and deactivation is about the last Team or the last but one. The proofs remove these
  bounds.
* Messages are symmetric in the safety runs without `m1`/`m2`-specific batches; keys, ids,
  request slots and connections are symmetric in the newer ones; symmetry is not used with
  liveness.

Deadlock checking is off where the system may stop: sessions have all ended, keys and revisions
are used up. It is on in the two production runs, where the status requests or the continuations go on.

## 5. Fairness

`FairExecutionSpec` assumes weak fairness of what the JavaScript event loop and the
control plane's handlers do by themselves: the loop polls for ever (`while
(!signal.aborted)`), a handler, a worker step and a request run to their end, a daemon that is
down is started again while runs are left. Not assumed: that a Provider process ends (nothing
bounds it except Pi), that users act, that heartbeats arrive, that a late request is ever
processed.

`FairPreparationSpec` assumes that the server's requests, a Runner that is up and the clock
go on, that a Runner that is down is started again, and (strongly) that a Runner that is
restarted over and over gets to send a claim now and then: without that a crash loop explains
every delay. It assumes nothing of users, of the network or of the number of crashes.
`prep_live` leaves `network` out, for a connection that breaks every time also explains every
delay. `ReadyPassedOn` promises the continuation while the Runner that reports the attempt
lives, and `LaunchIsServed` and `OutcomeReported` of `exec_live` while the daemon does: what a
crash leaves unfinished there nobody takes up again, see the hazards.

`FairProductionSpec` assumes that each request of the control plane goes on until it is
answered, and that the Runner repeats the report of a ready Workspace until it hears an answer
(`reportUntilAccepted`, `workspace-loop.ts:149`). It assumes nothing of users, and no recovery of
what a crash ended. `SessionFollows` excepts a Workspace that was lost and an outage, after which
the code records a failure and waits for its user.

## 6. Proofs

`SessionLedger_proofs` proves for every set of sessions, messages and contents, every
`RunnerBatches` and every bound:

| Theorem | Property |
|---|---|
| `LedgerInvariant` | the inductive invariant `LedgerInv` |
| `TypeCorrect` | `LedgerTypeOK` |
| `OwnershipAlwaysAgrees` | `OwnershipAgrees` |
| `NoGaps` | `SequencesContiguous` |
| `MessageLivesOnce` | `MessageLife` (`SubmittedOnce`, `OneOutcome` and `CausalOrder`) |
| `OnlyAppends` | `AppendOnly`, which no run checks |
| `TerminalFinal` | `TerminalIsFinal`, which no run checks |
| `MovesWithinTable` | `WithinTable` |

They assume what the modules assume of their constants: contents differ from continuation
modes and from "none", bounds are naturals, a runner batch has one or two well-formed events,
`NoMessage` is no message.

Argument. The listed properties are not inductive by themselves. `OneOutcome` needs to know
that the active message has no outcome yet and that a running one has been started;
`CausalOrder` needs that the active message was submitted; contiguity needs the row of every
number; the lease property needs, *inside* a batch, that a session a Runtime owns still has
its lease. `MidInv` collects these for one book and is preserved by inserting one event
(lemma per conjunct); `Good` adds what holds between transactions (a terminal session has no
lease, an absent one has nothing). Each action replaces one book by a good one (`OneBook`),
so `LedgerInv` is inductive, and the first two action properties follow from `BooksGrow`.
`MovesWithinTable` follows the state through a batch. An event that is applied makes one move, of
the table or the one beside it (`ProjectionMoves`); a resent one is not applied; of two events
that are, the second goes on where the first ended, and that is the state between the two moves
that `Advances` asks for (`BatchMoves`, `AppendMoves`).

`SessionExecution_proofs` proves, for every set of sessions, messages, contents and daemon runs,
every combination of disturbances and every bound:

| Theorem | Property |
|---|---|
| `ExecutionInvariant` | the inductive invariant `ExecInv` |
| `ExecutionTypes` | `ExecutionTypeOK`, which no run checks |
| `ExecutionImplementsLedger` | `LedgerSpec` |
| `RunningLedger` | all that is proved of the ledger, for the running system |
| `OneDispatch` | `DispatchedOnce` |
| `ProviderSessionKept` | `ProviderSessionStable` |
| `WorkerInStep` | `InStep` |
| `RenewalHarmless` | `RenewalSpares` |
| `FirstMessageCarried` | `FirstClaimCarried`, if `Tidy` |

They assume what the modules assume, among others that the batches a worker posts are among
the `RunnerBatches` of the ledger. `Tidy` says that nothing but Providers and shutdowns
disturbs and that a rejected append does not end the process (`RejectionsCrash` is FALSE), as in
`exec_two_sessions`: a crash or a lost answer does leave a dispatched message with nobody.

Argument. Each property is about what a caller still believes when it acts, so `ExecInv` says
of every session what its worker, the append requests still out, and the grants of claims on
their way may believe of its book (`SessionOK`). A request under the current token is either
recorded already (`AllIn`) or meets the book its worker left, with nothing of this token from its
first event on (`NoneFrom`); two such requests that open, or two that conclude, carry the same
batch. One under an older token meets a lease check that refuses it. Tokens are minted by claims,
so none is held twice (`Minted`, `GrantsDiffer`). A request that is processed twice, late or
after the client stopped waiting then either changes nothing or does what its first copy would
have done, and the worker is told the truth. The proof has one lemma per kind of step for the
session it is about (`PostKeeps`, `TakeKeeps`, `DispatchKeeps` and so on), and one for all the
others (`Untouched`). The refinement needs the invariant
only for the batches: that what a worker posts has the shape the ledger expects.
`FirstInv` adds, for a tidy system, that a first lease that is alive is in the answer of one
claim or with the worker that has its token and message, that no request is late and that none
of that worker's is refused.

`WorkspacePreparation_proofs` proves, for every set of workspaces, commits, requests and every
bound:

| Theorem | Property |
|---|---|
| `PreparationInvariant` | the inductive invariant `PrepInv` |
| `PreparationTypeCorrect` | `PreparationTypeOK` |
| `AttemptsAlwaysAgree` | `AttemptsAgree` |
| `ReadyAlwaysPublished` | `ReadyIsPublished` |
| `AttemptHeldOnce` | `OneHolder` |
| `OutcomeFinal` | `SettledForGood` |
| `PreparationImplementsLifecycle` | `ImplementsLifecycle` |
| `LeftoverAlwaysAdoptable` | `LeftoverAdoptable`, if no disturbance is `disk` |

They assume that "none", "runner" and `NoCommit` name no workspace, request or commit and
that `MaxAttempts` is positive. Argument: a step makes one of eight things of a row (`Turns`;
`RowStep`), each of which keeps the row good over its directory and undoes nothing (`Turned`);
directories stay published (`DiskStep`). That one attempt is in one hand needs that a grant,
wherever it is, names an attempt that is no longer queued (`Taken`) and the frozen commit;
that ready means published needs that a report tells the truth when it arrives (`Sound`),
however late. `PrepInv` is the conjunction; `Kept` gives both the finality of outcomes and the
moves of the lifecycle.

`TaskProduction_proofs` proves, for every set of Sessions, keys, inputs and requests and every
bound:

| Theorem | Property |
|---|---|
| `ProductionInvariant` | the inductive invariant `ProductionInv` |
| `ProductionTypes` | `ProductionTypeOK` |
| `HistoryIsOneChain` | `HistoryChains` |
| `ContextsAreStarted` | `ContextIsStart` |
| `CapabilityEndsWithTask` | `RevokedIffTerminal` |
| `AnswersAreRecorded` | `AnswerRecorded` |
| `PlannedSessionIsOfContext` | `SessionOfContext` |
| `AgentsAreFenced` | `AgentFenced` |

Argument. The chain needs that the revision counts the history; that a key makes one transition
needs that keys of Starts and of status requests differ and that the transaction looks for the
key. `SessionOfContext` needs what a request remembers: one that is past the look at the
context, and launches a further Session, had another Session in mind than the planned one, and
stays right because a context is never replaced and a Start plans a Session that no launch in
progress has reached. `AgentsAreFenced` needs that, while an Agent's request is on its way at
the revision that is still current, the capability that let it in is still open: what closes
it is a transition, and a transition moves the revision.

`SkillPublication_proofs` proves, for every set of Skills, archives and requests and every finite
set of revisions:

| Theorem | Property |
|---|---|
| `PublicationInvariant` | the inductive invariant `PublicationInv` |
| `PublicationTypes` | `PublicationTypeOK` |
| `ReadyRevisionsAreOneChain` | `ReadyChain` |
| `ReadyRevisionsAreStored` | `ReadyIsStored` |
| `OutcomesAreFinal` | `OutcomeFinal` |
| `PublicationImplementsCatalog` | `ImplementsCatalog` |

Argument. A revision's number is one more than its base's because a finalization compares the
base with the current revision and the expected resource revision with the Skill's, which
counts the ready ones; the count is a cardinality, so the set of revisions is finite. That a
ready revision is stored needs that a request is past its second head only with an object
there, and that no step takes an object away. A name is offered once because it is held from
the reservation on.

`TeamAccess_proofs` proves, for every set of Users, Teams, login sessions and requests:

| Theorem | Property |
|---|---|
| `AccessInvariant` | the inductive invariant `AccessInv` |
| `AccessTypes` | `AccessTypeOK`, which no run checks |
| `AlwaysOwnedAndPlaced` | `OwnedAndPlaced` |

Argument. `OwnedAndPlaced` is inductive as soon as a request that has come to its transaction
names rows there are (`RequestsKnow`, as no membership is ever deleted): what it was permitted
is not used, so the roles and Teams it has read may be as old as they like. An Owner is
demoted or removed only when the count of Owners exceeds one, hence there is another
(`AnotherOwner`); a Team is archived, or a User removed from it, only when another Team is left.

`EventDelivery_proofs` proves, for every set of requests, workers, events, ids and subscription
requests and every finite set of connections:

| Theorem | Property |
|---|---|
| `RouterInvariant` | the inductive invariant `RouterInv` |
| `AlwaysDeliveredOnce` | `DeliveredOnce` |
| `NeverBacklog` | `NoBacklog` |
| `ConnectionsAlwaysAgree` | `ConnectionsAgree` |
| `InboxInvariant` | the inductive invariant `InboxInv` |
| `InboxAlwaysAccounted` | `InboxAccounted` |
| `EventsTypes` | `EventsTypeOK`, which no run checks |

Argument. A subscription that is not newer than a request was there when the request was
admitted (`Generations`): generations are handed out in order and a request takes the newest one
with it. What was sent had its key reserved (`SentOnce`), so an event whose key is not reserved has
been sent to nobody in this window. The maps of router and connection agree (`Books`) because a
connection that was never open has asked for nothing (`Asked`). A session's connections are
counted, so there are finitely many. `InboxInv` needs that the queue holds each waiting request
once (`Once`, `Waits`), which the sweep keeps while it filters the queue (`WithoutIs`). The bytes
are a sum over a set that the model takes in an order of its choice; that one more request adds
its bytes whatever the order (`SizeOfAdd`), and that what is swept and what remains add up
(`SizeOfSplit`), are proved from a smallest set for which they would fail, as are the existence of
the fold (`SumsExist`) and of the recursion over the queue (`KeptExists`). That a connection's
frames stay within `MaxFrames` needs that a dispatch closes every connection for whose frames
together there is no room (`DispatchFrames`).

`TaskWorkflow_proofs` proves, for every set of states, Sessions, commands, requests, managers and
Skills and every bound:

| Theorem | Property |
|---|---|
| `WorkflowInvariant` | the inductive invariant `WorkflowInv` |
| `WorkflowTypes` | `WorkflowTypeOK`, which no run checks |
| `StagesAreOnePath` | `StagePath` |
| `SessionsBoundWhileActive` | `BoundWhileActive` |
| `DesiredIsOfOneStage` | `DesiredOfOneStage` |

Argument. `StagePath` names the stage of a version by choosing a transition; the proof uses the
relation `Reached`, which only grows, and shows at the end that the choice is unique. The
transactions compare the version, so the row they add is the next one. What a request has
looked up belongs to one stage from its first lookup until it is committed (`Gathers`): the
stage its state had at the generation, which stays true however far the state moves, or the one
the transition leads to, which becomes true when it commits. A capability is given only while
the state is active and a state that is disabled stays so, hence nothing about launches in
progress is needed.
That the newest source of a Skill exists uses that sets of versions are finite (`Greatest`).
Of the answers nothing need be known: whatever was installed, and under whichever generation a
repeated transition was answered, `Write` changes a projection only if its generation is the
one reported, so what is settled is settled at the generation wanted. Which revision was
installed the theorem does not say: a report may be about an older one (section 7).

Only model-checked: the liveness properties `LaunchIsServed`, `OutcomeReported`, `OfflineReaped`,
`PreparationSettles`, `ReadyPassedOn` and `SessionFollows`, as liveness under fairness and ENABLED are
out of the prover's reach. Induction is done by hand: the library's induction theorems take
an operator as a parameter, which no installed prover can instantiate, so each lemma that needs
one chooses a least counterexample from a well-founded order.

## 7. Where code and documents disagree

Met while modelling. Each of these is read off the code, and the models behave as the code does;
the runs check what the code keeps.

Sessions:

* *Follow-up dropped.* The last append commits, a user sends a follow-up, the loop claims it
  while the worker's promise is still in `active`: `session-loop.ts:25` skips the assignment and
  the session stays dispatched with a fresh lease.
  `specs/049-session-launch-framework/contracts/runtime-session-protocol.md:79` says that the next
  claim executes it.
* *One rejection ends all.* `void executeSessionAssignment(...).finally(...)` (`session-loop.ts:44`)
  leaves the rejection of a refused append unhandled; without Sentry the Node process ends and
  with it every other worker. `docs/ARCHITECTURE.md:50` limits a cancellation to its Session.
* *Reaper race.* Liveness and lease are not looked at again when `runtime_lost` is appended
  (`runtime-session-service.ts:166`); `specs/049-session-launch-framework/spec.md:143` wants an
  expired lease and an offline Runtime.
* *Resend after the end.* The lease is checked before a resend is recognised
  (`prisma-provider.ts:861`), and a batch that ends the session deletes it; the same spec, line
  80, promises idempotent appends.
* `packages/shared/src/state.ts:9` lists `message_pending`, `closed` and `failed` after
  `dispatched`; `response_started` also leads from there to `running`, and every continuation
  takes that path. The projection never consults the table. `WithinTable` allows this move beside
  those of the table (`Moves`) and no other.
* Response facts are accepted in `running` whatever message they name (`session.ts:532`);
  `specs/049-session-launch-framework/data-model.md:73` wants the active one.

Workspaces and production:

* *Lost workspace stays ready.* The session worker resolves the directory itself
  (`session-worker.ts:39`) and fails its session only; the function that also posts the loss
  (`workspace-loop.ts:93`) has no caller outside its test.
  `specs/048-task-workspace-setup/spec.md:57` expects it marked unavailable.
* A setup that cannot read its base branch (`task-workspace-service.ts:105`) fails before a
  row exists; `specs/048-task-workspace-setup/spec.md:54` expects a failed Workspace.
* A control plane that stops between the commit of a Start and its setup leaves the Task in
  progress with nothing preparing it, although `specs/051-factory-task-harness/spec.md:172`
  requires the preparation after every commit.
* Of two continuations, one that fails late writes its failure over the other's success
  (`task-production-service.ts:211`); a slow Start's `Bind` clears the failure of a continuation.
* A launch that read the Task before its Start committed and the context after it answers
  `session_conflict` although its inputs are the same (`task-session-launch-service.ts:59`).

Workflow:

* A late `current` or `prepare` writes the sources of the stage it read, whatever has become of
  the state. After a disable they stay, and a later enabling with newer Skills can fail with
  "conflicting exact revisions"; `specs/057-workflow-harness-runtime/spec.md:84` wants nothing
  left reported as a source of the Workflow. `DesiredOfOneStage` says what remains true.
* *Stale report accepted.* A report is compared with the projection by its
  generation alone (`prisma-provider.ts:2299`), and the generation is the version of the state.
  The Agent or the Runner installs revision 1 of a Skill and its report is under way; the Skill is
  published again and another `current` of the same state makes revision 2 the wanted one, under
  the same generation; the report arrives and revision 2 is ready, which nobody has installed.
  `specs/057-workflow-harness-runtime/contracts/workflow-skill-projection.md:49` says that stale reports
  are ignored, `engineering-review.md:52` that one does not override what is newly desired.
* *Answer of two times.* A repeated transition is answered with the present version of its state and
  the instructions of its present stage, but with the Skills of the stage the transition led to
  (`workflow-workload-service.ts:108`, `:132`, `:139`). While that stage's own Skill is not wanted, its
  download and its report are refused (`workflow-skill-execution-delivery-service.ts:24`, `:35`); if a
  late `current` has put the earlier stage back, both pass, and once the present stage is put back as
  well the report settles the Skills that both stages have at the present generation, although
  what was installed is the earlier stage. The instance `workflow` comes through this, and through
  the stale report.
  `specs/057-workflow-harness-runtime/research.md:45` has a repetition return the original fact.

Events:

* A subscribe that was awaiting its authorization when its connection closed registers a
  subscription that nobody removes (`ws-transport.ts:273`; `specs/058-event-subscription-protocol/spec.md`, SC-006 and SC-010, wants
  none left); one that was awaiting while its id was unsubscribed takes effect after the
  confirmation; subscribes sent together exceed the limit looked at before the await.
* An aborted request still reserves the keys of its event (`pipeline.ts:87`) without dispatching
  it, so that the provider's repetition is dropped as a duplicate;
  `specs/058-event-subscription-protocol/contracts/webhook-and-integration.md:86` forbids late
  results to reserve.
* `closeSessionConnections` has no caller. The limit of connections of the process is looked at
  before the authorization is awaited.

Teams:

* Owners are counted by their memberships (`prisma-provider.ts:3513`, `:3285`), and a deactivated
  User keeps his: two Owners of a Team, one deactivated and the other then removed, demoted or
  deactivated, leave it with no Owner who can log in. `specs/043-identity-team-rbac/spec.md`, FR-036, wants an effective Owner.
* The Team a request falls back to is written without another look (`prisma-provider.ts:3442`): it
  can put a Team back that was archived meanwhile, or undo a switch that has been answered;
  SC-004 of the same specification wants neither.
* `members/role` and `members/remove` check the permission for the Team of the URL, but
  `changeMemberRole` and `removeMember` (`rbac/index.ts:71`, `:87`) resolve the Team of the
  login session again and act on that one.
* A member who was removed cannot be added again: the row stays, disabled, and
  `addMemberByUsername` (`prisma-provider.ts:3470`) only creates.

## 8. Not modelled

* Session prompt assembly, listing and paging: reads; the launch transaction checks again what
  can have changed. Creating and editing Tasks, Projects, Agents: rows changed one at a time.
* Event payloads, sizes and batch limits; text of prompts and answers.
* Provider discovery and adapters: command lines and output parsing. Their outcomes are the
  ends of `ProcessEnds`.
* The reconnecting events client of the Agent CLI (`events-client.ts`): it keeps no cursor, as
  delivery is online only, and subscribes again after each connection; what a client that
  comes back may be sent is `NoBacklog`.
* Passwords, tokens, the login rate limiter, the expiry times of login sessions (`EndSession` is
  any end of one), display names: data, or one comparison. Secrets, git, GitHub, Linear, S3: cryptography and clients of external services. The user
  interface, the operator command line and the contract tests, which are most of the
  repository's lines and have no protocol.
* The bytes of a connection's send queue and its control rate, which are further ways to be
  disconnected, and the liveness of the inbox, whose state space under fairness is beyond a
  run of a few minutes.
* `claim` finds the message among the first 100 events of a Session (`runtime-session-service.ts:69`):
  a Session with more events before it is beyond the model.
* Time: a lease expires, a heartbeat is late or a key lapses by an action that may or may not
  happen.

## 9. Plan

1. The safety part of the liveness properties as invariants: who can still move a session, a
   workspace or a Task that is not where it should end.
2. Two subscription ids per connection, in an instance with less of everything else.
3. Racing requests to enable the Workflow, in an instance with one Session.
4. The composition of `TaskProduction` with `SessionLedger`: the launch of the planned Session
   as `LaunchSession`.
