----------------------- MODULE WorkspacePreparation -----------------------
(***************************************************************************)
(* The preparation of Task Workspaces for one Runtime: setup requests, the  *)
(* claim endpoint that a request may still be polling in when its client is *)
(* gone, the Runner's workspace loop, the reports it resends, the leases    *)
(* and the directories on the Runner's host.                                *)
(*                                                                         *)
(* A workspace is identified with its (task, Runtime) pair: the row is      *)
(* unique for it.  Transactions are serializable, so each is one action; a  *)
(* transaction that throws changes nothing.                                 *)
(***************************************************************************)
EXTENDS Naturals, Sequences

CONSTANTS Workspaces,     \* tasks whose Runtime is the modelled one
          Commits,        \* commits the configured base branch can point to
          Setups,         \* setup requests in progress at one time
          Polls,          \* claim requests in progress at one time
          MaxAttempts,    \* bound: preparation attempts of one workspace
          Disturbances,   \* what may go wrong in the instance
          ReportsLoss     \* does the session worker report a lost directory?

VARIABLES row,       \* row[w]: the TaskWorkspace row and its attempts
          order,     \* workspaces in the order of (createdAt, id)
          head,      \* what the base branch points to on the remote
          setups,    \* setups[c]: a setup request
          polls,     \* polls[p]: a claim request on the server
          runner,    \* the workspace loop
          strays,    \* reports on their way that nobody waits for
          disk,      \* disk[w]: the directory on the Runner's host
          continued  \* workspaces whose readiness has been passed on to the task

prepVars == <<row, order, head, setups, polls, runner, strays, disk, continued>>
----------------------------------------------------------------------------
Seqs == 1..MaxAttempts

AttemptStates == {"none", "queued", "claimed", "succeeded", "failed", "expired"}
SettledStates == {"succeeded", "failed", "expired"}
RowStates == {"absent", "queued", "preparing", "ready", "failed", "unavailable"}

(* Why a workspace failed: failureCode with the message that goes with it. *)
Causes == {"git", "target_exists", "access", "lease_expired", "missing"}
NoCause == "none"
NoCommit == "no commit"

Row == [state    : RowStates,
        base     : Commits \cup {NoCommit},        \* the frozen intent
        attached : BOOLEAN,                        \* workspaceRef # null
        failure  : Causes \cup {NoCause},
        active   : Nat,                            \* activeAttemptSequence
        attempts : [Seqs -> AttemptStates],
        lapsed   : BOOLEAN]    \* the active attempt's leaseExpiresAt =< now

Absent == [state |-> "absent", base |-> NoCommit, attached |-> FALSE,
           failure |-> NoCause, active |-> 0,
           attempts |-> [n \in Seqs |-> "none"], lapsed |-> FALSE]

Grant == [w : Workspaces, seq : Seqs, base : Commits]
NoGrant == [w |-> "none", seq |-> 0, base |-> NoCommit]

Report == [w : Workspaces, seq : Seqs, base : Commits,
           status : {"succeeded", "failed"}, failure : Causes \cup {NoCause}]

Setup == [phase : {"idle", "resolving", "creating", "retrying"},
          w : Workspaces \cup {"none"}, base : Commits \cup {NoCommit}]
Poll == [stage : {"free", "polling", "granted"}, grant : Grant \cup {NoGrant},
         heard : BOOLEAN]    \* heard: the Runner still waits for the answer
Runner == [phase : {"down", "idle", "waiting", "building", "reporting"},
           grant : Grant \cup {NoGrant},
           status : {"succeeded", "failed"}, failure : Causes \cup {NoCause}]

(* A directory: none; intact, as published; advanced, a session has committed on
   its branch; broken, it no longer resolves (switched branch, damaged, deleted).
   base is the commit it was published from. *)
Directory == [state : {"none", "intact", "advanced", "broken"},
              base : Commits \cup {NoCommit}]

NoSetup == [phase |-> "idle", w |-> "none", base |-> NoCommit]
NoPoll == [stage |-> "free", grant |-> NoGrant, heard |-> FALSE]
IdleRunner(phase) ==
    [phase |-> phase, grant |-> NoGrant, status |-> "failed", failure |-> NoCause]

ASSUME NamesAssumption ==
    "none" \notin Workspaces /\ NoCommit \notin Commits /\ "runner" \notin Polls
ASSUME MaxAttemptsAssumption == MaxAttempts \in Nat \ {0}
ASSUME DisturbancesAssumption ==
    Disturbances \subseteq {"crash", "network", "contention", "repository", "restart", "disk"}
ASSUME ReportsLossAssumption == ReportsLoss \in BOOLEAN
----------------------------------------------------------------------------
(* What the transactions make of a row. *)

NewRow(base) ==
    [Absent EXCEPT !.state = "queued", !.base = base, !.active = 1,
                   !.attempts = [Absent.attempts EXCEPT ![1] = "queued"]]

(* Mutant: a retry resolves the base branch again. *)
RetriedAfresh(r) ==
    [r EXCEPT !.state = "queued", !.active = r.active + 1, !.failure = NoCause,
              !.base = head,
              !.attempts = [r.attempts EXCEPT ![r.active + 1] = "queued"]]

Retried(r) ==
    [r EXCEPT !.state = "queued", !.active = r.active + 1, !.failure = NoCause,
              !.attempts = [r.attempts EXCEPT ![r.active + 1] = "queued"]]

Due(r) == r.state = "preparing" /\ r.attempts[r.active] = "claimed" /\ r.lapsed

(* Mutant: an expired workspace is queued again with the same attempt. *)
ExpiredInPlace(r) ==
    [r EXCEPT !.state = "queued",
              !.attempts = [r.attempts EXCEPT ![r.active] = "queued"]]

(* Mutant: the attempt is forgotten. *)
ExpiredRowOnly(r) == [r EXCEPT !.state = "failed", !.failure = "lease_expired"]

Expired(r) ==
    [r EXCEPT !.state = "failed", !.failure = "lease_expired",
              !.attempts = [r.attempts EXCEPT ![r.active] = "expired"]]

Claimed(r) ==
    [r EXCEPT !.state = "preparing", !.lapsed = FALSE,
              !.attempts = [r.attempts EXCEPT ![r.active] = "claimed"]]

(* completeTaskWorkspacePreparation: the report is for the attempt that prepares
   the workspace now and comes within its lease. *)

(* Mutant: reports are not fenced at all. *)
CurrentAlways(r, rep) == rep.status = "succeeded" => rep.base = r.base

Current(r, rep) ==
    /\ r.state = "preparing"
    /\ r.active = rep.seq
    /\ r.attempts[rep.seq] = "claimed"
    /\ ~r.lapsed
    /\ rep.status = "succeeded" => rep.base = r.base

(* The same report again is answered with the row; nothing changes. *)

(* Mutant: a second report of an attempt is stale like any other. *)
RecognisedNever(r, rep) == FALSE

Recognised(r, rep) ==
    /\ r.attempts[rep.seq] = rep.status
    /\ IF rep.status = "succeeded"
       THEN r.state = "ready" /\ r.attached /\ r.base = rep.base
       ELSE r.state = "failed" /\ r.failure = rep.failure

Settled(r, rep) ==
    [r EXCEPT !.state = IF rep.status = "succeeded" THEN "ready" ELSE "failed",
              !.attached = rep.status = "succeeded",
              !.failure = rep.failure,
              !.attempts = [r.attempts EXCEPT ![rep.seq] = rep.status]]

(* A stale or conflicting report throws: the row stays. *)
Completed(r, rep) == IF Current(r, rep) THEN Settled(r, rep) ELSE r

(* markTaskWorkspaceUnavailable. *)
Unavailable(r) ==
    [r EXCEPT !.state = "unavailable", !.attached = FALSE, !.failure = "missing"]
----------------------------------------------------------------------------
(* TaskWorkspaceService.setup.  Each read and each transaction is a step. *)

(* getTaskWorkspace.  A workspace that is there and has not failed is the answer. *)

Look(c, w) ==
    /\ setups[c].phase = "idle"
    /\ \/ /\ row[w].state = "absent"
          /\ setups' = [setups EXCEPT ![c] = [NoSetup EXCEPT !.phase = "resolving", !.w = w]]
       \/ /\ row[w].state = "failed"
          /\ setups' = [setups EXCEPT ![c] = [NoSetup EXCEPT !.phase = "retrying", !.w = w]]
    /\ UNCHANGED <<row, order, head, polls, runner, strays, disk, continued>>

(* #resolveBase reads the remote branch: the intent is frozen here. *)
ResolveBase(c) ==
    /\ setups[c].phase = "resolving"
    /\ setups' = [setups EXCEPT ![c].phase = "creating", ![c].base = head]
    /\ UNCHANGED <<row, order, head, polls, runner, strays, disk, continued>>

(* The remote cannot be read, its branch is gone, or the Runtime is offline: setup
   throws and leaves no trace. *)
RepositoryUnavailable(c) ==
    /\ "repository" \in Disturbances
    /\ setups[c].phase = "resolving"
    /\ setups' = [setups EXCEPT ![c] = NoSetup]
    /\ UNCHANGED <<row, order, head, polls, runner, strays, disk, continued>>

(* createTaskWorkspace.  Whoever comes second gets the row of the first if it has
   the same intent, and a conflict otherwise. *)
Create(c) ==
    LET w == setups[c].w IN
    /\ setups[c].phase = "creating"
    /\ setups' = [setups EXCEPT ![c] = NoSetup]
    /\ \/ /\ row[w].state = "absent"
          /\ row' = [row EXCEPT ![w] = NewRow(setups[c].base)]
          /\ order' = Append(order, w)
       \/ row[w].state # "absent" /\ UNCHANGED <<row, order>>
    /\ UNCHANGED <<head, polls, runner, strays, disk, continued>>

(* retryTaskWorkspace, on the row as it is now. *)
Retry(c) ==
    LET w == setups[c].w IN
    /\ setups[c].phase = "retrying"
    /\ setups' = [setups EXCEPT ![c] = NoSetup]
    /\ \/ /\ row[w].state = "failed" /\ row[w].active < MaxAttempts
          /\ row' = [row EXCEPT ![w] = Retried(row[w])]
       \/ row[w].state # "failed" /\ UNCHANGED row
    /\ UNCHANGED <<order, head, polls, runner, strays, disk, continued>>

(* The request ends before its transaction: the Runtime is offline, or the control
   plane restarts.  Also what becomes of a retry beyond MaxAttempts. *)
Abandon(c) ==
    /\ setups[c].phase \in {"creating", "retrying"}
    /\ setups' = [setups EXCEPT ![c] = NoSetup]
    /\ UNCHANGED <<row, order, head, polls, runner, strays, disk, continued>>
----------------------------------------------------------------------------
(* WorkspacePreparationService.claim and claimTaskWorkspacePreparation. *)

(* The transaction first expires what is due, then looks for the oldest queued
   workspace whose active attempt is queued. *)

(* Mutant: nobody expires anything. *)
ReapedNever == row

Reaped == [w \in Workspaces |-> IF Due(row[w]) THEN Expired(row[w]) ELSE row[w]]

Oldest(w) ==
    \E n \in DOMAIN order :
        /\ order[n] = w
        /\ Reaped[w].state = "queued"
        /\ \A k \in 1..(n - 1) : Reaped[order[k]].state # "queued"

ClaimGrants(p, w) ==
    /\ polls[p].stage = "polling"
    /\ Oldest(w)
    /\ Reaped[w].attempts[Reaped[w].active] = "queued"
    /\ row' = [Reaped EXCEPT ![w] = Claimed(Reaped[w])]
    /\ polls' = [polls EXCEPT ![p].stage = "granted",
                              ![p].grant = [w |-> w, seq |-> row[w].active,
                                            base |-> row[w].base]]
    /\ UNCHANGED <<order, head, setups, runner, strays, disk, continued>>

(* The Runner that waits for poll p, if it does, takes the answer. *)
Hear(p, next) == runner' = IF polls[p].heard THEN next ELSE runner

(* Nothing is queued: the request ends (204), or polls again before its deadline. *)
ClaimFindsNothing(p) ==
    /\ polls[p].stage = "polling"
    /\ ~\E w \in Workspaces : Oldest(w)
    /\ row' = Reaped
    /\ \/ polls' = [polls EXCEPT ![p] = NoPoll] /\ Hear(p, IdleRunner("idle"))
       \/ UNCHANGED <<polls, runner>>
    /\ UNCHANGED <<order, head, setups, strays, disk, continued>>

(* The transaction is not serializable three times in a row: 500. *)
ClaimAborts(p) ==
    /\ "contention" \in Disturbances
    /\ polls[p].stage = "polling"
    /\ polls' = [polls EXCEPT ![p] = NoPoll]
    /\ Hear(p, IdleRunner("idle"))
    /\ UNCHANGED <<row, order, head, setups, strays, disk, continued>>

(* #buildClaim succeeds and the answer reaches the Runner, if it still waits. *)
AnswerClaim(p) ==
    /\ polls[p].stage = "granted"
    /\ polls' = [polls EXCEPT ![p] = NoPoll]
    /\ Hear(p, [IdleRunner("building") EXCEPT !.grant = polls[p].grant])
    /\ UNCHANGED <<row, order, head, setups, strays, disk, continued>>

(* #buildClaim fails after the claim has been committed: it reports the attempt
   failed itself, which may fail in turn, and the Runner gets an error. *)
BuildClaimFails(p) ==
    LET g == polls[p].grant IN
    /\ "repository" \in Disturbances
    /\ polls[p].stage = "granted"
    /\ \/ row' = [row EXCEPT ![g.w] =
                     Completed(row[g.w], [w |-> g.w, seq |-> g.seq, base |-> g.base,
                                          status |-> "failed", failure |-> "access"])]
       \/ "contention" \in Disturbances /\ UNCHANGED row
    /\ polls' = [polls EXCEPT ![p] = NoPoll]
    /\ Hear(p, IdleRunner("idle"))
    /\ UNCHANGED <<order, head, setups, strays, disk, continued>>
----------------------------------------------------------------------------
(* The Runner: runWorkspaceLoop, processNextWorkspace, materialize. *)

PollForWork(p) ==
    /\ runner.phase = "idle"
    /\ polls[p].stage = "free"
    /\ runner' = IdleRunner("waiting")
    /\ polls' = [polls EXCEPT ![p] = [NoPoll EXCEPT !.stage = "polling", !.heard = TRUE]]
    /\ UNCHANGED <<row, order, head, setups, strays, disk, continued>>

Deaf == [p \in Polls |-> [polls[p] EXCEPT !.heard = FALSE]]

(* The connection breaks: the Runner tries again, the server goes on. *)
LoseClaim ==
    /\ "network" \in Disturbances
    /\ runner.phase = "waiting"
    /\ runner' = IdleRunner("idle")
    /\ polls' = Deaf
    /\ UNCHANGED <<row, order, head, setups, strays, disk, continued>>

Target == disk[runner.grant.w]

Reporting(status, cause) ==
    runner' = [runner EXCEPT !.phase = "reporting", !.status = status, !.failure = cause]

(* A directory that is already there is adopted if it is what the claim asks for. *)
Adopt ==
    /\ runner.phase = "building"
    /\ Target.state = "intact" /\ Target.base = runner.grant.base
    /\ Reporting("succeeded", NoCause)
    /\ UNCHANGED <<row, order, head, setups, polls, strays, disk, continued>>

Refuse ==
    /\ runner.phase = "building"
    /\ Target.state # "none"
    /\ ~(Target.state = "intact" /\ Target.base = runner.grant.base)
    /\ Reporting("failed", "target_exists")
    /\ UNCHANGED <<row, order, head, setups, polls, strays, disk, continued>>

(* Clone, fetch, switch and verify in a temporary directory, then rename it. *)

(* Mutant: success is reported before the directory is renamed. *)
PublishLate ==
    /\ runner.phase = "building"
    /\ Target.state = "none"
    /\ Reporting("succeeded", NoCause)
    /\ UNCHANGED <<row, order, head, setups, polls, strays, disk, continued>>

Publish ==
    /\ runner.phase = "building"
    /\ Target.state = "none"
    /\ disk' = [disk EXCEPT ![runner.grant.w] =
                   [state |-> "intact", base |-> runner.grant.base]]
    /\ Reporting("succeeded", NoCause)
    /\ UNCHANGED <<row, order, head, setups, polls, strays, continued>>

GitFails ==
    /\ "repository" \in Disturbances
    /\ runner.phase = "building"
    /\ Target.state = "none"
    /\ Reporting("failed", "git")
    /\ UNCHANGED <<row, order, head, setups, polls, strays, disk, continued>>

OwnReport == [w |-> runner.grant.w, seq |-> runner.grant.seq, base |-> runner.grant.base,
              status |-> runner.status, failure |-> runner.failure]

(* The report route: the transaction, and for a ready workspace the continuation of
   its task (continueAfterWorkspaceReady). *)
Receives(rep) == row' = [row EXCEPT ![rep.w] = Completed(row[rep.w], rep)]
Continues(rep) ==
    continued' = IF rep.status = "succeeded"
                      /\ (Current(row[rep.w], rep) \/ Recognised(row[rep.w], rep))
                 THEN continued \cup {rep.w} ELSE continued

(* reportUntilAccepted: an answer and a 409 both end it. *)
ReportAnswered ==
    /\ runner.phase = "reporting"
    /\ Receives(OwnReport) /\ Continues(OwnReport)
    /\ runner' = IdleRunner("idle")
    /\ UNCHANGED <<order, head, setups, polls, strays, disk>>

(* The control plane goes down between the two: the report will be sent again. *)
ReportInterrupted ==
    /\ "restart" \in Disturbances
    /\ runner.phase = "reporting"
    /\ Receives(OwnReport)
    /\ UNCHANGED <<order, head, setups, polls, runner, strays, disk, continued>>

(* No answer in time: the report is sent again while the first may still arrive. *)
ReportLost ==
    /\ "network" \in Disturbances
    /\ runner.phase = "reporting"
    /\ strays' = strays \cup {OwnReport}
    /\ UNCHANGED <<row, order, head, setups, polls, runner, disk, continued>>

StrayArrives(rep) ==
    /\ Receives(rep) /\ Continues(rep)
    /\ strays' = strays \ {rep}
    /\ UNCHANGED <<order, head, setups, polls, runner, disk>>

Crash ==
    /\ "crash" \in Disturbances
    /\ runner.phase # "down"
    /\ runner' = IdleRunner("down")
    /\ polls' = Deaf
    /\ UNCHANGED <<row, order, head, setups, strays, disk, continued>>

Start ==
    /\ runner.phase = "down"
    /\ runner' = IdleRunner("idle")
    /\ UNCHANGED <<row, order, head, setups, polls, strays, disk, continued>>
----------------------------------------------------------------------------
(* Time, the remote and the sessions that work in a ready workspace. *)

LeaseLapses(w) ==
    /\ row[w].state = "preparing" /\ ~row[w].lapsed
    /\ row' = [row EXCEPT ![w].lapsed = TRUE]
    /\ UNCHANGED <<order, head, setups, polls, runner, strays, disk, continued>>

BranchMoves(commit) ==
    /\ head' = commit
    /\ UNCHANGED <<row, order, setups, polls, runner, strays, disk, continued>>

(* Sessions work in a directory from when its workspace is ready; with "disk", the host
   damages any directory at any time. *)
UseDirectory(w, state) ==
    /\ row[w].state \in {"ready", "unavailable"} \/ "disk" \in Disturbances
    /\ disk[w].state # "none"
    /\ disk' = [disk EXCEPT ![w].state = state]
    /\ UNCHANGED <<row, order, head, setups, polls, runner, strays, continued>>

(* resolveReadyWorkspace fails for a session, and resolveTaskWorkspaceForSession posts
   the loss to the availability route.  The session loop of the daemon does not call it
   (~ReportsLoss): it fails the session and says nothing of the workspace. *)
SessionMisses(w) ==
    /\ row[w].state = "ready"
    /\ disk[w].state \notin {"intact", "advanced"}
    /\ ReportsLoss
    /\ row' = [row EXCEPT ![w] = Unavailable(row[w])]
    /\ UNCHANGED <<order, head, setups, polls, runner, strays, disk, continued>>
----------------------------------------------------------------------------
PreparationInit ==
    /\ row = [w \in Workspaces |-> Absent]
    /\ order = <<>>
    /\ head \in Commits
    /\ setups = [c \in Setups |-> NoSetup]
    /\ polls = [p \in Polls |-> NoPoll]
    /\ runner = IdleRunner("down")
    /\ strays = {}
    /\ disk = [w \in Workspaces |-> [state |-> "none", base |-> NoCommit]]
    /\ continued = {}

SetupStep(c) ==
    \/ \E w \in Workspaces : Look(c, w)
    \/ ResolveBase(c)
    \/ RepositoryUnavailable(c)
    \/ Create(c)
    \/ Retry(c)
    \/ Abandon(c)

PollStep(p) ==
    \/ \E w \in Workspaces : ClaimGrants(p, w)
    \/ ClaimFindsNothing(p)
    \/ ClaimAborts(p)
    \/ AnswerClaim(p)
    \/ BuildClaimFails(p)

Materialize == Adopt \/ Refuse \/ Publish \/ GitFails

PreparationNext ==
    \/ \E c \in Setups : SetupStep(c)
    \/ \E p \in Polls : PollStep(p)
    \/ \E p \in Polls : PollForWork(p)
    \/ Start
    \/ Materialize
    \/ ReportAnswered
    \/ ReportInterrupted
    \/ LoseClaim
    \/ ReportLost
    \/ \E rep \in strays : StrayArrives(rep)
    \/ Crash
    \/ \E w \in Workspaces : LeaseLapses(w) \/ SessionMisses(w)
    \/ \E commit \in Commits : BranchMoves(commit)
    \/ \E w \in Workspaces, state \in {"advanced", "broken"} : UseDirectory(w, state)

PreparationSpec == PreparationInit /\ [][PreparationNext]_prepVars

(* The server, the clock and a Runner that is up keep going.  A Runner that goes down
   is started again, and one that is started over and over gets to send a request now
   and then; nothing is assumed of setup requests, which users make, nor of the
   network. *)
Fairness ==
    /\ WF_prepVars(Start)
    /\ SF_prepVars(\E p \in Polls : PollForWork(p))
    /\ WF_prepVars(Materialize)
    /\ WF_prepVars(ReportAnswered)
    /\ \A p \in Polls : WF_prepVars(PollStep(p))
    /\ \A w \in Workspaces : WF_prepVars(LeaseLapses(w))

FairPreparationSpec == PreparationSpec /\ Fairness
----------------------------------------------------------------------------
PreparationTypeOK ==
    /\ row \in [Workspaces -> Row]
    /\ order \in Seq(Workspaces)
    /\ head \in Commits
    /\ setups \in [Setups -> Setup]
    /\ polls \in [Polls -> Poll]
    /\ runner \in Runner
    /\ strays \subseteq Report
    /\ disk \in [Workspaces -> Directory]
    /\ continued \subseteq Workspaces

(* The active attempt and the row always tell the same story, every earlier attempt
   has ended without success, and nothing but a ready workspace has a reference:
   what taskWorkspaceTrustedSchema refuses to read and createTaskWorkspace,
   retryTaskWorkspace and the claim rely on. *)
Stories ==
    {<<"queued", "queued">>, <<"preparing", "claimed">>, <<"ready", "succeeded">>,
     <<"unavailable", "succeeded">>, <<"failed", "failed">>, <<"failed", "expired">>}

AttemptsAgree ==
    \A w \in Workspaces :
        LET r == row[w] IN
        /\ r.state # "absent" => r.active \in Seqs /\ <<r.state, r.attempts[r.active]>> \in Stories
        /\ \A n \in Seqs : n < r.active => r.attempts[n] \in {"failed", "expired"}
        /\ \A n \in Seqs : n > r.active => r.attempts[n] = "none"
        /\ r.attached <=> r.state = "ready"
        /\ r.failure # NoCause <=> r.state \in {"failed", "unavailable"}

(* A workspace is ready only over a directory that the Runner has published from the
   commit frozen in its row, whatever reports were late, lost or repeated (FR-019). *)
ReadyIsPublished ==
    \A w \in Workspaces :
        row[w].state = "ready" => disk[w].state # "none" /\ disk[w].base = row[w].base

(* A directory left behind by an attempt whose success came too late can be adopted
   by the next one: no workspace is stuck behind its own publish target. *)
LeftoverAdoptable ==
    \A w \in Workspaces :
        row[w].state \in {"queued", "preparing", "failed"} /\ disk[w].state # "none"
            => disk[w].state = "intact" /\ disk[w].base = row[w].base

(* An attempt is handed out once: of the claim requests and the Runner, at most one
   has it, whatever became of answers and leases. *)
Holds(h, w, n) ==
    LET g == IF h = "runner" THEN runner.grant ELSE polls[h].grant
    IN  g.w = w /\ g.seq = n

OneHolder ==
    \A w \in Workspaces, n \in Seqs :
        \A h, k \in Polls \cup {"runner"} : Holds(h, w, n) /\ Holds(k, w, n) => h = k

(* What has been decided of an attempt is never decided again (the fencing rules of
   the data model): a late report rewrites neither an expired attempt nor a row. *)
SettledForGood ==
    [][\A w \in Workspaces, n \in Seqs :
          row[w].attempts[n] \in SettledStates
              => row'[w].attempts[n] = row[w].attempts[n]]_prepVars

(* The protocol implements the lifecycle. *)
Lifecycle == INSTANCE WorkspaceLifecycle WITH phase <- [w \in Workspaces |-> row[w].state]
ImplementsLifecycle == Lifecycle!LifecycleSpec

(* Whatever is lost, a workspace does not stay queued or preparing. *)
PreparationSettles ==
    \A w \in Workspaces :
        row[w].state \in {"queued", "preparing"} ~> row[w].state \in {"ready", "failed"}

(* A workspace that becomes ready is passed on to its task although the control plane
   may stop between the two: as long as the Runner that reports it lives, it resends
   and the report is recognised. *)
ReadyPassedOn ==
    \A w \in Workspaces :
        row[w].state = "ready" /\ runner.phase = "reporting"
            /\ runner.grant.w = w /\ runner.grant.seq = row[w].active
            ~> w \in continued \/ runner.phase = "down"
=============================================================================
