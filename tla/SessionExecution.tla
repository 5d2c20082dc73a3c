-------------------------- MODULE SessionExecution --------------------------
(***************************************************************************)
(* The callers of the session ledger, step by step: SessionService's       *)
(* sendMessage and close, the claim route with its lease reaper, the       *)
(* runner's session loop, one worker per assignment and the HTTP calls     *)
(* between them.  Every change of the ledger is an action of SessionLedger *)
(* (the specification implements LedgerSpec); what is added here is what a *)
(* caller remembers between two of its steps.                              *)
(*                                                                         *)
(* One Runtime is modelled in full; the runners of every other Runtime     *)
(* appear as caller 0, whose claims also reap the leases of this one.      *)
(***************************************************************************)
EXTENDS SessionLedger

CONSTANTS MaxRuns,           \* bound: starts of the runner daemon
          MaxTries,          \* requests of one appendEvents call (3 in the code)
          EagerSessions,     \* sessions whose Provider id is known at start (copilot, pi)
          RejectionsCrash,   \* an unhandled rejection ends the daemon (no SENTRY_DSN)
          Disturbances       \* what may go wrong in this run

AllDisturbances ==
    {"network", "crash", "shutdown", "restart", "assembly", "provider", "expiry", "contention"}

ASSUME ExecutionAssumption ==
    /\ MaxRuns \in Nat /\ MaxTries \in Nat \ {0} /\ EagerSessions \subseteq Sessions
    /\ RejectionsCrash \in BOOLEAN /\ Disturbances \subseteq AllDisturbances

VARIABLES online,   \* the Runtime's derived liveness: a heartbeat within 180 s
          daemon,   \* the runner process
          worker,   \* worker[s]: executeSessionAssignment of session s, if any
          calls,    \* calls[i]: the claim request of daemon run i (0: another Runtime)
          sends,    \* sendMessage calls between their checks and their append
          closes,   \* close calls between their check and their append
          late      \* append requests whose client stopped waiting for the answer

runnerVars == <<online, daemon, worker, calls, sends, closes, late>>
execVars == <<book, claims, earlier, online, daemon, worker, calls, sends, closes, late>>
----------------------------------------------------------------------------
Assignment == [session : Sessions, msg : Messages, token : Tokens,
               provider : {"none", "provider-session"}]

(* A worker is idle or holds one assignment.  reply is the state of its one
   outstanding appendEvents call, batch and tries the call itself. *)
IdleWorker ==
    [phase |-> "idle", msg |-> NoMessage, token |-> NoToken, provider |-> "none",
     started |-> FALSE, end |-> "none", said |-> FALSE,
     reply |-> "none", batch |-> <<>>, tries |-> 0]
Busy(s) == worker[s].phase # "idle"

NoCall == [phase |-> "none", leases |-> {}, doomed |-> {}, grant |-> {}]
Callers == 0..MaxRuns
Expired == {s \in Sessions : HasLease(book[s]) /\ book[s].lease.expired}
----------------------------------------------------------------------------
(* What a worker posts.  event() numbers the worker's events from 1 and gives
   each a random id; one assignment uses a number once, so <<token, n>> is that
   id.  A worker never posts more than two events at a time. *)
Emit(w, n, kind) ==
    [id |-> <<w.token, n>>, source |-> RunnerSource(w.msg), seq |-> n, kind |-> kind,
     msg |-> IF kind = "provider_started" THEN NoMessage ELSE w.msg,
     body |-> IF kind = "provider_started" THEN "provider-session" ELSE "none"]

(* Mutant: the response start is left for a batch of its own. *)
StartBatchAlone(w) ==
    IF w.provider = "none" THEN <<Emit(w, 1, "provider_started")>>
                           ELSE <<Emit(w, 1, "response_started")>>

StartBatch(w) ==
    IF w.provider = "none"
    THEN <<Emit(w, 1, "provider_started"), Emit(w, 2, "response_started")>>
    ELSE <<Emit(w, 1, "response_started")>>

OutcomeKind ==
    [answered |-> "response_completed", failed |-> "response_failed",
     broken |-> "response_failed", timed_out |-> "response_canceled",
     aborted |-> "response_canceled"]

FinalBatch(w) ==
    LET next == IF w.provider = "none" THEN 3 ELSE 2
        kind == OutcomeKind[w.end]
    IN  IF w.started
        THEN IF w.said THEN <<Emit(w, next, "agent_message_chunk"), Emit(w, next + 1, kind)>>
                       ELSE <<Emit(w, next, kind)>>
        ELSE IF w.end = "aborted"
             THEN <<Emit(w, 1, "response_started"), Emit(w, 2, "response_canceled")>>
             ELSE <<Emit(w, 1, "failed")>>
RefusalBatch(w) == <<Emit(w, 1, "failed")>>

WorkerBatches ==
    UNION {
      LET w == [IdleWorker EXCEPT !.msg = m, !.token = n, !.provider = p, !.started = st,
                                  !.end = end, !.said = sd]
      IN  {StartBatch(w), FinalBatch(w), RefusalBatch(w)}
      : m \in Messages, n \in Tokens, p \in {"none", "provider-session"}, st \in BOOLEAN,
        sd \in BOOLEAN, end \in DOMAIN OutcomeKind}

ASSUME WorkerBatchesAssumption == WorkerBatches \subseteq RunnerBatches

(* The session transactions are not retried: one that a concurrent transaction
   aborts (P2034) is refused like one the ledger does not accept. *)
MayAbort == "contention" \in Disturbances
Refused(s, token, batch) == ~BatchAccepted(book[s], token, batch) \/ MayAbort

(* w starts an appendEvents call. *)
Posting(w, batch) == [w EXCEPT !.reply = "waiting", !.batch = batch, !.tries = 1]
----------------------------------------------------------------------------
(* SessionService.sendMessage and close: read, decide, then append. *)

CheckMessage(s, m, content) ==
    /\ \/ book[s].state = "ready"
       \/ book[s].state = "interrupted" /\ book[s].mode = "new_message"
    /\ \A r \in book[s].rows : ~(r.kind = "user_message_submitted" /\ r.msg = m)
    /\ sends' = sends \cup {<<s, m, content>>}
    /\ UNCHANGED <<book, claims, earlier, online, daemon, worker, calls, closes, late>>

(* An append that conflicts with what happened since is answered session_conflict.
   The same message may be on its way in several calls: an element of sends
   stands for one or more of them. *)
AppendMessage(s, m, content) ==
    /\ <<s, m, content>> \in sends
    /\ sends' \in {sends, sends \ {<<s, m, content>>}}
    /\ \/ SubmitMessage(s, m, content)
       \/ Refused(s, NoToken, MessageBatch(m, content)) /\ UNCHANGED ledgerVars
    /\ UNCHANGED <<online, daemon, worker, calls, closes, late>>

CheckClose(s) ==
    /\ book[s].state \in NonTerminal
    /\ closes' = closes \cup {s}
    /\ UNCHANGED <<book, claims, earlier, online, daemon, worker, calls, sends, late>>

AppendClose(s) ==
    /\ s \in closes
    /\ closes' = closes \ {s}
    /\ \/ CloseSession(s)
       \/ Refused(s, NoToken, CloseBatch) /\ UNCHANGED ledgerVars
    /\ UNCHANGED <<online, daemon, worker, calls, sends, late>>
----------------------------------------------------------------------------
(* The claim route: reconcileExpiredLeases, one await at a time, then
   claimSession.  A handler runs to its end even if its runner is gone. *)

LoopFree == \A s \in Sessions : worker[s].phase # "refused"

(* The runner's request and listExpiredSessionLeases.  Another Runtime's request
   does nothing here unless there may be a lease to reap. *)
Poll(i) ==
    /\ calls[i] = NoCall
    /\ IF i = 0 THEN "expiry" \in Disturbances
                ELSE daemon.up /\ daemon.run = i /\ ~daemon.stopping /\ LoopFree
    /\ calls' = [calls EXCEPT ![i].phase = "reaping",
                              ![i].leases = {<<s, book[s].lease.id>> : s \in Expired}]
    /\ UNCHANGED <<book, claims, earlier, online, daemon, worker, sends, closes, late>>

(* isRuntimeOnline and getSession for the next listed lease. *)
ExamineRunningOnly(i, lease) ==      \* mutant: only running sessions are failed
    /\ calls[i].phase = "reaping"
    /\ lease \in calls[i].leases
    /\ calls' = IF online \/ book[lease[1]].state # "running"
                THEN [calls EXCEPT ![i].leases = @ \ {lease}]
                ELSE [calls EXCEPT ![i].leases = @ \ {lease}, ![i].doomed = {lease},
                                   ![i].phase = "failing"]
    /\ UNCHANGED <<book, claims, earlier, online, daemon, worker, sends, closes, late>>

Examine(i, lease) ==
    /\ calls[i].phase = "reaping"
    /\ lease \in calls[i].leases
    /\ calls' = IF online \/ book[lease[1]].state \in Terminal
                THEN [calls EXCEPT ![i].leases = @ \ {lease}]
                ELSE [calls EXCEPT ![i].leases = @ \ {lease}, ![i].doomed = {lease},
                                   ![i].phase = "failing"]
    /\ UNCHANGED <<book, claims, earlier, online, daemon, worker, sends, closes, late>>

(* The append throws if the session ended meanwhile, and the claim with it. *)
FailSession(i) ==
    /\ calls[i].phase = "failing"
    /\ \E lease \in calls[i].doomed :
          \/ /\ LoseRuntime(lease[1])
             /\ calls' = [calls EXCEPT ![i].doomed = {}, ![i].phase = "reaping"]
          \/ /\ Refused(lease[1], NoToken, RuntimeLostBatch(lease[2]))
             /\ calls' = [calls EXCEPT ![i] = [NoCall EXCEPT !.phase = "answered"]]
             /\ UNCHANGED ledgerVars
    /\ UNCHANGED <<online, daemon, worker, sends, closes, late>>

(* Mutant: the lease's Provider session is not handed on. *)
GrantedAfresh(s) ==
    [session |-> s, msg |-> book[s].active, token |-> claims + 1, provider |-> "none"]

Granted(s) ==
    [session |-> s, msg |-> book[s].active, token |-> claims + 1,
     provider |-> book[s].lease.provider]

(* claimSession throws when the first session's Provider is unavailable. *)
Claim(i) ==
    /\ calls[i].phase = "reaping" /\ calls[i].leases = {}
    /\ \/ \E s \in Sessions :
             /\ i # 0
             /\ ClaimSession(s)
             /\ calls' = [calls EXCEPT ![i] = [NoCall EXCEPT !.phase = "answered",
                                                             !.grant = {Granted(s)}]]
       \/ /\ \/ i = 0
             \/ "provider" \in Disturbances \/ MayAbort
             \/ \A s \in Sessions : book[s].state \notin Claimable
          /\ calls' = [calls EXCEPT ![i] = [NoCall EXCEPT !.phase = "answered"]]
          /\ UNCHANGED ledgerVars
    /\ UNCHANGED <<online, daemon, worker, sends, closes, late>>

(* After the claim has committed, assembling the assignment may throw or the
   answer may never arrive. *)
LoseGrant(i) ==
    /\ Disturbances \cap {"assembly", "network", "restart"} # {}
    /\ calls[i].phase = "answered" /\ calls[i].grant # {}
    /\ calls' = [calls EXCEPT ![i].grant = {}]
    /\ UNCHANGED <<book, claims, earlier, online, daemon, worker, sends, closes, late>>

(* The answer reaches the loop: it skips a session that is still active, fails
   one whose executable is missing and starts a worker for any other. *)
AcceptingSilently(a) ==              \* mutant: a missing executable is not reported
    LET w == [IdleWorker EXCEPT !.msg = a.msg, !.token = a.token, !.provider = a.provider]
    IN  {[w EXCEPT !.phase = "prepare"]}
           \cup (IF "provider" \in Disturbances THEN {IdleWorker} ELSE {})

Accepting(a) ==
    LET w == [IdleWorker EXCEPT !.msg = a.msg, !.token = a.token, !.provider = a.provider]
    IN  {[w EXCEPT !.phase = "prepare"]}
           \cup (IF "provider" \in Disturbances
                 THEN {[Posting(w, RefusalBatch(w)) EXCEPT !.phase = "refused"]} ELSE {})

Receive(i) ==
    /\ calls[i].phase = "answered"
    /\ calls' = [calls EXCEPT ![i] = NoCall]
    /\ IF i = 0 \/ ~daemon.up \/ daemon.run # i
       THEN UNCHANGED worker
       ELSE IF \E a \in calls[i].grant : ~Busy(a.session)
            THEN \E a \in calls[i].grant, w \in UNION {Accepting(b) : b \in calls[i].grant} :
                    worker' = [worker EXCEPT ![a.session] = w]
            ELSE UNCHANGED worker
    /\ UNCHANGED <<book, claims, earlier, online, daemon, sends, closes, late>>
----------------------------------------------------------------------------
(* executeSessionAssignment. *)

WorkerStep(s, w) ==
    /\ worker' = [worker EXCEPT ![s] = w]
    /\ UNCHANGED <<book, claims, earlier, online, daemon, calls, sends, closes, late>>

(* Workspace, skills or command cannot be prepared. *)
PrepareFails(s) ==
    /\ worker[s].phase = "prepare"
    /\ WorkerStep(s, [Posting(worker[s], RefusalBatch(worker[s])) EXCEPT !.phase = "last"])

(* A known Provider session is announced before its process starts. *)
Prepare(s) ==
    /\ worker[s].phase = "prepare"
    /\ IF worker[s].provider # "none" \/ s \in EagerSessions
       THEN WorkerStep(s, [Posting(worker[s], StartBatch(worker[s]))
                              EXCEPT !.phase = "starting", !.started = TRUE])
       ELSE WorkerStep(s, [worker[s] EXCEPT !.phase = "running"])

StartProcessEarly(s) ==              \* mutant: the start call is not awaited
    /\ worker[s].phase = "starting"
    /\ WorkerStep(s, [worker[s] EXCEPT !.phase = "running", !.reply = "none"])

StartProcess(s) ==
    /\ worker[s].phase = "starting" /\ worker[s].reply = "ok"
    /\ WorkerStep(s, [worker[s] EXCEPT !.phase = "running", !.reply = "none"])

(* Codex prints its thread id while the process runs. *)
SeeThread(s) ==
    /\ worker[s].phase = "running" /\ ~worker[s].started
    /\ WorkerStep(s, [Posting(worker[s], StartBatch(worker[s])) EXCEPT !.started = TRUE])

(* The process ends: with a result, with output that cannot be parsed, or because
   the runner is stopping; said is whether it left an assistant message. *)
ProcessEnds(s, end, said) ==
    /\ worker[s].phase = "running"
    /\ end = "aborted" => daemon.stopping
    /\ end = "timed_out" => s \in EagerSessions      \* pi only
    /\ said => end \in {"answered", "failed", "timed_out"}
    /\ WorkerStep(s, [worker[s] EXCEPT !.phase = "ended", !.end = end, !.said = said])

(* publishResponseStarted after the process, if nothing announced it before. *)
PublishStart(s) ==
    /\ worker[s].phase = "ended" /\ ~worker[s].started
    /\ worker[s].end \in {"answered", "failed", "timed_out"}
    /\ WorkerStep(s, [Posting(worker[s], StartBatch(worker[s])) EXCEPT !.started = TRUE])

(* Mutant: a process that never announced itself reports nothing. *)
ConcludeStarted(s) ==
    /\ worker[s].phase = "ended" /\ worker[s].reply \in {"none", "ok"}
    /\ worker[s].started
    /\ WorkerStep(s, [Posting(worker[s], FinalBatch(worker[s])) EXCEPT !.phase = "last"])

(* The outcome is posted once the start is known to be recorded. *)
Conclude(s) ==
    /\ worker[s].phase = "ended" /\ worker[s].reply \in {"none", "ok"}
    /\ worker[s].started \/ worker[s].end \in {"broken", "aborted"}
    /\ WorkerStep(s, [Posting(worker[s], FinalBatch(worker[s])) EXCEPT !.phase = "last"])

(* The call behind the last batch returned; active.delete lets the session in
   again.  The loop catches the rejection of its own append. *)
Finish(s) ==
    /\ \/ worker[s].phase = "last" /\ worker[s].reply = "ok"
       \/ worker[s].phase = "refused" /\ worker[s].reply \in {"ok", "rejected"}
    /\ WorkerStep(s, IdleWorker)

Unanswered == {s \in Sessions : worker[s].reply = "waiting"}
Request(s) == [session |-> s, token |-> worker[s].token, batch |-> worker[s].batch]

(* The process is gone: its workers with it, its calls not. *)
DaemonEnds ==
    /\ daemon' = [daemon EXCEPT !.up = FALSE]
    /\ worker' = [s \in Sessions |-> IdleWorker]
    /\ late' = late \cup {Request(s) : s \in Unanswered}
    /\ UNCHANGED <<book, claims, earlier, online, calls, sends, closes>>

(* A worker whose append was rejected rejects itself, and nobody handles it. *)
WorkerRejects(s) ==
    /\ worker[s].phase \in {"starting", "ended", "last"} /\ worker[s].reply = "rejected"
    /\ IF RejectionsCrash THEN DaemonEnds ELSE WorkerStep(s, IdleWorker)
----------------------------------------------------------------------------
(* One appendEvents call: up to MaxTries requests, any number of which the control
   plane may process, at any time.  Every refusal is answered 409. *)
AnswerUnleased(s) ==                 \* mutant: the route forgets the lease token
    /\ worker[s].reply = "waiting"
    /\ \/ /\ PostBatch(s, NoToken, worker[s].batch)
          /\ worker' = [worker EXCEPT ![s].reply = "ok"]
       \/ /\ Refused(s, NoToken, worker[s].batch)
          /\ UNCHANGED ledgerVars
          /\ worker' = [worker EXCEPT ![s].reply = "rejected"]
    /\ UNCHANGED <<online, daemon, calls, sends, closes, late>>

Answer(s) ==
    /\ worker[s].reply = "waiting"
    /\ \/ /\ PostBatch(s, worker[s].token, worker[s].batch)
          /\ worker' = [worker EXCEPT ![s].reply = "ok"]
       \/ /\ Refused(s, worker[s].token, worker[s].batch)
          /\ UNCHANGED ledgerVars
          /\ worker' = [worker EXCEPT ![s].reply = "rejected"]
    /\ UNCHANGED <<online, daemon, calls, sends, closes, late>>

StopWaiting(s) ==
    /\ Disturbances \cap {"network", "restart"} # {}
    /\ worker[s].reply = "waiting"
    /\ late' = late \cup {Request(s)}
    /\ LET w == worker[s]
       IN  worker' = [worker EXCEPT ![s] =
                         IF w.tries < MaxTries THEN [w EXCEPT !.tries = w.tries + 1]
                                               ELSE [w EXCEPT !.reply = "rejected"]]
    /\ UNCHANGED <<book, claims, earlier, online, daemon, calls, sends, closes>>

AnswerLate(r) ==
    /\ r \in late
    /\ late' = late \ {r}
    /\ \/ PostBatch(r.session, r.token, r.batch)
       \/ Refused(r.session, r.token, r.batch) /\ UNCHANGED ledgerVars
    /\ UNCHANGED <<online, daemon, worker, calls, sends, closes>>
----------------------------------------------------------------------------
(* The runner process.  Registration precedes its loops. *)
StartDaemon ==
    /\ ~daemon.up /\ daemon.run < MaxRuns
    /\ daemon' = [run |-> daemon.run + 1, up |-> TRUE, stopping |-> FALSE]
    /\ online' = TRUE
    /\ UNCHANGED <<book, claims, earlier, worker, calls, sends, closes, late>>

Crash == "crash" \in Disturbances /\ daemon.up /\ DaemonEnds

(* SIGTERM aborts the signal; the loop then waits for its claim and its workers. *)
Stop ==
    /\ "shutdown" \in Disturbances /\ daemon.up /\ ~daemon.stopping
    /\ daemon' = [daemon EXCEPT !.stopping = TRUE]
    /\ UNCHANGED <<book, claims, earlier, online, worker, calls, sends, closes, late>>
Exit ==
    /\ daemon.up /\ daemon.stopping
    /\ calls[daemon.run] = NoCall
    /\ \A s \in Sessions : ~Busy(s)
    /\ DaemonEnds

(* 180 s without a heartbeat, and the next heartbeat. *)
GoOffline ==
    /\ online
    /\ ~daemon.up \/ daemon.stopping \/ "network" \in Disturbances
    /\ online' = FALSE
    /\ UNCHANGED <<book, claims, earlier, daemon, worker, calls, sends, closes, late>>
Heartbeat ==
    /\ ~online /\ daemon.up /\ ~daemon.stopping
    /\ online' = TRUE
    /\ UNCHANGED <<book, claims, earlier, daemon, worker, calls, sends, closes, late>>

(* The control plane restarts: its handlers are gone, and with its memory the
   heartbeats (HostLivenessRegistry); a heartbeat it cannot place re-registers. *)
Restart ==
    /\ "restart" \in Disturbances
    /\ online' = FALSE
    /\ calls' = [i \in Callers |->
                    IF calls[i].phase \in {"reaping", "failing"}
                    THEN [NoCall EXCEPT !.phase = "answered"] ELSE calls[i]]
    /\ sends' = {} /\ closes' = {}
    /\ UNCHANGED <<book, claims, earlier, daemon, worker, late>>
----------------------------------------------------------------------------
Launch(s, m, content) == LaunchSession(s, m, content) /\ UNCHANGED runnerVars
Expire(s) == "expiry" \in Disturbances /\ LeaseExpires(s) /\ UNCHANGED runnerVars

ExecutionInit ==
    /\ LedgerInit
    /\ online = FALSE
    /\ daemon = [run |-> 0, up |-> FALSE, stopping |-> FALSE]
    /\ worker = [s \in Sessions |-> IdleWorker]
    /\ calls = [i \in Callers |-> NoCall]
    /\ sends = {} /\ closes = {} /\ late = {}

UserNext ==
    \E s \in Sessions :
        \/ \E m \in Messages, c \in Contents :
              Launch(s, m, c) \/ CheckMessage(s, m, c) \/ AppendMessage(s, m, c)
        \/ CheckClose(s) \/ AppendClose(s)

ClaimNext(i) ==
    \/ Poll(i) \/ FailSession(i) \/ Claim(i) \/ LoseGrant(i) \/ Receive(i)
    \/ \E lease \in calls[i].leases : Examine(i, lease)

Ends == {"answered", "failed", "broken", "timed_out", "aborted"}
WorkerNext(s) ==
    \/ PrepareFails(s) \/ Prepare(s) \/ StartProcess(s) \/ SeeThread(s)
    \/ \E end \in Ends, said \in BOOLEAN : ProcessEnds(s, end, said)
    \/ PublishStart(s) \/ Conclude(s) \/ Finish(s) \/ WorkerRejects(s)
    \/ Answer(s) \/ StopWaiting(s)

DaemonNext ==
    StartDaemon \/ Crash \/ Stop \/ Exit \/ GoOffline \/ Heartbeat \/ Restart

ExecutionNext ==
    \/ UserNext
    \/ \E i \in Callers : ClaimNext(i)
    \/ \E s \in Sessions : WorkerNext(s) \/ Expire(s)
    \/ \E r \in late : AnswerLate(r)
    \/ DaemonNext

ExecutionSpec == ExecutionInit /\ [][ExecutionNext]_execVars

(* What the scheduling of the code gives: the loop polls for ever, a handler, a
   worker and a request run to their end.  Nothing bounds how long a Provider
   process runs, so ProcessEnds is not fair, and no user has to do anything. *)
ClaimFairness(i) ==
    /\ WF_execVars(Poll(i))
    /\ WF_execVars(FailSession(i) \/ Claim(i) \/ \E lease \in calls[i].leases : Examine(i, lease))
    /\ WF_execVars(Receive(i))
WorkerFairness(s) ==
    /\ WF_execVars(PrepareFails(s) \/ Prepare(s))
    /\ WF_execVars(StartProcess(s))
    /\ WF_execVars(PublishStart(s) \/ Conclude(s))
    /\ WF_execVars(Answer(s))
    /\ WF_execVars(Finish(s) \/ WorkerRejects(s))
ExecutionFairness ==
    /\ WF_execVars(StartDaemon)
    /\ \A i \in Callers : ClaimFairness(i)
    /\ \A s \in Sessions : WorkerFairness(s)
FairExecutionSpec == ExecutionSpec /\ ExecutionFairness
----------------------------------------------------------------------------
(* Type of the variables. *)
Worker ==
    [phase : {"idle", "prepare", "starting", "running", "ended", "last", "refused"},
     msg : Messages \cup {NoMessage}, token : Nat, provider : {"none", "provider-session"},
     started : BOOLEAN, end : Ends \cup {"none"}, said : BOOLEAN,
     reply : {"none", "waiting", "ok", "rejected"},
     batch : WorkerBatches \cup {<<>>}, tries : 0..MaxTries]
Call ==
    [phase : {"none", "reaping", "failing", "answered"},
     leases : SUBSET (Sessions \X Tokens), doomed : SUBSET (Sessions \X Tokens),
     grant : SUBSET Assignment]
ExecutionTypeOK ==
    /\ online \in BOOLEAN
    /\ daemon \in [run : 0..MaxRuns, up : BOOLEAN, stopping : BOOLEAN]
    /\ worker \in [Sessions -> Worker]
    /\ calls \in [Callers -> Call]
    /\ sends \subseteq Sessions \X Messages \X Contents
    /\ closes \subseteq Sessions
    /\ late \subseteq [session : Sessions, token : Tokens, batch : WorkerBatches]

(* A message is dispatched at most once: whatever is lost, retried, reaped or
   restarted, no second worker ever gets a message that a first one may have begun
   (SC-005 of spec 049, "one execution"). *)
DispatchedOnce ==
    \A s \in Sessions : \A r, q \in book[s].rows :
        r.kind = "runtime_dispatched" /\ q.kind = "runtime_dispatched" /\ r.global < q.global
            => \E p \in book[s].rows : /\ p.kind = "user_message_submitted"
                                       /\ r.global < p.global /\ p.global < q.global

(* A session keeps the Provider session it started with: it is announced once, and
   every later worker continues it (FR-018, SC-004). *)
ProviderSessionStable ==
    \A s \in Sessions :
        /\ \A r, q \in book[s].rows :
              r.kind = "provider_started" /\ q.kind = "provider_started" => r = q
        /\ HasLease(book[s]) /\ book[s].state = "ready" /\ worker[s].phase = "idle" =>
              (book[s].lease.provider # "none" <=>
                  \E r \in book[s].rows : r.kind = "provider_started")

(* Rotating the lease token never takes a session from a worker that still has
   something to report: when another token is current and the session is alive, the
   worker's outcome is already in the ledger. *)
RenewalSpares ==
    \A s \in Sessions :
        Busy(s) /\ HasLease(book[s]) /\ worker[s].token # book[s].lease.token =>
            /\ worker[s].phase = "last"
            /\ \E r \in book[s].rows :
                  r.source = RunnerSource(worker[s].msg) /\ r.kind \in OutcomeKinds

(* Between its calls, the worker that holds the lease and the ledger agree on what
   is going on: dispatched until the start is recorded, running after it. *)
InStep ==
    \A s \in Sessions :
        /\ Busy(s) /\ worker[s].reply \in {"none", "ok"}
        /\ worker[s].phase \notin {"last", "refused"}
        /\ book[s].state \notin Terminal
        => /\ book[s].lease.token = worker[s].token
           /\ book[s].active = worker[s].msg
           /\ book[s].state = IF worker[s].started THEN "running" ELSE "dispatched"

(* A first message that was dispatched is in somebody's hands until its session
   ends: in the answer of the claim that dispatched it or with a worker.  It needs
   runs without crashes and lost answers. *)
Carried(s) ==
    \/ Busy(s)
    \/ \E i \in Callers : \E a \in calls[i].grant : a.session = s
FirstClaimCarried ==
    \A s \in Sessions :
        book[s].state \in {"dispatched", "running"} /\ book[s].lease.token = book[s].lease.id
            => Carried(s)
----------------------------------------------------------------------------
(* As long as its daemon lives, a launched session gets its Provider process, with no
   call but the launch: neither the loop nor a concurrent close can leave it queued or
   dispatched without a worker (SC-003). *)
LaunchIsServed ==
    \A s \in Sessions :
        book[s].state = "queued"
            ~> \/ worker[s].phase = "running"
               \/ book[s].state \in {"running", "ready"} \cup Terminal
               \/ ~daemon.up

(* A Provider process that has ended is accounted for, as long as the daemon lives: its
   message is no longer active, and its worker is gone, so that the session can be served
   again. *)
OutcomeReported ==
    \A s \in Sessions, m \in Messages :
        worker[s].phase = "ended" /\ worker[s].msg = m
            ~> (book[s].active # m /\ ~(Busy(s) /\ worker[s].msg = m)) \/ ~daemon.up

(* A session whose lease has expired is failed for as long as its Runtime stays
   offline, by the claims of whatever Runtime is left (FR-031). *)
OfflineReaped ==
    \A s \in Sessions :
        s \in Expired /\ ~online ~> s \notin Expired \/ online
=============================================================================
