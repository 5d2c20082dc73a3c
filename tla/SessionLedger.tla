--------------------------- MODULE SessionLedger ---------------------------
(***************************************************************************)
(* The session tables of the control plane (Session, SessionEvent,         *)
(* SessionEventHead, SessionEventStream, SessionDispatchLease) and the     *)
(* transactions PrismaRdbProvider runs on them.  Transactions are          *)
(* serializable, so each one is a single action; a transaction that throws *)
(* changes nothing and is no step at all.                                  *)
(*                                                                         *)
(* The ledger is specified for every caller it can have: a lease holder    *)
(* may post any batch of RunnerBatches, whatever its worker is doing.      *)
(* SessionExecution adds the real callers and refines this module.         *)
(***************************************************************************)
EXTENDS SessionProjection, Naturals, Sequences

CONSTANTS Sessions,        \* sessions of one Runtime
          Contents,        \* contents a user message can have
          RunnerBatches,   \* batches a lease holder may post: one or two events
          MaxClaims,       \* bound: claims ever committed (lease tokens)
          MaxRows          \* bound: events in one session's ledger

VARIABLES book,     \* book[s]: the rows of every table that belong to session s
          claims,   \* number of committed claims; claim n mints lease token n
          earlier   \* <<s, t>>: s has the older Session.updatedAt

ledgerVars == <<book, claims, earlier>>
----------------------------------------------------------------------------
(* Identities.  A sourceId is a pair.  Event ids the runner makes are pairs of
   naturals; an id the control plane makes is new in every call and is never
   sent again, so FreshId stands for all of them. *)
Tokens == 1..MaxClaims
NoToken == 0

LaunchSource == <<"control-plane", 0>>
CloseSource == <<"close", 0>>
MessageSource(m) == <<"message", m>>
ClaimSource(n) == <<"claim", n>>
ReaperSource(n) == <<"lease-reaper", n>>
RunnerSource(m) == <<"runner", m>>
Sources ==
    {LaunchSource, CloseSource}
        \cup {MessageSource(m) : m \in Messages}
        \cup {RunnerSource(m) : m \in Messages}
        \cup {ClaimSource(n) : n \in Tokens}
        \cup {ReaperSource(n) : n \in Tokens}

FreshId == <<0, 0>>
EventId == Nat \X Nat

Body == Contents \cup ContinuationMode \cup {"none", "provider-session"}

Event == {e \in [id : EventId, source : Sources, seq : Nat \ {0}, kind : EventKind,
                 msg : Messages \cup {NoMessage}, body : Body] :
             e.kind \in {"interrupted", "resumed"} => e.body \in ContinuationMode}
Row == [id : EventId, source : Sources, seq : Nat \ {0}, kind : EventKind,
        msg : Messages \cup {NoMessage}, body : Body, global : Nat \ {0}]

(* SessionDispatchLease.  id is the claim that created the row, token the claim
   that last renewed it; expired is leaseExpiresAt =< now. *)
Lease == [id : Tokens, token : Tokens, provider : Body, expired : BOOLEAN]
NoLease == [id |-> 0, token |-> 0, provider |-> "none", expired |-> FALSE]

Book == [state   : SessionState \cup {"absent"},
         active  : Messages \cup {NoMessage},
         last    : Messages \cup {NoMessage},
         mode    : ContinuationMode \cup {"none"},
         head    : Nat,                  \* SessionEventHead.lastGlobalSequence
         streams : [Sources -> Nat],     \* SessionEventStream.lastSourceSequence
         rows    : SUBSET Row,           \* SessionEvent
         lease   : Lease \cup {NoLease}]

EmptyBook ==
    [state |-> "absent", active |-> NoMessage, last |-> NoMessage, mode |-> "none",
     head |-> 0, streams |-> [src \in Sources |-> 0], rows |-> {}, lease |-> NoLease]

HasLease(b) == b.lease.token # NoToken

ASSUME ContentsAssumption == Contents \cap (ContinuationMode \cup {"none"}) = {}
ASSUME BoundsAssumption == MaxClaims \in Nat /\ MaxRows \in Nat
ASSUME RunnerBatchesAssumption ==
    \A batch \in RunnerBatches :
        \/ Len(batch) = 1 /\ batch[1] \in Event
        \/ Len(batch) = 2 /\ batch[1] \in Event /\ batch[2] \in Event
----------------------------------------------------------------------------
(* appendSessionEvents, one event of the loop. *)

RowOf(e, g) ==
    [id |-> e.id, source |-> e.source, seq |-> e.seq, kind |-> e.kind,
     msg |-> e.msg, body |-> e.body, global |-> g]

SameInputIgnoringIdentity(r, e) == r.kind = e.kind /\ r.msg = e.msg /\ r.body = e.body
SameInput(r, e) == SameInputIgnoringIdentity(r, e) /\ r.source = e.source /\ r.seq = e.seq

IdTaken(b, e) == e.id # FreshId /\ \E r \in b.rows : r.id = e.id

(* The oldest row carrying the message id is the one the code compares with. *)
Mentioned(b, m) == m # NoMessage /\ \E r \in b.rows : r.msg = m
OldestMention(b, m, r) ==
    /\ r \in b.rows
    /\ r.msg = m
    /\ \A q \in b.rows : q.msg = m => r.global =< q.global

IsResend(b, e) == e.id # FreshId /\ \E r \in b.rows : r.id = e.id /\ SameInput(r, e)
IsResubmission(b, e) ==
    /\ ~IdTaken(b, e)
    /\ e.kind = "user_message_submitted"
    /\ e.msg # NoMessage
    /\ \E r \in b.rows : OldestMention(b, e.msg, r) /\ SameInputIgnoringIdentity(r, e)
IsReplay(b, e) == IsResend(b, e) \/ IsResubmission(b, e)

(* Mutant: the source sequence is not checked. *)
IsNewWithGap(b, e) ==
    /\ ~IdTaken(b, e)
    /\ e.kind = "user_message_submitted" => ~Mentioned(b, e.msg)
    /\ Accepts(b, e)

IsNew(b, e) ==
    /\ ~IdTaken(b, e)
    /\ e.kind = "user_message_submitted" => ~Mentioned(b, e.msg)
    /\ e.seq = b.streams[e.source] + 1
    /\ Accepts(b, e)

Inserted(b, e, token) ==
    [Project(b, e) EXCEPT
        !.head = b.head + 1,
        !.streams = [b.streams EXCEPT ![e.source] = e.seq],
        !.rows = b.rows \cup {RowOf(e, b.head + 1)},
        !.lease = IF e.kind = "provider_started" /\ token # NoToken
                  THEN [b.lease EXCEPT !.provider = e.body]
                  ELSE b.lease]

Tolerates(b, e) == IsReplay(b, e) \/ IsNew(b, e)
Applied(b, e, token) == IF IsReplay(b, e) THEN b ELSE Inserted(b, e, token)
----------------------------------------------------------------------------
(* appendSessionEvents, the transaction around the loop. *)

LeaseAuthorises(b, token) ==
    token = NoToken \/ (HasLease(b) /\ b.lease.token = token /\ ~b.lease.expired)

(* Mutant: the lease outlives the session. *)
SettledKeepingLease(before, after) == after

Settled(before, after) ==
    IF after.head # before.head /\ after.state \in Terminal
    THEN [after EXCEPT !.lease = NoLease]
    ELSE after

BatchAccepted(b, token, batch) ==
    /\ b.state # "absent"
    /\ LeaseAuthorises(b, token)
    /\ Tolerates(b, batch[1])
    /\ Len(batch) = 2 => Tolerates(Applied(b, batch[1], token), batch[2])

AfterBatch(b, token, batch) ==
    LET first == Applied(b, batch[1], token)
    IN  Settled(b, IF Len(batch) = 2 THEN Applied(first, batch[2], token) ELSE first)

(* Every transaction that writes the Session row stamps updatedAt. *)
Touched(s) ==
    {p \in earlier : p[1] # s /\ p[2] # s} \cup {<<t, s>> : t \in Sessions \ {s}}

AppendSessionEvents(s, token, batch) ==
    /\ BatchAccepted(book[s], token, batch)
    /\ book[s].head + Len(batch) =< MaxRows
    /\ book' = [book EXCEPT ![s] = AfterBatch(@, token, batch)]
    /\ earlier' = IF book'[s].head # book[s].head THEN Touched(s) ELSE earlier
    /\ UNCHANGED claims
----------------------------------------------------------------------------
(* createSessionWithEvents: the Session row and its four initial events. *)
LaunchEvent(n, kind, msg, body) ==
    [id |-> FreshId, source |-> LaunchSource, seq |-> n, kind |-> kind,
     msg |-> msg, body |-> body]
InitialRows(m, content) ==
    {RowOf(LaunchEvent(1, "created", NoMessage, "none"), 1),
     RowOf(LaunchEvent(2, "system_prompt_configured", NoMessage, "none"), 2),
     RowOf(LaunchEvent(3, "workspace_attached", NoMessage, "none"), 3),
     RowOf(LaunchEvent(4, "user_message_submitted", m, content), 4)}

LaunchSession(s, m, content) ==
    /\ book[s].state = "absent"
    /\ MaxRows >= 4
    /\ book' = [book EXCEPT ![s] =
                    [EmptyBook EXCEPT !.state = "queued", !.active = m, !.head = 4,
                                      !.streams[LaunchSource] = 4,
                                      !.rows = InitialRows(m, content)]]
    /\ earlier' = Touched(s)
    /\ UNCHANGED claims
----------------------------------------------------------------------------
(* claimSession takes the one claimable row with the oldest updatedAt. *)
ClaimableFollowUps == {"message_pending"}      \* mutant: first messages are forgotten
Claimable == {"queued", "message_pending"}
NextInLine(s) ==
    /\ book[s].state \in Claimable
    /\ \A t \in Sessions \ {s} : book[t].state \in Claimable => <<t, s>> \notin earlier

DispatchEvent(n) ==
    [id |-> FreshId, source |-> ClaimSource(n), seq |-> 1, kind |-> "runtime_dispatched",
     msg |-> NoMessage, body |-> "none"]

Dispatched(b, n) ==
    [b EXCEPT !.state = "dispatched",
              !.head = b.head + 1,
              !.streams[ClaimSource(n)] = 1,
              !.rows = b.rows \cup {RowOf(DispatchEvent(n), b.head + 1)},
              !.lease = IF b.state = "queued"
                        THEN [id |-> n, token |-> n, provider |-> "none", expired |-> FALSE]
                        ELSE [b.lease EXCEPT !.token = n, !.expired = FALSE]]

ClaimSession(s) ==
    LET n == claims + 1 IN
    /\ n \in Tokens
    /\ NextInLine(s)
    /\ book[s].state = "queued" => ~HasLease(book[s])         \* unique sessionId
    /\ book[s].state = "message_pending" => HasLease(book[s])
    /\ book[s].streams[ClaimSource(n)] = 0                    \* unique sourceId
    /\ book[s].head < MaxRows
    /\ book' = [book EXCEPT ![s] = Dispatched(@, n)]
    /\ claims' = n
    /\ earlier' = Touched(s)

(* Six hours pass without a renewal. *)
LeaseExpires(s) ==
    /\ HasLease(book[s])
    /\ ~book[s].lease.expired
    /\ book' = [book EXCEPT ![s].lease.expired = TRUE]
    /\ UNCHANGED <<claims, earlier>>
----------------------------------------------------------------------------
(* The batches the control plane itself appends, without a lease token. *)
MessageBatch(m, content) ==
    << [id |-> FreshId, source |-> MessageSource(m), seq |-> 1,
        kind |-> "user_message_submitted", msg |-> m, body |-> content] >>
CloseEvent(n, kind) ==
    [id |-> FreshId, source |-> CloseSource, seq |-> n, kind |-> kind,
     msg |-> NoMessage, body |-> "none"]
CloseBatch == <<CloseEvent(1, "close_requested"), CloseEvent(2, "closed")>>
RuntimeLostBatch(leaseId) ==
    << [id |-> FreshId, source |-> ReaperSource(leaseId), seq |-> 1,
        kind |-> "runtime_lost", msg |-> NoMessage, body |-> "none"] >>

(* sendMessage appends only after it saw the session past its first answer, and
   a session never becomes queued again. *)
SubmitMessage(s, m, content) ==
    /\ book[s].state # "queued"
    /\ AppendSessionEvents(s, NoToken, MessageBatch(m, content))
CloseSession(s) == AppendSessionEvents(s, NoToken, CloseBatch)
LoseRuntime(s) ==
    /\ HasLease(book[s])
    /\ AppendSessionEvents(s, NoToken, RuntimeLostBatch(book[s].lease.id))
PostBatch(s, token, batch) == AppendSessionEvents(s, token, batch)
----------------------------------------------------------------------------
LedgerInit ==
    /\ book = [s \in Sessions |-> EmptyBook]
    /\ claims = 0
    /\ earlier = {}

LedgerNext ==
    \E s \in Sessions :
        \/ \E m \in Messages, c \in Contents : LaunchSession(s, m, c)
        \/ \E m \in Messages, c \in Contents : SubmitMessage(s, m, c)
        \/ CloseSession(s)
        \/ LoseRuntime(s)
        \/ ClaimSession(s)
        \/ LeaseExpires(s)
        \/ \E token \in Tokens, batch \in RunnerBatches : PostBatch(s, token, batch)

LedgerSpec == LedgerInit /\ [][LedgerNext]_ledgerVars
----------------------------------------------------------------------------
(* Type of the variables. *)
LedgerTypeOK ==
    /\ book \in [Sessions -> Book]
    /\ claims \in 0..MaxClaims
    /\ earlier \subseteq Sessions \X Sessions

(* The states a Runtime owns a session in. *)
Held == NonTerminal \ {"queued"}

(* Who owns a session and what it works on agree with its state, whatever batches are
   posted: a dispatch lease exists from the first claim to the terminal event, never
   before and never after (claimSession, appendSessionEvents' lease deletion), and an
   active message exactly while one is waiting, running or interrupted (data-model.md,
   "state constraints"). *)
OwnershipAgrees ==
    \A s \in Sessions :
        /\ HasLease(book[s]) <=> book[s].state \in Held
        /\ book[s].active # NoMessage <=> book[s].state \in NonTerminal \ {"ready"}

(* Rows carry the global sequence 1..head without a gap or a duplicate, and every
   source's rows carry 1..lastSourceSequence likewise: the cursors readers page
   with and the runner's retry rely on both. *)
GlobalSequenceOf(b) ==
    /\ \A r \in b.rows : r.global \in 1..b.head
    /\ \A g \in 1..b.head : \E r \in b.rows : r.global = g
    /\ \A r, q \in b.rows : r.global = q.global => r = q
SourceSequenceOf(b) ==
    /\ \A r \in b.rows : r.seq \in 1..b.streams[r.source]
    /\ \A src \in Sources : \A n \in 1..b.streams[src] :
           \E r \in b.rows : r.source = src /\ r.seq = n
    /\ \A r, q \in b.rows : r.source = q.source /\ r.seq = q.seq => r = q
SequencesContiguous ==
    \A s \in Sessions : GlobalSequenceOf(book[s]) /\ SourceSequenceOf(book[s])

(* A message id is submitted at most once, however often clients resend it
   (FR-011, SC-005 of spec 049). *)
SubmittedOnce ==
    \A s \in Sessions : \A r, q \in book[s].rows :
        /\ r.kind = "user_message_submitted" /\ q.kind = "user_message_submitted"
        /\ r.msg = q.msg
        => r = q

(* A message gets at most one outcome, and an answered message is never active
   again: no later batch, claim or resubmission revives it. *)
OneOutcome ==
    \A s \in Sessions :
        /\ \A r, q \in book[s].rows :
              r.kind \in OutcomeKinds /\ q.kind \in OutcomeKinds /\ r.msg = q.msg => r = q
        /\ \A r \in book[s].rows : r.kind \in OutcomeKinds => r.msg # book[s].active

(* Reading a ledger in global order, a message is submitted before a response to
   it starts, and a response starts before it has an outcome. *)
Precedes(b, kind, r) == \E q \in b.rows : q.kind = kind /\ q.msg = r.msg /\ q.global < r.global
CausalOrder ==
    \A s \in Sessions : \A r \in book[s].rows :
        /\ r.kind = "response_started" => Precedes(book[s], "user_message_submitted", r)
        /\ r.kind \in OutcomeKinds => Precedes(book[s], "response_started", r)

(* The life of a message, as a ledger tells it: submitted once, then perhaps started,
   then perhaps one outcome, however batches are resent, mixed and misdirected. *)
MessageLife == SubmittedOnce /\ OneOutcome /\ CausalOrder

(* The ledger is append-only and head counts it: a committed event is never
   rewritten, dropped or renumbered. *)
AppendOnly ==
    [][\A s \in Sessions :
          /\ book[s].rows \subseteq book'[s].rows
          /\ \A r \in book'[s].rows \ book[s].rows : r.global > book[s].head]_ledgerVars

(* closed and failed are final: nothing is recorded after them and no lease is
   ever granted again. *)
TerminalIsFinal ==
    [][\A s \in Sessions : book[s].state \in Terminal => book'[s] = book[s]]_ledgerVars

(* A transition that state.ts publishes for its readers, or the one beside it: a response
   that starts straight from dispatched, as every continuation's does. *)
Moves(from, to) == CanTransition(from, to) \/ (from = "dispatched" /\ to = "running")

(* The rows of a session are followed by none, one or two events, as many as any caller
   posts at a time, and each of them was a move. *)
Advances(b, q) ==
    \/ q.head = b.head /\ q.state = b.state
    \/ q.head = b.head + 1 /\ Moves(b.state, q.state)
    \/ q.head = b.head + 2 /\ \E mid \in SessionState : Moves(b.state, mid) /\ Moves(mid, q.state)

(* Whatever is appended, a session goes only where its new events lead by moves of the
   table, one for each, although the projection never consults that table and a batch may
   resend, skip ahead or mix in events of another message; what appends nothing, or only
   replays, leaves the state as it was. *)
WithinTable ==
    [][\A s \in Sessions :
          book[s].state # "absent" => Advances(book[s], book'[s])]_ledgerVars
=============================================================================
