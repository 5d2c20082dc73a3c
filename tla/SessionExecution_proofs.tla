----------------------- MODULE SessionExecution_proofs -----------------------
(***************************************************************************)
(* The callers of the ledger, proved: SessionExecution implements          *)
(* SessionLedger, so that everything proved of the ledger holds of the     *)
(* running system, and a session is served once, by one worker at a time,  *)
(* which agrees with the ledger on what it is doing.                       *)
(***************************************************************************)
EXTENDS SessionExecution, SessionLedger_proofs

(***************************************************************************)
(* Part 1.  What one session's book, worker, outstanding requests and      *)
(* grants have to do with each other.                                      *)
(***************************************************************************)
Over(b) == b.state \in Terminal

(* b already holds every event of the batch, as posted. *)
AllIn(b, batch) ==
    \A i \in 1..Len(batch) : \E r \in b.rows : r.id = batch[i].id /\ SameInput(r, batch[i])

(* b has no event of lease token t numbered n or more. *)
NoneFrom(b, t, n) == \A r \in b.rows : ~(r.id[1] = t /\ r.id[2] >= n)

(* The batches a worker can post under token t. *)
Ending == {"response_completed", "response_failed", "response_canceled"}
EventsOf(t, batch) ==
    \A i \in 1..Len(batch) :
        /\ batch[i].id = <<t, batch[i].seq>>
        /\ IF batch[i].kind = "provider_started"
           THEN batch[i].body = "provider-session"
           ELSE batch[i].source = RunnerSource(batch[i].msg)
Announces(batch) ==
    \/ /\ Len(batch) = 2 /\ batch[1].seq = 1 /\ batch[2].seq = 2
       /\ batch[1].kind = "provider_started" /\ batch[2].kind = "response_started"
    \/ Len(batch) = 1 /\ batch[1].seq = 1 /\ batch[1].kind = "response_started"
Cancels(batch) ==
    /\ Len(batch) = 2 /\ batch[1].seq = 1 /\ batch[2].seq = 2
    /\ batch[1].kind = "response_started" /\ batch[2].kind = "response_canceled"
Refuses(batch) == Len(batch) = 1 /\ batch[1].seq = 1 /\ batch[1].kind = "failed"
Concludes(batch) ==
    /\ batch[1].seq \in Nat /\ batch[1].seq > 1
    /\ \/ Len(batch) = 1 /\ batch[1].kind \in Ending
       \/ /\ Len(batch) = 2 /\ batch[2].seq = batch[1].seq + 1
          /\ batch[1].kind = "agent_message_chunk" /\ batch[2].kind \in Ending
Opens(batch) == Announces(batch) \/ Cancels(batch) \/ Refuses(batch)
Script(t, batch) == EventsOf(t, batch) /\ (Opens(batch) \/ Concludes(batch))

(* A request under the current token is either recorded or still meets the book its
   worker left. *)
RequestOK(b, r) ==
    \/ AllIn(b, r.batch)
    \/ /\ Opens(r.batch) /\ b.state = "dispatched" /\ NoneFrom(b, r.token, 1)
       /\ r.batch[1].kind = "provider_started" => b.lease.provider = "none"
    \/ /\ Concludes(r.batch) /\ b.state = "running" /\ NoneFrom(b, r.token, r.batch[1].seq)
RequestsOK(b, O) ==
    /\ \A r \in O : Script(r.token, r.batch)
    /\ ~Over(b) =>
          /\ \A r, q \in O :
                r.token = b.lease.token /\ q.token = r.token
                /\ (Opens(r.batch) <=> Opens(q.batch)) => r.batch = q.batch
          /\ \A r \in O : r.token = b.lease.token => RequestOK(b, r)

(* Whoever holds the assignment of token t has not posted anything yet. *)
Awaits(b, t, m) == b.state = "dispatched" /\ b.lease.token = t /\ b.active = m
Holding(b, O, t, m, p) ==
    /\ Awaits(b, t, m)
    /\ b.lease.provider = p
    /\ NoneFrom(b, t, 1)
    /\ \A r \in O : r.token # t

Runs(b, t, m) == b.state = "running" /\ b.lease.token = t /\ b.active = m
Announced(b, w, O) ==
    /\ w.batch = StartBatch(w)
    /\ \A r \in O : r.token = w.token => r.batch = StartBatch(w)
    /\ \/ /\ w.reply \in {"waiting", "rejected"}
          /\ Awaits(b, w.token, w.msg)
          /\ b.lease.provider = w.provider
          /\ NoneFrom(b, w.token, 1)
       \/ /\ Runs(b, w.token, w.msg)
          /\ AllIn(b, StartBatch(w))
          /\ NoneFrom(b, w.token, Len(StartBatch(w)) + 1)

OutcomeIn(b, m) == \E r \in b.rows : r.source = RunnerSource(m) /\ r.kind \in OutcomeKinds

Unannounced(w) == w.phase = "prepare" \/ (w.phase \in {"running", "ended"} /\ ~w.started)
Announcing(w) == w.phase = "starting" \/ (w.phase \in {"running", "ended"} /\ w.started)
WorkerOK(b, w, O) ==
    ~Over(b) =>
        /\ Unannounced(w) => Holding(b, O, w.token, w.msg, w.provider)
        /\ Announcing(w) => Announced(b, w, O)
        /\ w.phase = "refused" =>
              /\ Awaits(b, w.token, w.msg)
              /\ \A r \in O : r.token = w.token => r.batch = RefusalBatch(w)
        /\ w.phase = "last" =>
              \/ Awaits(b, w.token, w.msg) \/ Runs(b, w.token, w.msg)
              \/ OutcomeIn(b, w.msg)

GrantsOK(b, O, G) ==
    ~Over(b) => \A a \in G : Holding(b, O, a.token, a.msg, a.provider)

(* The book alone. *)
UserAfter(b, g) == \E p \in b.rows : p.kind = "user_message_submitted" /\ g < p.global
Between(b, r, q) ==
    \E p \in b.rows : p.kind = "user_message_submitted" /\ r.global < p.global /\ p.global < q.global
Reachable == {"absent", "queued", "dispatched", "message_pending", "running", "ready"} \cup Terminal
ServedBook(b) ==
    /\ b.state \in Reachable
    /\ \A r, q \in b.rows :
          r.kind = "runtime_dispatched" /\ q.kind = "runtime_dispatched" /\ r.global < q.global
              => Between(b, r, q)
    /\ b.state \in Claimable =>
          \A r \in b.rows : r.kind = "runtime_dispatched" => UserAfter(b, r.global)
    /\ \A r, q \in b.rows : r.kind = "provider_started" /\ q.kind = "provider_started" => r = q
    /\ b.lease.provider \in {"none", "provider-session"}
    /\ b.state \in {"absent", "queued"} => \A r \in b.rows : r.kind # "provider_started"
    /\ HasLease(b) =>
          (b.lease.provider # "none" <=> \E r \in b.rows : r.kind = "provider_started")

(* Tokens come from claims that were committed. *)
Minted(b, w, O, G, n) ==
    /\ \A r \in b.rows : r.id[1] \in 0..n
    /\ \A r \in O : r.token \in 1..n
    /\ \A a \in G : a.token \in 1..n
    /\ w.token \in 0..n

SessionOK(b, w, O, G, n) ==
    /\ ServedBook(b) /\ RequestsOK(b, O) /\ WorkerOK(b, w, O) /\ GrantsOK(b, O, G)
    /\ Minted(b, w, O, G, n)

(* The shape of a worker on its own. *)
WorkerShape(w) ==
    /\ w.phase = "idle" => w = IdleWorker
    /\ w.phase # "idle" => w.msg \in Messages /\ w.token \in Tokens
    /\ w.phase = "ended" => w.end \in Ends
    /\ Unannounced(w) => w.reply = "none"
    /\ w.phase \in {"starting", "last", "refused"} => w.reply # "none"
    /\ w.phase = "starting" => w.started
    /\ w.phase = "prepare" => ~w.started
    /\ w.reply = "waiting" => w.batch \in WorkerBatches

(* The requests of session s that the control plane may still process. *)
RequestsOf(s) ==
    {r \in late : r.session = s}
        \cup (IF worker[s].reply = "waiting" THEN {Request(s)} ELSE {})
GrantsOf(s) == {a \in UNION {calls[i].grant : i \in Callers} : a.session = s}

Served(s) == SessionOK(book[s], worker[s], RequestsOf(s), GrantsOf(s), claims)

(* A grant is in one hand: in one answer, alone, and not with a worker already. *)
GrantsDiffer ==
    \A i, j \in Callers : \A a \in calls[i].grant, c \in calls[j].grant :
        /\ a.token = c.token => i = j
        /\ i = j => a = c
        /\ Busy(a.session) => worker[a.session].token # a.token

ExecTyped == ExecutionTypeOK /\ \A s \in Sessions : WorkerShape(worker[s])

ExecInv ==
    /\ LedgerInv
    /\ ExecTyped
    /\ GrantsDiffer
    /\ \A s \in Sessions : Served(s)
----------------------------------------------------------------------------
(***************************************************************************)
(* Part 2.  What one append does to a book.                                *)
(***************************************************************************)
(* q's ledger is b's with the events of the batch after it. *)
Adds(b, q, batch) ==
    /\ b.rows \subseteq q.rows
    /\ \A r \in q.rows \ b.rows : \E i \in 1..Len(batch) : r = RowOf(batch[i], b.head + i)
    /\ \A i \in 1..Len(batch) : RowOf(batch[i], b.head + i) \in q.rows

(* An event that cannot be a repetition. *)
Unseen(b, e) == e.kind # "user_message_submitted" /\ (e.id = FreshId \/ \A r \in b.rows : r.id # e.id)

LEMMA UnseenIsNoReplay ==
    ASSUME NEW b, NEW e, Unseen(b, e)
    PROVE  ~IsReplay(b, e)
  BY DEF Unseen, IsReplay, IsResend, IsResubmission

LEMMA NoReplayIsNew ==
    ASSUME NEW b, NEW e, NEW t, ~IsReplay(b, e), Tolerates(b, e)
    PROVE  IsNew(b, e) /\ Accepts(b, e) /\ Applied(b, e, t) = Inserted(b, e, t)
  BY DEF Tolerates, Applied, IsNew

(* applySessionEventProjection, for the kinds the callers append. *)
LEMMA Projected ==
    ASSUME NEW b \in Book, NEW e \in Event, Accepts(b, e)
    PROVE  LET p == Project(b, e) IN
           /\ e.kind \in PassiveKinds => p.state = b.state /\ p.active = b.active
           /\ e.kind = "provider_started" => p.state = "message_pending" /\ p.active = b.active
           /\ e.kind = "response_started" => p.state = "running" /\ p.active = b.active
           /\ e.kind \in OutcomeKinds => p.state = "ready"
           /\ e.kind \in FailureKinds => p.state = "failed"
           /\ e.kind = "closed" => p.state = "closed"
           /\ e.kind = "user_message_submitted" /\ b.state # "queued" =>
                 p.state = "message_pending" /\ p.active = e.msg
<1>1. ASSUME e.kind \in PassiveKinds PROVE Project(b, e).state = b.state /\ Project(b, e).active = b.active
  <2>1. Project(b, e) = b
    BY <1>1 DEF Project, PassiveKinds, LaunchFacts, ResponseFacts, InterruptFacts,
     OutcomeKinds, FailureKinds
  <2> QED BY <2>1 DEF Book
<1>2. ASSUME e.kind = "provider_started" PROVE Project(b, e).state = "message_pending" /\ Project(b, e).active = b.active
  <2>1. Project(b, e) = [b EXCEPT !.state = "message_pending"]
    BY <1>2 DEF Project, PassiveKinds, LaunchFacts, ResponseFacts, InterruptFacts,
     OutcomeKinds, FailureKinds
  <2> QED BY <2>1 DEF Book
<1>3. ASSUME e.kind = "response_started" PROVE Project(b, e).state = "running" /\ Project(b, e).active = b.active
  <2>1. Project(b, e) = [b EXCEPT !.state = "running", !.mode = "none"]
    BY <1>3 DEF Project, PassiveKinds, LaunchFacts, ResponseFacts, InterruptFacts,
     OutcomeKinds, FailureKinds
  <2> QED BY <2>1 DEF Book
<1>4. ASSUME e.kind \in OutcomeKinds PROVE Project(b, e).state = "ready"
  <2>1. Project(b, e) = [b EXCEPT !.state = "ready", !.last = e.msg, !.active = NoMessage, !.mode = "none"]
    BY <1>4 DEF Project, PassiveKinds, LaunchFacts, ResponseFacts, InterruptFacts,
     OutcomeKinds, FailureKinds
  <2> QED BY <2>1 DEF Book
<1>5. ASSUME e.kind \in FailureKinds PROVE Project(b, e).state = "failed"
  <2>1. Project(b, e) = [b EXCEPT !.state = "failed", !.active = NoMessage, !.mode = "none"]
    BY <1>5 DEF Project, PassiveKinds, LaunchFacts, ResponseFacts, InterruptFacts,
     OutcomeKinds, FailureKinds
  <2> QED BY <2>1 DEF Book
<1>6. ASSUME e.kind = "closed" PROVE Project(b, e).state = "closed"
  <2>1. Project(b, e) = [b EXCEPT !.state = "closed", !.active = NoMessage, !.mode = "none"]
    BY <1>6 DEF Project, PassiveKinds, LaunchFacts, ResponseFacts, InterruptFacts,
     OutcomeKinds, FailureKinds
  <2> QED BY <2>1 DEF Book
<1>7. ASSUME e.kind = "user_message_submitted" /\ b.state # "queued" PROVE Project(b, e).state = "message_pending" /\ Project(b, e).active = e.msg
  <2>1. Project(b, e) = [b EXCEPT !.state = "message_pending", !.active = e.msg, !.mode = "none"]
    BY <1>7 DEF Project, PassiveKinds, LaunchFacts, ResponseFacts, InterruptFacts,
     OutcomeKinds, FailureKinds
  <2> QED BY <2>1 DEF Book
<1> QED BY <1>1, <1>2, <1>3, <1>4, <1>5, <1>6, <1>7

(* The insertion of one event: what becomes of the fields. *)
OneMore(b, e, t, q) ==
    /\ MidInv(q) /\ b.state \in NonTerminal
    /\ q.rows = b.rows \cup {RowOf(e, b.head + 1)}
    /\ q.head = b.head + 1 /\ b.head \in Nat
    /\ q.state = Project(b, e).state /\ q.active = Project(b, e).active
    /\ q.lease.token = b.lease.token
    /\ q.lease.provider = IF e.kind = "provider_started" /\ t # NoToken
                          THEN e.body ELSE b.lease.provider

LEMMA InsertedFields ==
    ASSUME NEW b, MidInv(b), NEW e \in Event, NEW t \in Nat, MayAppend(b, t, e), IsNew(b, e)
    PROVE  OneMore(b, e, t, Inserted(b, e, t))
<1> DEFINE p == Project(b, e)
           q == Inserted(b, e, t)
           l == IF e.kind = "provider_started" /\ t # NoToken
                THEN [b.lease EXCEPT !.provider = e.body] ELSE b.lease
<1>1. /\ b \in Book /\ ActiveInv(b) /\ Accepts(b, e) /\ b.head \in Nat
      /\ b.lease \in Lease \cup {NoLease}
  BY DEF MidInv, IsNew, Book
<1>2. p \in Book
  BY <1>1, ProjectionKept DEF ActiveInv, ProjectionKeeps
<1>3. MidInv(q) /\ b.state \in NonTerminal
  BY EventInserted
<1>4. /\ l.token = b.lease.token
      /\ l.provider = IF e.kind = "provider_started" /\ t # NoToken
                      THEN e.body ELSE b.lease.provider
  BY <1>1 DEF Lease, NoLease
<1>5. q = [p EXCEPT !.head = b.head + 1, !.streams = [b.streams EXCEPT ![e.source] = e.seq],
                    !.rows = b.rows \cup {RowOf(e, b.head + 1)}, !.lease = l]
  BY DEF Inserted
<1> HIDE DEF l, p, q
<1>6. /\ q.rows = b.rows \cup {RowOf(e, b.head + 1)} /\ q.head = b.head + 1
      /\ q.state = p.state /\ q.active = p.active /\ q.lease = l
  BY <1>2, <1>5 DEF Book
<1>7. OneMore(b, e, t, q)
  BY <1>1, <1>3, <1>4, <1>6 DEF OneMore, p
<1> QED BY <1>7 DEF q

LEMMA SettledFields ==
    ASSUME NEW b, NEW a \in Book, a.head # b.head
    PROVE  LET q == Settled(b, a) IN
           /\ q.rows = a.rows /\ q.head = a.head /\ q.state = a.state /\ q.active = a.active
           /\ Over(q) => q.lease = NoLease
           /\ ~Over(q) => q.lease = a.lease
  BY DEF Settled, Over, Book

(* A request that is recorded already changes nothing. *)
LEMMA Repeated ==
    ASSUME NEW b, NEW t, NEW batch, BatchOfEvents(batch), AllIn(b, batch),
           \A i \in 1..Len(batch) : batch[i].id # FreshId
    PROVE  AfterBatch(b, t, batch) = b
<1>1. \A i \in 1..Len(batch) : Applied(b, batch[i], t) = b
  BY DEF AllIn, Applied, IsReplay, IsResend
<1>2. 1 \in 1..Len(batch) /\ (Len(batch) = 2 => 2 \in 1..Len(batch))
  BY DEF BatchOfEvents
<1>3. AfterBatch(b, t, batch) = Settled(b, b)
  BY <1>1, <1>2 DEF AfterBatch
<1> QED BY <1>3 DEF Settled

(* Book q after the events of the batch, when the last of them led from book a. *)
Appended(b, q, t, batch, a) ==
    LET e == batch[Len(batch)] IN
    /\ Adds(b, q, batch)
    /\ q.head = b.head + Len(batch)
    /\ Accepts(a, e)
    /\ q.state = Project(a, e).state /\ q.active = Project(a, e).active
    /\ Over(q) => q.lease = NoLease
    /\ ~Over(q) =>
          /\ q.lease.token = b.lease.token
          /\ q.lease.provider = IF e.kind = "provider_started" /\ t # NoToken
                                THEN e.body ELSE a.lease.provider

LEMMA OneNew ==
    ASSUME NEW b, Good(b), NEW t \in Nat, NEW batch, Len(batch) = 1, batch[1] \in Event,
           t = NoToken => ControlBatch(batch),
           BatchAccepted(b, t, batch), ~IsReplay(b, batch[1])
    PROVE  Appended(b, AfterBatch(b, t, batch), t, batch, b) /\ b.state \in NonTerminal
<1> DEFINE e == batch[1]
           a == Inserted(b, e, t)
<1>1. MidInv(b) /\ Tolerates(b, e) /\ MayAppend(b, t, e)
  BY DEF Good, BatchAccepted, LeaseAuthorises, MayAppend, ControlBatch, NoToken
<1>2. IsNew(b, e) /\ Accepts(b, e) /\ Applied(b, e, t) = a
  BY <1>1, NoReplayIsNew
<1>30. OneMore(b, e, t, a)
  BY <1>1, <1>2, InsertedFields
<1>3. /\ MidInv(a) /\ b.state \in NonTerminal
      /\ a.rows = b.rows \cup {RowOf(e, b.head + 1)}
      /\ a.head = b.head + 1 /\ b.head \in Nat
      /\ a.state = Project(b, e).state /\ a.active = Project(b, e).active
      /\ a.lease.token = b.lease.token
      /\ a.lease.provider = IF e.kind = "provider_started" /\ t # NoToken
                            THEN e.body ELSE b.lease.provider
  BY <1>30 DEF OneMore
<1>4. AfterBatch(b, t, batch) = Settled(b, a)
  BY <1>2 DEF AfterBatch
<1> DEFINE q == Settled(b, a)
<1> HIDE DEF a
<1>5. a \in Book /\ a.head # b.head
  BY <1>3 DEF MidInv
<1>6. /\ q.rows = a.rows /\ q.head = a.head /\ q.state = a.state /\ q.active = a.active
      /\ Over(q) => q.lease = NoLease
      /\ ~Over(q) => q.lease = a.lease
  BY <1>5, SettledFields
<1> HIDE DEF q
<1>7. Adds(b, q, batch)
  BY <1>3, <1>6 DEF Adds
<1>8. Appended(b, q, t, batch, b)
  BY <1>2, <1>3, <1>6, <1>7 DEF Appended
<1> QED BY <1>3, <1>4, <1>8 DEF q

(* The book between the two events of a batch. *)
Halfway(b, t, batch) == Inserted(b, batch[1], t)

LEMMA TwoNew ==
    ASSUME NEW b, Good(b), NEW t \in Nat, NEW batch, Len(batch) = 2,
           batch[1] \in Event, batch[2] \in Event,
           t = NoToken => ControlBatch(batch), BatchAccepted(b, t, batch),
           Unseen(b, batch[1]), Unseen(b, batch[2]),
           batch[1].id # batch[2].id \/ batch[2].id = FreshId
    PROVE  /\ Appended(b, AfterBatch(b, t, batch), t, batch, Halfway(b, t, batch))
           /\ b.state \in NonTerminal
           /\ Halfway(b, t, batch) \in Book
           /\ Accepts(b, batch[1])
           /\ Halfway(b, t, batch).state = Project(b, batch[1]).state
           /\ Halfway(b, t, batch).active = Project(b, batch[1]).active
           /\ Halfway(b, t, batch).lease.provider =
                 IF batch[1].kind = "provider_started" /\ t # NoToken
                 THEN batch[1].body ELSE b.lease.provider
<1> DEFINE e == batch[1]
           f == batch[2]
           c == Inserted(b, e, t)
           a == Inserted(c, f, t)
<1>1. MidInv(b) /\ Tolerates(b, e) /\ MayAppend(b, t, e)
  BY DEF Good, BatchAccepted, LeaseAuthorises, MayAppend, ControlBatch, NoToken
<1>2. IsNew(b, e) /\ Accepts(b, e) /\ Applied(b, e, t) = c
  BY <1>1, UnseenIsNoReplay, NoReplayIsNew
<1>30. OneMore(b, e, t, c)
  BY <1>1, <1>2, InsertedFields
<1>3. /\ MidInv(c) /\ b.state \in NonTerminal
      /\ c.rows = b.rows \cup {RowOf(e, b.head + 1)}
      /\ c.head = b.head + 1 /\ b.head \in Nat
      /\ c.state = Project(b, e).state /\ c.active = Project(b, e).active
      /\ c.lease.token = b.lease.token
      /\ c.lease.provider = IF e.kind = "provider_started" /\ t # NoToken
                            THEN e.body ELSE b.lease.provider
  BY <1>30 DEF OneMore
<1>4. Tolerates(c, f)
  BY <1>2 DEF BatchAccepted
<1>5. MayAppend(c, t, f)
  BY <1>3 DEF BatchAccepted, LeaseAuthorises, MayAppend, ControlBatch, NoToken, HasLease
<1>6. Halfway(b, t, batch) = c
  BY DEF Halfway
<1>7. AfterBatch(b, t, batch) = Settled(b, Applied(c, f, t))
  BY <1>2 DEF AfterBatch
<1> HIDE DEF c
<1>8. Unseen(c, f)
  BY <1>3 DEF Unseen, RowOf
<1>9. IsNew(c, f) /\ Accepts(c, f) /\ Applied(c, f, t) = a
  BY <1>4, <1>8, UnseenIsNoReplay, NoReplayIsNew
<1>100. OneMore(c, f, t, a)
  BY <1>3, <1>5, <1>9, InsertedFields
<1>10. /\ MidInv(a)
       /\ a.rows = c.rows \cup {RowOf(f, c.head + 1)}
       /\ a.head = c.head + 1
       /\ a.state = Project(c, f).state /\ a.active = Project(c, f).active
       /\ a.lease.token = c.lease.token
       /\ a.lease.provider = IF f.kind = "provider_started" /\ t # NoToken
                             THEN f.body ELSE c.lease.provider
  BY <1>100 DEF OneMore
<1> DEFINE q == Settled(b, a)
<1>11. AfterBatch(b, t, batch) = q
  BY <1>7, <1>9
<1> HIDE DEF a
<1>12. a \in Book /\ a.head # b.head
  BY <1>3, <1>10 DEF MidInv
<1>13. /\ q.rows = a.rows /\ q.head = a.head /\ q.state = a.state /\ q.active = a.active
       /\ Over(q) => q.lease = NoLease
       /\ ~Over(q) => q.lease = a.lease
  BY <1>12, SettledFields
<1> HIDE DEF q
<1>14. q.rows = b.rows \cup {RowOf(e, b.head + 1), RowOf(f, b.head + 2)} /\ q.head = b.head + 2
  BY <1>3, <1>10, <1>13
<1>15. Adds(b, q, batch)
  <2>1. 1..Len(batch) = {1, 2}
    OBVIOUS
  <2> QED BY <1>14, <2>1 DEF Adds
<1>16. Appended(b, q, t, batch, c)
  BY <1>3, <1>9, <1>10, <1>13, <1>14, <1>15 DEF Appended
<1>17. c \in Book
  BY <1>3 DEF MidInv
<1> QED BY <1>2, <1>3, <1>6, <1>11, <1>16, <1>17

(* What a worker's batch does to the book when it is not recorded yet. *)
Effect(b, q, batch) ==
    /\ Adds(b, q, batch)
    /\ b.state \in NonTerminal
    /\ Over(q) => q.lease = NoLease
    /\ ~Over(q) =>
          /\ ~Refuses(batch)
          /\ q.lease.token = b.lease.token
          /\ q.lease.provider = IF batch[1].kind = "provider_started"
                                THEN "provider-session" ELSE b.lease.provider
          /\ Announces(batch) => q.state = "running" /\ q.active = b.active
          /\ Cancels(batch) \/ Concludes(batch) =>
                /\ q.state = "ready"
                /\ batch[Len(batch)].kind \in OutcomeKinds
                /\ batch[Len(batch)].msg = b.active

LEMMA AcceptedOutcome ==
    ASSUME NEW b, NEW e, Accepts(b, e), e.kind \in OutcomeKinds
    PROVE  e.msg = b.active
  BY DEF Accepts

LEMMA PostEffect ==
    ASSUME NEW b, Good(b), NEW t \in Tokens, NEW batch, BatchOfEvents(batch), Script(t, batch),
           BatchAccepted(b, t, batch),
           \A r \in b.rows : \A i \in 1..Len(batch) : r.id # batch[i].id
    PROVE  Effect(b, AfterBatch(b, t, batch), batch)
<1> DEFINE q == AfterBatch(b, t, batch)
           a == Halfway(b, t, batch)
<1>1. t \in Nat /\ t # NoToken /\ b \in Book
  BY DEF Tokens, NoToken, Good, MidInv
<1>2. Opens(batch) \/ Concludes(batch)
  BY DEF Script
<1>3. \A i \in 1..Len(batch) :
          /\ batch[i].id = <<t, batch[i].seq>>
          /\ batch[i].kind = "provider_started" => batch[i].body = "provider-session"
  BY DEF Script, EventsOf
<1>4. batch[1].kind # "user_message_submitted" /\ batch[Len(batch)].kind # "user_message_submitted"
  BY <1>2 DEF Opens, Concludes, Announces, Cancels, Refuses, Ending
<1>5. ASSUME Len(batch) = 1
      PROVE  Appended(b, q, t, batch, b) /\ b.state \in NonTerminal /\ batch[1] \in Event
  <2>1. batch[1] \in Event
    BY <1>5 DEF BatchOfEvents
  <2>2. ~IsReplay(b, batch[1])
    BY <1>4, <1>5, UnseenIsNoReplay DEF Unseen
  <2> QED BY <1>1, <1>5, <2>1, <2>2, OneNew
<1>6. ASSUME Len(batch) = 2
      PROVE  /\ Appended(b, q, t, batch, a) /\ b.state \in NonTerminal
             /\ batch[1] \in Event /\ batch[2] \in Event /\ a \in Book
             /\ Accepts(b, batch[1])
             /\ a.state = Project(b, batch[1]).state
             /\ a.active = Project(b, batch[1]).active
             /\ a.lease.provider = IF batch[1].kind = "provider_started" /\ t # NoToken
                                   THEN batch[1].body ELSE b.lease.provider
  <2>1. batch[1] \in Event /\ batch[2] \in Event
    BY <1>6 DEF BatchOfEvents
  <2>2. 1 \in 1..Len(batch) /\ 2 \in 1..Len(batch)
    BY <1>6
  <2>3. Unseen(b, batch[1]) /\ Unseen(b, batch[2])
    BY <1>4, <1>6, <2>2 DEF Unseen
  <2>4. batch[1].seq # batch[2].seq
    BY <1>2, <1>6 DEF Opens, Announces, Cancels, Refuses, Concludes
  <2>5. batch[1].id # batch[2].id
    BY <1>3, <2>2, <2>4
  <2> QED BY <1>1, <1>6, <2>1, <2>3, <2>5, TwoNew
<1> HIDE DEF q, a
<1>7. CASE Len(batch) = 2 /\ Announces(batch)
  <2>1. /\ batch[1].kind = "provider_started" /\ batch[2].kind = "response_started"
        /\ batch[1].body = "provider-session"
    BY <1>3, <1>7 DEF Announces
  <2>2. a.active = b.active
    BY <1>1, <1>6, <1>7, <2>1, Projected
  <2>3. /\ Appended(b, q, t, batch, a) /\ Accepts(a, batch[2])
    BY <1>6, <1>7 DEF Appended
  <2>4. Project(a, batch[2]).state = "running" /\ Project(a, batch[2]).active = a.active
    BY <1>6, <1>7, <2>1, <2>3, Projected
  <2>5. ~Cancels(batch) /\ ~Concludes(batch) /\ ~Refuses(batch)
    BY <1>7, <2>1 DEF Cancels, Concludes, Refuses
  <2>6. a.lease.provider = "provider-session"
    BY <1>1, <1>6, <1>7, <2>1
  <2>7. q.lease.provider = "provider-session" \/ Over(q)
    BY <1>7, <2>1, <2>3, <2>6 DEF Appended
  <2> QED BY <1>6, <1>7, <2>1, <2>2, <2>3, <2>4, <2>5, <2>7 DEF Effect, Appended, q
<1>8. CASE Len(batch) = 1 /\ Announces(batch)
  <2>1. batch[1].kind = "response_started"
    BY <1>8 DEF Announces
  <2>2. Appended(b, q, t, batch, b) /\ Accepts(b, batch[1])
    BY <1>5, <1>8 DEF Appended
  <2>3. Project(b, batch[1]).state = "running" /\ Project(b, batch[1]).active = b.active
    BY <1>1, <1>5, <1>8, <2>1, <2>2, Projected
  <2>4. ~Cancels(batch) /\ ~Concludes(batch) /\ ~Refuses(batch)
    BY <1>8, <2>1 DEF Cancels, Concludes, Refuses, Ending
  <2> QED BY <1>5, <1>8, <2>1, <2>2, <2>3, <2>4 DEF Effect, Appended, q
<1>9. CASE Cancels(batch)
  <2>1. /\ batch[1].kind = "response_started" /\ batch[2].kind = "response_canceled"
        /\ Len(batch) = 2 /\ batch[2].kind \in OutcomeKinds
    BY <1>9 DEF Cancels, OutcomeKinds
  <2>2. a.active = b.active
    BY <1>1, <1>6, <2>1, Projected
  <2>3. /\ Appended(b, q, t, batch, a) /\ Accepts(a, batch[2])
    BY <1>6, <2>1 DEF Appended
  <2>4. Project(a, batch[2]).state = "ready" /\ batch[2].msg = a.active
    BY <1>6, <2>1, <2>3, Projected, AcceptedOutcome
  <2>5. ~Announces(batch) /\ ~Refuses(batch)
    BY <2>1 DEF Announces, Refuses
  <2> QED BY <1>6, <2>1, <2>2, <2>3, <2>4, <2>5 DEF Effect, Appended, q
<1>10. CASE Refuses(batch)
  <2>1. Len(batch) = 1 /\ batch[1].kind \in FailureKinds
    BY <1>10 DEF Refuses, FailureKinds
  <2>2. Appended(b, q, t, batch, b) /\ Accepts(b, batch[1])
    BY <1>5, <2>1 DEF Appended
  <2>3. Over(q)
    BY <1>1, <1>5, <2>1, <2>2, Projected DEF Appended, Over, Terminal
  <2> QED BY <1>5, <2>1, <2>2, <2>3 DEF Effect, Appended, q
<1>11. CASE Len(batch) = 1 /\ Concludes(batch)
  <2>1. batch[1].kind \in OutcomeKinds \cup FailureKinds
    BY <1>11 DEF Concludes, Ending, OutcomeKinds, FailureKinds
  <2>2. Appended(b, q, t, batch, b) /\ Accepts(b, batch[1])
    BY <1>5, <1>11 DEF Appended
  <2>3. batch[1].kind \in OutcomeKinds =>
            Project(b, batch[1]).state = "ready" /\ batch[1].msg = b.active
    BY <1>1, <1>5, <1>11, <2>2, Projected, AcceptedOutcome
  <2>4. batch[1].kind \in FailureKinds => Over(q)
    BY <1>1, <1>5, <1>11, <2>2, Projected DEF Appended, Over, Terminal
  <2>5. ~Announces(batch) /\ ~Refuses(batch) /\ batch[1].kind # "provider_started"
    BY <1>11 DEF Announces, Refuses, Concludes, Ending
  <2> QED BY <1>5, <1>11, <2>1, <2>2, <2>3, <2>4, <2>5 DEF Effect, Appended, q
<1>12. CASE Len(batch) = 2 /\ Concludes(batch)
  <2>1. /\ batch[1].kind = "agent_message_chunk"
        /\ batch[2].kind \in OutcomeKinds \cup FailureKinds
    BY <1>12 DEF Concludes, Ending, OutcomeKinds, FailureKinds
  <2>2. a.active = b.active
    <3>1. batch[1].kind \in PassiveKinds
      BY <2>1 DEF PassiveKinds, ResponseFacts
    <3> QED BY <1>1, <1>6, <1>12, <3>1, Projected
  <2>3. /\ Appended(b, q, t, batch, a) /\ Accepts(a, batch[2])
    BY <1>6, <1>12 DEF Appended
  <2>4. batch[2].kind \in OutcomeKinds =>
            Project(a, batch[2]).state = "ready" /\ batch[2].msg = a.active
    BY <1>6, <1>12, <2>3, Projected, AcceptedOutcome
  <2>5. batch[2].kind \in FailureKinds => Over(q)
    BY <1>6, <1>12, <2>3, Projected DEF Appended, Over, Terminal
  <2>6. ~Announces(batch) /\ ~Refuses(batch) /\ batch[2].kind # "provider_started"
    BY <1>12, <2>1 DEF Announces, Refuses, OutcomeKinds, FailureKinds
  <2> QED BY <1>6, <1>12, <2>1, <2>2, <2>3, <2>4, <2>5, <2>6 DEF Effect, Appended, q
<1> QED
  BY <1>2, <1>7, <1>8, <1>9, <1>10, <1>11, <1>12 DEF Opens, Announces, Concludes
----------------------------------------------------------------------------
(***************************************************************************)
(* Part 3.  A request reaches the ledger: the invariant of its session.    *)
(***************************************************************************)
LEMMA NewRows ==
    ASSUME NEW b \in Book, NEW q, NEW batch, BatchOfEvents(batch), Adds(b, q, batch)
    PROVE  /\ \A r \in q.rows \ b.rows : \E i \in 1..Len(batch) :
                  /\ r.id = batch[i].id /\ r.source = batch[i].source /\ r.kind = batch[i].kind
                  /\ r.msg = batch[i].msg /\ r.global = b.head + i
           /\ AllIn(q, batch)
           /\ \A r \in b.rows : r \in q.rows
<1>1. \A r \in q.rows \ b.rows : \E i \in 1..Len(batch) : r = RowOf(batch[i], b.head + i)
  BY DEF Adds
<1>2. \A e, g : LET r == RowOf(e, g) IN
          /\ r.id = e.id /\ r.source = e.source /\ r.kind = e.kind /\ r.msg = e.msg
          /\ r.global = g /\ SameInput(r, e)
  BY DEF RowOf, SameInput, SameInputIgnoringIdentity
<1>3. AllIn(q, batch)
  BY <1>2 DEF Adds, AllIn
<1> QED BY <1>1, <1>2, <1>3 DEF Adds

LEMMA ScriptKinds ==
    ASSUME NEW t, NEW batch, Script(t, batch)
    PROVE  /\ Len(batch) \in {1, 2} /\ Len(batch) \in Nat /\ Len(batch) >= 1
           /\ 1 \in 1..Len(batch) /\ Len(batch) \in 1..Len(batch)
           /\ \A i \in 1..Len(batch) :
                 /\ batch[i].kind \notin {"runtime_dispatched", "user_message_submitted"}
                 /\ batch[i].kind = "provider_started" => i = 1 /\ Announces(batch)
                 /\ batch[i].id = <<t, batch[i].seq>>
                 /\ batch[i].kind # "provider_started" =>
                       batch[i].source = RunnerSource(batch[i].msg)
           /\ Opens(batch) => \A i \in 1..Len(batch) : batch[i].seq = i
           /\ Concludes(batch) => \A i \in 1..Len(batch) : batch[i].seq = batch[1].seq + i - 1
           /\ Concludes(batch) => batch[1].seq \in Nat /\ batch[1].seq > 1
           /\ Opens(batch) <=> ~Concludes(batch)
<1>1. Len(batch) \in {1, 2} /\ (Opens(batch) \/ Concludes(batch))
  BY DEF Script, Opens, Concludes, Announces, Cancels, Refuses
<1>2. 1..Len(batch) = IF Len(batch) = 1 THEN {1} ELSE {1, 2}
  BY <1>1
<1>3. \A i \in 1..Len(batch) :
          /\ batch[i].kind \notin {"runtime_dispatched", "user_message_submitted"}
          /\ batch[i].kind = "provider_started" => i = 1 /\ Announces(batch)
  BY <1>1, <1>2 DEF Opens, Concludes, Announces, Cancels, Refuses, Ending
<1>4. \A i \in 1..Len(batch) :
          /\ batch[i].id = <<t, batch[i].seq>>
          /\ batch[i].kind # "provider_started" => batch[i].source = RunnerSource(batch[i].msg)
  BY DEF Script, EventsOf
<1>5. Opens(batch) => \A i \in 1..Len(batch) : batch[i].seq = i
  BY <1>1, <1>2 DEF Opens, Announces, Cancels, Refuses
<1>6. Concludes(batch) => /\ batch[1].seq \in Nat /\ batch[1].seq > 1
                          /\ \A i \in 1..Len(batch) : batch[i].seq = batch[1].seq + i - 1
  BY <1>1, <1>2 DEF Concludes
<1>7. Opens(batch) <=> ~Concludes(batch)
  BY <1>1 DEF Opens, Announces, Cancels, Refuses, Concludes
<1>8. /\ Len(batch) \in Nat /\ Len(batch) >= 1
      /\ 1 \in 1..Len(batch) /\ Len(batch) \in 1..Len(batch)
  BY <1>1
<1> QED BY <1>1, <1>3, <1>4, <1>5, <1>6, <1>7, <1>8

LEMMA ServedBookKept ==
    ASSUME NEW b, Good(b), ServedBook(b), HasLease(b), NEW q, NEW t, NEW batch,
           BatchOfEvents(batch), Script(t, batch), Effect(b, q, batch),
           batch[1].kind = "provider_started" => b.lease.provider = "none"
    PROVE  ServedBook(q)
<1>1. b \in Book
  BY DEF Good, MidInv
<1>2. /\ \A r \in q.rows \ b.rows : \E i \in 1..Len(batch) :
             r.kind = batch[i].kind /\ r = RowOf(batch[i], b.head + i)
      /\ AllIn(q, batch)
      /\ \A r \in b.rows : r \in q.rows
  BY <1>1, NewRows DEF Effect, Adds, RowOf
<1>3. \A r \in q.rows : r.kind = "runtime_dispatched" => r \in b.rows
  BY <1>2, ScriptKinds
<1>4. q.state \in {"running", "ready"} \/ Over(q)
  BY ScriptKinds DEF Effect, Opens
<1>5. q.state \in Reachable /\ q.state \notin Claimable \cup {"absent", "queued"}
  BY <1>4 DEF Reachable, Claimable, Over, Terminal
<1>6. \A r, p \in q.rows :
          r.kind = "runtime_dispatched" /\ p.kind = "runtime_dispatched" /\ r.global < p.global
              => Between(q, r, p)
  <2>1. \A r, p \in b.rows : Between(b, r, p) => Between(q, r, p)
    BY <1>2 DEF Between
  <2> QED BY <1>3, <2>1 DEF ServedBook
<1>7. CASE batch[1].kind = "provider_started"
  <2>1. \A r \in b.rows : r.kind # "provider_started"
    BY <1>7 DEF ServedBook
  <2>2. \A r \in q.rows : r.kind = "provider_started" => r = RowOf(batch[1], b.head + 1)
    BY <1>2, <2>1, ScriptKinds
  <2>3. RowOf(batch[1], b.head + 1) \in q.rows
    BY ScriptKinds DEF Effect, Adds
  <2>4. RowOf(batch[1], b.head + 1).kind = "provider_started"
    BY <1>7 DEF RowOf
  <2>5. q.lease.provider = IF Over(q) THEN "none" ELSE "provider-session"
    BY <1>7 DEF Effect, NoLease
  <2>6. Over(q) => ~HasLease(q)
    BY DEF Effect, HasLease, NoLease, NoToken
  <2> QED BY <1>5, <1>6, <2>2, <2>3, <2>4, <2>5, <2>6 DEF ServedBook
<1>8. CASE batch[1].kind # "provider_started"
  <2>1. \A r \in q.rows : r.kind = "provider_started" => r \in b.rows
    BY <1>2, <1>8, ScriptKinds
  <2>2. q.lease.provider = IF Over(q) THEN "none" ELSE b.lease.provider
    BY <1>8 DEF Effect, NoLease
  <2>3. Over(q) => ~HasLease(q)
    BY DEF Effect, HasLease, NoLease, NoToken
  <2> QED BY <1>2, <1>5, <1>6, <2>1, <2>2, <2>3 DEF ServedBook
<1> QED BY <1>7, <1>8

LEMMA RowsStay ==
    ASSUME NEW b, NEW q, \A r \in b.rows : r \in q.rows
    PROVE  /\ \A batch : AllIn(b, batch) => AllIn(q, batch)
           /\ \A m : OutcomeIn(b, m) => OutcomeIn(q, m)
  BY DEF AllIn, OutcomeIn

(* A recorded batch and an empty record exclude each other. *)
LEMMA RecordedFrom ==
    ASSUME NEW b, NEW t, NEW batch, Script(t, batch), AllIn(b, batch), NEW n \in Nat,
           n <= 1 \/ (Concludes(batch) /\ n <= batch[1].seq), NoneFrom(b, t, n)
    PROVE  FALSE
<1>1. 1 \in 1..Len(batch)
  BY ScriptKinds
<1>2. PICK r \in b.rows : r.id = batch[1].id
  BY <1>1 DEF AllIn
<1>3. r.id[1] = t /\ r.id[2] = batch[1].seq
  BY <1>1, <1>2, ScriptKinds
<1>4. batch[1].seq \in Nat /\ batch[1].seq >= n
  BY <1>1, ScriptKinds
<1> QED BY <1>2, <1>3, <1>4 DEF NoneFrom

(* Where request x, whose token is current, is not recorded, none of its events is. *)
LEMMA UnrecordedIsUnseen ==
    ASSUME NEW b, NEW t, NEW batch, Script(t, batch), NEW n \in Nat,
           n <= 1 \/ (Concludes(batch) /\ n <= batch[1].seq), NoneFrom(b, t, n)
    PROVE  \A r \in b.rows : \A i \in 1..Len(batch) : r.id # batch[i].id
<1> SUFFICES ASSUME NEW r \in b.rows, NEW i \in 1..Len(batch), r.id = batch[i].id
             PROVE  FALSE
  OBVIOUS
<1>1. r.id[1] = t /\ r.id[2] = batch[i].seq
  BY ScriptKinds
<1>2. i \in Nat /\ i >= 1 /\ Len(batch) \in {1, 2}
  BY ScriptKinds
<1>3. batch[i].seq >= n
  BY <1>2, ScriptKinds
<1> QED BY <1>1, <1>3 DEF NoneFrom

LEMMA RequestsKept ==
    ASSUME NEW b, Good(b), NEW O, RequestsOK(b, O), NEW x \in O, ~Over(b),
           x.token = b.lease.token, ~AllIn(b, x.batch), BatchOfEvents(x.batch),
           NEW q, Effect(b, q, x.batch)
    PROVE  RequestsOK(q, O)
<1> DEFINE t == x.token
<1>1. b \in Book /\ Script(t, x.batch)
  BY DEF Good, MidInv, RequestsOK
<1>2. AllIn(q, x.batch) /\ \A r \in b.rows : r \in q.rows
  BY <1>1, NewRows DEF Effect
<1>3. ~Over(q) => q.lease.token = t
  BY DEF Effect
<1>4. ASSUME NEW r \in O, r.token = t PROVE AllIn(q, r.batch)
  <2>1. RequestOK(b, r) /\ RequestOK(b, x) /\ Script(t, r.batch)
    BY <1>4 DEF RequestsOK
  <2>2. CASE Opens(r.batch) <=> Opens(x.batch)
    BY <1>2, <1>4, <2>2 DEF RequestsOK
  <2>3. CASE AllIn(b, r.batch)
    BY <1>2, <2>3, RowsStay
  <2>4. CASE ~(Opens(r.batch) <=> Opens(x.batch)) /\ ~AllIn(b, r.batch)
    <3>1. /\ Opens(r.batch) => b.state = "dispatched"
          /\ ~Opens(r.batch) => b.state = "running"
      BY <2>1, <2>4, ScriptKinds DEF RequestOK
    <3>2. /\ Opens(x.batch) => b.state = "dispatched"
          /\ ~Opens(x.batch) => b.state = "running"
      BY <1>1, <2>1, ScriptKinds DEF RequestOK
    <3> QED BY <2>4, <3>1, <3>2
  <2> QED BY <2>2, <2>3, <2>4
<1> QED BY <1>3, <1>4 DEF RequestsOK, RequestOK

LEMMA WorkerKept ==
    ASSUME NEW b, Good(b), NEW O, RequestsOK(b, O), NEW x \in O, ~Over(b),
           x.token = b.lease.token, ~AllIn(b, x.batch), BatchOfEvents(x.batch),
           NEW q, Effect(b, q, x.batch), NEW w, WorkerOK(b, w, O),
           w.phase = "refused" => Script(w.token, RefusalBatch(w)) /\ Refuses(RefusalBatch(w)),
           Announcing(w) => Script(w.token, StartBatch(w)) /\ Announces(StartBatch(w))
    PROVE  WorkerOK(q, w, O)
<1> SUFFICES ASSUME ~Over(q) PROVE WorkerOK(q, w, O)
  BY DEF WorkerOK
<1> DEFINE t == x.token
<1>1. b \in Book /\ Script(t, x.batch) /\ RequestOK(b, x)
  BY DEF Good, MidInv, RequestsOK
<1>2. /\ AllIn(q, x.batch)
      /\ \A r \in b.rows : r \in q.rows
      /\ \A r \in q.rows \ b.rows : \E i \in 1..Len(x.batch) :
            /\ r.id = x.batch[i].id /\ r.source = x.batch[i].source /\ r.kind = x.batch[i].kind
            /\ r.msg = x.batch[i].msg
  BY <1>1, NewRows DEF Effect
<1>3. /\ q.lease.token = t /\ ~Refuses(x.batch)
      /\ Announces(x.batch) => q.state = "running" /\ q.active = b.active
      /\ Cancels(x.batch) \/ Concludes(x.batch) =>
            /\ x.batch[Len(x.batch)].kind \in OutcomeKinds
            /\ x.batch[Len(x.batch)].msg = b.active
  BY DEF Effect
<1>4. ~Unannounced(w)
  BY DEF WorkerOK, Holding, Awaits
<1>5. w.phase # "refused"
  BY <1>3 DEF WorkerOK, Awaits
<1>6. ASSUME Announcing(w) PROVE Announced(q, w, O)
  <2>1. Announced(b, w, O)
    BY <1>6 DEF WorkerOK
  <2>2. t = w.token
    BY <2>1 DEF Announced, Awaits, Runs
  <2>3. x.batch = StartBatch(w)
    BY <2>1, <2>2 DEF Announced
  <2>4. b.active = w.msg
    BY <2>1, <2>3 DEF Announced, Awaits, Runs
  <2>5. NoneFrom(b, w.token, 1)
    BY <2>1, <2>3 DEF Announced
  <2>6. NoneFrom(q, w.token, Len(x.batch) + 1)
    <3> SUFFICES ASSUME NEW r \in q.rows, r.id[1] = w.token, r.id[2] >= Len(x.batch) + 1
                 PROVE  FALSE
      BY DEF NoneFrom
    <3>1. Len(x.batch) \in Nat /\ Len(x.batch) >= 1
      BY <1>1, ScriptKinds
    <3>2. CASE r \in b.rows
      <4>1. b.rows \subseteq Row
        BY <1>1 DEF Book
      <4>2. r.id[2] \in Nat
        BY <3>2, <4>1 DEF Row, EventId
      <4> QED BY <2>5, <3>1, <3>2, <4>2 DEF NoneFrom
    <3>3. CASE r \notin b.rows
      <4>1. PICK i \in 1..Len(x.batch) : r.id = x.batch[i].id
        BY <1>2, <3>3
      <4>2. Opens(x.batch)
        BY <1>6, <2>3 DEF Opens
      <4>3. r.id[2] = i
        BY <1>1, <4>1, <4>2, ScriptKinds
      <4> QED BY <3>1, <4>3
    <3> QED BY <3>2, <3>3
  <2>7. Runs(q, w.token, w.msg)
    BY <1>3, <1>6, <2>2, <2>3, <2>4 DEF Runs
  <2> QED BY <1>2, <2>1, <2>3, <2>6, <2>7 DEF Announced
<1>7. ASSUME w.phase = "last"
      PROVE  Runs(q, w.token, w.msg) \/ OutcomeIn(q, w.msg)
  <2>1. CASE OutcomeIn(b, w.msg)
    BY <1>2, <2>1, RowsStay
  <2>2. CASE ~OutcomeIn(b, w.msg)
    <3>1. w.token = t /\ b.active = w.msg
      BY <1>7, <2>2 DEF WorkerOK, Awaits, Runs
    <3>2. CASE Announces(x.batch)
      BY <1>3, <3>1, <3>2 DEF Runs
    <3>3. CASE Cancels(x.batch) \/ Concludes(x.batch)
      <4> DEFINE e == x.batch[Len(x.batch)]
      <4>1. e.kind \in OutcomeKinds /\ e.msg = w.msg
        BY <1>3, <3>1, <3>3
      <4>2. Len(x.batch) \in 1..Len(x.batch)
        BY <1>1, ScriptKinds
      <4>3. e.source = RunnerSource(w.msg)
        BY <1>1, <4>1, <4>2, ScriptKinds DEF OutcomeKinds
      <4>4. \E r \in q.rows : r.source = e.source /\ r.kind = e.kind
        BY <1>2, <4>2 DEF AllIn, SameInput, SameInputIgnoringIdentity
      <4> QED BY <4>1, <4>3, <4>4 DEF OutcomeIn
    <3> QED BY <1>1, <1>3, <3>2, <3>3, ScriptKinds DEF Opens
  <2> QED BY <2>1, <2>2
<1> QED BY <1>4, <1>5, <1>6, <1>7 DEF WorkerOK

LEMMA StartScript ==
    ASSUME NEW w
    PROVE  Script(w.token, StartBatch(w)) /\ Announces(StartBatch(w))
<1>1. CASE w.provider = "none"
  <2>1. StartBatch(w) = <<Emit(w, 1, "provider_started"), Emit(w, 2, "response_started")>>
    BY <1>1 DEF StartBatch
  <2>2. EventsOf(w.token, StartBatch(w))
    BY <2>1 DEF EventsOf, Emit
  <2>3. Announces(StartBatch(w))
    BY <2>1 DEF Announces, Emit
  <2> QED BY <2>2, <2>3 DEF Script, Opens
<1>2. CASE w.provider # "none"
  <2>1. StartBatch(w) = <<Emit(w, 1, "response_started")>>
    BY <1>2 DEF StartBatch
  <2>2. EventsOf(w.token, StartBatch(w))
    BY <2>1 DEF EventsOf, Emit
  <2>3. Announces(StartBatch(w))
    BY <2>1 DEF Announces, Emit
  <2> QED BY <2>2, <2>3 DEF Script, Opens
<1> QED BY <1>1, <1>2

LEMMA RefusalScript ==
    ASSUME NEW w
    PROVE  Script(w.token, RefusalBatch(w)) /\ Refuses(RefusalBatch(w))
<1>1. RefusalBatch(w) = <<Emit(w, 1, "failed")>>
  BY DEF RefusalBatch
<1>2. EventsOf(w.token, RefusalBatch(w)) /\ Refuses(RefusalBatch(w))
  BY <1>1 DEF EventsOf, Refuses, Emit
<1> QED BY <1>2 DEF Script, Opens

LEMMA FinalScript ==
    ASSUME NEW w, w.end \in Ends
    PROVE  /\ Script(w.token, FinalBatch(w))
           /\ w.started = TRUE =>
                 /\ Concludes(FinalBatch(w))
                 /\ FinalBatch(w)[1].seq = Len(StartBatch(w)) + 1
           /\ ~w.started => Opens(FinalBatch(w))
<1> DEFINE next == IF w.provider = "none" THEN 3 ELSE 2
           kind == OutcomeKind[w.end]
<1>1. kind \in Ending
  BY DEF Ends, OutcomeKind, Ending
<1>2. next \in Nat /\ next > 1 /\ next = Len(StartBatch(w)) + 1
  BY DEF StartBatch
<1>3. CASE w.started /\ w.said
  <2>1. FinalBatch(w) = <<Emit(w, next, "agent_message_chunk"), Emit(w, next + 1, kind)>>
    BY <1>3 DEF FinalBatch
  <2> HIDE DEF next, kind
  <2>2. EventsOf(w.token, FinalBatch(w)) /\ Concludes(FinalBatch(w))
    BY <1>1, <1>2, <2>1 DEF EventsOf, Concludes, Emit, Ending
  <2>3. FinalBatch(w)[1].seq = next
    BY <2>1 DEF Emit
  <2> QED BY <1>2, <1>3, <2>2, <2>3 DEF Script
<1>4. CASE w.started /\ ~w.said
  <2>1. FinalBatch(w) = <<Emit(w, next, kind)>>
    BY <1>4 DEF FinalBatch
  <2> HIDE DEF next, kind
  <2>2. EventsOf(w.token, FinalBatch(w)) /\ Concludes(FinalBatch(w))
    BY <1>1, <1>2, <2>1 DEF EventsOf, Concludes, Emit, Ending
  <2>3. FinalBatch(w)[1].seq = next
    BY <2>1 DEF Emit
  <2> QED BY <1>2, <1>4, <2>2, <2>3 DEF Script
<1>5. CASE ~w.started /\ w.end = "aborted"
  <2>1. FinalBatch(w) = <<Emit(w, 1, "response_started"), Emit(w, 2, "response_canceled")>>
    BY <1>5 DEF FinalBatch
  <2>2. EventsOf(w.token, FinalBatch(w)) /\ Cancels(FinalBatch(w))
    BY <2>1 DEF EventsOf, Cancels, Emit
  <2> QED BY <1>5, <2>2 DEF Script, Opens
<1>6. CASE ~w.started /\ w.end # "aborted"
  <2>1. FinalBatch(w) = <<Emit(w, 1, "failed")>>
    BY <1>6 DEF FinalBatch
  <2>2. EventsOf(w.token, FinalBatch(w)) /\ Refuses(FinalBatch(w))
    BY <2>1 DEF EventsOf, Refuses, Emit
  <2> QED BY <1>6, <2>2 DEF Script, Opens
<1> QED BY <1>3, <1>4, <1>5, <1>6

(* What a worker posts is of the batches the ledger knows of. *)
LEMMA WorkerPosts ==
    ASSUME NEW w, w.msg \in Messages, w.token \in Tokens,
           w.provider \in {"none", "provider-session"}, w.started \in BOOLEAN, w.said \in BOOLEAN
    PROVE  /\ StartBatch(w) \in WorkerBatches
           /\ RefusalBatch(w) \in WorkerBatches
           /\ w.end \in Ends => FinalBatch(w) \in WorkerBatches
<1> DEFINE u(m, n, p, st, sd, end) ==
              [IdleWorker EXCEPT !.msg = m, !.token = n, !.provider = p, !.started = st,
                                 !.end = end, !.said = sd]
           posts(x) == {StartBatch(x), FinalBatch(x), RefusalBatch(x)}
           v(end) == u(w.msg, w.token, w.provider, w.started, w.said, end)
<1>1. \A end : /\ v(end).msg = w.msg /\ v(end).token = w.token /\ v(end).provider = w.provider
               /\ v(end).started = w.started /\ v(end).end = end /\ v(end).said = w.said
  BY DEF IdleWorker
<1>2. DOMAIN OutcomeKind = Ends
  BY DEF OutcomeKind, Ends
<1>3. ASSUME NEW end \in Ends
      PROVE  posts(v(end)) \subseteq WorkerBatches
  <2>1. WorkerBatches =
            UNION {posts(u(m, n, p, st, sd, e)) :
                      m \in Messages, n \in Tokens, p \in {"none", "provider-session"},
                      st \in BOOLEAN, sd \in BOOLEAN, e \in Ends}
    BY <1>2 DEF WorkerBatches
  <2> HIDE DEF u, posts
  <2>2. posts(v(end)) \in
            {posts(u(m, n, p, st, sd, e)) :
                      m \in Messages, n \in Tokens, p \in {"none", "provider-session"},
                      st \in BOOLEAN, sd \in BOOLEAN, e \in Ends}
    BY <1>3
  <2> QED BY <2>1, <2>2
<1> HIDE DEF u, v
<1>4. \A end, n, kind : Emit(v(end), n, kind) = Emit(w, n, kind)
  BY <1>1 DEF Emit
<1>5. \A end : StartBatch(v(end)) = StartBatch(w) /\ RefusalBatch(v(end)) = RefusalBatch(w)
  BY <1>1, <1>4 DEF StartBatch, RefusalBatch
<1>6. FinalBatch(v(w.end)) = FinalBatch(w)
  BY <1>1, <1>4 DEF FinalBatch
<1>7. "failed" \in Ends
  BY DEF Ends
<1> QED BY <1>3, <1>5, <1>6, <1>7

LEMMA PostedEvents == ASSUME NEW batch \in WorkerBatches
                      PROVE  batch \in RunnerBatches /\ BatchOfEvents(batch)
  BY WorkerBatchesAssumption, RunnerBatchesAssumption DEF BatchOfEvents

LEMMA PostKeeps ==
    ASSUME NEW b, Good(b), NEW w, NEW O, NEW G, NEW n \in Nat, SessionOK(b, w, O, G, n),
           NEW x \in O, x.token \in Tokens, BatchOfEvents(x.batch),
           BatchAccepted(b, x.token, x.batch)
    PROVE  LET q == AfterBatch(b, x.token, x.batch) IN
           /\ SessionOK(q, w, O, G, n) /\ (AllIn(q, x.batch) \/ Over(q))
           /\ AllIn(b, x.batch) => q = b
           /\ ~AllIn(b, x.batch) => Effect(b, q, x.batch)
<1> DEFINE q == AfterBatch(b, x.token, x.batch)
<1>1. /\ ServedBook(b) /\ RequestsOK(b, O) /\ WorkerOK(b, w, O) /\ GrantsOK(b, O, G)
      /\ Minted(b, w, O, G, n) /\ b \in Book
  BY DEF SessionOK, Good, MidInv
<1>2. /\ HasLease(b) /\ b.lease.token = x.token /\ ~Over(b)
  BY DEF BatchAccepted, LeaseAuthorises, Good, Over, Tokens, NoToken
<1>3. RequestOK(b, x) /\ Script(x.token, x.batch)
  BY <1>1, <1>2 DEF RequestsOK
<1>4. CASE AllIn(b, x.batch)
  <2>1. \A i \in 1..Len(x.batch) : x.batch[i].id # FreshId
    BY <1>3, ScriptKinds DEF FreshId, Tokens
  <2>2. q = b
    BY <1>4, <2>1, Repeated
  <2> HIDE DEF q
  <2> QED BY <1>4, <2>2 DEF q
<1>5. CASE ~AllIn(b, x.batch)
  <2>1. \A r \in b.rows : \A i \in 1..Len(x.batch) : r.id # x.batch[i].id
    <3>1. CASE Opens(x.batch)
      <4>1. NoneFrom(b, x.token, 1)
        BY <1>3, <1>5, <3>1, ScriptKinds DEF RequestOK
      <4> QED BY <1>3, <4>1, UnrecordedIsUnseen
    <3>2. CASE Concludes(x.batch)
      <4>1. NoneFrom(b, x.token, x.batch[1].seq) /\ x.batch[1].seq \in Nat
        BY <1>3, <1>5, <3>2, ScriptKinds DEF RequestOK
      <4> QED BY <1>3, <3>2, <4>1, UnrecordedIsUnseen
    <3> QED BY <1>3, <3>1, <3>2, ScriptKinds
  <2>2. Effect(b, q, x.batch)
    BY <1>3, <2>1, PostEffect
  <2>3. x.batch[1].kind = "provider_started" => b.lease.provider = "none"
    <3>1. x.batch[1].kind = "provider_started" => Opens(x.batch) /\ ~Concludes(x.batch)
      BY <1>3, ScriptKinds DEF Opens
    <3> QED BY <1>3, <1>5, <3>1 DEF RequestOK
  <2> HIDE DEF q
  <2>4. ServedBook(q)
    BY <1>1, <1>2, <1>3, <2>2, <2>3, ServedBookKept
  <2>5. RequestsOK(q, O)
    BY <1>1, <1>2, <1>5, <2>2, RequestsKept
  <2>6. WorkerOK(q, w, O)
    BY <1>1, <1>2, <1>5, <2>2, WorkerKept, StartScript, RefusalScript
  <2>7. GrantsOK(q, O, G)
    BY <1>1, <1>2 DEF GrantsOK, Holding, Awaits
  <2>8. AllIn(q, x.batch)
    BY <1>1, <2>2, NewRows DEF Effect
  <2>9. Minted(q, w, O, G, n)
    <3>1. \A r \in q.rows \ b.rows : \E i \in 1..Len(x.batch) : r.id = x.batch[i].id
      BY <1>1, <2>2, NewRows DEF Effect
    <3>2. \A r \in q.rows \ b.rows : r.id[1] = x.token
      BY <1>3, <3>1, ScriptKinds
    <3>3. x.token \in 0..n
      BY <1>1 DEF Minted
    <3> QED BY <1>1, <3>2, <3>3 DEF Minted
  <2> QED BY <1>5, <2>2, <2>4, <2>5, <2>6, <2>7, <2>8, <2>9 DEF SessionOK, q
<1> QED BY <1>4, <1>5
----------------------------------------------------------------------------
(***************************************************************************)
(* Part 4.  The other things that happen to a book.                        *)
(***************************************************************************)
LEMMA Fewer ==
    ASSUME NEW b, NEW w, NEW O, NEW G, NEW n \in Nat, SessionOK(b, w, O, G, n),
           NEW P, P \subseteq O, NEW H, H \subseteq G, NEW k \in Nat, k >= n
    PROVE  SessionOK(b, w, P, H, k)
<1>1. RequestsOK(b, P)
  BY DEF SessionOK, RequestsOK
<1>2. WorkerOK(b, w, P)
  BY DEF SessionOK, WorkerOK, Holding, Announced
<1>3. GrantsOK(b, P, H)
  BY DEF SessionOK, GrantsOK, Holding
<1>4. Minted(b, w, P, H, k)
  BY DEF SessionOK, Minted
<1> QED BY <1>1, <1>2, <1>3, <1>4 DEF SessionOK

(* Rows the control plane adds beside a dispatch and a message. *)
PlainRow(r) ==
    r.id = FreshId /\ r.kind \notin {"runtime_dispatched", "provider_started"}

LEMMA EndKeeps ==
    ASSUME NEW b, Good(b), NEW w, NEW O, NEW G, NEW n \in Nat, SessionOK(b, w, O, G, n),
           NEW q, Over(q), q.lease = NoLease, b.rows \subseteq q.rows,
           \A r \in q.rows \ b.rows : PlainRow(r)
    PROVE  SessionOK(q, w, O, G, n)
<1>1. RequestsOK(q, O) /\ WorkerOK(q, w, O) /\ GrantsOK(q, O, G)
  BY DEF SessionOK, RequestsOK, WorkerOK, GrantsOK
<1>2. Minted(q, w, O, G, n)
  BY DEF SessionOK, Minted, PlainRow, FreshId
<1>3. q.state \in Reachable /\ q.state \notin Claimable \cup {"absent", "queued"}
  BY DEF Over, Reachable, Terminal, Claimable
<1>4. ~HasLease(q) /\ q.lease.provider = "none"
  BY DEF HasLease, NoLease, NoToken
<1>5. \A r \in q.rows : r.kind \in {"runtime_dispatched", "provider_started"} => r \in b.rows
  BY DEF PlainRow
<1>6. \A r, p \in b.rows : Between(b, r, p) => Between(q, r, p)
  BY DEF Between
<1>7. ServedBook(q)
  BY <1>3, <1>4, <1>5, <1>6 DEF SessionOK, ServedBook
<1> QED BY <1>1, <1>2, <1>7 DEF SessionOK

LEMMA CloseKeeps ==
    ASSUME NEW b, Good(b), NEW w, NEW O, NEW G, NEW n \in Nat, SessionOK(b, w, O, G, n),
           BatchAccepted(b, NoToken, CloseBatch)
    PROVE  /\ SessionOK(AfterBatch(b, NoToken, CloseBatch), w, O, G, n)
           /\ Over(AfterBatch(b, NoToken, CloseBatch))
<1> DEFINE q == AfterBatch(b, NoToken, CloseBatch)
           a == Halfway(b, NoToken, CloseBatch)
<1>1. /\ Len(CloseBatch) = 2 /\ CloseBatch[1] = CloseEvent(1, "close_requested")
      /\ CloseBatch[2] = CloseEvent(2, "closed")
  BY DEF CloseBatch
<1>2. CloseBatch[1] \in Event /\ CloseBatch[2] \in Event /\ ControlBatch(CloseBatch)
  BY <1>1, ControlBatchesTyped DEF BatchOfEvents
<1>3. /\ CloseBatch[2].kind = "closed" /\ CloseBatch[1].kind = "close_requested"
      /\ CloseBatch[1].id = FreshId /\ CloseBatch[2].id = FreshId
  BY <1>1 DEF CloseEvent
<1>4. Unseen(b, CloseBatch[1]) /\ Unseen(b, CloseBatch[2])
  BY <1>3 DEF Unseen
<1>5. NoToken \in Nat
  BY DEF NoToken
<1>6. Appended(b, q, NoToken, CloseBatch, a) /\ a \in Book
  BY <1>1, <1>2, <1>3, <1>4, <1>5, TwoNew
<1> HIDE DEF q, a
<1>7. Accepts(a, CloseBatch[2]) /\ q.state = Project(a, CloseBatch[2]).state
      /\ (Over(q) => q.lease = NoLease) /\ Adds(b, q, CloseBatch)
  BY <1>1, <1>6 DEF Appended
<1>8. Over(q)
  BY <1>2, <1>3, <1>6, <1>7, Projected DEF Over, Terminal
<1>9. \A r \in q.rows \ b.rows : PlainRow(r)
  <2>1. \A i \in 1..2 : CloseBatch[i].id = FreshId
                        /\ CloseBatch[i].kind \notin {"runtime_dispatched", "provider_started"}
    BY <1>3
  <2> QED BY <1>1, <1>7, <2>1 DEF Adds, PlainRow, RowOf
<1>10. SessionOK(q, w, O, G, n)
  BY <1>7, <1>8, <1>9, EndKeeps DEF Adds
<1> QED BY <1>8, <1>10 DEF q

LEMMA LostKeeps ==
    ASSUME NEW b, Good(b), NEW w, NEW O, NEW G, NEW n \in Nat, SessionOK(b, w, O, G, n),
           NEW l \in Tokens, BatchAccepted(b, NoToken, RuntimeLostBatch(l))
    PROVE  SessionOK(AfterBatch(b, NoToken, RuntimeLostBatch(l)), w, O, G, n)
<1> DEFINE batch == RuntimeLostBatch(l)
           q == AfterBatch(b, NoToken, batch)
<1>1. /\ Len(batch) = 1 /\ batch[1].id = FreshId /\ batch[1].kind = "runtime_lost"
  BY DEF RuntimeLostBatch
<1>2. batch[1] \in Event /\ ControlBatch(batch)
  BY <1>1, ControlBatchesTyped DEF BatchOfEvents
<1> HIDE DEF batch
<1>3. ~IsReplay(b, batch[1])
  BY <1>1, UnseenIsNoReplay DEF Unseen
<1>4. NoToken \in Nat /\ b \in Book
  BY DEF NoToken, Good, MidInv
<1>5. Appended(b, q, NoToken, batch, b)
  BY <1>1, <1>2, <1>3, <1>4, OneNew DEF batch
<1> HIDE DEF q
<1>6. Accepts(b, batch[1]) /\ q.state = Project(b, batch[1]).state
      /\ (Over(q) => q.lease = NoLease) /\ Adds(b, q, batch)
  BY <1>1, <1>5 DEF Appended
<1>7. Over(q)
  BY <1>1, <1>2, <1>4, <1>6, Projected DEF Over, Terminal, FailureKinds
<1>8. \A r \in q.rows \ b.rows : PlainRow(r)
  BY <1>1, <1>6 DEF Adds, PlainRow, RowOf
<1>9. SessionOK(q, w, O, G, n)
  BY <1>6, <1>7, <1>8, EndKeeps DEF Adds
<1> QED BY <1>9 DEF q, batch

LEMMA SubmitKeeps ==
    ASSUME NEW b, Good(b), NEW w, NEW O, NEW G, NEW n \in Nat, SessionOK(b, w, O, G, n),
           NEW m \in Messages, NEW c \in Contents, b.state # "queued",
           BatchAccepted(b, NoToken, MessageBatch(m, c))
    PROVE  /\ SessionOK(AfterBatch(b, NoToken, MessageBatch(m, c)), w, O, G, n)
           /\ \/ AfterBatch(b, NoToken, MessageBatch(m, c)) = b
              \/ AfterBatch(b, NoToken, MessageBatch(m, c)).state = "message_pending"
<1> DEFINE batch == MessageBatch(m, c)
           q == AfterBatch(b, NoToken, batch)
<1>1. /\ Len(batch) = 1 /\ batch[1].id = FreshId /\ batch[1].kind = "user_message_submitted"
      /\ batch[1].msg = m
  BY DEF MessageBatch
<1>2. batch[1] \in Event /\ ControlBatch(batch)
  BY <1>1, ControlBatchesTyped DEF BatchOfEvents
<1> HIDE DEF batch
<1>3. NoToken \in Nat /\ b \in Book /\ ServedBook(b)
  BY DEF NoToken, Good, MidInv, SessionOK
<1>4. CASE IsReplay(b, batch[1])
  <2>1. q = b
    BY <1>1, <1>4 DEF AfterBatch, Applied, Settled
  <2> QED BY <2>1 DEF q, batch
<1>5. CASE ~IsReplay(b, batch[1])
  <2>1. Appended(b, q, NoToken, batch, b)
    BY <1>1, <1>2, <1>3, <1>5, OneNew DEF batch
  <2> HIDE DEF q
  <2>2. /\ Accepts(b, batch[1]) /\ Adds(b, q, batch)
        /\ q.state = Project(b, batch[1]).state
        /\ ~Over(q) => q.lease.token = b.lease.token /\ q.lease.provider = b.lease.provider
    BY <1>1, <2>1 DEF Appended
  <2>3. b.state = "ready"
    BY <1>1, <1>2, <1>3, <2>2, AcceptedStates DEF ServedBook, Reachable, Terminal
  <2>4. q.state = "message_pending" /\ ~Over(q) /\ ~Over(b)
    BY <1>1, <1>2, <1>3, <2>2, <2>3, Projected DEF Over, Terminal
  <2>5. /\ \A r \in b.rows : r \in q.rows
        /\ \A r \in q.rows \ b.rows :
              r.id = FreshId /\ r.kind = "user_message_submitted" /\ r.global = b.head + 1
        /\ \E r \in q.rows : r.kind = "user_message_submitted" /\ r.global = b.head + 1
    BY <1>1, <2>2 DEF Adds, RowOf
  <2>6. \A r \in b.rows : r.global \in Nat /\ r.global < b.head + 1
    BY DEF Good, MidInv, Book, Row, RowsInv, GlobalSequenceOf
  <2>7. RequestsOK(q, O)
    <3>1. \A r \in O : r.token = b.lease.token => AllIn(b, r.batch)
      BY <2>3, <2>4 DEF SessionOK, RequestsOK, RequestOK
    <3>2. \A r \in O : r.token = b.lease.token => AllIn(q, r.batch)
      BY <2>5, <3>1, RowsStay
    <3> QED BY <2>2, <2>4, <3>2 DEF SessionOK, RequestsOK, RequestOK
  <2>8. WorkerOK(q, w, O)
    <3>1. /\ ~Unannounced(w) /\ ~Announcing(w) /\ w.phase # "refused"
          /\ w.phase = "last" => OutcomeIn(b, w.msg)
      BY <2>3, <2>4 DEF SessionOK, WorkerOK, Holding, Announced, Awaits, Runs
    <3>2. OutcomeIn(b, w.msg) => OutcomeIn(q, w.msg)
      BY <2>5, RowsStay
    <3> QED BY <3>1, <3>2 DEF WorkerOK
  <2>9. GrantsOK(q, O, G)
    BY <2>3, <2>4 DEF SessionOK, GrantsOK, Holding, Awaits
  <2>10. Minted(q, w, O, G, n)
    BY <2>5 DEF SessionOK, Minted, FreshId
  <2>11. ServedBook(q)
    <3>1. \A r \in q.rows :
              r.kind \in {"runtime_dispatched", "provider_started"} => r \in b.rows
      BY <2>5
    <3>2. \A r, p \in b.rows : Between(b, r, p) => Between(q, r, p)
      BY <2>5 DEF Between
    <3>3. \A r \in b.rows : UserAfter(q, r.global)
      BY <2>5, <2>6 DEF UserAfter
    <3>4. HasLease(q) <=> HasLease(b)
      BY <2>2, <2>4 DEF HasLease
    <3> QED BY <1>3, <2>2, <2>4, <2>5, <3>1, <3>2, <3>3, <3>4 DEF ServedBook, Reachable
  <2>12. SessionOK(q, w, O, G, n)
    BY <2>7, <2>8, <2>9, <2>10, <2>11 DEF SessionOK
  <2> QED BY <2>4, <2>12 DEF q, batch
<1> QED BY <1>4, <1>5

LEMMA DispatchKeeps ==
    ASSUME NEW b, Good(b), NEW w, NEW O, NEW G, NEW n \in Nat, SessionOK(b, w, O, G, n),
           n + 1 \in Tokens, b.state \in Claimable, b.state = "message_pending" => HasLease(b),
           NEW a, a.token = n + 1, a.msg = b.active, a.provider = b.lease.provider
    PROVE  SessionOK(Dispatched(b, n + 1), w, O, G \cup {a}, n + 1)
<1> DEFINE q == Dispatched(b, n + 1)
           t == n + 1
           new == RowOf(DispatchEvent(t), b.head + 1)
<1>1. /\ b \in Book /\ b.head \in Nat /\ ServedBook(b) /\ ~Over(b)
      /\ b.lease \in Lease \cup {NoLease}
      /\ b.state \in {"queued", "message_pending"}
  BY DEF Good, MidInv, Book, SessionOK, Over, Claimable, Terminal
<1>2. new.id = FreshId /\ new.kind = "runtime_dispatched" /\ new.global = b.head + 1
  BY DEF DispatchEvent, RowOf
<1> HIDE DEF new
<1>3. /\ q.state = "dispatched" /\ q.active = b.active /\ q.rows = b.rows \cup {new}
      /\ q.lease = IF b.state = "queued"
                   THEN [id |-> t, token |-> t, provider |-> "none", expired |-> FALSE]
                   ELSE [b.lease EXCEPT !.token = t, !.expired = FALSE]
  BY <1>1 DEF Dispatched, Book, new
<1>4. q.lease.token = t /\ q.lease.provider = b.lease.provider
  <2>1. CASE b.state = "queued"
    <3>1. ~HasLease(b)
      BY <2>1 DEF Good, MidInv, LeaseInv
    <3>2. b.lease = NoLease
      BY <1>1, <3>1 DEF HasLease, Lease, Tokens, NoToken
    <3> QED BY <1>3, <2>1, <3>2 DEF NoLease
  <2>2. CASE b.state # "queued"
    <3>1. b.lease \in Lease
      BY <1>1, <2>2 DEF HasLease, NoLease, NoToken
    <3> QED BY <1>3, <2>2, <3>1 DEF Lease
  <2> QED BY <2>1, <2>2
<1> HIDE DEF q
<1>5. t \in Nat /\ t # 0 /\ t > n
  OBVIOUS
<1>6. ~Over(q)
  BY <1>3 DEF Over, Terminal
<1>7. \A r \in b.rows : r.global \in Nat /\ r.global < b.head + 1
  BY DEF Good, MidInv, Book, Row, RowsInv, GlobalSequenceOf
<1>8. RequestsOK(q, O)
  BY <1>4, <1>5 DEF SessionOK, RequestsOK, Minted
<1>9. WorkerOK(q, w, O)
  <2>1. /\ ~Unannounced(w) /\ ~Announcing(w) /\ w.phase # "refused"
        /\ w.phase = "last" => OutcomeIn(b, w.msg)
    BY <1>1 DEF SessionOK, WorkerOK, Holding, Announced, Awaits, Runs
  <2>2. OutcomeIn(b, w.msg) => OutcomeIn(q, w.msg)
    BY <1>3, RowsStay
  <2> QED BY <2>1, <2>2 DEF WorkerOK
<1>10. NoneFrom(q, t, 1)
  BY <1>2, <1>3, <1>5 DEF SessionOK, Minted, NoneFrom, FreshId
<1>11. GrantsOK(q, O, G \cup {a})
  <2>1. \A c \in G : FALSE
    BY <1>1 DEF SessionOK, GrantsOK, Holding, Awaits
  <2>2. Holding(q, O, a.token, a.msg, a.provider)
    BY <1>3, <1>4, <1>5, <1>10 DEF SessionOK, Minted, Holding, Awaits
  <2> QED BY <2>1, <2>2 DEF GrantsOK
<1>12. Minted(q, w, O, G \cup {a}, t)
  BY <1>2, <1>3, <1>5 DEF SessionOK, Minted, FreshId
<1>13. ServedBook(q)
  <2>1. \A r, p \in q.rows :
            r.kind = "runtime_dispatched" /\ p.kind = "runtime_dispatched" /\ r.global < p.global
                => Between(q, r, p)
    <3>1. \A r, p \in b.rows : Between(b, r, p) => Between(q, r, p)
      BY <1>3 DEF Between
    <3>2. ASSUME NEW r \in b.rows, r.kind = "runtime_dispatched" PROVE Between(q, r, new)
      <4>1. UserAfter(b, r.global)
        BY <3>2 DEF SessionOK, ServedBook
      <4> QED BY <1>2, <1>3, <1>7, <4>1 DEF UserAfter, Between
    <3>3. \A r \in q.rows : ~(new.global < r.global)
      BY <1>1, <1>2, <1>3, <1>7
    <3> QED BY <1>1, <1>3, <3>1, <3>2, <3>3 DEF ServedBook
  <2>2. \A r \in q.rows : r.kind = "provider_started" => r \in b.rows
    BY <1>2, <1>3
  <2>3. b.rows \subseteq q.rows
    BY <1>3
  <2>4. HasLease(q) /\ q.lease.provider = b.lease.provider
    BY <1>4, <1>5 DEF HasLease, NoToken
  <2>5. b.lease.provider # "none" <=> \E r \in b.rows : r.kind = "provider_started"
    <3>1. CASE b.state = "queued"
      <4>1. b.lease = NoLease
        BY <1>1, <3>1 DEF Good, MidInv, LeaseInv, HasLease, Lease, Tokens, NoToken
      <4> QED BY <1>1, <3>1, <4>1 DEF ServedBook, NoLease
    <3>2. CASE b.state # "queued"
      BY <1>1, <3>2 DEF ServedBook
    <3> QED BY <3>1, <3>2
  <2>6. q.state \in Reachable /\ q.state \notin Claimable \cup {"absent", "queued"}
    BY <1>3 DEF Reachable, Claimable
  <2> QED BY <1>1, <2>1, <2>2, <2>3, <2>4, <2>5, <2>6 DEF ServedBook
<1>14. SessionOK(q, w, O, G \cup {a}, t)
  BY <1>8, <1>9, <1>11, <1>12, <1>13 DEF SessionOK
<1> QED BY <1>14 DEF q

LEMMA LaunchKeeps ==
    ASSUME NEW b, Good(b), NEW w, NEW O, NEW G, NEW n \in Nat, SessionOK(b, w, O, G, n),
           b.state = "absent", NEW m \in Messages, NEW c \in Contents
    PROVE  SessionOK(LaunchedBook(m, c), w, O, G, n)
<1> DEFINE q == LaunchedBook(m, c)
<1>1. ~Over(b) /\ b.rows = {}
  BY DEF Over, Terminal, Good
<1>2. q.state = "queued" /\ q.rows = InitialRows(m, c) /\ q.lease = NoLease
  BY DEF LaunchedBook, EmptyBook
<1>3. \A r \in InitialRows(m, c) :
          r.id = FreshId /\ r.kind \notin {"runtime_dispatched", "provider_started"}
  BY DEF InitialRows, RowOf, LaunchEvent
<1> HIDE DEF q
<1>4. RequestsOK(q, O)
  BY <1>2 DEF SessionOK, RequestsOK, Minted, NoLease
<1>5. WorkerOK(q, w, O)
  BY <1>1 DEF SessionOK, WorkerOK, Holding, Announced, Awaits, Runs, OutcomeIn
<1>6. GrantsOK(q, O, G)
  BY <1>1 DEF SessionOK, GrantsOK, Holding, Awaits
<1>7. Minted(q, w, O, G, n)
  BY <1>2, <1>3 DEF SessionOK, Minted, FreshId
<1>8. ServedBook(q)
  BY <1>2, <1>3 DEF ServedBook, Reachable, NoLease, HasLease, NoToken
<1>9. SessionOK(q, w, O, G, n)
  BY <1>4, <1>5, <1>6, <1>7, <1>8 DEF SessionOK
<1> QED BY <1>9 DEF q

LEMMA ExpireKeeps ==
    ASSUME NEW b, Good(b), HasLease(b), NEW w, NEW O, NEW G, NEW n \in Nat,
           SessionOK(b, w, O, G, n)
    PROVE  SessionOK([b EXCEPT !.lease.expired = TRUE], w, O, G, n)
<1> DEFINE q == [b EXCEPT !.lease.expired = TRUE]
<1>1. b \in Book /\ b.lease \in Lease
  BY DEF Good, MidInv, Book, HasLease, NoLease, NoToken
<1>2. /\ q.state = b.state /\ q.rows = b.rows /\ q.active = b.active
      /\ q.lease.token = b.lease.token /\ q.lease.provider = b.lease.provider
  BY <1>1 DEF Book, Lease
<1> HIDE DEF q
<1>3. /\ Over(q) <=> Over(b)
      /\ \A batch : AllIn(q, batch) <=> AllIn(b, batch)
      /\ \A t, k : NoneFrom(q, t, k) <=> NoneFrom(b, t, k)
      /\ \A m : OutcomeIn(q, m) <=> OutcomeIn(b, m)
      /\ \A t, m : (Awaits(q, t, m) <=> Awaits(b, t, m)) /\ (Runs(q, t, m) <=> Runs(b, t, m))
  BY <1>2 DEF Over, AllIn, NoneFrom, OutcomeIn, Awaits, Runs
<1>4. RequestsOK(q, O)
  BY <1>2, <1>3 DEF SessionOK, RequestsOK, RequestOK
<1>5. \A t, m, p : Holding(q, O, t, m, p) <=> Holding(b, O, t, m, p)
  BY <1>2, <1>3 DEF Holding
<1>6. Announced(q, w, O) <=> Announced(b, w, O)
  BY <1>2, <1>3 DEF Announced
<1>7. WorkerOK(q, w, O) /\ GrantsOK(q, O, G)
  BY <1>3, <1>5, <1>6 DEF SessionOK, WorkerOK, GrantsOK
<1>8. Minted(q, w, O, G, n)
  BY <1>2 DEF SessionOK, Minted
<1>9. ServedBook(q)
  BY <1>2 DEF SessionOK, ServedBook, HasLease, Between, UserAfter
<1>10. SessionOK(q, w, O, G, n)
  BY <1>4, <1>7, <1>8, <1>9 DEF SessionOK
<1> QED BY <1>10 DEF q
----------------------------------------------------------------------------
(***************************************************************************)
(* Part 5.  What a worker does while the book stays as it is.              *)
(***************************************************************************)
SameJob(w, v) == v.msg = w.msg /\ v.token = w.token /\ v.provider = w.provider

LEMMA SameBatches ==
    ASSUME NEW w, NEW v, SameJob(w, v)
    PROVE  StartBatch(v) = StartBatch(w) /\ RefusalBatch(v) = RefusalBatch(w)
<1>1. \A n, kind : Emit(v, n, kind) = Emit(w, n, kind)
  BY DEF SameJob, Emit
<1> QED BY <1>1 DEF SameJob, StartBatch, RefusalBatch

LEMMA IdleKeeps ==
    ASSUME NEW b, NEW w, NEW O, NEW G, NEW n \in Nat, SessionOK(b, w, O, G, n)
    PROVE  SessionOK(b, IdleWorker, O, G, n)
<1>1. WorkerOK(b, IdleWorker, O) /\ IdleWorker.token = 0
  BY DEF WorkerOK, IdleWorker, Unannounced, Announcing, NoToken
<1> QED BY <1>1 DEF SessionOK, Minted

LEMMA TakeKeeps ==
    ASSUME NEW b, NEW w, NEW O, NEW G, NEW n \in Nat, SessionOK(b, w, O, G, n),
           NEW a \in G, NEW v, SameJob(a, v), v.phase = "prepare"
    PROVE  SessionOK(b, v, O, G, n)
<1>1. WorkerOK(b, v, O)
  BY DEF SessionOK, GrantsOK, WorkerOK, SameJob, Unannounced, Announcing
<1>2. Minted(b, v, O, G, n)
  BY DEF SessionOK, Minted, SameJob
<1> QED BY <1>1, <1>2 DEF SessionOK

(* Steps that post nothing. *)
LEMMA QuietKeeps ==
    ASSUME NEW b, NEW w, NEW O, NEW G, NEW n \in Nat, SessionOK(b, w, O, G, n),
           NEW v, SameJob(w, v), v.batch = w.batch,
           Unannounced(v) <=> Unannounced(w), Announcing(v) <=> Announcing(w),
           v.phase = "refused" <=> w.phase = "refused", v.phase = "last" <=> w.phase = "last",
           \/ v.reply \in {"waiting", "rejected"} \/ v.reply = w.reply
           \/ w.reply \in {"none", "ok"} \/ AllIn(b, w.batch) \/ Over(b)
    PROVE  SessionOK(b, v, O, G, n)
<1>1. StartBatch(v) = StartBatch(w) /\ RefusalBatch(v) = RefusalBatch(w)
  BY SameBatches
<1>2. ASSUME Announced(b, w, O), ~Over(b) PROVE Announced(b, v, O)
  <2>1. AllIn(b, w.batch) /\ NoneFrom(b, w.token, 1) => FALSE
    BY <1>2, StartScript, RecordedFrom DEF Announced
  <2> QED BY <1>1, <1>2, <2>1 DEF Announced, SameJob
<1>3. WorkerOK(b, v, O)
  BY <1>1, <1>2 DEF SessionOK, WorkerOK, SameJob
<1>4. Minted(b, v, O, G, n)
  BY DEF SessionOK, Minted, SameJob
<1> QED BY <1>3, <1>4 DEF SessionOK

(* The first batch of an assignment that nothing was posted for. *)
LEMMA OpeningKeeps ==
    ASSUME NEW b, NEW w, NEW O, NEW G, NEW n \in Nat, SessionOK(b, w, O, G, n),
           NEW v, v.token \in 1..n, NEW x, x.token = v.token, x.batch = v.batch,
           ~Over(b) => Holding(b, O, v.token, v.msg, v.provider),
           Script(v.token, v.batch), Opens(v.batch),
           v.batch[1].kind = "provider_started" => v.provider = "none",
           \A a \in G : a.token # v.token,
           v.reply = "waiting",
           \/ Announcing(v) /\ v.batch = StartBatch(v)
           \/ v.phase = "last"
           \/ v.phase = "refused" /\ v.batch = RefusalBatch(v)
    PROVE  SessionOK(b, v, O \cup {x}, G, n)
<1>1. ~Unannounced(v) /\ (Announcing(v) => v.phase \notin {"last", "refused"})
  BY DEF Unannounced, Announcing
<1>2. RequestsOK(b, O \cup {x})
  <2>1. ~Over(b) => RequestOK(b, x)
    BY DEF RequestOK, Holding, Awaits
  <2>2. ~Over(b) => b.lease.token = v.token /\ \A r \in O : r.token # v.token
    BY DEF Holding, Awaits
  <2> QED BY <2>1, <2>2 DEF SessionOK, RequestsOK
<1>3. ~Over(b) => Awaits(b, v.token, v.msg)
  BY DEF Holding
<1>4. ~Over(b) /\ Announcing(v) => Announced(b, v, O \cup {x})
  BY <1>1 DEF Announced, Holding
<1>5. ~Over(b) => \A r \in O \cup {x} : r.token = v.token => r.batch = v.batch
  BY DEF Holding
<1>6. WorkerOK(b, v, O \cup {x})
  BY <1>1, <1>3, <1>4, <1>5 DEF WorkerOK, Announcing
<1>7. GrantsOK(b, O \cup {x}, G)
  BY DEF SessionOK, GrantsOK, Holding
<1>8. Minted(b, v, O \cup {x}, G, n)
  BY DEF SessionOK, Minted
<1> QED BY <1>2, <1>6, <1>7, <1>8 DEF SessionOK

(* The outcome, after the start is recorded. *)
LEMMA ConcludingKeeps ==
    ASSUME NEW b, NEW w, NEW O, NEW G, NEW n \in Nat, SessionOK(b, w, O, G, n),
           Announcing(w), w.reply \in {"none", "ok"}, w.token \in 1..n,
           NEW v, SameJob(w, v), v.phase = "last", NEW x, x.token = w.token, x.batch = v.batch,
           Script(w.token, v.batch), Concludes(v.batch),
           v.batch[1].seq = Len(StartBatch(w)) + 1
    PROVE  SessionOK(b, v, O \cup {x}, G, n)
<1>1. ~Over(b) => Announced(b, w, O)
  BY DEF SessionOK, WorkerOK
<1>2. ~Over(b) => /\ Runs(b, w.token, w.msg)
                  /\ NoneFrom(b, w.token, v.batch[1].seq)
                  /\ \A r \in O : r.token = w.token => Opens(r.batch)
  BY <1>1, StartScript DEF Announced, Opens
<1>3. RequestsOK(b, O \cup {x})
  <2>1. ~Over(b) => RequestOK(b, x)
    BY <1>2 DEF RequestOK, Runs
  <2>2. ~Opens(x.batch)
    BY ScriptKinds
  <2> QED BY <1>2, <2>1, <2>2 DEF SessionOK, RequestsOK, Runs
<1>4. WorkerOK(b, v, O \cup {x})
  BY <1>2 DEF WorkerOK, SameJob, Unannounced, Announcing
<1>5. GrantsOK(b, O \cup {x}, G)
  BY <1>2 DEF SessionOK, GrantsOK, Holding, Awaits, Runs
<1>6. Minted(b, v, O \cup {x}, G, n)
  BY DEF SessionOK, Minted, SameJob
<1> QED BY <1>3, <1>4, <1>5, <1>6 DEF SessionOK
----------------------------------------------------------------------------
(***************************************************************************)
(* Part 6.  Every step of a caller is a step of the ledger or none.        *)
(***************************************************************************)
LEMMA WaitingTyped ==
    ASSUME ExecTyped, NEW s \in Sessions, worker[s].reply = "waiting"
    PROVE  /\ worker[s].token \in Tokens /\ worker[s].batch \in RunnerBatches
           /\ worker[s].phase # "idle"
           /\ BatchOfEvents(worker[s].batch)
<1>1. WorkerShape(worker[s])
  BY DEF ExecTyped
<1>2. worker[s].phase # "idle"
  BY <1>1 DEF WorkerShape, IdleWorker
<1>3. worker[s].batch \in WorkerBatches
  BY <1>1 DEF WorkerShape
<1> QED BY <1>1, <1>2, <1>3, PostedEvents DEF WorkerShape

LEMMA LateTyped ==
    ASSUME ExecTyped, NEW r \in late
    PROVE  /\ r.session \in Sessions /\ r.token \in Tokens /\ r.batch \in RunnerBatches
           /\ BatchOfEvents(r.batch)
<1>1. r \in [session : Sessions, token : Tokens, batch : WorkerBatches]
  BY DEF ExecTyped, ExecutionTypeOK
<1> QED BY <1>1, PostedEvents

LEMMA RefinesStep == ExecTyped /\ ExecutionNext => LedgerNext \/ UNCHANGED ledgerVars
<1> SUFFICES ASSUME ExecTyped, ExecutionNext PROVE LedgerNext \/ UNCHANGED ledgerVars
  OBVIOUS
<1> USE DEF ledgerVars
<1>1. CASE UserNext
  <2>1. PICK s \in Sessions :
            \/ \E m \in Messages, c \in Contents :
                  Launch(s, m, c) \/ CheckMessage(s, m, c) \/ AppendMessage(s, m, c)
            \/ CheckClose(s) \/ AppendClose(s)
    BY <1>1 DEF UserNext
  <2>2. CASE CheckClose(s) \/ AppendClose(s)
    BY <2>2 DEF CheckClose, AppendClose, LedgerNext
  <2>3. ASSUME NEW m \in Messages, NEW c \in Contents,
               Launch(s, m, c) \/ CheckMessage(s, m, c) \/ AppendMessage(s, m, c)
        PROVE  LedgerNext \/ UNCHANGED ledgerVars
    BY <2>3 DEF Launch, CheckMessage, AppendMessage, LedgerNext
  <2> QED BY <2>1, <2>2, <2>3
<1>2. ASSUME NEW i \in Callers, ClaimNext(i) PROVE LedgerNext \/ UNCHANGED ledgerVars
  <2>1. CASE Poll(i) \/ LoseGrant(i) \/ Receive(i) \/ \E lease \in calls[i].leases : Examine(i, lease)
    BY <2>1 DEF Poll, LoseGrant, Receive, Examine
  <2>2. CASE FailSession(i)
    <3>1. calls[i].doomed \subseteq Sessions \X Tokens
      BY DEF ExecTyped, ExecutionTypeOK, Call
    <3> QED BY <2>2, <3>1 DEF FailSession, LedgerNext
  <2>3. CASE Claim(i)
    BY <2>3 DEF Claim, LedgerNext
  <2> QED BY <1>2, <2>1, <2>2, <2>3 DEF ClaimNext
<1>3. ASSUME NEW s \in Sessions, WorkerNext(s) PROVE LedgerNext \/ UNCHANGED ledgerVars
  <2>1. CASE Answer(s)
    <3>1. worker[s].token \in Tokens /\ worker[s].batch \in RunnerBatches
      BY <2>1, WaitingTyped DEF Answer
    <3> QED BY <2>1, <3>1 DEF Answer, LedgerNext
  <2>2. CASE StopWaiting(s) \/ WorkerRejects(s)
    BY <2>2 DEF StopWaiting, WorkerRejects, DaemonEnds, WorkerStep
  <2>3. CASE \/ PrepareFails(s) \/ Prepare(s) \/ StartProcess(s) \/ SeeThread(s)
             \/ \E end \in Ends, said \in BOOLEAN : ProcessEnds(s, end, said)
             \/ PublishStart(s) \/ Conclude(s) \/ Finish(s)
    BY <2>3 DEF PrepareFails, Prepare, StartProcess, SeeThread, ProcessEnds, PublishStart,
                Conclude, Finish, WorkerStep
  <2> QED BY <1>3, <2>1, <2>2, <2>3 DEF WorkerNext
<1>4. ASSUME NEW s \in Sessions, Expire(s) PROVE LedgerNext
  BY <1>4 DEF Expire, LedgerNext
<1>5. ASSUME NEW r \in late, AnswerLate(r) PROVE LedgerNext \/ UNCHANGED ledgerVars
  <2>1. r.session \in Sessions /\ r.token \in Tokens /\ r.batch \in RunnerBatches
    BY LateTyped
  <2> QED BY <1>5, <2>1 DEF AnswerLate, LedgerNext
<1>6. CASE DaemonNext
  BY <1>6 DEF DaemonNext, StartDaemon, Crash, Stop, Exit, GoOffline, Heartbeat, Restart, DaemonEnds
<1> QED BY <1>1, <1>2, <1>3, <1>4, <1>5, <1>6 DEF ExecutionNext
----------------------------------------------------------------------------
(***************************************************************************)
(* Part 7.  What a step leaves alone.                                      *)
(***************************************************************************)
CallTypes ==
    /\ online \in BOOLEAN
    /\ daemon \in [run : 0..MaxRuns, up : BOOLEAN, stopping : BOOLEAN]
    /\ calls \in [Callers -> Call]
    /\ sends \subseteq Sessions \X Messages \X Contents
    /\ closes \subseteq Sessions
    /\ late \subseteq [session : Sessions, token : Tokens, batch : WorkerBatches]
WorkerTypes ==
    /\ worker \in [Sessions -> Worker]
    /\ \A s \in Sessions : WorkerShape(worker[s])

LEMMA TypesSplit == ExecTyped <=> CallTypes /\ WorkerTypes
  BY DEF ExecTyped, ExecutionTypeOK, CallTypes, WorkerTypes

GrantsShrink == \A i \in Callers : calls'[i].grant \subseteq calls[i].grant

LEMMA GrantsFewer ==
    ASSUME GrantsShrink, NEW s
    PROVE  GrantsOf(s)' \subseteq GrantsOf(s)
  BY DEF GrantsShrink, GrantsOf

LEMMA GrantIn ==
    ASSUME NEW i \in Callers, NEW a \in calls[i].grant
    PROVE  a \in GrantsOf(a.session)
  BY DEF GrantsOf

LEMMA GrantFrom ==
    ASSUME NEW s, NEW a \in GrantsOf(s)
    PROVE  a.session = s /\ \E i \in Callers : a \in calls[i].grant
  BY DEF GrantsOf

LEMMA RequestsFewer ==
    ASSUME NEW s, worker'[s] = worker[s], \A r \in late' : r.session = s => r \in late
    PROVE  RequestsOf(s)' \subseteq RequestsOf(s)
<1>1. Request(s)' = Request(s)
  BY DEF Request
<1> QED BY <1>1 DEF RequestsOf

(* A session that only loses requests and grants. *)
LEMMA Untouched ==
    ASSUME NEW s, Served(s), book'[s] = book[s], worker'[s] = worker[s],
           \A r \in late' : r.session = s => r \in late,
           GrantsOf(s)' \subseteq GrantsOf(s),
           claims \in Nat, claims' \in Nat, claims' >= claims
    PROVE  Served(s)'
<1> DEFINE b == book[s]
           w == worker[s]
           P == RequestsOf(s)'
           H == GrantsOf(s)'
           k == claims'
<1>1. P \subseteq RequestsOf(s)
  BY RequestsFewer
<1>2. SessionOK(b, w, RequestsOf(s), GrantsOf(s), claims)
  BY DEF Served
<1> HIDE DEF b, w, P, H, k
<1>3. SessionOK(b, w, P, H, k)
  BY <1>1, <1>2, Fewer DEF H, k
<1> QED BY <1>3 DEF Served, b, w, P, H, k

LEMMA NothingDone ==
    ASSUME ExecInv, LedgerInv', CallTypes', UNCHANGED <<book, claims, worker>>,
           late' \subseteq late, GrantsShrink
    PROVE  ExecInv'
<1>1. claims \in Nat
  BY BoundsAssumption DEF ExecInv, LedgerInv
<1>2. ASSUME NEW s \in Sessions PROVE Served(s)'
  <2>1. GrantsOf(s)' \subseteq GrantsOf(s) /\ Served(s)
    BY GrantsFewer DEF ExecInv
  <2> QED BY <1>1, <2>1, Untouched
<1>3. ExecTyped'
  BY TypesSplit DEF ExecInv, CallTypes, WorkerTypes, ExecTyped, ExecutionTypeOK
<1>4. GrantsDiffer'
  BY DEF ExecInv, GrantsDiffer, GrantsShrink, Busy
<1> QED BY <1>2, <1>3, <1>4 DEF ExecInv

(* A step of session s: its book becomes q and its worker v. *)
LEMMA OneSession ==
    ASSUME ExecInv, LedgerInv', CallTypes', NEW s \in Sessions, NEW q, NEW v,
           v \in Worker, WorkerShape(v),
           book' = [book EXCEPT ![s] = q], worker' = [worker EXCEPT ![s] = v],
           claims' = claims, GrantsShrink,
           \A r \in late' : r.session # s => r \in late,
           v.phase # "idle" => \A a \in GrantsOf(s)' : a.token # v.token,
           SessionOK(q, v, RequestsOf(s)', GrantsOf(s)', claims)
    PROVE  ExecInv'
<1>1. claims \in Nat /\ book \in [Sessions -> Book] /\ worker \in [Sessions -> Worker]
  BY BoundsAssumption DEF ExecInv, LedgerInv, ExecTyped, ExecutionTypeOK
<1>2. book'[s] = q /\ worker'[s] = v
  BY <1>1
<1>3. \A u \in Sessions \ {s} : book'[u] = book[u] /\ worker'[u] = worker[u]
  BY <1>1
<1>4. Served(s)'
  BY <1>2 DEF Served
<1>5. ASSUME NEW u \in Sessions \ {s} PROVE Served(u)'
  <2>1. GrantsOf(u)' \subseteq GrantsOf(u) /\ Served(u)
    BY GrantsFewer DEF ExecInv
  <2> QED BY <1>1, <1>3, <2>1, Untouched
<1>6. WorkerTypes'
  <2>1. worker' \in [Sessions -> Worker]
    BY <1>1
  <2> QED BY <1>2, <1>3, <2>1 DEF ExecInv, ExecTyped, WorkerTypes
<1>7. ExecTyped'
  BY <1>6 DEF CallTypes, WorkerTypes, ExecTyped, ExecutionTypeOK
<1>8. GrantsDiffer'
  <2> SUFFICES ASSUME NEW i \in Callers, NEW j \in Callers, NEW a \in calls'[i].grant,
                      NEW c \in calls'[j].grant
               PROVE  /\ a.token = c.token => i = j
                      /\ i = j => a = c
                      /\ Busy(a.session)' => worker'[a.session].token # a.token
    BY DEF GrantsDiffer
  <2>1. a \in calls[i].grant /\ c \in calls[j].grant
    BY DEF GrantsShrink
  <2>2. (a.token = c.token => i = j) /\ (i = j => a = c)
        /\ (Busy(a.session) => worker[a.session].token # a.token)
    BY <2>1 DEF ExecInv, GrantsDiffer
  <2>3. a.session \in Sessions
    BY <2>1 DEF ExecInv, ExecTyped, ExecutionTypeOK, Call, Assignment
  <2>4. CASE a.session = s
    <3>1. a \in GrantsOf(s)'
      BY <2>4 DEF GrantsOf
    <3> QED BY <1>2, <2>2, <2>4, <3>1 DEF Busy
  <2>5. CASE a.session # s
    BY <1>3, <2>2, <2>3, <2>5 DEF Busy
  <2> QED BY <2>4, <2>5
<1> QED BY <1>4, <1>5, <1>7, <1>8 DEF ExecInv

LEMMA WorkerOf ==
    ASSUME ExecInv, NEW s \in Sessions
    PROVE  /\ worker[s] \in Worker /\ WorkerShape(worker[s])
           /\ book[s] \in Book /\ Good(book[s])
           /\ SessionOK(book[s], worker[s], RequestsOf(s), GrantsOf(s), claims)
           /\ claims \in Nat
           /\ Busy(s) => /\ worker[s].token \in 1..claims
                         /\ \A a \in GrantsOf(s) : a.token # worker[s].token
<1>1. worker[s] \in Worker /\ WorkerShape(worker[s])
  BY DEF ExecInv, ExecTyped, ExecutionTypeOK
<1>2. book[s] \in Book /\ Good(book[s]) /\ claims \in Nat
  BY BoundsAssumption DEF ExecInv, LedgerInv
<1>3. SessionOK(book[s], worker[s], RequestsOf(s), GrantsOf(s), claims)
  BY DEF ExecInv, Served
<1>4. Busy(s) => worker[s].token \in 1..claims
  BY <1>1, <1>2, <1>3, BoundsAssumption DEF Busy, WorkerShape, SessionOK, Minted, Tokens
<1>5. Busy(s) => \A a \in GrantsOf(s) : a.token # worker[s].token
  BY GrantFrom DEF ExecInv, GrantsDiffer
<1> QED BY <1>1, <1>2, <1>3, <1>4, <1>5

LEMMA CallsTyped == ExecInv => CallTypes
  BY TypesSplit DEF ExecInv

(* A step that changes one book and nothing in the runner. *)
LEMMA BookStep ==
    ASSUME ExecInv, LedgerInv', CallTypes', NEW s \in Sessions, NEW q,
           book' = [book EXCEPT ![s] = q], UNCHANGED <<claims, worker>>,
           late' \subseteq late, GrantsShrink,
           SessionOK(q, worker[s], RequestsOf(s), GrantsOf(s), claims)
    PROVE  ExecInv'
<1> DEFINE w == worker[s]
           P == RequestsOf(s)'
           H == GrantsOf(s)'
<1>1. /\ w \in Worker /\ WorkerShape(w) /\ claims \in Nat
      /\ w.phase # "idle" => \A a \in GrantsOf(s) : a.token # w.token
  BY WorkerOf DEF Busy
<1>2. P \subseteq RequestsOf(s) /\ H \subseteq GrantsOf(s)
  BY RequestsFewer, GrantsFewer
<1>3. worker' = [worker EXCEPT ![s] = w]
  BY DEF ExecInv, ExecTyped, ExecutionTypeOK
<1>4. w.phase # "idle" => \A a \in H : a.token # w.token
  BY <1>1, <1>2
<1>5. SessionOK(q, w, RequestsOf(s), GrantsOf(s), claims)
  OBVIOUS
<1> HIDE DEF w, P, H
<1>6. SessionOK(q, w, P, H, claims)
  BY <1>1, <1>2, <1>5, Fewer
<1> QED BY <1>1, <1>3, <1>4, <1>6, OneSession DEF P, H

(* A step that changes one worker and none of its outstanding requests. *)
LEMMA OneWorker ==
    ASSUME ExecInv, LedgerInv', NEW s \in Sessions, NEW v,
           v \in Worker, WorkerShape(v), worker' = [worker EXCEPT ![s] = v],
           v.phase # "idle" => v.phase # "idle" /\ Busy(s) /\ v.token = worker[s].token,
           UNCHANGED <<book, claims, online, daemon, calls, sends, closes>>, CallTypes',
           \A r \in late' : r.session # s => r \in late,
           SessionOK(book[s], v, RequestsOf(s)', GrantsOf(s), claims)
    PROVE  ExecInv'
<1>1. book' = [book EXCEPT ![s] = book[s]]
  BY DEF ExecInv, LedgerInv
<1>2. GrantsShrink /\ GrantsOf(s)' = GrantsOf(s)
  BY DEF GrantsShrink, GrantsOf
<1>3. v.phase # "idle" => \A a \in GrantsOf(s)' : a.token # v.token
  BY <1>2, WorkerOf
<1> QED BY <1>1, <1>2, <1>3, OneSession
----------------------------------------------------------------------------
(***************************************************************************)
(* Part 8.  The actions.                                                   *)
(***************************************************************************)
LEMMA NoCallTyped == NoCall \in Call /\ NoCall.grant = {}
                     /\ [NoCall EXCEPT !.phase = "answered"] \in Call
                     /\ [NoCall EXCEPT !.phase = "answered"].grant = {}
  BY DEF NoCall, Call

LEMMA QuietActions ==
    ASSUME ExecInv, LedgerInv',
           \/ \E s \in Sessions, m \in Messages, c \in Contents : CheckMessage(s, m, c)
           \/ \E s \in Sessions : CheckClose(s)
           \/ StartDaemon \/ Stop \/ GoOffline \/ Heartbeat \/ Restart
    PROVE  ExecInv'
<1>1. CallTypes
  BY CallsTyped
<1>2. ASSUME NEW s \in Sessions, NEW m \in Messages, NEW c \in Contents, CheckMessage(s, m, c)
      PROVE  ExecInv'
  <2>1. CallTypes'
    BY <1>1, <1>2 DEF CheckMessage, CallTypes
  <2> QED BY <1>2, <2>1, NothingDone DEF CheckMessage, GrantsShrink
<1>3. ASSUME NEW s \in Sessions, CheckClose(s) PROVE ExecInv'
  <2>1. CallTypes'
    BY <1>1, <1>3 DEF CheckClose, CallTypes
  <2> QED BY <1>3, <2>1, NothingDone DEF CheckClose, GrantsShrink
<1>4. CASE StartDaemon
  <2>1. CallTypes'
    BY <1>1, <1>4, ExecutionAssumption DEF StartDaemon, CallTypes
  <2> QED BY <1>4, <2>1, NothingDone DEF StartDaemon, GrantsShrink
<1>5. CASE Stop
  <2>1. CallTypes'
    BY <1>1, <1>5 DEF Stop, CallTypes
  <2> QED BY <1>5, <2>1, NothingDone DEF Stop, GrantsShrink
<1>6. CASE GoOffline \/ Heartbeat
  <2>1. CallTypes'
    BY <1>1, <1>6 DEF GoOffline, Heartbeat, CallTypes
  <2> QED BY <1>6, <2>1, NothingDone DEF GoOffline, Heartbeat, GrantsShrink
<1>7. CASE Restart
  <2>1. CallTypes'
    BY <1>1, <1>7, NoCallTyped DEF Restart, CallTypes
  <2>2. GrantsShrink
    BY <1>7, NoCallTyped DEF Restart, GrantsShrink
  <2> QED BY <1>7, <2>1, <2>2, NothingDone DEF Restart
<1> QED BY <1>2, <1>3, <1>4, <1>5, <1>6, <1>7

(* A step of a claim handler that only changes the request it handles. *)
LEMMA CallStep ==
    ASSUME ExecInv, LedgerInv', NEW i \in Callers, NEW c \in Call, c.grant \subseteq calls[i].grant,
           calls' = [calls EXCEPT ![i] = c],
           UNCHANGED <<book, claims, online, daemon, worker, sends, closes, late>>
    PROVE  ExecInv'
<1>1. CallTypes
  BY CallsTyped
<1>2. CallTypes' /\ GrantsShrink
  BY <1>1 DEF CallTypes, GrantsShrink
<1> QED BY <1>2, NothingDone

LEMMA ClaimHandlerSteps ==
    ASSUME ExecInv, LedgerInv', NEW i \in Callers,
           \/ Poll(i) \/ LoseGrant(i)
           \/ \E lease \in calls[i].leases : Examine(i, lease)
    PROVE  ExecInv'
<1>1. /\ calls \in [Callers -> Call] /\ calls[i] \in Call
  BY CallsTyped DEF CallTypes
<1>2. CASE Poll(i)
  <2> DEFINE L == {<<s, book[s].lease.id>> : s \in Expired}
             c == [calls[i] EXCEPT !.phase = "reaping", !.leases = L]
  <2>1. L \subseteq Sessions \X Tokens
    BY DEF Expired, ExecInv, LedgerInv, Book, HasLease, Lease, NoLease, NoToken
  <2>2. calls' = [calls EXCEPT ![i].phase = "reaping", ![i].leases = L]
    BY <1>2 DEF Poll
  <2> HIDE DEF L
  <2>3. c \in Call /\ c.grant = calls[i].grant
    BY <1>1, <2>1 DEF Call
  <2>4. calls' = [calls EXCEPT ![i] = c]
    BY <1>1, <2>2
  <2> HIDE DEF c
  <2> QED BY <1>2, <2>3, <2>4, CallStep DEF Poll
<1>3. CASE LoseGrant(i)
  <2> DEFINE c == [calls[i] EXCEPT !.grant = {}]
  <2>1. c \in Call /\ c.grant = {}
    BY <1>1 DEF Call
  <2>2. calls' = [calls EXCEPT ![i] = c]
    BY <1>1, <1>3 DEF LoseGrant
  <2> HIDE DEF c
  <2> QED BY <1>3, <2>1, <2>2, CallStep DEF LoseGrant
<1>4. ASSUME NEW lease \in calls[i].leases, Examine(i, lease) PROVE ExecInv'
  <2>1. lease \in Sessions \X Tokens
    BY <1>1 DEF Call
  <2> DEFINE c == [calls[i] EXCEPT !.leases = @ \ {lease}]
             d == [calls[i] EXCEPT !.leases = @ \ {lease}, !.doomed = {lease}, !.phase = "failing"]
  <2>2. c \in Call /\ c.grant = calls[i].grant /\ d \in Call /\ d.grant = calls[i].grant
    BY <1>1, <2>1 DEF Call
  <2>3. calls' \in {[calls EXCEPT ![i] = c], [calls EXCEPT ![i] = d]}
    BY <1>1, <1>4 DEF Examine
  <2> HIDE DEF c, d
  <2> QED BY <1>4, <2>2, <2>3, CallStep DEF Examine
<1> QED BY <1>2, <1>3, <1>4

LEMMA AppendedBook ==
    ASSUME NEW s \in Sessions, NEW t, NEW batch, AppendSessionEvents(s, t, batch)
    PROVE  /\ BatchAccepted(book[s], t, batch)
           /\ book' = [book EXCEPT ![s] = AfterBatch(book[s], t, batch)]
           /\ claims' = claims
  BY DEF AppendSessionEvents

LEMMA UserActions ==
    ASSUME ExecInv, LedgerInv',
           \/ \E s \in Sessions, m \in Messages, c \in Contents :
                 Launch(s, m, c) \/ AppendMessage(s, m, c)
           \/ \E s \in Sessions : AppendClose(s) \/ Expire(s)
    PROVE  ExecInv'
<1>1. CallTypes
  BY CallsTyped
<1>2. ASSUME NEW s \in Sessions, NEW m \in Messages, NEW c \in Contents, Launch(s, m, c)
      PROVE  ExecInv'
  <2> DEFINE q == LaunchedBook(m, c)
  <2>1. book[s].state = "absent" /\ book' = [book EXCEPT ![s] = q] /\ claims' = claims
    BY <1>2 DEF Launch, LaunchSession, LaunchedBook
  <2>2. SessionOK(q, worker[s], RequestsOf(s), GrantsOf(s), claims)
    BY <2>1, WorkerOf, LaunchKeeps
  <2>3. UNCHANGED runnerVars
    BY <1>2 DEF Launch
  <2>4. CallTypes' /\ GrantsShrink
    BY <1>1, <2>3 DEF CallTypes, GrantsShrink, runnerVars
  <2> HIDE DEF q
  <2> QED BY <2>1, <2>2, <2>3, <2>4, BookStep DEF runnerVars
<1>3. ASSUME NEW s \in Sessions, NEW m \in Messages, NEW c \in Contents, AppendMessage(s, m, c)
      PROVE  ExecInv'
  <2>1. CallTypes' /\ GrantsShrink /\ late' = late /\ worker' = worker
    BY <1>1, <1>3 DEF AppendMessage, CallTypes, GrantsShrink
  <2>2. CASE UNCHANGED ledgerVars
    BY <2>1, <2>2, NothingDone DEF ledgerVars
  <2>3. CASE SubmitMessage(s, m, c)
    <3> DEFINE q == AfterBatch(book[s], NoToken, MessageBatch(m, c))
    <3>1. /\ book[s].state # "queued" /\ BatchAccepted(book[s], NoToken, MessageBatch(m, c))
          /\ book' = [book EXCEPT ![s] = q] /\ claims' = claims
      BY <2>3, AppendedBook DEF SubmitMessage
    <3>2. SessionOK(q, worker[s], RequestsOf(s), GrantsOf(s), claims)
      BY <3>1, WorkerOf, SubmitKeeps
    <3> HIDE DEF q
    <3> QED BY <2>1, <3>1, <3>2, BookStep
  <2> QED BY <1>3, <2>2, <2>3 DEF AppendMessage
<1>4. ASSUME NEW s \in Sessions, AppendClose(s) PROVE ExecInv'
  <2>1. CallTypes' /\ GrantsShrink /\ late' = late /\ worker' = worker
    BY <1>1, <1>4 DEF AppendClose, CallTypes, GrantsShrink
  <2>2. CASE UNCHANGED ledgerVars
    BY <2>1, <2>2, NothingDone DEF ledgerVars
  <2>3. CASE CloseSession(s)
    <3> DEFINE q == AfterBatch(book[s], NoToken, CloseBatch)
    <3>1. /\ BatchAccepted(book[s], NoToken, CloseBatch)
          /\ book' = [book EXCEPT ![s] = q] /\ claims' = claims
      BY <2>3, AppendedBook DEF CloseSession
    <3>2. SessionOK(q, worker[s], RequestsOf(s), GrantsOf(s), claims)
      BY <3>1, WorkerOf, CloseKeeps
    <3> HIDE DEF q
    <3> QED BY <2>1, <3>1, <3>2, BookStep
  <2> QED BY <1>4, <2>2, <2>3 DEF AppendClose
<1>5. ASSUME NEW s \in Sessions, Expire(s) PROVE ExecInv'
  <2> DEFINE q == [book[s] EXCEPT !.lease.expired = TRUE]
  <2>1. HasLease(book[s]) /\ book' = [book EXCEPT ![s] = q] /\ claims' = claims
    BY <1>5 DEF Expire, LeaseExpires
  <2>2. SessionOK(q, worker[s], RequestsOf(s), GrantsOf(s), claims)
    BY <2>1, WorkerOf, ExpireKeeps
  <2>3. UNCHANGED runnerVars
    BY <1>5 DEF Expire
  <2>4. CallTypes' /\ GrantsShrink
    BY <1>1, <2>3 DEF CallTypes, GrantsShrink, runnerVars
  <2> HIDE DEF q
  <2> QED BY <2>1, <2>2, <2>3, <2>4, BookStep DEF runnerVars
<1> QED BY <1>2, <1>3, <1>4, <1>5

LEMMA ReaperFails ==
    ASSUME ExecInv, LedgerInv', NEW i \in Callers, FailSession(i)
    PROVE  ExecInv'
<1>1. /\ CallTypes /\ calls \in [Callers -> Call] /\ calls[i] \in Call
  BY CallsTyped DEF CallTypes
<1>2. PICK lease \in calls[i].doomed :
          \/ /\ LoseRuntime(lease[1])
             /\ calls' = [calls EXCEPT ![i].doomed = {}, ![i].phase = "reaping"]
          \/ /\ calls' = [calls EXCEPT ![i] = [NoCall EXCEPT !.phase = "answered"]]
             /\ UNCHANGED ledgerVars
  BY DEF FailSession
<1>3. UNCHANGED <<online, daemon, worker, sends, closes, late>>
  BY DEF FailSession
<1>4. CASE UNCHANGED ledgerVars /\ calls' = [calls EXCEPT ![i] = [NoCall EXCEPT !.phase = "answered"]]
  BY <1>3, <1>4, NoCallTyped, CallStep DEF ledgerVars
<1>5. CASE /\ LoseRuntime(lease[1])
           /\ calls' = [calls EXCEPT ![i].doomed = {}, ![i].phase = "reaping"]
  <2> DEFINE s == lease[1]
             l == book[s].lease.id
             q == AfterBatch(book[s], NoToken, RuntimeLostBatch(l))
             c == [calls[i] EXCEPT !.doomed = {}, !.phase = "reaping"]
  <2>1. s \in Sessions
    BY <1>1 DEF Call
  <2>2. /\ HasLease(book[s]) /\ BatchAccepted(book[s], NoToken, RuntimeLostBatch(l))
        /\ book' = [book EXCEPT ![s] = q] /\ claims' = claims
    BY <1>5, <2>1, AppendedBook DEF LoseRuntime
  <2>3. l \in Tokens
    BY <2>1, <2>2, WorkerOf DEF HasLease, Book, Lease, NoLease, NoToken
  <2>4. c \in Call /\ c.grant = calls[i].grant /\ calls' = [calls EXCEPT ![i] = c]
    BY <1>1, <1>5 DEF Call
  <2> HIDE DEF c
  <2>5. CallTypes' /\ GrantsShrink
    BY <1>1, <1>3, <2>4 DEF CallTypes, GrantsShrink
  <2> HIDE DEF s, l
  <2>6. SessionOK(q, worker[s], RequestsOf(s), GrantsOf(s), claims)
    BY <2>1, <2>2, <2>3, WorkerOf, LostKeeps
  <2> HIDE DEF q
  <2> QED BY <1>3, <2>1, <2>2, <2>5, <2>6, BookStep
<1> QED BY <1>2, <1>4, <1>5

LEMMA LateAnswers ==
    ASSUME ExecInv, LedgerInv', NEW r \in late, AnswerLate(r)
    PROVE  ExecInv'
<1>1. CallTypes /\ ExecTyped
  BY CallsTyped DEF ExecInv
<1>2. r.session \in Sessions /\ r.token \in Tokens /\ BatchOfEvents(r.batch)
  BY <1>1, LateTyped
<1>3. /\ CallTypes' /\ GrantsShrink /\ late' \subseteq late /\ worker' = worker
  BY <1>1 DEF AnswerLate, CallTypes, GrantsShrink
<1>4. CASE UNCHANGED ledgerVars
  BY <1>3, <1>4, NothingDone DEF ledgerVars
<1>5. CASE PostBatch(r.session, r.token, r.batch)
  <2> DEFINE s == r.session
             q == AfterBatch(book[s], r.token, r.batch)
  <2>1. /\ BatchAccepted(book[s], r.token, r.batch)
        /\ book' = [book EXCEPT ![s] = q] /\ claims' = claims
    BY <1>2, <1>5, AppendedBook DEF PostBatch
  <2>2. r \in RequestsOf(s)
    BY DEF RequestsOf
  <2> HIDE DEF s
  <2>3. SessionOK(q, worker[s], RequestsOf(s), GrantsOf(s), claims)
    <3>1. s \in Sessions
      BY <1>2 DEF s
    <3> QED BY <1>2, <2>1, <2>2, <3>1, WorkerOf, PostKeeps
  <2> HIDE DEF q
  <2> QED BY <1>2, <1>3, <2>1, <2>3, BookStep DEF s
<1> QED BY <1>4, <1>5 DEF AnswerLate

(* claimSession: the one step that mints a token. *)
LEMMA ClaimCommits ==
    ASSUME ExecInv, LedgerInv', NEW i \in Callers, NEW s \in Sessions, ClaimSession(s),
           calls' = [calls EXCEPT ![i] = [NoCall EXCEPT !.phase = "answered",
                                                        !.grant = {Granted(s)}]],
           UNCHANGED <<online, daemon, worker, sends, closes, late>>
    PROVE  ExecInv'
<1> DEFINE n == claims
           a == Granted(s)
           q == Dispatched(book[s], n + 1)
           c == [NoCall EXCEPT !.phase = "answered", !.grant = {a}]
<1>1. /\ n + 1 \in Tokens /\ book[s].state \in Claimable
      /\ book[s].state = "message_pending" => HasLease(book[s])
      /\ book' = [book EXCEPT ![s] = q] /\ claims' = n + 1
  BY DEF ClaimSession, NextInLine
<1>2. /\ book[s] \in Book /\ Good(book[s]) /\ n \in Nat
      /\ SessionOK(book[s], worker[s], RequestsOf(s), GrantsOf(s), n)
      /\ book \in [Sessions -> Book]
  BY WorkerOf DEF ExecInv, LedgerInv
<1>3. /\ a.session = s /\ a.msg = book[s].active /\ a.token = n + 1
      /\ a.provider = book[s].lease.provider
  BY DEF Granted
<1>4. a \in Assignment
  <2>1. book[s].active \in Messages
    BY <1>1, <1>2 DEF Good, MidInv, ActiveInv, Book, Claimable, NonTerminal, Terminal, SessionState
  <2>2. book[s].lease.provider \in {"none", "provider-session"}
    BY <1>2 DEF SessionOK, ServedBook
  <2> QED BY <1>1, <2>1, <2>2 DEF Granted, Assignment
<1> HIDE DEF a
<1>5. c \in Call /\ c.grant = {a} /\ calls' = [calls EXCEPT ![i] = c]
  BY <1>4 DEF NoCall, Call, a
<1> HIDE DEF c
<1>6. calls \in [Callers -> Call] /\ CallTypes
  BY CallsTyped DEF CallTypes
<1>7. CallTypes'
  BY <1>5, <1>6 DEF CallTypes
<1>8. \A j \in Callers : calls'[j].grant \subseteq calls[j].grant \cup {a}
  BY <1>5, <1>6
<1>9. /\ GrantsOf(s)' \subseteq GrantsOf(s) \cup {a}
      /\ \A u \in Sessions \ {s} : GrantsOf(u)' \subseteq GrantsOf(u)
  BY <1>3, <1>8 DEF GrantsOf
<1>10. Served(s)'
  <2> DEFINE w == worker[s]
             P == RequestsOf(s)'
             H == GrantsOf(s)'
  <2>1. SessionOK(q, w, RequestsOf(s), GrantsOf(s) \cup {a}, n + 1)
    BY <1>1, <1>2, <1>3, DispatchKeeps
  <2>2. P \subseteq RequestsOf(s)
    BY RequestsFewer
  <2>3. H \subseteq GrantsOf(s) \cup {a} /\ n + 1 \in Nat /\ n + 1 >= n + 1
    BY <1>2, <1>9
  <2> HIDE DEF P, H, q
  <2>4. SessionOK(q, w, P, H, n + 1)
    BY <2>1, <2>2, <2>3, Fewer
  <2>5. book'[s] = q /\ worker'[s] = w
    BY <1>1, <1>2
  <2> QED BY <1>1, <2>4, <2>5 DEF Served, P, H
<1>11. ASSUME NEW u \in Sessions \ {s} PROVE Served(u)'
  <2>1. /\ Served(u) /\ book'[u] = book[u] /\ worker'[u] = worker[u] /\ claims \in Nat
        /\ claims' \in Nat /\ claims' >= claims
    BY <1>1, <1>2 DEF ExecInv
  <2> QED BY <1>9, <2>1, Untouched
<1>12. ExecTyped'
  BY <1>7, TypesSplit DEF ExecInv, ExecTyped, CallTypes, ExecutionTypeOK
<1>13. GrantsDiffer'
  <2>1. \A j \in Callers : \A d \in calls[j].grant : d.token # n + 1
    <3> SUFFICES ASSUME NEW j \in Callers, NEW d \in calls[j].grant PROVE d.token # n + 1
      OBVIOUS
    <3>1. d.session \in Sessions
      BY <1>6 DEF Call, Assignment
    <3>2. Minted(book[d.session], worker[d.session], RequestsOf(d.session), GrantsOf(d.session), n)
      BY <3>1, WorkerOf DEF SessionOK
    <3>3. d.token \in 1..n
      BY <3>2, GrantIn DEF Minted
    <3> QED BY <1>2, <3>3
  <2>2. Minted(book[s], worker[s], RequestsOf(s), GrantsOf(s), n)
    BY <1>2 DEF SessionOK
  <2>3. worker[s].token # n + 1
    BY <1>2, <2>2 DEF Minted
  <2>4. \A j \in Callers : j # i => calls'[j] = calls[j]
    BY <1>5, <1>6
  <2>5. calls'[i].grant = {a}
    BY <1>5, <1>6
  <2> SUFFICES ASSUME NEW j \in Callers, NEW k \in Callers, NEW d \in calls'[j].grant,
                      NEW e \in calls'[k].grant
               PROVE  /\ d.token = e.token => j = k
                      /\ j = k => d = e
                      /\ Busy(d.session)' => worker'[d.session].token # d.token
    BY DEF GrantsDiffer
  <2>6. CASE j = i
    BY <1>3, <2>1, <2>3, <2>4, <2>5, <2>6
  <2>7. CASE j # i
    <3>1. d \in calls[j].grant
      BY <2>4, <2>7
    <3>2. Busy(d.session)' => worker'[d.session].token # d.token
      BY <3>1 DEF ExecInv, GrantsDiffer, Busy
    <3>3. CASE k = i
      BY <1>3, <2>1, <2>5, <2>7, <3>1, <3>2, <3>3
    <3>4. CASE k # i
      <4>1. e \in calls[k].grant
        BY <2>4, <3>4
      <4> QED BY <3>1, <3>2, <4>1 DEF ExecInv, GrantsDiffer
    <3> QED BY <3>3, <3>4
  <2> QED BY <2>6, <2>7
<1> QED BY <1>10, <1>11, <1>12, <1>13 DEF ExecInv

LEMMA Claims ==
    ASSUME ExecInv, LedgerInv', NEW i \in Callers, Claim(i)
    PROVE  ExecInv'
<1>1. UNCHANGED <<online, daemon, worker, sends, closes, late>>
  BY DEF Claim
<1>2. ASSUME NEW s \in Sessions, ClaimSession(s),
             calls' = [calls EXCEPT ![i] = [NoCall EXCEPT !.phase = "answered",
                                                          !.grant = {Granted(s)}]]
      PROVE  ExecInv'
  BY <1>1, <1>2, ClaimCommits
<1>3. CASE /\ calls' = [calls EXCEPT ![i] = [NoCall EXCEPT !.phase = "answered"]]
           /\ UNCHANGED ledgerVars
  BY <1>1, <1>3, NoCallTyped, CallStep DEF ledgerVars
<1> QED BY <1>2, <1>3 DEF Claim

(* The call worker v of session s waits for. *)
Asked(s, v) == [session |-> s, token |-> v.token, batch |-> v.batch]

LEMMA NextRequests ==
    ASSUME NEW s, NEW v, worker'[s] = v, late' = late
    PROVE  /\ RequestsOf(s)' \subseteq RequestsOf(s) \cup {Asked(s, v)}
           /\ v.reply # "waiting" => RequestsOf(s)' \subseteq RequestsOf(s)
           /\ worker[s].reply = "waiting" /\ v.token = worker[s].token /\ v.batch = worker[s].batch
                 => RequestsOf(s)' \subseteq RequestsOf(s)
<1>1. Request(s)' = Asked(s, v)
  BY DEF Request, Asked
<1>2. v.token = worker[s].token /\ v.batch = worker[s].batch => Asked(s, v) = Request(s)
  BY DEF Request, Asked
<1> QED BY <1>1, <1>2 DEF RequestsOf

LEMMA WorkerStepTyped ==
    ASSUME ExecInv, NEW s \in Sessions, NEW v, WorkerStep(s, v)
    PROVE  /\ CallTypes' /\ worker' = [worker EXCEPT ![s] = v] /\ worker'[s] = v
           /\ UNCHANGED <<book, claims, online, daemon, calls, sends, closes, late>>
<1>1. CallTypes
  BY CallsTyped
<1> QED BY <1>1 DEF WorkerStep, CallTypes, ExecInv, ExecTyped, ExecutionTypeOK

LEMMA QuietStep ==
    ASSUME ExecInv, LedgerInv', NEW s \in Sessions, Busy(s), NEW v, WorkerStep(s, v),
           v \in Worker, WorkerShape(v), SameJob(worker[s], v), v.batch = worker[s].batch,
           Unannounced(v) <=> Unannounced(worker[s]), Announcing(v) <=> Announcing(worker[s]),
           v.phase = "refused" <=> worker[s].phase = "refused",
           v.phase = "last" <=> worker[s].phase = "last",
           v.reply = "waiting" => worker[s].reply = "waiting",
           \/ v.reply \in {"waiting", "rejected"} \/ v.reply = worker[s].reply
           \/ worker[s].reply \in {"none", "ok"}
    PROVE  ExecInv'
<1> DEFINE w == worker[s]
           P == RequestsOf(s)'
<1>1. P \subseteq RequestsOf(s)
  BY NextRequests, WorkerStepTyped DEF SameJob
<1>2. SessionOK(book[s], w, RequestsOf(s), GrantsOf(s), claims) /\ claims \in Nat
  BY WorkerOf
<1>3. SessionOK(book[s], v, RequestsOf(s), GrantsOf(s), claims)
  BY <1>2, QuietKeeps
<1> HIDE DEF P
<1>4. SessionOK(book[s], v, P, GrantsOf(s), claims)
  BY <1>1, <1>2, <1>3, Fewer
<1> QED BY <1>4, WorkerStepTyped, OneWorker DEF P, SameJob

LEMMA OpeningStep ==
    ASSUME ExecInv, LedgerInv', NEW s \in Sessions, Unannounced(worker[s]), Busy(s),
           NEW v, WorkerStep(s, v), v \in Worker, WorkerShape(v), SameJob(worker[s], v),
           v.reply = "waiting", Script(v.token, v.batch), Opens(v.batch),
           v.batch[1].kind = "provider_started" => v.provider = "none",
           (Announcing(v) /\ v.batch = StartBatch(v)) \/ v.phase = "last"
    PROVE  ExecInv'
<1> DEFINE w == worker[s]
           x == Asked(s, v)
           P == RequestsOf(s)'
<1>1. P \subseteq RequestsOf(s) \cup {x}
  BY NextRequests, WorkerStepTyped
<1>2. /\ SessionOK(book[s], w, RequestsOf(s), GrantsOf(s), claims) /\ claims \in Nat
      /\ v.token \in 1..claims /\ \A a \in GrantsOf(s) : a.token # v.token
  BY WorkerOf DEF SameJob
<1>3. ~Over(book[s]) => Holding(book[s], RequestsOf(s), v.token, v.msg, v.provider)
  BY <1>2 DEF SessionOK, WorkerOK, SameJob
<1>4. x.token = v.token /\ x.batch = v.batch
  BY DEF Asked
<1> HIDE DEF x, w
<1>5. SessionOK(book[s], v, RequestsOf(s) \cup {x}, GrantsOf(s), claims)
  BY <1>2, <1>3, <1>4, OpeningKeeps
<1> HIDE DEF P
<1>6. SessionOK(book[s], v, P, GrantsOf(s), claims)
  BY <1>1, <1>2, <1>5, Fewer
<1> QED BY <1>6, WorkerStepTyped, OneWorker DEF P, SameJob

LEMMA ConcludingStep ==
    ASSUME ExecInv, LedgerInv', NEW s \in Sessions, Announcing(worker[s]), Busy(s),
           worker[s].reply \in {"none", "ok"},
           NEW v, WorkerStep(s, v), v \in Worker, WorkerShape(v), SameJob(worker[s], v),
           v.phase = "last", Script(v.token, v.batch), Concludes(v.batch),
           v.batch[1].seq = Len(StartBatch(worker[s])) + 1
    PROVE  ExecInv'
<1> DEFINE w == worker[s]
           x == Asked(s, v)
           P == RequestsOf(s)'
<1>1. P \subseteq RequestsOf(s) \cup {x}
  BY NextRequests, WorkerStepTyped
<1>2. /\ SessionOK(book[s], w, RequestsOf(s), GrantsOf(s), claims) /\ claims \in Nat
      /\ w.token \in 1..claims /\ w.token = v.token
  BY WorkerOf DEF SameJob
<1>3. x.token = w.token /\ x.batch = v.batch
  BY <1>2 DEF Asked
<1> HIDE DEF x
<1>4. SessionOK(book[s], v, RequestsOf(s) \cup {x}, GrantsOf(s), claims)
  BY <1>2, <1>3, ConcludingKeeps
<1> HIDE DEF P
<1>5. SessionOK(book[s], v, P, GrantsOf(s), claims)
  BY <1>1, <1>2, <1>4, Fewer
<1> QED BY <1>5, WorkerStepTyped, OneWorker DEF P, SameJob

LEMMA IdleStep ==
    ASSUME ExecInv, LedgerInv', NEW s \in Sessions, WorkerStep(s, IdleWorker)
    PROVE  ExecInv'
<1> DEFINE P == RequestsOf(s)'
           v == IdleWorker
<1>1. /\ v \in Worker /\ WorkerShape(v) /\ v.phase = "idle" /\ v.reply = "none"
  BY ExecutionAssumption DEF IdleWorker, Worker, WorkerShape, Unannounced, NoToken
<1>2. P \subseteq RequestsOf(s)
  BY <1>1, NextRequests, WorkerStepTyped
<1>3. SessionOK(book[s], worker[s], RequestsOf(s), GrantsOf(s), claims) /\ claims \in Nat
  BY WorkerOf
<1>4. SessionOK(book[s], v, RequestsOf(s), GrantsOf(s), claims)
  BY <1>3, IdleKeeps
<1> HIDE DEF P, v
<1>5. SessionOK(book[s], v, P, GrantsOf(s), claims)
  BY <1>2, <1>3, <1>4, Fewer
<1> QED BY <1>1, <1>5, WorkerStepTyped, OneWorker DEF P, v

(* v is w after it started to post the batch and went on to the phase. *)
Posts(w, v, batch, phase, st) ==
    /\ v \in Worker /\ SameJob(w, v) /\ v.reply = "waiting" /\ v.batch = batch
    /\ v.phase = phase /\ v.started = st /\ v.end = w.end /\ v.said = w.said

LEMMA PostingTyped ==
    ASSUME NEW w \in Worker, NEW batch \in WorkerBatches
    PROVE  /\ \A phase \in {"starting", "last", "refused"} :
                 /\ Posts(w, [Posting(w, batch) EXCEPT !.phase = phase], batch, phase, w.started)
                 /\ Posts(w, [Posting(w, batch) EXCEPT !.phase = phase, !.started = TRUE],
                          batch, phase, TRUE)
           /\ Posts(w, [Posting(w, batch) EXCEPT !.started = TRUE], batch, w.phase, TRUE)
<1>1. 1 \in 0..MaxTries
  BY ExecutionAssumption
<1>2. PICK p : p = Posting(w, batch)
  OBVIOUS
<1>3. /\ p \in Worker /\ p.msg = w.msg /\ p.token = w.token /\ p.provider = w.provider
      /\ p.reply = "waiting" /\ p.batch = batch /\ p.phase = w.phase
      /\ p.started = w.started /\ p.end = w.end /\ p.said = w.said
  BY <1>1, <1>2 DEF Posting, Worker
<1>4. ASSUME NEW phase \in {"starting", "last", "refused"}
      PROVE  /\ Posts(w, [p EXCEPT !.phase = phase], batch, phase, w.started)
             /\ Posts(w, [p EXCEPT !.phase = phase, !.started = TRUE], batch, phase, TRUE)
  BY <1>3 DEF Worker, SameJob, Posts
<1>5. Posts(w, [p EXCEPT !.started = TRUE], batch, w.phase, TRUE)
  BY <1>3 DEF Worker, SameJob, Posts
<1> QED BY <1>2, <1>4, <1>5

LEMMA PostShaped ==
    ASSUME NEW w, NEW v, NEW batch \in WorkerBatches, NEW phase, NEW st \in BOOLEAN,
           Posts(w, v, batch, phase, st), WorkerShape(w), w.phase # "idle",
           phase \in {"last", "refused"} \/ st = TRUE, phase \notin {"idle", "prepare"},
           phase = "ended" => w.phase = "ended"
    PROVE  WorkerShape(v)
  BY DEF Posts, SameJob, WorkerShape, Unannounced

LEMMA StartPosted ==
    ASSUME NEW v
    PROVE  StartBatch(v)[1].kind = "provider_started" => v.provider = "none"
  BY DEF StartBatch, Emit

LEMMA WorkerBatchesOf ==
    ASSUME ExecInv, NEW s \in Sessions, Busy(s)
    PROVE  /\ StartBatch(worker[s]) \in WorkerBatches
           /\ RefusalBatch(worker[s]) \in WorkerBatches
           /\ worker[s].phase = "ended" => FinalBatch(worker[s]) \in WorkerBatches
  BY WorkerOf, WorkerPosts DEF Busy, WorkerShape, Worker

LEMMA Announcement ==
    ASSUME ExecInv, LedgerInv', NEW s \in Sessions, NEW phase,
           Unannounced(worker[s]),
           phase = "starting" \/ (phase = worker[s].phase /\ phase \in {"running", "ended"}),
           NEW v, Posts(worker[s], v, StartBatch(worker[s]), phase, TRUE), WorkerStep(s, v)
    PROVE  ExecInv'
<1> DEFINE w == worker[s]
<1>1. Busy(s) /\ w \in Worker /\ WorkerShape(w) /\ StartBatch(w) \in WorkerBatches
  BY WorkerOf, WorkerBatchesOf DEF Unannounced, Busy
<1>2. WorkerShape(v)
  BY <1>1, PostShaped DEF Busy
<1>3. /\ v \in Worker /\ SameJob(w, v) /\ v.reply = "waiting" /\ v.batch = StartBatch(v)
      /\ Announcing(v)
  BY SameBatches DEF Posts, Announcing
<1>4. /\ Script(v.token, v.batch) /\ Opens(v.batch)
      /\ v.batch[1].kind = "provider_started" => v.provider = "none"
  BY <1>3, StartScript, StartPosted DEF Opens
<1> QED BY <1>1, <1>2, <1>3, <1>4, OpeningStep

LEMMA Refusal ==
    ASSUME ExecInv, LedgerInv', NEW s \in Sessions, PrepareFails(s)
    PROVE  ExecInv'
<1> DEFINE w == worker[s]
           v == [Posting(w, RefusalBatch(w)) EXCEPT !.phase = "last"]
<1>1. /\ Unannounced(w) /\ Busy(s) /\ w \in Worker /\ WorkerShape(w)
      /\ RefusalBatch(w) \in WorkerBatches /\ WorkerStep(s, v) /\ w.started \in BOOLEAN
  BY WorkerOf, WorkerBatchesOf DEF PrepareFails, Unannounced, Busy, Worker
<1>2. Posts(w, v, RefusalBatch(w), "last", w.started)
  BY <1>1, PostingTyped
<1> HIDE DEF v
<1>3. WorkerShape(v)
  BY <1>1, <1>2 DEF Busy, Posts, SameJob, WorkerShape, Unannounced
<1>4. /\ v \in Worker /\ SameJob(w, v) /\ v.reply = "waiting" /\ v.batch = RefusalBatch(v)
      /\ v.phase = "last"
  BY <1>2, SameBatches DEF Posts
<1>5. /\ Script(v.token, v.batch) /\ Opens(v.batch) /\ v.batch[1].kind # "provider_started"
  BY <1>4, RefusalScript DEF Opens, Refuses
<1> QED BY <1>1, <1>3, <1>4, <1>5, OpeningStep

LEMMA Conclusion ==
    ASSUME ExecInv, LedgerInv', NEW s \in Sessions, Conclude(s)
    PROVE  ExecInv'
<1> DEFINE w == worker[s]
           v == [Posting(w, FinalBatch(w)) EXCEPT !.phase = "last"]
<1>1. /\ Busy(s) /\ w \in Worker /\ WorkerShape(w) /\ w.end \in Ends /\ w.phase = "ended"
      /\ FinalBatch(w) \in WorkerBatches /\ WorkerStep(s, v) /\ w.started \in BOOLEAN
      /\ w.reply \in {"none", "ok"} /\ (w.started \/ w.end \in {"broken", "aborted"})
  BY WorkerOf, WorkerBatchesOf DEF Conclude, WorkerShape, Busy, Worker
<1>2. Posts(w, v, FinalBatch(w), "last", w.started)
  BY <1>1, PostingTyped
<1> HIDE DEF v
<1>3. WorkerShape(v)
  BY <1>1, <1>2 DEF Busy, Posts, SameJob, WorkerShape, Unannounced
<1>4. /\ v \in Worker /\ SameJob(w, v) /\ v.reply = "waiting" /\ v.batch = FinalBatch(w)
      /\ v.phase = "last" /\ v.token = w.token
  BY <1>2 DEF Posts, SameJob
<1>5. Script(v.token, v.batch)
  BY <1>1, <1>4, FinalScript
<1>6. CASE w.started
  <2>1. Announcing(w) /\ Concludes(v.batch) /\ v.batch[1].seq = Len(StartBatch(w)) + 1
    BY <1>1, <1>4, <1>6, FinalScript DEF Announcing
  <2> QED BY <1>1, <1>3, <1>4, <1>5, <2>1, ConcludingStep
<1>7. CASE ~w.started
  <2>1. Unannounced(w) /\ Opens(v.batch)
    BY <1>1, <1>4, <1>7, FinalScript DEF Unannounced
  <2>2. v.batch[1].kind # "provider_started"
    BY <1>4, <1>7 DEF FinalBatch, Emit
  <2> QED BY <1>1, <1>3, <1>4, <1>5, <2>1, <2>2, OpeningStep
<1> QED BY <1>6, <1>7

LEMMA WorkerActions ==
    ASSUME ExecInv, LedgerInv', NEW s \in Sessions,
           \/ PrepareFails(s) \/ Prepare(s) \/ StartProcess(s) \/ SeeThread(s)
           \/ \E end \in Ends, said \in BOOLEAN : ProcessEnds(s, end, said)
           \/ PublishStart(s) \/ Conclude(s) \/ Finish(s)
    PROVE  ExecInv'
<1> DEFINE w == worker[s]
<1>1. w \in Worker /\ WorkerShape(w)
  BY WorkerOf
<1>2. CASE Prepare(s)
  <2>1. w.phase = "prepare" /\ Unannounced(w) /\ Busy(s) /\ w.started = FALSE
    BY <1>1, <1>2 DEF Prepare, Unannounced, Busy, WorkerShape, Worker
  <2>2. CASE w.provider # "none" \/ s \in EagerSessions
    <3> DEFINE v == [Posting(w, StartBatch(w)) EXCEPT !.phase = "starting", !.started = TRUE]
    <3>1. WorkerStep(s, v)
      BY <1>2, <2>2 DEF Prepare
    <3>2. Posts(w, v, StartBatch(w), "starting", TRUE)
      BY <1>1, <2>1, WorkerBatchesOf, PostingTyped
    <3> HIDE DEF v
    <3> QED BY <2>1, <3>1, <3>2, Announcement
  <2>3. CASE ~(w.provider # "none" \/ s \in EagerSessions)
    <3> DEFINE v == [w EXCEPT !.phase = "running"]
    <3>1. WorkerStep(s, v)
      BY <1>2, <2>3 DEF Prepare
    <3>2. /\ v \in Worker /\ v.phase = "running" /\ v.started = FALSE /\ v.reply = w.reply
          /\ SameJob(w, v) /\ v.batch = w.batch
      BY <1>1, <2>1 DEF Worker, SameJob
    <3> HIDE DEF v
    <3>3. WorkerShape(v) /\ Unannounced(v) /\ ~Announcing(v) /\ ~Announcing(w)
      BY <1>1, <2>1, <3>2 DEF WorkerShape, Unannounced, Announcing, SameJob
    <3> QED BY <2>1, <3>1, <3>2, <3>3, QuietStep
  <2> QED BY <2>2, <2>3
<1>3. CASE StartProcess(s)
  <2> DEFINE v == [w EXCEPT !.phase = "running", !.reply = "none"]
  <2>1. /\ w.phase = "starting" /\ w.reply = "ok" /\ WorkerStep(s, v) /\ Busy(s)
        /\ w.started = TRUE
    BY <1>1, <1>3 DEF StartProcess, Busy, WorkerShape, Worker
  <2>2. /\ v \in Worker /\ v.phase = "running" /\ v.started = TRUE /\ v.reply = "none"
        /\ SameJob(w, v) /\ v.batch = w.batch
    BY <1>1, <2>1 DEF Worker, SameJob
  <2> HIDE DEF v
  <2>3. /\ WorkerShape(v) /\ ~Unannounced(v) /\ ~Unannounced(w) /\ Announcing(v) /\ Announcing(w)
    BY <1>1, <2>1, <2>2 DEF WorkerShape, Unannounced, Announcing, SameJob
  <2> QED BY <2>1, <2>2, <2>3, QuietStep
<1>4. CASE SeeThread(s) \/ PublishStart(s)
  <2> DEFINE v == [Posting(w, StartBatch(w)) EXCEPT !.started = TRUE]
  <2>1. w.phase \in {"running", "ended"} /\ Unannounced(w) /\ Busy(s) /\ WorkerStep(s, v)
    BY <1>4 DEF SeeThread, PublishStart, Unannounced, Busy
  <2>2. Posts(w, v, StartBatch(w), w.phase, TRUE)
    BY <1>1, <2>1, WorkerBatchesOf, PostingTyped
  <2> HIDE DEF v
  <2> QED BY <2>1, <2>2, Announcement
<1>5. ASSUME NEW end \in Ends, NEW said \in BOOLEAN, ProcessEnds(s, end, said) PROVE ExecInv'
  <2> DEFINE v == [w EXCEPT !.phase = "ended", !.end = end, !.said = said]
  <2>1. w.phase = "running" /\ WorkerStep(s, v) /\ Busy(s)
    BY <1>5 DEF ProcessEnds, Busy
  <2>2. /\ v \in Worker /\ v.phase = "ended" /\ v.started = w.started /\ v.reply = w.reply
        /\ SameJob(w, v) /\ v.batch = w.batch /\ v.end \in Ends
    BY <1>1, <2>1 DEF Worker, SameJob, Ends
  <2> HIDE DEF v
  <2>3. /\ WorkerShape(v) /\ (Unannounced(v) <=> Unannounced(w))
        /\ (Announcing(v) <=> Announcing(w))
    BY <1>1, <2>1, <2>2 DEF WorkerShape, Unannounced, Announcing, SameJob
  <2> QED BY <2>1, <2>2, <2>3, QuietStep
<1>6. CASE Finish(s)
  BY <1>6, IdleStep DEF Finish
<1> QED BY <1>2, <1>3, <1>4, <1>5, <1>6, Refusal, Conclusion

(* The process is gone: its outstanding requests remain, as late ones. *)
LEMMA EndOfDaemon ==
    ASSUME ExecInv, LedgerInv', DaemonEnds
    PROVE  ExecInv'
<1>1. /\ CallTypes /\ UNCHANGED <<book, claims, online, calls, sends, closes>>
      /\ worker' = [s \in Sessions |-> IdleWorker]
      /\ late' = late \cup {Request(s) : s \in Unanswered}
      /\ daemon' = [daemon EXCEPT !.up = FALSE]
  BY CallsTyped DEF DaemonEnds
<1>2. \A s \in Sessions : worker'[s] = IdleWorker
  BY <1>1
<1>3. IdleWorker \in Worker /\ WorkerShape(IdleWorker) /\ IdleWorker.reply = "none"
      /\ IdleWorker.phase = "idle"
  BY ExecutionAssumption DEF IdleWorker, Worker, WorkerShape, Unannounced, NoToken
<1>4. ASSUME NEW u \in Unanswered
      PROVE  Request(u) \in [session : Sessions, token : Tokens, batch : WorkerBatches]
  <2>1. u \in Sessions /\ worker[u].reply = "waiting" /\ WorkerShape(worker[u])
    BY WorkerOf DEF Unanswered
  <2>2. worker[u].phase # "idle"
    BY <2>1 DEF WorkerShape, IdleWorker
  <2> QED BY <2>1, <2>2 DEF WorkerShape, Request
<1>5. CallTypes'
  BY <1>1, <1>4 DEF CallTypes
<1>6. ExecTyped'
  <2>1. worker' \in [Sessions -> Worker] /\ \A s \in Sessions : WorkerShape(worker'[s])
    BY <1>1, <1>2, <1>3
  <2> QED BY <1>5, <2>1 DEF CallTypes, ExecTyped, ExecutionTypeOK
<1>7. ASSUME NEW s \in Sessions PROVE Served(s)'
  <2> DEFINE P == RequestsOf(s)'
             H == GrantsOf(s)'
             v == IdleWorker
  <2>1. P \subseteq RequestsOf(s)
    BY <1>1, <1>2, <1>3 DEF RequestsOf, Request, Unanswered
  <2>2. H = GrantsOf(s)
    BY <1>1 DEF GrantsOf
  <2>3. SessionOK(book[s], worker[s], RequestsOf(s), GrantsOf(s), claims) /\ claims \in Nat
    BY WorkerOf
  <2>4. SessionOK(book[s], v, RequestsOf(s), GrantsOf(s), claims)
    BY <2>3, IdleKeeps
  <2> HIDE DEF P, H, v
  <2>5. SessionOK(book[s], v, P, H, claims)
    BY <2>1, <2>2, <2>3, <2>4, Fewer
  <2> QED BY <1>1, <1>2, <2>5 DEF Served, P, H, v
<1>8. GrantsDiffer'
  <2>1. ASSUME NEW i \in Callers, NEW a \in calls[i].grant PROVE ~Busy(a.session)'
    <3>1. a.session \in Sessions
      BY DEF ExecInv, ExecTyped, ExecutionTypeOK, Call, Assignment
    <3> QED BY <1>2, <1>3, <3>1 DEF Busy
  <2> QED BY <1>1, <2>1 DEF ExecInv, GrantsDiffer
<1> QED BY <1>6, <1>7, <1>8 DEF ExecInv

LEMMA Rejection ==
    ASSUME ExecInv, LedgerInv', NEW s \in Sessions, WorkerRejects(s)
    PROVE  ExecInv'
  BY EndOfDaemon, IdleStep DEF WorkerRejects

(* Whatever the answer to its call, a worker that waits keeps its place. *)
LEMMA AnsweredShape ==
    ASSUME NEW w \in Worker, WorkerShape(w), w.reply = "waiting", NEW v,
           \/ v = [w EXCEPT !.reply = "ok"] \/ v = [w EXCEPT !.reply = "rejected"]
           \/ v = [w EXCEPT !.tries = w.tries + 1] /\ w.tries < MaxTries
    PROVE  /\ v \in Worker /\ WorkerShape(v) /\ SameJob(w, v) /\ v.batch = w.batch
           /\ v.phase = w.phase /\ v.started = w.started
           /\ Unannounced(v) <=> Unannounced(w)
           /\ Announcing(v) <=> Announcing(w)
<1>1. /\ v \in Worker /\ SameJob(w, v) /\ v.batch = w.batch
      /\ v.phase = w.phase /\ v.started = w.started /\ v.end = w.end
      /\ v.reply \in {"ok", "rejected", "waiting"}
  BY ExecutionAssumption DEF Worker, SameJob
<1>2. w.phase # "idle" /\ ~Unannounced(w)
  BY DEF WorkerShape, IdleWorker
<1>3. (Unannounced(v) <=> Unannounced(w)) /\ (Announcing(v) <=> Announcing(w))
  BY <1>1 DEF Unannounced, Announcing
<1> QED BY <1>1, <1>2, <1>3 DEF WorkerShape, SameJob

LEMMA AnswerStep ==
    ASSUME ExecInv, LedgerInv', NEW s \in Sessions, Answer(s)
    PROVE  ExecInv'
<1> DEFINE w == worker[s]
           P == RequestsOf(s)'
           x == Request(s)
<1>1. /\ w \in Worker /\ WorkerShape(w) /\ Good(book[s]) /\ claims \in Nat
      /\ SessionOK(book[s], w, RequestsOf(s), GrantsOf(s), claims)
      /\ book \in [Sessions -> Book] /\ worker \in [Sessions -> Worker]
      /\ Busy(s) => \A a \in GrantsOf(s) : a.token # w.token
  BY WorkerOf DEF ExecInv, LedgerInv, ExecTyped, ExecutionTypeOK
<1>2. w.reply = "waiting" /\ UNCHANGED <<online, daemon, calls, sends, closes, late>>
  BY DEF Answer
<1>3. w.token \in Tokens /\ BatchOfEvents(w.batch) /\ w.phase # "idle"
  BY <1>2, WaitingTyped DEF ExecInv
<1>4. CallTypes' /\ GrantsShrink /\ GrantsOf(s)' = GrantsOf(s)
  BY <1>2, CallsTyped DEF CallTypes, GrantsShrink, GrantsOf
<1>5. x \in RequestsOf(s) /\ x.token = w.token /\ x.batch = w.batch
  BY <1>2 DEF RequestsOf, Request
<1> HIDE DEF x
<1>6. CASE /\ PostBatch(s, w.token, w.batch)
           /\ worker' = [worker EXCEPT ![s].reply = "ok"]
  <2> DEFINE q == AfterBatch(book[s], w.token, w.batch)
             v == [w EXCEPT !.reply = "ok"]
  <2>1. /\ BatchAccepted(book[s], w.token, w.batch)
        /\ book' = [book EXCEPT ![s] = q] /\ claims' = claims
    BY <1>6, AppendedBook DEF PostBatch
  <2>2. SessionOK(q, w, RequestsOf(s), GrantsOf(s), claims) /\ (AllIn(q, w.batch) \/ Over(q))
    BY <1>1, <1>3, <1>5, <2>1, PostKeeps
  <2>3. /\ v \in Worker /\ WorkerShape(v) /\ SameJob(w, v) /\ v.batch = w.batch
        /\ v.phase = w.phase /\ (Unannounced(v) <=> Unannounced(w))
        /\ (Announcing(v) <=> Announcing(w)) /\ v.reply = "ok"
    BY <1>1, <1>2, AnsweredShape DEF Worker
  <2>4. worker' = [worker EXCEPT ![s] = v] /\ worker'[s] = v
    BY <1>1, <1>6
  <2> HIDE DEF q, v
  <2>5. SessionOK(q, v, RequestsOf(s), GrantsOf(s), claims)
    BY <1>1, <2>2, <2>3, QuietKeeps
  <2>6. P \subseteq RequestsOf(s)
    BY <1>2, <2>3, <2>4, NextRequests
  <2> HIDE DEF P
  <2>7. SessionOK(q, v, P, GrantsOf(s), claims)
    BY <1>1, <2>5, <2>6, Fewer
  <2>8. v.phase # "idle" => \A a \in GrantsOf(s)' : a.token # v.token
    BY <1>1, <1>3, <1>4, <2>3 DEF Busy, SameJob
  <2> QED BY <1>2, <1>4, <2>1, <2>3, <2>4, <2>7, <2>8, OneSession DEF P
<1>7. CASE UNCHANGED ledgerVars /\ worker' = [worker EXCEPT ![s].reply = "rejected"]
  <2> DEFINE v == [w EXCEPT !.reply = "rejected"]
  <2>1. /\ v \in Worker /\ WorkerShape(v) /\ SameJob(w, v) /\ v.batch = w.batch
        /\ v.phase = w.phase /\ (Unannounced(v) <=> Unannounced(w))
        /\ (Announcing(v) <=> Announcing(w)) /\ v.reply = "rejected"
    BY <1>1, <1>2, AnsweredShape DEF Worker
  <2>2. WorkerStep(s, v)
    BY <1>1, <1>2, <1>7 DEF WorkerStep, ledgerVars
  <2>3. Busy(s)
    BY <1>3 DEF Busy
  <2> HIDE DEF v
  <2> QED BY <2>1, <2>2, <2>3, QuietStep
<1> QED BY <1>6, <1>7 DEF Answer

LEMMA Impatience ==
    ASSUME ExecInv, LedgerInv', NEW s \in Sessions, StopWaiting(s)
    PROVE  ExecInv'
<1> DEFINE w == worker[s]
           v == IF w.tries < MaxTries THEN [w EXCEPT !.tries = w.tries + 1]
                                      ELSE [w EXCEPT !.reply = "rejected"]
           P == RequestsOf(s)'
<1>1. /\ w \in Worker /\ WorkerShape(w) /\ claims \in Nat
      /\ SessionOK(book[s], w, RequestsOf(s), GrantsOf(s), claims)
      /\ worker \in [Sessions -> Worker]
  BY WorkerOf DEF ExecInv, ExecTyped, ExecutionTypeOK
<1>2. /\ w.reply = "waiting" /\ late' = late \cup {Request(s)}
      /\ worker' = [worker EXCEPT ![s] = v]
      /\ UNCHANGED <<book, claims, earlier, online, daemon, calls, sends, closes>>
  BY DEF StopWaiting
<1>3. w.token \in Tokens /\ w.phase # "idle" /\ w.batch \in WorkerBatches
  BY <1>1, <1>2, WaitingTyped DEF ExecInv, WorkerShape
<1>4. /\ v \in Worker /\ WorkerShape(v) /\ SameJob(w, v) /\ v.batch = w.batch
      /\ v.phase = w.phase /\ (Unannounced(v) <=> Unannounced(w))
      /\ (Announcing(v) <=> Announcing(w))
  BY <1>1, <1>2, AnsweredShape
<1>5. v.reply \in {"waiting", "rejected"}
  BY <1>1, <1>2 DEF Worker
<1>6. worker'[s] = v
  BY <1>1, <1>2
<1> HIDE DEF v
<1>7. CallTypes'
  BY <1>2, <1>3, CallsTyped DEF CallTypes, Request
<1>8. P \subseteq RequestsOf(s)
  BY <1>2, <1>4, <1>6 DEF RequestsOf, Request, SameJob
<1>9. SessionOK(book[s], v, RequestsOf(s), GrantsOf(s), claims)
  BY <1>1, <1>4, <1>5, QuietKeeps
<1>10. \A r \in late' : r.session # s => r \in late
  BY <1>2 DEF Request
<1> HIDE DEF P
<1>11. SessionOK(book[s], v, P, GrantsOf(s), claims)
  BY <1>1, <1>8, <1>9, Fewer
<1> QED BY <1>2, <1>3, <1>4, <1>7, <1>10, <1>11, OneWorker DEF P, Busy, SameJob

(* The answer of a claim reaches the loop. *)
LEMMA Reception ==
    ASSUME ExecInv, LedgerInv', NEW i \in Callers, Receive(i)
    PROVE  ExecInv'
<1>1. /\ calls \in [Callers -> Call] /\ CallTypes /\ claims \in Nat
      /\ worker \in [Sessions -> Worker] /\ book \in [Sessions -> Book]
  BY CallsTyped, BoundsAssumption DEF CallTypes, ExecInv, LedgerInv, ExecTyped, ExecutionTypeOK
<1>2. /\ calls' = [calls EXCEPT ![i] = NoCall]
      /\ UNCHANGED <<book, claims, earlier, online, daemon, sends, closes, late>>
  BY DEF Receive
<1>3. CallTypes' /\ GrantsShrink /\ calls'[i].grant = {}
  BY <1>1, <1>2, NoCallTyped DEF CallTypes, GrantsShrink
<1>4. CASE UNCHANGED worker
  BY <1>2, <1>3, <1>4, NothingDone
<1>5. ASSUME \E a \in calls[i].grant : ~Busy(a.session),
             \E a \in calls[i].grant, w \in UNION {Accepting(b) : b \in calls[i].grant} :
                 worker' = [worker EXCEPT ![a.session] = w]
      PROVE  ExecInv'
  <2>1. PICK a \in calls[i].grant :
              \E w \in UNION {Accepting(b) : b \in calls[i].grant} :
                  worker' = [worker EXCEPT ![a.session] = w]
    BY <1>5
  <2>2. calls[i].grant = {a} /\ ~Busy(a.session)
    BY <1>5, <2>1 DEF ExecInv, GrantsDiffer
  <2>3. PICK v \in Accepting(a) : worker' = [worker EXCEPT ![a.session] = v]
    BY <2>1, <2>2
  <2> DEFINE s == a.session
             u == [IdleWorker EXCEPT !.msg = a.msg, !.token = a.token, !.provider = a.provider]
             O == RequestsOf(s)
             H == GrantsOf(s)'
             P == RequestsOf(s)'
             b == book[s]
  <2>4. /\ a \in Assignment /\ s \in Sessions /\ a.msg \in Messages /\ a.token \in Tokens
        /\ a.provider \in {"none", "provider-session"}
    BY <1>1 DEF Call, Assignment
  <2>5. SessionOK(b, worker[s], O, GrantsOf(s), claims) /\ a \in GrantsOf(s)
    BY <2>4, WorkerOf, GrantIn
  <2>6. H \subseteq GrantsOf(s) /\ \A c \in H : c.token # a.token
    <3>1. H \subseteq GrantsOf(s)
      BY <1>3, GrantsFewer
    <3>2. ASSUME NEW c \in H, c.token = a.token PROVE FALSE
      <4>1. PICK j \in Callers : c \in calls'[j].grant
        BY DEF GrantsOf
      <4>2. j # i /\ c \in calls[j].grant
        BY <1>3, <4>1 DEF GrantsShrink
      <4> QED BY <2>1, <3>2, <4>2 DEF ExecInv, GrantsDiffer
    <3> QED BY <3>1, <3>2
  <2>7. worker'[s] = v /\ book' = [book EXCEPT ![s] = b] /\ b = book[s]
    BY <1>1, <1>2, <2>3, <2>4
  <2>8. ~Over(b) => Holding(b, O, a.token, a.msg, a.provider)
    BY <2>5 DEF SessionOK, GrantsOK
  <2>9. a.token \in 1..claims
    BY <2>5 DEF SessionOK, Minted
  <2>10. /\ u \in Worker /\ SameJob(a, u) /\ u.reply = "none" /\ u.started = FALSE
         /\ u.end = "none"
    <3>1. /\ IdleWorker \in Worker /\ IdleWorker.reply = "none"
          /\ IdleWorker.started = FALSE /\ IdleWorker.end = "none"
      BY ExecutionAssumption DEF IdleWorker, Worker, NoToken
    <3> HIDE DEF u
    <3>2. a.token \in Nat
      BY <2>4 DEF Tokens
    <3> QED BY <2>4, <3>1, <3>2 DEF Worker, SameJob, u
  <2>11. v = [u EXCEPT !.phase = "prepare"]
         \/ v = [Posting(u, RefusalBatch(u)) EXCEPT !.phase = "refused"]
    BY <2>3 DEF Accepting
  <2> HIDE DEF u, b, O, H, P
  <2>12. /\ v \in Worker /\ WorkerShape(v) /\ v.token = a.token /\ SessionOK(b, v, P, H, claims)
    <3>1. CASE v = [u EXCEPT !.phase = "prepare"]
      <4>1. /\ v \in Worker /\ SameJob(a, v) /\ v.reply = "none" /\ v.started = FALSE
            /\ v.phase = "prepare"
        BY <2>10, <3>1 DEF Worker, SameJob
      <4>2. WorkerShape(v)
        BY <2>4, <4>1 DEF WorkerShape, SameJob, Unannounced
      <4>3. SessionOK(b, v, O, GrantsOf(s), claims)
        BY <1>1, <2>5, <4>1, TakeKeeps
      <4>4. P \subseteq O
        BY <1>2, <2>7, <4>1, NextRequests DEF P, O
      <4>5. SessionOK(b, v, P, H, claims)
        BY <1>1, <2>6, <4>3, <4>4, Fewer
      <4> QED BY <4>1, <4>2, <4>5 DEF SameJob
    <3>2. CASE v = [Posting(u, RefusalBatch(u)) EXCEPT !.phase = "refused"]
      <4>1. RefusalBatch(u) \in WorkerBatches
        BY <2>4, <2>10, WorkerPosts DEF SameJob, Worker
      <4>2. Posts(u, v, RefusalBatch(u), "refused", FALSE)
        BY <2>10, <3>2, <4>1, PostingTyped
      <4>3. /\ v \in Worker /\ SameJob(u, v) /\ SameJob(a, v) /\ v.reply = "waiting"
            /\ v.phase = "refused" /\ v.started = FALSE /\ v.batch = RefusalBatch(v)
            /\ v.batch \in WorkerBatches
        BY <2>10, <4>1, <4>2, SameBatches DEF Posts, SameJob
      <4>4. WorkerShape(v)
        BY <2>4, <4>3 DEF WorkerShape, SameJob, Unannounced
      <4> DEFINE x == Asked(s, v)
      <4>5. x.token = v.token /\ x.batch = v.batch
        BY DEF Asked
      <4>6. P \subseteq O \cup {x}
        BY <1>2, <2>7, NextRequests DEF P, O
      <4> HIDE DEF x
      <4>7. Script(v.token, v.batch) /\ Opens(v.batch) /\ v.batch[1].kind # "provider_started"
        BY <4>3, RefusalScript DEF Opens, Refuses
      <4>8. SessionOK(b, worker[s], O, H, claims)
        BY <1>1, <2>5, <2>6, Fewer
      <4>9. /\ v.token \in 1..claims /\ \A c \in H : c.token # v.token
            /\ ~Over(b) => Holding(b, O, v.token, v.msg, v.provider)
        BY <2>6, <2>8, <2>9, <4>3 DEF SameJob
      <4>10. SessionOK(b, v, O \cup {x}, H, claims)
        BY <1>1, <4>3, <4>5, <4>7, <4>8, <4>9, OpeningKeeps
      <4>11. SessionOK(b, v, P, H, claims)
        BY <1>1, <4>6, <4>10, Fewer
      <4> QED BY <4>3, <4>4, <4>11 DEF SameJob
    <3> QED BY <2>11, <3>1, <3>2
  <2>13. v.phase # "idle" => \A c \in GrantsOf(s)' : c.token # v.token
    BY <2>6, <2>12 DEF H
  <2>14. SessionOK(b, v, RequestsOf(s)', GrantsOf(s)', claims)
    BY <2>12 DEF P, H
  <2> QED BY <1>2, <1>3, <2>3, <2>4, <2>7, <2>12, <2>13, <2>14, OneSession
<1> QED BY <1>4, <1>5 DEF Receive
----------------------------------------------------------------------------
LEMMA ExecStep == ExecInv /\ ExecutionNext => ExecInv'
<1> SUFFICES ASSUME ExecInv, ExecutionNext PROVE ExecInv'
  OBVIOUS
<1>1. LedgerInv'
  BY RefinesStep, InvStep, InvStutter DEF ExecInv
<1>2. CASE UserNext
  BY <1>1, <1>2, UserActions, QuietActions DEF UserNext
<1>3. ASSUME NEW i \in Callers, ClaimNext(i) PROVE ExecInv'
  BY <1>1, <1>3, ClaimHandlerSteps, ReaperFails, Claims, Reception DEF ClaimNext
<1>4. ASSUME NEW s \in Sessions, WorkerNext(s) PROVE ExecInv'
  BY <1>1, <1>4, WorkerActions, Rejection, AnswerStep, Impatience DEF WorkerNext
<1>5. ASSUME NEW s \in Sessions, Expire(s) PROVE ExecInv'
  BY <1>1, <1>5, UserActions
<1>6. ASSUME NEW r \in late, AnswerLate(r) PROVE ExecInv'
  BY <1>1, <1>6, LateAnswers
<1>7. CASE DaemonNext
  BY <1>1, <1>7, QuietActions, EndOfDaemon DEF DaemonNext, Crash, Exit
<1> QED BY <1>2, <1>3, <1>4, <1>5, <1>6, <1>7 DEF ExecutionNext

LEMMA ExecInit == ExecutionInit => ExecInv
<1> SUFFICES ASSUME ExecutionInit PROVE ExecInv
  OBVIOUS
<1>1. LedgerInv /\ \A s \in Sessions : book[s] = EmptyBook
  BY InvInit DEF ExecutionInit, LedgerInit
<1>2. /\ \A s \in Sessions : worker[s] = IdleWorker
      /\ worker = [s \in Sessions |-> IdleWorker]
      /\ \A i \in Callers : calls[i] = NoCall
      /\ late = {} /\ claims = 0
  BY DEF ExecutionInit, LedgerInit
<1>3. /\ IdleWorker \in Worker /\ WorkerShape(IdleWorker) /\ IdleWorker.reply = "none"
      /\ IdleWorker.phase = "idle" /\ IdleWorker.token = 0
  BY ExecutionAssumption DEF IdleWorker, Worker, WorkerShape, Unannounced, NoToken
<1>4. ExecTyped
  <2>1. CallTypes
    <3>1. daemon \in [run : 0..MaxRuns, up : BOOLEAN, stopping : BOOLEAN]
      BY ExecutionAssumption DEF ExecutionInit
    <3>2. calls \in [Callers -> Call]
      BY NoCallTyped DEF ExecutionInit
    <3> QED BY <3>1, <3>2 DEF ExecutionInit, CallTypes
  <2>2. WorkerTypes
    BY <1>2, <1>3 DEF WorkerTypes
  <2> QED BY <2>1, <2>2, TypesSplit
<1>5. GrantsDiffer
  BY <1>2, NoCallTyped DEF GrantsDiffer
<1>6. ASSUME NEW s \in Sessions PROVE Served(s)
  <2>1. RequestsOf(s) = {} /\ GrantsOf(s) = {}
    BY <1>2, <1>3, NoCallTyped DEF RequestsOf, GrantsOf
  <2>2. book[s].state = "absent" /\ book[s].rows = {} /\ book[s].lease = NoLease
    BY <1>1 DEF EmptyBook
  <2>3. ServedBook(book[s])
    BY <2>2 DEF ServedBook, Reachable, HasLease, NoLease, NoToken, Claimable
  <2>4. WorkerOK(book[s], worker[s], {})
    BY <1>2, <1>3 DEF WorkerOK, Unannounced, Announcing
  <2>5. SessionOK(book[s], worker[s], {}, {}, 0)
    BY <1>2, <1>3, <2>2, <2>3, <2>4 DEF SessionOK, RequestsOK, GrantsOK, Minted
  <2> QED BY <1>2, <2>1, <2>5 DEF Served
<1> QED BY <1>1, <1>4, <1>5, <1>6 DEF ExecInv
----------------------------------------------------------------------------
(***************************************************************************)
(* Part 9.  The theorems.                                                  *)
(***************************************************************************)
(* The inductive invariant holds of every behaviour of the callers, whatever is
   lost, retried, restarted or crashed. *)
THEOREM ExecutionInvariant == ExecutionSpec => []ExecInv
<1>1. ExecInv /\ UNCHANGED execVars => ExecInv'
  <2> SUFFICES ASSUME ExecInv, UNCHANGED execVars PROVE ExecInv'
    OBVIOUS
  <2>1. LedgerInv'
    BY InvStutter DEF ExecInv, execVars, ledgerVars
  <2>2. CallTypes'
    BY CallsTyped DEF CallTypes, execVars
  <2> QED BY <2>1, <2>2, NothingDone DEF execVars, GrantsShrink
<1>2. ExecInv /\ [ExecutionNext]_execVars => ExecInv'
  BY <1>1, ExecStep
<1> QED BY <1>2, ExecInit, PTL DEF ExecutionSpec

(* Every variable of the callers keeps its type: in particular what a worker posts is
   always one of its own batches, under a token that some claim minted. *)
THEOREM ExecutionTypes == ExecutionSpec => []ExecutionTypeOK
<1>1. ExecInv => ExecutionTypeOK
  BY DEF ExecInv, ExecTyped
<1> QED BY <1>1, ExecutionInvariant, PTL

(* The services, the claim route and the runner never do to the tables what the ledger
   does not allow: every step of theirs is a step of the ledger or leaves it alone. *)
THEOREM ExecutionImplementsLedger == ExecutionSpec => LedgerSpec
<1>1. ExecutionInit => LedgerInit
  BY DEF ExecutionInit
<1>2. ExecInv /\ [ExecutionNext]_execVars => [LedgerNext]_ledgerVars
  <2>1. ExecInv /\ ExecutionNext => LedgerNext \/ UNCHANGED ledgerVars
    BY RefinesStep DEF ExecInv
  <2>2. UNCHANGED execVars => UNCHANGED ledgerVars
    BY DEF execVars, ledgerVars
  <2> QED BY <2>1, <2>2
<1> QED BY <1>1, <1>2, ExecutionInvariant, PTL DEF ExecutionSpec, LedgerSpec

(* So what was proved of the ledger for any caller holds of the running system. *)
COROLLARY RunningLedger ==
    ExecutionSpec => /\ []OwnershipAgrees /\ []SequencesContiguous /\ []MessageLife
                     /\ AppendOnly /\ TerminalIsFinal /\ WithinTable
  BY ExecutionImplementsLedger, OwnershipAlwaysAgrees, NoGaps, MessageLivesOnce, OnlyAppends,
     TerminalFinal, MovesWithinTable

(* claimSession and the runner: two dispatches of a session have a new message between
   them, so no message is ever handed to a second worker. *)
THEOREM OneDispatch == ExecutionSpec => []DispatchedOnce
<1>1. ExecInv => DispatchedOnce
  BY DEF ExecInv, Served, SessionOK, ServedBook, Between, DispatchedOnce
<1> QED BY <1>1, ExecutionInvariant, PTL

(* appendSessionEvents and the runner: the Provider session of a session is announced
   once, and its lease hands exactly that one on. *)
THEOREM ProviderSessionKept == ExecutionSpec => []ProviderSessionStable
<1>1. ExecInv => ProviderSessionStable
  BY DEF ExecInv, Served, SessionOK, ServedBook, ProviderSessionStable
<1> QED BY <1>1, ExecutionInvariant, PTL

(* executeSessionAssignment: between its calls a worker and the ledger agree, whatever
   late copies of its requests arrive meanwhile. *)
THEOREM WorkerInStep == ExecutionSpec => []InStep
<1>1. ExecInv => InStep
  <2> SUFFICES ASSUME ExecInv, NEW s \in Sessions, Busy(s), worker[s].reply \in {"none", "ok"},
                      worker[s].phase \notin {"last", "refused"}, book[s].state \notin Terminal
               PROVE  /\ book[s].lease.token = worker[s].token
                      /\ book[s].active = worker[s].msg
                      /\ book[s].state = IF worker[s].started THEN "running" ELSE "dispatched"
    BY DEF InStep
  <2>1. /\ worker[s] \in Worker /\ WorkerShape(worker[s])
        /\ WorkerOK(book[s], worker[s], RequestsOf(s)) /\ ~Over(book[s])
    BY WorkerOf DEF SessionOK, Over
  <2>2. CASE Unannounced(worker[s])
    BY <2>1, <2>2 DEF WorkerOK, Holding, Awaits, Unannounced, WorkerShape
  <2>3. CASE Announcing(worker[s])
    BY <2>1, <2>3 DEF WorkerOK, Announced, Runs, Announcing, WorkerShape
  <2>4. Unannounced(worker[s]) \/ Announcing(worker[s])
    BY <2>1 DEF Busy, Worker, Unannounced, Announcing
  <2> QED BY <2>2, <2>3, <2>4
<1> QED BY <1>1, ExecutionInvariant, PTL

(* claimSession renews the lease of a session only when the worker before has nothing
   left to report. *)
THEOREM RenewalHarmless == ExecutionSpec => []RenewalSpares
<1>1. ExecInv => RenewalSpares
  <2> SUFFICES ASSUME ExecInv, NEW s \in Sessions, Busy(s), HasLease(book[s]),
                      worker[s].token # book[s].lease.token
               PROVE  worker[s].phase = "last" /\ OutcomeIn(book[s], worker[s].msg)
    BY DEF RenewalSpares, OutcomeIn
  <2>1. /\ worker[s] \in Worker /\ WorkerOK(book[s], worker[s], RequestsOf(s)) /\ ~Over(book[s])
    BY WorkerOf DEF SessionOK, Over, Good
  <2>2. \A m : ~Awaits(book[s], worker[s].token, m) /\ ~Runs(book[s], worker[s].token, m)
    BY DEF Awaits, Runs
  <2>3. ~Unannounced(worker[s]) /\ ~Announcing(worker[s]) /\ worker[s].phase # "refused"
    BY <2>1, <2>2 DEF WorkerOK, Holding, Announced
  <2>4. worker[s].phase = "last"
    BY <2>1, <2>3 DEF Busy, Worker, Unannounced, Announcing
  <2> QED BY <2>1, <2>2, <2>4 DEF WorkerOK
<1> QED BY <1>1, ExecutionInvariant, PTL
----------------------------------------------------------------------------
(***************************************************************************)
(* Part 10.  Runs without crashes, lost answers and expiries: nothing      *)
(* comes between the claim of a first message and its worker's last call.  *)
(***************************************************************************)
Tidy == Disturbances \subseteq {"provider", "shutdown"} /\ ~RejectionsCrash

FirstLive(b) == b.state \in {"dispatched", "running"} /\ b.lease.token = b.lease.id

LastBatch(w) ==
    \/ w.batch = RefusalBatch(w) /\ ~w.started
    \/ w.batch = FinalBatch(w) /\ w.end \in Ends /\ (w.started \/ w.end \in {"broken", "aborted"})

FirstOK(b, w, G, n) ==
    /\ ~b.lease.expired
    /\ b.lease.id \in 0..n
    /\ b.state \in {"absent", "queued"} =>
          /\ w.phase = "idle" /\ G = {}
          /\ \A m \in Messages : b.streams[RunnerSource(m)] = 0
    /\ w.phase = "last" => LastBatch(w)
    /\ FirstLive(b) =>
          /\ w.phase = "idle" => G # {}
          /\ w.phase # "idle" => w.token = b.lease.token /\ w.msg = b.active
          /\ w.reply # "rejected"
          /\ b.state = "running" => w.started
          /\ w.phase \in {"last", "refused"} => w.reply = "waiting"
          /\ b.streams[RunnerSource(b.active)] =
                IF b.state = "running" THEN Len(StartBatch(w)) ELSE 0

CallsTidy ==
    /\ calls[0] = NoCall
    /\ \A i \in Callers : calls[i] # NoCall => daemon.up /\ daemon.run = i
    /\ \A i \in Callers : calls[i].phase # "answered" => calls[i].grant = {}
    /\ \A i \in Callers : calls[i].leases = {} /\ calls[i].doomed = {}

First(s) == FirstOK(book[s], worker[s], GrantsOf(s), claims)

FirstInv == late = {} /\ CallsTidy /\ \A s \in Sessions : First(s)

(* Inserting one event: the fields OneMore does not name. *)
OneMoreStream(b, e, q) ==
    /\ q.streams = [b.streams EXCEPT ![e.source] = e.seq]
    /\ q.lease.id = b.lease.id /\ q.lease.expired = b.lease.expired

LEMMA InsertedStream ==
    ASSUME NEW b, MidInv(b), NEW e \in Event, NEW t \in Nat, IsNew(b, e)
    PROVE  OneMoreStream(b, e, Inserted(b, e, t))
<1> DEFINE p == Project(b, e)
           l == IF e.kind = "provider_started" /\ t # NoToken
                THEN [b.lease EXCEPT !.provider = e.body] ELSE b.lease
           q == Inserted(b, e, t)
<1>1. /\ b \in Book /\ ActiveInv(b) /\ Accepts(b, e) /\ b.lease \in Lease \cup {NoLease}
  BY DEF MidInv, IsNew, Book
<1>2. p \in Book
  BY <1>1, ProjectionKept DEF ActiveInv, ProjectionKeeps
<1>3. l.id = b.lease.id /\ l.expired = b.lease.expired
  BY <1>1 DEF Lease, NoLease
<1>4. q = [p EXCEPT !.head = b.head + 1, !.streams = [b.streams EXCEPT ![e.source] = e.seq],
                    !.rows = b.rows \cup {RowOf(e, b.head + 1)}, !.lease = l]
  BY DEF Inserted
<1> HIDE DEF l, p, q
<1>5. q.streams = [b.streams EXCEPT ![e.source] = e.seq] /\ q.lease = l
  BY <1>2, <1>4 DEF Book
<1>6. OneMoreStream(b, e, q)
  BY <1>3, <1>5 DEF OneMoreStream
<1> QED BY <1>6 DEF q

(* The lease a batch leaves behind is the lease it found, or none. *)
SameLease(b, q) ==
    /\ q.lease.id = b.lease.id /\ q.lease.token = b.lease.token
    /\ q.lease.expired = b.lease.expired

LEMMA AppliedLease ==
    ASSUME NEW b, MidInv(b), NEW e \in Event, NEW t \in Nat, MayAppend(b, t, e), Tolerates(b, e)
    PROVE  LET q == Applied(b, e, t) IN
           MidInv(q) /\ SameLease(b, q) /\ (HasLease(q) <=> HasLease(b))
<1>1. CASE IsReplay(b, e)
  <2>1. Applied(b, e, t) = b
    BY <1>1 DEF Applied
  <2> QED BY <2>1 DEF SameLease
<1>2. CASE ~IsReplay(b, e)
  <2> DEFINE q == Inserted(b, e, t)
  <2>1. IsNew(b, e) /\ Applied(b, e, t) = q
    BY <1>2, NoReplayIsNew
  <2>2. OneMore(b, e, t, q) /\ OneMoreStream(b, e, q)
    BY <2>1, InsertedFields, InsertedStream
  <2> HIDE DEF q
  <2>3. MidInv(q) /\ SameLease(b, q) /\ (HasLease(q) <=> HasLease(b))
    BY <2>2 DEF OneMore, OneMoreStream, SameLease, HasLease
  <2> QED BY <2>1, <2>3
<1> QED BY <1>1, <1>2

LEMMA LeaseFollows ==
    ASSUME NEW b, Good(b), NEW t \in Nat, NEW batch, BatchOfEvents(batch),
           t = NoToken => ControlBatch(batch), BatchAccepted(b, t, batch)
    PROVE  LET q == AfterBatch(b, t, batch) IN q.lease = NoLease \/ SameLease(b, q)
<1> DEFINE c == Applied(b, batch[1], t)
           d == IF Len(batch) = 2 THEN Applied(c, batch[2], t) ELSE c
<1>1. MidInv(b) /\ batch[1] \in Event /\ Tolerates(b, batch[1]) /\ MayAppend(b, t, batch[1])
  BY DEF Good, BatchAccepted, LeaseAuthorises, MayAppend, ControlBatch, NoToken, BatchOfEvents
<1>2. MidInv(c) /\ SameLease(b, c) /\ (HasLease(c) <=> HasLease(b))
  BY <1>1, AppliedLease
<1>3. AfterBatch(b, t, batch) = Settled(b, d)
  BY DEF AfterBatch
<1> HIDE DEF c
<1>4. MidInv(d) /\ SameLease(b, d)
  <2>1. CASE Len(batch) = 2
    <3>1. batch[2] \in Event /\ Tolerates(c, batch[2]) /\ MayAppend(c, t, batch[2])
      BY <1>2, <2>1 DEF BatchAccepted, LeaseAuthorises, MayAppend, ControlBatch, NoToken,
                        BatchOfEvents, c
    <3>2. MidInv(Applied(c, batch[2], t)) /\ SameLease(c, Applied(c, batch[2], t))
      BY <1>2, <3>1, AppliedLease
    <3> QED BY <1>2, <2>1, <3>2 DEF SameLease
  <2>2. CASE Len(batch) # 2
    BY <1>2, <2>2
  <2> QED BY <2>1, <2>2
<1> HIDE DEF d
<1>5. d \in Book
  BY <1>4 DEF MidInv
<1>6. Settled(b, d).lease = NoLease \/ Settled(b, d).lease = d.lease
  BY <1>5 DEF Settled, Book
<1> QED BY <1>3, <1>4, <1>6 DEF SameLease
----------------------------------------------------------------------------
(* What the projection accepts of a worker. *)
LEMMA AcceptedKinds ==
    ASSUME NEW p, NEW e
    PROVE  /\ e.kind = "provider_started" /\ p.state = "dispatched" => Accepts(p, e)
           /\ /\ e.kind = "response_started" /\ p.state \in {"dispatched", "message_pending"}
              /\ e.msg = p.active /\ e.msg # NoMessage
              => Accepts(p, e)
           /\ e.kind \in FailureKinds /\ p.state \in {"dispatched", "running"} => Accepts(p, e)
           /\ e.kind = "agent_message_chunk" /\ p.state = "running" => Accepts(p, e)
           /\ /\ e.kind \in OutcomeKinds /\ p.state = "running"
              /\ e.msg = p.active /\ e.msg # NoMessage
              => Accepts(p, e)
  BY DEF Accepts, AcceptedFrom, PassiveKinds, LaunchFacts, ResponseFacts, InterruptFacts,
         FailureKinds, OutcomeKinds, NonTerminal, Terminal, SessionState

(* The next event of token t in the stream of message m. *)
NextIn(b, t, m, e) ==
    /\ e \in Event /\ e.id = <<t, e.seq>> /\ e.source = RunnerSource(m)
    /\ e.kind # "user_message_submitted"
    /\ e.seq = b.streams[RunnerSource(m)] + 1

LEMMA NextIsNew ==
    ASSUME NEW b, NEW t \in Tokens, NEW m, NEW e, NextIn(b, t, m, e), Accepts(b, e),
           NoneFrom(b, t, e.seq)
    PROVE  IsNew(b, e) /\ ~IsReplay(b, e) /\ Tolerates(b, e)
<1>1. e.seq \in Nat
  BY DEF NextIn, Event
<1>2. \A r \in b.rows : r.id # e.id
  BY <1>1 DEF NextIn, NoneFrom
<1>3. ~IsReplay(b, e)
  BY <1>2, UnseenIsNoReplay DEF Unseen, NextIn
<1> QED BY <1>2, <1>3 DEF IsNew, IdTaken, Tolerates, NextIn

(* Two events of one batch, one after the other. *)
LEMMA TwoFit ==
    ASSUME NEW b, MidInv(b), HasLease(b), NEW t \in Tokens, NEW m, NEW e, NEW f,
           NextIn(b, t, m, e), Accepts(b, e), NoneFrom(b, t, e.seq),
           f \in Event, f.id = <<t, f.seq>>, f.source = RunnerSource(m), f.seq = e.seq + 1,
           f.kind # "user_message_submitted",
           \A c : c.state = Project(b, e).state /\ c.active = Project(b, e).active => Accepts(c, f)
    PROVE  Tolerates(b, e) /\ Tolerates(Applied(b, e, t), f)
<1> DEFINE c == Inserted(b, e, t)
<1>1. t \in Nat /\ t # NoToken /\ e \in Event /\ e.seq \in Nat /\ e.source = RunnerSource(m)
      /\ b \in Book
  BY DEF Tokens, NoToken, NextIn, Event, MidInv
<1>2. IsNew(b, e) /\ ~IsReplay(b, e) /\ Tolerates(b, e)
  BY NextIsNew
<1>3. Applied(b, e, t) = c
  BY <1>2 DEF Applied
<1>4. MayAppend(b, t, e)
  BY DEF MayAppend
<1>5. OneMore(b, e, t, c) /\ OneMoreStream(b, e, c)
  BY <1>1, <1>2, <1>4, InsertedFields, InsertedStream
<1> HIDE DEF c
<1>6. /\ c.streams = [b.streams EXCEPT ![e.source] = e.seq]
      /\ c.rows = b.rows \cup {RowOf(e, b.head + 1)}
      /\ c.state = Project(b, e).state /\ c.active = Project(b, e).active
  BY <1>5 DEF OneMore, OneMoreStream
<1>7. c.streams[RunnerSource(m)] = e.seq
  BY <1>1, <1>6 DEF Event, Book
<1>8. NextIn(c, t, m, f)
  BY <1>7 DEF NextIn
<1>9. NoneFrom(c, t, f.seq)
  <2>1. \A r \in b.rows : r.id[2] \in Nat
    BY <1>1 DEF Book, Row, EventId
  <2>2. f.seq = e.seq + 1 /\ RowOf(e, b.head + 1).id = <<t, e.seq>>
    BY DEF NextIn, RowOf
  <2> QED BY <1>1, <1>6, <2>1, <2>2 DEF NoneFrom
<1>10. Accepts(c, f)
  BY <1>6
<1>11. Tolerates(c, f)
  BY <1>8, <1>9, <1>10, NextIsNew
<1> QED BY <1>2, <1>3, <1>11
----------------------------------------------------------------------------
(* Every event of the batch finds its place, one after the other. *)
Fits(b, t, batch) ==
    /\ Tolerates(b, batch[1])
    /\ Len(batch) = 2 => Tolerates(Applied(b, batch[1], t), batch[2])

LEMMA ReplayFits ==
    ASSUME NEW b, NEW t, NEW batch, BatchOfEvents(batch), AllIn(b, batch),
           \A i \in 1..Len(batch) : batch[i].id # FreshId
    PROVE  Fits(b, t, batch)
<1>1. \A i \in 1..Len(batch) : IsReplay(b, batch[i])
  BY DEF AllIn, IsReplay, IsResend
<1>2. 1 \in 1..Len(batch) /\ (Len(batch) = 2 => 2 \in 1..Len(batch))
  BY DEF BatchOfEvents
<1> QED BY <1>1, <1>2 DEF Fits, Tolerates, Applied

LEMMA OpeningFits ==
    ASSUME NEW b, MidInv(b), HasLease(b), NEW w, w.token \in Tokens, w.msg # NoMessage,
           b.state = "dispatched", b.active = w.msg, b.streams[RunnerSource(w.msg)] = 0,
           NoneFrom(b, w.token, 1), NEW batch, BatchOfEvents(batch),
           \/ batch = StartBatch(w) \/ batch = RefusalBatch(w)
           \/ batch = FinalBatch(w) /\ ~w.started
    PROVE  Fits(b, w.token, batch)
<1> DEFINE t == w.token
           m == w.msg
           ps == Emit(w, 1, "provider_started")
           rs1 == Emit(w, 1, "response_started")
           rs2 == Emit(w, 2, "response_started")
           rc2 == Emit(w, 2, "response_canceled")
           f1 == Emit(w, 1, "failed")
<1>1. batch \in {<<ps, rs2>>, <<rs1>>, <<f1>>, <<rs1, rc2>>}
  BY DEF StartBatch, RefusalBatch, FinalBatch
<1>2. \A k, kind : /\ Emit(w, k, kind).id = <<t, Emit(w, k, kind).seq>>
                   /\ Emit(w, k, kind).source = RunnerSource(m)
                   /\ Emit(w, k, kind).seq = k /\ Emit(w, k, kind).kind = kind
                   /\ kind # "provider_started" => Emit(w, k, kind).msg = m
  BY DEF Emit
<1>3. b \in Book
  BY DEF MidInv
<1> HIDE DEF ps, rs1, rs2, rc2, f1
<1>4. CASE batch = <<ps, rs2>>
  <2>1. /\ ps \in Event /\ rs2 \in Event /\ Len(batch) = 2 /\ batch[1] = ps /\ batch[2] = rs2
    BY <1>4 DEF BatchOfEvents
  <2>2. /\ ps.kind = "provider_started" /\ ps.seq = 1 /\ NextIn(b, t, m, ps)
        /\ rs2.kind = "response_started" /\ rs2.seq = 2 /\ rs2.msg = m
        /\ rs2.id = <<t, rs2.seq>> /\ rs2.source = RunnerSource(m)
    BY <1>2, <2>1 DEF NextIn, ps, rs2
  <2>3. Accepts(b, ps)
    BY <2>2, AcceptedKinds
  <2>4. Project(b, ps).state = "message_pending" /\ Project(b, ps).active = m
    BY <1>3, <2>1, <2>2, <2>3, Projected
  <2>5. \A c : c.state = Project(b, ps).state /\ c.active = Project(b, ps).active => Accepts(c, rs2)
    BY <2>2, <2>4, AcceptedKinds
  <2>6. Tolerates(b, ps) /\ Tolerates(Applied(b, ps, t), rs2)
    BY <2>1, <2>2, <2>3, <2>5, TwoFit
  <2> QED BY <2>1, <2>6 DEF Fits
<1>5. CASE batch = <<rs1, rc2>>
  <2>1. /\ rs1 \in Event /\ rc2 \in Event /\ Len(batch) = 2 /\ batch[1] = rs1 /\ batch[2] = rc2
    BY <1>5 DEF BatchOfEvents
  <2>2. /\ rs1.kind = "response_started" /\ rs1.seq = 1 /\ NextIn(b, t, m, rs1) /\ rs1.msg = m
        /\ rc2.kind = "response_canceled" /\ rc2.seq = 2 /\ rc2.msg = m
        /\ rc2.id = <<t, rc2.seq>> /\ rc2.source = RunnerSource(m)
    BY <1>2, <2>1 DEF NextIn, rs1, rc2
  <2>3. Accepts(b, rs1)
    BY <2>2, AcceptedKinds
  <2>4. Project(b, rs1).state = "running" /\ Project(b, rs1).active = m
    BY <1>3, <2>1, <2>2, <2>3, Projected
  <2>5. \A c : c.state = Project(b, rs1).state /\ c.active = Project(b, rs1).active => Accepts(c, rc2)
    BY <2>2, <2>4, AcceptedKinds DEF OutcomeKinds
  <2>6. Tolerates(b, rs1) /\ Tolerates(Applied(b, rs1, t), rc2)
    BY <2>1, <2>2, <2>3, <2>5, TwoFit
  <2> QED BY <2>1, <2>6 DEF Fits
<1>6. CASE batch \in {<<rs1>>, <<f1>>}
  <2>1. Len(batch) = 1 /\ batch[1] \in Event /\ batch[1] \in {rs1, f1}
    BY <1>6 DEF BatchOfEvents
  <2>2. /\ batch[1].kind \in {"response_started", "failed"} /\ batch[1].seq = 1
        /\ NextIn(b, t, m, batch[1]) /\ batch[1].msg = m
    BY <1>2, <2>1 DEF NextIn, rs1, f1
  <2>3. Accepts(b, batch[1])
    BY <2>2, AcceptedKinds DEF FailureKinds
  <2>4. Tolerates(b, batch[1])
    BY <2>2, <2>3, NextIsNew
  <2> QED BY <2>1, <2>4 DEF Fits
<1> QED BY <1>1, <1>4, <1>5, <1>6

LEMMA ClosingFits ==
    ASSUME NEW b, MidInv(b), HasLease(b), NEW w, w.token \in Tokens, w.msg # NoMessage,
           w.end \in Ends, w.started = TRUE, b.state = "running", b.active = w.msg,
           b.streams[RunnerSource(w.msg)] = Len(StartBatch(w)),
           NoneFrom(b, w.token, Len(StartBatch(w)) + 1), BatchOfEvents(FinalBatch(w))
    PROVE  Fits(b, w.token, FinalBatch(w))
<1> DEFINE t == w.token
           m == w.msg
           k == IF w.provider = "none" THEN 3 ELSE 2
           kind == OutcomeKind[w.end]
           c == Emit(w, k, "agent_message_chunk")
           e == Emit(w, k, kind)
           f == Emit(w, k + 1, kind)
           batch == FinalBatch(w)
<1>1. batch \in {<<c, f>>, <<e>>} /\ k = Len(StartBatch(w)) + 1 /\ k \in Nat
  BY DEF FinalBatch, StartBatch
<1>2. \A j, kd : /\ Emit(w, j, kd).id = <<t, Emit(w, j, kd).seq>>
                 /\ Emit(w, j, kd).source = RunnerSource(m)
                 /\ Emit(w, j, kd).seq = j /\ Emit(w, j, kd).kind = kd
                 /\ kd # "provider_started" => Emit(w, j, kd).msg = m
  BY DEF Emit
<1>3. b \in Book /\ kind \in {"response_completed", "response_failed", "response_canceled"}
  BY DEF MidInv, OutcomeKind, Ends
<1> HIDE DEF k, kind, c, e, f, batch
<1>4. \A p, d : /\ p.state = "running" /\ p.active = m /\ d.msg = m /\ d.kind = kind
                => Accepts(p, d)
  BY <1>3, AcceptedKinds DEF OutcomeKinds, FailureKinds
<1>5. CASE batch = <<c, f>>
  <2>1. /\ c \in Event /\ f \in Event /\ Len(batch) = 2 /\ batch[1] = c /\ batch[2] = f
    BY <1>5 DEF BatchOfEvents, batch
  <2>2. /\ c.kind = "agent_message_chunk" /\ c.seq = k /\ NextIn(b, t, m, c)
        /\ f.kind = kind /\ f.seq = k + 1 /\ f.msg = m
        /\ f.id = <<t, f.seq>> /\ f.source = RunnerSource(m)
    BY <1>1, <1>2, <1>3, <2>1 DEF NextIn, c, f
  <2>3. Accepts(b, c)
    BY <2>2, AcceptedKinds
  <2>4. Project(b, c).state = "running" /\ Project(b, c).active = m
    BY <1>3, <2>1, <2>2, <2>3, Projected DEF PassiveKinds, ResponseFacts
  <2>5. \A p : p.state = Project(b, c).state /\ p.active = Project(b, c).active => Accepts(p, f)
    BY <1>4, <2>2, <2>4
  <2>6. Tolerates(b, c) /\ Tolerates(Applied(b, c, t), f)
    BY <1>1, <1>3, <2>1, <2>2, <2>3, <2>5, TwoFit
  <2> QED BY <2>1, <2>6 DEF Fits, batch
<1>6. CASE batch = <<e>>
  <2>1. Len(batch) = 1 /\ e \in Event /\ batch[1] = e
    BY <1>6 DEF BatchOfEvents, batch
  <2>2. e.kind = kind /\ e.seq = k /\ NextIn(b, t, m, e) /\ e.msg = m
    BY <1>1, <1>2, <1>3, <2>1 DEF NextIn, e
  <2>3. Accepts(b, e)
    BY <1>4, <2>2
  <2>4. Tolerates(b, e)
    BY <1>1, <2>2, <2>3, NextIsNew
  <2> QED BY <2>1, <2>4 DEF Fits, batch
<1> QED BY <1>1, <1>5, <1>6

(* A batch that starts where the stream of its message ends is not recorded yet. *)
LEMMA NotIn ==
    ASSUME NEW b, MidInv(b), NEW m, NEW batch, BatchOfEvents(batch),
           batch[1].source = RunnerSource(m), batch[1].seq > b.streams[RunnerSource(m)]
    PROVE  ~AllIn(b, batch)
<1> SUFFICES ASSUME AllIn(b, batch) PROVE FALSE
  OBVIOUS
<1>1. 1 \in 1..Len(batch) /\ batch[1] \in Event
  BY DEF BatchOfEvents
<1>2. PICK r \in b.rows : SameInput(r, batch[1])
  BY <1>1 DEF AllIn
<1>3. r.seq \in 1..b.streams[r.source] /\ r.source = RunnerSource(m) /\ r.seq = batch[1].seq
  BY <1>2 DEF MidInv, RowsInv, SourceSequenceOf, SameInput
<1>4. b.streams[RunnerSource(m)] \in Nat
  <2>1. RunnerSource(m) \in Sources
    BY <1>1 DEF Event
  <2> QED BY <2>1 DEF MidInv, Book
<1> QED BY <1>1, <1>3, <1>4 DEF Event
----------------------------------------------------------------------------
(* The first worker's request is accepted, whatever it is. *)
LEMMA FirstAccepted ==
    ASSUME NEW b, Good(b), NEW w \in Worker, WorkerShape(w), NEW O, NEW G, NEW n \in Nat,
           SessionOK(b, w, O, G, n), FirstOK(b, w, G, n), FirstLive(b), w.reply = "waiting",
           NEW x \in O, x.token = w.token, x.batch = w.batch
    PROVE  /\ BatchAccepted(b, w.token, w.batch)
           /\ w.phase \in {"last", "refused"} => ~AllIn(b, w.batch)
           /\ b.state = "dispatched" => ~AllIn(b, w.batch) /\ Opens(w.batch)
<1>1. /\ w.phase # "idle" /\ w.token \in Tokens /\ w.msg \in Messages /\ w.batch \in WorkerBatches
      /\ w.started \in BOOLEAN /\ ~Unannounced(w)
  BY DEF WorkerShape, IdleWorker, Worker
<1>2. /\ MidInv(b) /\ b.state \in {"dispatched", "running"} /\ HasLease(b) /\ ~Over(b)
  BY DEF FirstLive, Good, MidInv, LeaseInv, Held, NonTerminal, Terminal, SessionState, Over
<1>3. BatchOfEvents(w.batch) /\ w.msg # NoMessage
  BY <1>1, PostedEvents, NoMessageAssumption
<1>4. /\ w.token = b.lease.token /\ w.msg = b.active
      /\ b.streams[RunnerSource(w.msg)] = IF b.state = "running" THEN Len(StartBatch(w)) ELSE 0
      /\ b.state = "running" => w.started
  BY <1>1 DEF FirstOK
<1>5. RequestOK(b, x) /\ Script(w.token, w.batch)
  BY <1>2, <1>4 DEF SessionOK, RequestsOK
<1>6. ASSUME Fits(b, w.token, w.batch) PROVE BatchAccepted(b, w.token, w.batch)
  BY <1>2, <1>4, <1>6 DEF BatchAccepted, LeaseAuthorises, Fits, FirstOK
<1>7. \/ w.batch = StartBatch(w) /\ w.phase \notin {"last", "refused"}
      \/ w.batch = RefusalBatch(w) /\ (b.state = "running" => FALSE)
      \/ w.batch = FinalBatch(w) /\ w.end \in Ends
  <2>1. CASE w.phase = "refused"
    BY <1>2, <2>1 DEF SessionOK, WorkerOK, Awaits
  <2>2. CASE w.phase = "last"
    BY <1>4, <2>2 DEF FirstOK, LastBatch
  <2>3. CASE w.phase \notin {"last", "refused"}
    <3>1. Announcing(w)
      BY <1>1, <2>3 DEF Worker, Announcing, Unannounced
    <3> QED BY <1>2, <2>3, <3>1 DEF SessionOK, WorkerOK, Announced
  <2> QED BY <2>1, <2>2, <2>3
<1>8. w.batch[1].source = RunnerSource(w.msg)
  BY <1>7 DEF StartBatch, RefusalBatch, FinalBatch, Emit
<1>9. Opens(w.batch) <=> ~Concludes(w.batch)
  BY <1>5, ScriptKinds
<1>10. CASE b.state = "dispatched"
  <2>1. w.batch[1].seq > 0
    <3>1. Opens(w.batch) => w.batch[1].seq = 1
      BY <1>5, ScriptKinds
    <3>2. Concludes(w.batch) => w.batch[1].seq \in Nat /\ w.batch[1].seq > 1
      BY <1>5, ScriptKinds
    <3> QED BY <1>9, <3>1, <3>2
  <2>2. ~AllIn(b, w.batch)
    BY <1>2, <1>3, <1>4, <1>8, <1>10, <2>1, NotIn
  <2>3. Opens(w.batch) /\ NoneFrom(b, w.token, 1)
    BY <1>5, <1>10, <2>2 DEF RequestOK
  <2>4. \/ w.batch = StartBatch(w) \/ w.batch = RefusalBatch(w)
        \/ w.batch = FinalBatch(w) /\ ~w.started
    BY <1>1, <1>7, <1>9, <2>3, FinalScript
  <2>5. Fits(b, w.token, w.batch)
    BY <1>1, <1>2, <1>3, <1>4, <1>10, <2>3, <2>4, OpeningFits
  <2> QED BY <1>6, <2>2, <2>3, <2>5
<1>11. CASE b.state = "running"
  <2>1. CASE w.batch = StartBatch(w) /\ w.phase \notin {"last", "refused"}
    <3>1. ~Concludes(w.batch)
      BY <1>9, <2>1, StartScript DEF Opens
    <3>2. AllIn(b, w.batch)
      BY <1>5, <1>11, <3>1 DEF RequestOK
    <3>3. \A i \in 1..Len(w.batch) : w.batch[i].id # FreshId
      BY <1>1, <1>5, ScriptKinds DEF FreshId, Tokens
    <3>4. Fits(b, w.token, w.batch)
      BY <1>3, <3>2, <3>3, ReplayFits
    <3> QED BY <1>6, <1>11, <2>1, <3>4
  <2>2. CASE w.batch = FinalBatch(w) /\ w.end \in Ends
    <3>1. w.started = TRUE
      BY <1>1, <1>4, <1>11
    <3>2. Concludes(w.batch) /\ w.batch[1].seq = Len(StartBatch(w)) + 1
      BY <2>2, <3>1, FinalScript
    <3>3. Len(StartBatch(w)) \in Nat
      BY DEF StartBatch
    <3>4. ~AllIn(b, w.batch)
      BY <1>2, <1>3, <1>4, <1>8, <1>11, <3>2, <3>3, NotIn
    <3>5. NoneFrom(b, w.token, w.batch[1].seq)
      BY <1>5, <1>9, <3>2, <3>4 DEF RequestOK
    <3>6. Fits(b, w.token, w.batch)
      BY <1>1, <1>2, <1>3, <1>4, <1>11, <2>2, <3>1, <3>2, <3>5, ClosingFits
    <3> QED BY <1>6, <1>11, <3>4, <3>6
  <2> QED BY <1>7, <1>11, <2>1, <2>2
<1> QED BY <1>2, <1>10, <1>11

(* The stream of a message after its start is recorded. *)
LEMMA StartedStream ==
    ASSUME NEW b, MidInv(b), NEW q, MidInv(q), NEW w, BatchOfEvents(StartBatch(w)),
           Adds(b, q, StartBatch(w)), b.streams[RunnerSource(w.msg)] = 0
    PROVE  q.streams[RunnerSource(w.msg)] = Len(StartBatch(w))
<1> DEFINE src == RunnerSource(w.msg)
           batch == StartBatch(w)
           k == Len(batch)
<1>1. /\ k \in {1, 2} /\ \A i \in 1..k : batch[i].source = src /\ batch[i].seq = i
  <2>1. CASE w.provider = "none"
    BY <2>1 DEF StartBatch, Emit
  <2>2. CASE w.provider # "none"
    BY <2>2 DEF StartBatch, Emit
  <2> QED BY <2>1, <2>2
<1>2. src \in Sources
  BY <1>1 DEF BatchOfEvents, Event
<1> HIDE DEF src, batch, k
<1>3. /\ k \in Nat /\ k >= 1 /\ k \in 1..k /\ q.streams[src] \in Nat
  BY <1>1, <1>2 DEF MidInv, Book
<1>4. \A e, g : RowOf(e, g).source = e.source /\ RowOf(e, g).seq = e.seq
  BY DEF RowOf
<1>5. \A r \in q.rows : r.source = src => r.seq \in 1..k
  <2> SUFFICES ASSUME NEW r \in q.rows, r.source = src PROVE r.seq \in 1..k
    OBVIOUS
  <2>1. CASE r \in b.rows
    BY <2>1 DEF MidInv, RowsInv, SourceSequenceOf, src
  <2>2. CASE r \notin b.rows
    <3>1. PICK i \in 1..k : r = RowOf(batch[i], b.head + i)
      BY <2>2 DEF Adds, batch, k
    <3> QED BY <1>1, <1>4, <3>1
  <2> QED BY <2>1, <2>2
<1>6. q.streams[src] >= k
  <2> DEFINE r == RowOf(batch[k], b.head + k)
  <2>1. r \in q.rows
    BY <1>3 DEF Adds, batch, k
  <2>2. r.source = src /\ r.seq = k
    BY <1>1, <1>3, <1>4
  <2>3. r.seq \in 1..q.streams[r.source]
    BY <2>1 DEF MidInv, RowsInv, SourceSequenceOf
  <2> QED BY <1>3, <2>2, <2>3
<1>7. q.streams[src] =< k
  <2> SUFFICES ASSUME q.streams[src] > k PROVE FALSE
    BY <1>3
  <2>1. k + 1 \in 1..q.streams[src]
    BY <1>3
  <2>2. PICK r \in q.rows : r.source = src /\ r.seq = k + 1
    BY <1>2, <2>1 DEF MidInv, RowsInv, SourceSequenceOf
  <2> QED BY <1>3, <1>5, <2>2
<1> QED BY <1>3, <1>6, <1>7 DEF src, batch, k
----------------------------------------------------------------------------
(* What each step leaves of FirstOK.  The control plane's own appends end the session or
   meet no first message at work. *)
LEMMA ControlFirst ==
    ASSUME NEW b, NEW w, NEW G, NEW n \in Nat, FirstOK(b, w, G, n), NEW q,
           q = b \/ q.state \notin {"absent", "queued", "dispatched", "running"},
           q.lease = NoLease \/ SameLease(b, q)
    PROVE  FirstOK(q, w, G, n)
<1>1. ~q.lease.expired /\ q.lease.id \in 0..n
  BY DEF FirstOK, SameLease, NoLease
<1> QED BY <1>1 DEF FirstOK, FirstLive

LEMMA WorkerFirst ==
    ASSUME NEW b, NEW w, NEW G, NEW n, FirstOK(b, w, G, n), NEW v, SameJob(w, v),
           w.phase # "idle", v.phase # "idle", v.phase = "last" => LastBatch(v),
           v.reply = w.reply \/ v.reply # "rejected", w.started => v.started,
           v.phase \in {"last", "refused"} => v.reply = "waiting"
    PROVE  FirstOK(b, v, G, n)
<1>1. StartBatch(v) = StartBatch(w)
  BY SameBatches
<1> QED BY <1>1 DEF FirstOK, SameJob

LEMMA IdleFirst ==
    ASSUME NEW b, NEW w, NEW G, NEW n, FirstOK(b, w, G, n),
           ~FirstLive(b)
    PROVE  FirstOK(b, IdleWorker, G, n)
<1>1. IdleWorker.phase = "idle" /\ IdleWorker.reply = "none"
  BY DEF IdleWorker
<1> QED BY <1>1 DEF FirstOK

LEMMA LaunchFirst ==
    ASSUME NEW w, NEW G, NEW n \in Nat, w.phase = "idle", G = {},
           NEW m \in Messages, NEW c \in Contents
    PROVE  FirstOK(LaunchedBook(m, c), w, G, n)
<1> DEFINE q == LaunchedBook(m, c)
           z == [src \in Sources |-> 0]
<1>1. q.state = "queued" /\ q.lease = NoLease /\ q.streams = [z EXCEPT ![LaunchSource] = 4]
  BY DEF LaunchedBook, EmptyBook
<1>2. \A k \in Messages : RunnerSource(k) # LaunchSource /\ RunnerSource(k) \in Sources
  BY DEF RunnerSource, LaunchSource, Sources
<1> HIDE DEF q
<1>3. \A k \in Messages : q.streams[RunnerSource(k)] = 0
  BY <1>1, <1>2
<1>4. FirstOK(q, w, G, n)
  BY <1>1, <1>3 DEF FirstOK, FirstLive, NoLease
<1> QED BY <1>4 DEF q

LEMMA DispatchFirst ==
    ASSUME NEW b, Good(b), NEW w, WorkerShape(w), NEW G, NEW n \in Nat, FirstOK(b, w, G, n),
           b.state \in Claimable, b.state = "message_pending" => HasLease(b), NEW a
    PROVE  FirstOK(Dispatched(b, n + 1), w, G \cup {a}, n + 1)
<1> DEFINE q == Dispatched(b, n + 1)
           t == n + 1
<1>1. /\ b \in Book /\ b.state \in {"queued", "message_pending"}
      /\ b.lease \in Lease \cup {NoLease} /\ b.active \in Messages
  BY DEF Good, MidInv, Book, Claimable, ActiveInv, NonTerminal, Terminal, SessionState
<1>2. /\ q.state = "dispatched" /\ q.active = b.active
      /\ q.streams = [b.streams EXCEPT ![ClaimSource(t)] = 1]
      /\ q.lease = IF b.state = "queued"
                   THEN [id |-> t, token |-> t, provider |-> "none", expired |-> FALSE]
                   ELSE [b.lease EXCEPT !.token = t, !.expired = FALSE]
  BY <1>1 DEF Dispatched, Book
<1>3. t \in 0..t /\ 0..n \subseteq 0..t /\ t \notin 0..n /\ G \cup {a} # {}
  OBVIOUS
<1> SUFFICES FirstOK(q, w, G \cup {a}, t)
  OBVIOUS
<1> HIDE DEF q, t
<1>7. RunnerSource(b.active) # ClaimSource(t) /\ RunnerSource(b.active) \in Sources
  BY <1>1 DEF RunnerSource, ClaimSource, Sources
<1>4. q.streams[RunnerSource(q.active)] = b.streams[RunnerSource(b.active)]
  BY <1>1, <1>2, <1>7 DEF Book
<1>5. CASE b.state = "queued"
  <2>1. w = IdleWorker /\ w.phase = "idle" /\ w.reply = "none"
    BY <1>5 DEF FirstOK, WorkerShape, IdleWorker
  <2>2. b.streams[RunnerSource(b.active)] = 0
    BY <1>1, <1>5 DEF FirstOK
  <2>3. q.lease.id = t /\ q.lease.token = t /\ ~q.lease.expired
    BY <1>2, <1>5
  <2> QED BY <1>2, <1>3, <1>4, <2>1, <2>2, <2>3 DEF FirstOK
<1>6. CASE b.state = "message_pending"
  <2>1. b.lease \in Lease
    BY <1>1, <1>6 DEF HasLease, NoLease, NoToken
  <2>2. q.lease.id = b.lease.id /\ q.lease.token = t /\ ~q.lease.expired
    BY <1>2, <1>6, <2>1 DEF Lease
  <2>3. b.lease.id \in 0..n /\ (w.phase = "last" => LastBatch(w))
    BY DEF FirstOK
  <2> QED BY <1>2, <1>3, <2>2, <2>3 DEF FirstOK, FirstLive
<1> QED BY <1>1, <1>5, <1>6
----------------------------------------------------------------------------
LEMMA SameFinal ==
    ASSUME NEW w, NEW v, SameJob(w, v), v.started = w.started, v.end = w.end, v.said = w.said
    PROVE  FinalBatch(v) = FinalBatch(w)
<1>1. \A n, kind : Emit(v, n, kind) = Emit(w, n, kind)
  BY DEF SameJob, Emit
<1> QED BY <1>1 DEF SameJob, FinalBatch

LEMMA FinalAnnouncesNot ==
    ASSUME NEW w, w.end \in Ends, ~w.started
    PROVE  ~Announces(FinalBatch(w))
<1>1. CASE w.end = "aborted"
  BY <1>1 DEF FinalBatch, Announces, Emit
<1>2. CASE w.end # "aborted"
  BY <1>2 DEF FinalBatch, Announces, Emit
<1> QED BY <1>1, <1>2

(* A worker's request is recorded: after its start the first message runs, with its
   stream where the worker will go on. *)
LEMMA PostFirst ==
    ASSUME NEW b, Good(b), NEW w \in Worker, WorkerShape(w), NEW O, NEW G, NEW n \in Nat,
           SessionOK(b, w, O, G, n), FirstOK(b, w, G, n), w.reply = "waiting",
           NEW x \in O, x.token = w.token, x.batch = w.batch,
           BatchAccepted(b, w.token, w.batch),
           NEW q, q = AfterBatch(b, w.token, w.batch), Good(q),
           NEW v, v = [w EXCEPT !.reply = "ok"]
    PROVE  FirstOK(q, v, G, n)
<1>1. /\ w.phase # "idle" /\ w.token \in Tokens /\ w.batch \in WorkerBatches
      /\ BatchOfEvents(w.batch) /\ w.token \in Nat /\ w.token # NoToken
      /\ ~Unannounced(w) /\ w.started \in BOOLEAN
  BY PostedEvents DEF WorkerShape, IdleWorker, Worker, Tokens, NoToken
<1>2. /\ v.phase = w.phase /\ v.started = w.started /\ v.end = w.end /\ v.said = w.said
      /\ SameJob(w, v) /\ v.batch = w.batch /\ v.reply = "ok"
  BY DEF Worker, SameJob
<1>3. /\ StartBatch(v) = StartBatch(w) /\ RefusalBatch(v) = RefusalBatch(w)
      /\ FinalBatch(v) = FinalBatch(w)
  BY <1>2, SameBatches, SameFinal
<1>4. LastBatch(w) => LastBatch(v)
  BY <1>2, <1>3 DEF LastBatch
<1>5. b.lease.token = w.token /\ ~Over(b) /\ MidInv(b) /\ MidInv(q) /\ HasLease(b)
  BY <1>1 DEF BatchAccepted, LeaseAuthorises, Good, Over
<1>6. RequestOK(b, x) /\ Script(w.token, w.batch)
  BY <1>5 DEF SessionOK, RequestsOK
<1>7. q.lease = NoLease \/ SameLease(b, q)
  BY <1>1, LeaseFollows
<1>8. AllIn(b, w.batch) => q = b
  BY <1>1, PostKeeps
<1>9. ~AllIn(b, w.batch) => Effect(b, q, w.batch)
  BY <1>1, PostKeeps
<1>10. CASE AllIn(b, w.batch)
  <2>1. FirstLive(b) => w.phase \notin {"last", "refused"}
    BY <1>10, FirstAccepted
  <2> QED BY <1>2, <1>3, <1>4, <1>8, <1>10, <2>1 DEF FirstOK, SameJob
<1>11. CASE ~AllIn(b, w.batch)
  <2>1. /\ ~q.lease.expired /\ q.lease.id \in 0..n
        /\ v.phase = "last" => LastBatch(v)
    BY <1>2, <1>4, <1>7 DEF FirstOK, SameLease, NoLease
  <2>2. CASE q.state \notin {"absent", "queued", "dispatched", "running"}
    BY <2>1, <2>2 DEF FirstOK, FirstLive
  <2>3. CASE ~Over(q) /\ Announces(w.batch)
    <3>1. /\ q.state = "running" /\ q.active = b.active /\ q.lease.token = b.lease.token
          /\ Adds(b, q, w.batch)
      BY <1>9, <1>11, <2>3 DEF Effect
    <3>2. ~Concludes(w.batch)
      BY <1>6, <2>3, ScriptKinds DEF Opens
    <3>3. b.state = "dispatched"
      BY <1>6, <1>11, <3>2 DEF RequestOK
    <3>4. SameLease(b, q)
      BY <1>1, <1>5, <1>7, <3>1 DEF NoLease, NoToken
    <3>5. SUFFICES ASSUME FirstLive(q)
                   PROVE  /\ v.token = q.lease.token /\ v.msg = q.active
                          /\ v.started /\ v.phase \notin {"last", "refused", "idle"}
                          /\ q.streams[RunnerSource(q.active)] = Len(StartBatch(v))
      BY <1>2, <2>1, <3>1 DEF FirstOK
    <3>6. FirstLive(b)
      BY <3>3, <3>4, <3>5 DEF FirstLive, SameLease
    <3>7. /\ w.token = b.lease.token /\ w.msg = b.active
          /\ b.streams[RunnerSource(w.msg)] = 0
          /\ w.phase = "last" => LastBatch(w)
      BY <1>1, <3>3, <3>6 DEF FirstOK
    <3>8. w.phase # "refused"
      <4>1. ~Announces(RefusalBatch(w))
        BY RefusalScript DEF Announces, Refuses
      <4> QED BY <1>5, <2>3, <4>1 DEF SessionOK, WorkerOK
    <3>9. w.phase # "last"
      <4>1. ~Announces(RefusalBatch(w))
        BY RefusalScript DEF Announces, Refuses
      <4>2. w.end \in Ends => ~Announces(FinalBatch(w))
        <5>1. w.end \in Ends /\ w.started = TRUE => Concludes(FinalBatch(w))
          BY FinalScript
        <5>2. Concludes(FinalBatch(w)) => ~Announces(FinalBatch(w))
          BY DEF Concludes, Announces
        <5> QED BY <1>1, <5>1, <5>2, FinalAnnouncesNot
      <4> QED BY <2>3, <3>7, <4>1, <4>2 DEF LastBatch
    <3>10. Announcing(w) /\ w.started
      BY <1>1, <3>8, <3>9 DEF Worker, Announcing, Unannounced, WorkerShape
    <3>11. w.batch = StartBatch(w)
      BY <1>5, <3>10 DEF SessionOK, WorkerOK, Announced
    <3>12. q.streams[RunnerSource(w.msg)] = Len(StartBatch(w))
      BY <1>1, <1>5, <3>1, <3>7, <3>11, StartedStream
    <3> QED BY <1>1, <1>2, <1>3, <3>1, <3>7, <3>8, <3>9, <3>10, <3>12 DEF SameJob
  <2>4. CASE ~Over(q) /\ ~Announces(w.batch)
    <3>1. q.state = "ready"
      BY <1>6, <1>9, <1>11, <2>4 DEF Effect, Script, Opens
    <3> QED BY <2>2, <3>1
  <2>5. CASE Over(q)
    BY <2>2, <2>5 DEF Over, Terminal
  <2> QED BY <2>3, <2>4, <2>5
<1> QED BY <1>10, <1>11
----------------------------------------------------------------------------
LEMMA FirstSame ==
    ASSUME NEW s, First(s), book'[s] = book[s], worker'[s] = worker[s],
           GrantsOf(s)' = GrantsOf(s), claims \in Nat, claims' \in Nat, claims' >= claims
    PROVE  First(s)'
<1> DEFINE b == book[s]
           w == worker[s]
           G == GrantsOf(s)
           k == claims'
<1>1. FirstOK(b, w, G, claims)
  BY DEF First
<1> HIDE DEF b, w, G, k
<1>2. FirstOK(b, w, G, k)
  BY <1>1 DEF FirstOK, k
<1> QED BY <1>2 DEF First, b, w, G, k

(* A step of session s. *)
LEMMA FirstOne ==
    ASSUME ExecInv, FirstInv, late' = {}, CallsTidy', NEW s \in Sessions, NEW q, NEW v,
           book' = [book EXCEPT ![s] = q], worker' = [worker EXCEPT ![s] = v],
           claims' \in Nat, claims' >= claims,
           \A u \in Sessions \ {s} : GrantsOf(u)' = GrantsOf(u),
           FirstOK(q, v, GrantsOf(s)', claims')
    PROVE  FirstInv'
<1>1. claims \in Nat /\ book \in [Sessions -> Book] /\ worker \in [Sessions -> Worker]
  BY BoundsAssumption DEF ExecInv, LedgerInv, ExecTyped, ExecutionTypeOK
<1>2. First(s)'
  BY <1>1 DEF First
<1>3. ASSUME NEW u \in Sessions \ {s} PROVE First(u)'
  BY <1>1, FirstSame DEF FirstInv
<1> QED BY <1>2, <1>3 DEF FirstInv

(* A step of nobody's session. *)
LEMMA FirstNone ==
    ASSUME ExecInv, FirstInv, late' = {}, CallsTidy', UNCHANGED <<book, worker, claims>>,
           \A s \in Sessions : GrantsOf(s)' = GrantsOf(s)
    PROVE  FirstInv'
<1>1. claims \in Nat
  BY BoundsAssumption DEF ExecInv, LedgerInv
<1> QED BY <1>1, FirstSame DEF FirstInv

LEMMA SameGrants ==
    ASSUME \A i \in Callers : calls'[i].grant = calls[i].grant
    PROVE  \A s : GrantsOf(s)' = GrantsOf(s)
<1>1. {calls'[i].grant : i \in Callers} = {calls[i].grant : i \in Callers}
  OBVIOUS
<1> QED BY <1>1 DEF GrantsOf

LEMMA SameCalls ==
    ASSUME CallsTidy, calls' = calls, daemon'.up = daemon.up, daemon'.run = daemon.run
    PROVE  CallsTidy'
  BY DEF CallsTidy

LEMMA FirstUser ==
    ASSUME ExecInv, ExecInv', FirstInv, Tidy,
           \/ \E s \in Sessions, m \in Messages, c \in Contents :
                 Launch(s, m, c) \/ CheckMessage(s, m, c) \/ AppendMessage(s, m, c)
           \/ \E s \in Sessions : CheckClose(s) \/ AppendClose(s) \/ Expire(s)
    PROVE  FirstInv'
<1>0. CallsTidy /\ late = {} /\ \A s \in Sessions : First(s)
  BY DEF FirstInv
<1>1. claims \in Nat /\ book \in [Sessions -> Book] /\ worker \in [Sessions -> Worker]
      /\ \A s \in Sessions : worker = [worker EXCEPT ![s] = worker[s]]
  BY BoundsAssumption DEF ExecInv, LedgerInv, ExecTyped, ExecutionTypeOK
<1>2. ASSUME NEW s \in Sessions, NEW m \in Messages, NEW c \in Contents, Launch(s, m, c)
      PROVE  FirstInv'
  <2> DEFINE q == LaunchedBook(m, c)
  <2>1. book[s].state = "absent" /\ book' = [book EXCEPT ![s] = q] /\ claims' = claims
    BY <1>2 DEF Launch, LaunchSession, LaunchedBook
  <2>2. UNCHANGED <<calls, daemon, worker, late>>
    BY <1>2 DEF Launch, runnerVars
  <2>3. CallsTidy' /\ \A u : GrantsOf(u)' = GrantsOf(u)
    BY <1>0, <2>2, SameCalls, SameGrants
  <2>4. worker[s].phase = "idle" /\ GrantsOf(s) = {}
    BY <1>0, <2>1 DEF First, FirstOK
  <2>5. FirstOK(q, worker[s], {}, claims)
    BY <1>1, <2>4, LaunchFirst
  <2> HIDE DEF q
  <2>6. FirstOK(q, worker[s], GrantsOf(s)', claims')
    BY <2>1, <2>3, <2>4, <2>5
  <2>7. /\ late' = {} /\ worker' = [worker EXCEPT ![s] = worker[s]]
        /\ claims' \in Nat /\ claims' >= claims
    BY <1>0, <1>1, <2>1, <2>2
  <2> QED BY <2>1, <2>3, <2>6, <2>7, FirstOne
<1>3. ASSUME NEW s \in Sessions, NEW q, UNCHANGED <<calls, daemon, worker, late, claims>>,
             book' = [book EXCEPT ![s] = q],
             q = book[s] \/ q.state \notin {"absent", "queued", "dispatched", "running"},
             q.lease = NoLease \/ SameLease(book[s], q)
      PROVE  FirstInv'
  <2>1. CallsTidy' /\ \A u : GrantsOf(u)' = GrantsOf(u)
    BY <1>0, <1>3, SameCalls, SameGrants
  <2>2. FirstOK(book[s], worker[s], GrantsOf(s), claims)
    BY <1>0 DEF First
  <2>3. FirstOK(q, worker[s], GrantsOf(s), claims)
    BY <1>1, <1>3, <2>2, ControlFirst
  <2>4. FirstOK(q, worker[s], GrantsOf(s)', claims')
    BY <1>3, <2>1, <2>3
  <2>5. /\ late' = {} /\ worker' = [worker EXCEPT ![s] = worker[s]]
        /\ claims' \in Nat /\ claims' >= claims
    BY <1>0, <1>1, <1>3
  <2> QED BY <1>3, <2>1, <2>4, <2>5, FirstOne
<1>4. ASSUME NEW s \in Sessions, NEW m \in Messages, NEW c \in Contents, AppendMessage(s, m, c)
      PROVE  FirstInv'
  <2>1. UNCHANGED <<calls, daemon, worker, late>>
    BY <1>4 DEF AppendMessage
  <2>2. CASE UNCHANGED ledgerVars
    <3>1. CallsTidy' /\ \A u : GrantsOf(u)' = GrantsOf(u)
      BY <1>0, <2>1, SameCalls, SameGrants
    <3> QED BY <1>0, <2>1, <2>2, <3>1, FirstNone DEF ledgerVars
  <2>3. CASE SubmitMessage(s, m, c)
    <3> DEFINE batch == MessageBatch(m, c)
               q == AfterBatch(book[s], NoToken, batch)
    <3>1. /\ book[s].state # "queued" /\ BatchAccepted(book[s], NoToken, batch)
          /\ book' = [book EXCEPT ![s] = q] /\ claims' = claims
      BY <2>3, AppendedBook DEF SubmitMessage
    <3>2. q = book[s] \/ q.state = "message_pending"
      BY <3>1, WorkerOf, SubmitKeeps
    <3>3. BatchOfEvents(batch) /\ ControlBatch(batch) /\ NoToken \in Nat
      BY ControlBatchesTyped DEF NoToken
    <3> HIDE DEF batch
    <3>4. q.lease = NoLease \/ SameLease(book[s], q)
      BY <3>1, <3>3, WorkerOf, LeaseFollows
    <3> HIDE DEF q
    <3> QED BY <1>3, <2>1, <3>1, <3>2, <3>4
  <2> QED BY <1>4, <2>2, <2>3 DEF AppendMessage
<1>5. ASSUME NEW s \in Sessions, AppendClose(s) PROVE FirstInv'
  <2>1. UNCHANGED <<calls, daemon, worker, late>>
    BY <1>5 DEF AppendClose
  <2>2. CASE UNCHANGED ledgerVars
    <3>1. CallsTidy' /\ \A u : GrantsOf(u)' = GrantsOf(u)
      BY <1>0, <2>1, SameCalls, SameGrants
    <3> QED BY <1>0, <2>1, <2>2, <3>1, FirstNone DEF ledgerVars
  <2>3. CASE CloseSession(s)
    <3> DEFINE q == AfterBatch(book[s], NoToken, CloseBatch)
    <3>1. /\ BatchAccepted(book[s], NoToken, CloseBatch)
          /\ book' = [book EXCEPT ![s] = q] /\ claims' = claims
      BY <2>3, AppendedBook DEF CloseSession
    <3>2. Over(q)
      BY <3>1, WorkerOf, CloseKeeps
    <3>3. BatchOfEvents(CloseBatch) /\ ControlBatch(CloseBatch) /\ NoToken \in Nat
      BY ControlBatchesTyped DEF NoToken
    <3>4. q.lease = NoLease \/ SameLease(book[s], q)
      BY <3>1, <3>3, WorkerOf, LeaseFollows
    <3> HIDE DEF q
    <3>5. q.state \notin {"absent", "queued", "dispatched", "running"}
      BY <3>2 DEF Over, Terminal
    <3> QED BY <1>3, <2>1, <3>1, <3>4, <3>5
  <2> QED BY <1>5, <2>2, <2>3 DEF AppendClose
<1>6. ASSUME NEW s \in Sessions, CheckClose(s) \/ \E m \in Messages, c \in Contents : CheckMessage(s, m, c)
      PROVE  FirstInv'
  <2>1. UNCHANGED <<book, claims, calls, daemon, worker, late>>
    BY <1>6 DEF CheckClose, CheckMessage
  <2>2. CallsTidy' /\ \A u : GrantsOf(u)' = GrantsOf(u)
    BY <1>0, <2>1, SameCalls, SameGrants
  <2> QED BY <1>0, <2>1, <2>2, FirstNone
<1>7. ASSUME NEW s \in Sessions, Expire(s) PROVE FALSE
  BY <1>7 DEF Expire, Tidy
<1> QED BY <1>2, <1>4, <1>5, <1>6, <1>7
----------------------------------------------------------------------------
LEMMA FirstPoll ==
    ASSUME ExecInv, FirstInv, Tidy, NEW i \in Callers, Poll(i)
    PROVE  FirstInv'
<1>1. /\ calls \in [Callers -> Call] /\ calls[i] = NoCall
      /\ UNCHANGED <<book, claims, earlier, online, daemon, worker, sends, closes, late>>
  BY CallsTyped DEF CallTypes, Poll
<1>2. i # 0 /\ daemon.up /\ daemon.run = i
  BY DEF Poll, Tidy
<1>3. Expired = {}
  BY DEF Expired, FirstInv, First, FirstOK
<1> DEFINE c == [NoCall EXCEPT !.phase = "reaping", !.leases = {}]
<1>4. calls' = [calls EXCEPT ![i] = c]
  <2>1. {<<s, book[s].lease.id>> : s \in Expired} = {}
    BY <1>3
  <2>2. calls' = [calls EXCEPT ![i].phase = "reaping", ![i].leases = {}]
    BY <2>1 DEF Poll
  <2> QED BY <1>1, <2>2
<1>5. c.phase = "reaping" /\ c.leases = {} /\ c.doomed = {} /\ c.grant = {} /\ calls[i].grant = {}
  BY <1>1 DEF NoCall
<1> HIDE DEF c
<1>6. /\ \A j \in Callers : j # i => calls'[j] = calls[j]
      /\ calls'[i] = c
  BY <1>1, <1>4
<1>7. CallsTidy'
  <2>1. CallsTidy
    BY DEF FirstInv
  <2>2. 0 \in Callers
    BY ExecutionAssumption DEF Callers
  <2> QED BY <1>1, <1>2, <1>5, <1>6, <2>1, <2>2 DEF CallsTidy
<1>8. \A s : GrantsOf(s)' = GrantsOf(s)
  <2>1. \A j \in Callers : calls'[j].grant = calls[j].grant
    BY <1>5, <1>6
  <2> QED BY <2>1, SameGrants
<1>9. late' = {}
  BY <1>1 DEF FirstInv
<1> QED BY <1>1, <1>7, <1>8, <1>9, FirstNone

LEMMA FirstClaim ==
    ASSUME ExecInv, ExecInv', FirstInv, Tidy, NEW i \in Callers, Claim(i)
    PROVE  FirstInv'
<1>1. /\ calls \in [Callers -> Call] /\ calls[i].phase = "reaping"
      /\ UNCHANGED <<online, daemon, worker, sends, closes, late>>
  BY CallsTyped DEF CallTypes, Claim
<1>2. /\ CallsTidy /\ late' = {} /\ 0 \in Callers /\ calls[i] # NoCall /\ calls[i].grant = {}
      /\ daemon.up /\ daemon.run = i /\ i # 0
  <2>1. CallsTidy /\ late' = {}
    BY <1>1 DEF FirstInv
  <2>2. 0 \in Callers
    BY ExecutionAssumption DEF Callers
  <2>3. calls[i] # NoCall
    BY <1>1 DEF NoCall
  <2> QED BY <1>1, <2>1, <2>2, <2>3 DEF CallsTidy
<1>3. ASSUME NEW c, calls' = [calls EXCEPT ![i] = c],
             c.phase = "answered", c.leases = {}, c.doomed = {}
      PROVE  /\ CallsTidy' /\ calls'[i].grant = c.grant
             /\ \A j \in Callers : j # i => calls'[j].grant = calls[j].grant
  <2>1. (\A j \in Callers : j # i => calls'[j] = calls[j]) /\ calls'[i] = c
    BY <1>1, <1>3
  <2> QED BY <1>1, <1>2, <1>3, <2>1 DEF CallsTidy
<1>4. CASE /\ calls' = [calls EXCEPT ![i] = [NoCall EXCEPT !.phase = "answered"]]
           /\ UNCHANGED ledgerVars
  <2> DEFINE c == [NoCall EXCEPT !.phase = "answered"]
  <2>1. /\ c.phase = "answered" /\ c.leases = {} /\ c.doomed = {} /\ c.grant = {}
        /\ calls' = [calls EXCEPT ![i] = c]
    BY <1>4 DEF NoCall
  <2> HIDE DEF c
  <2>2. CallsTidy' /\ \A j \in Callers : calls'[j].grant = calls[j].grant
    BY <1>2, <1>3, <2>1
  <2>3. \A s : GrantsOf(s)' = GrantsOf(s)
    BY <2>2, SameGrants
  <2> QED BY <1>1, <1>2, <1>4, <2>2, <2>3, FirstNone DEF ledgerVars
<1>5. ASSUME NEW s \in Sessions, ClaimSession(s),
             calls' = [calls EXCEPT ![i] = [NoCall EXCEPT !.phase = "answered",
                                                          !.grant = {Granted(s)}]]
      PROVE  FirstInv'
  <2> DEFINE a == Granted(s)
             q == Dispatched(book[s], claims + 1)
  <2>1. /\ book[s].state \in Claimable
        /\ book[s].state = "message_pending" => HasLease(book[s])
        /\ book' = [book EXCEPT ![s] = q] /\ claims' = claims + 1
    BY <1>5 DEF ClaimSession, NextInLine
  <2>2. a.session = s
    BY DEF Granted
  <2>3. CallsTidy' /\ calls'[i].grant = {a}
        /\ \A j \in Callers : j # i => calls'[j].grant = calls[j].grant
    <3> DEFINE c == [NoCall EXCEPT !.phase = "answered", !.grant = {a}]
    <3>1. /\ c.phase = "answered" /\ c.leases = {} /\ c.doomed = {} /\ c.grant = {a}
          /\ calls' = [calls EXCEPT ![i] = c]
      BY <1>5 DEF NoCall
    <3> HIDE DEF c
    <3> QED BY <1>3, <3>1
  <2> HIDE DEF a
  <2>4. /\ GrantsOf(s)' = GrantsOf(s) \cup {a}
        /\ \A u \in Sessions \ {s} : GrantsOf(u)' = GrantsOf(u)
    BY <1>2, <2>2, <2>3 DEF GrantsOf
  <2>5. FirstOK(book[s], worker[s], GrantsOf(s), claims)
    BY DEF FirstInv, First
  <2>6. /\ worker[s] \in Worker /\ WorkerShape(worker[s]) /\ Good(book[s]) /\ claims \in Nat
        /\ worker = [worker EXCEPT ![s] = worker[s]]
    BY WorkerOf DEF ExecInv, ExecTyped, ExecutionTypeOK
  <2>7. FirstOK(q, worker[s], GrantsOf(s) \cup {a}, claims + 1)
    BY <2>1, <2>5, <2>6, DispatchFirst
  <2> HIDE DEF q
  <2>8. FirstOK(q, worker[s], GrantsOf(s)', claims')
    BY <2>1, <2>4, <2>7
  <2>9. worker' = [worker EXCEPT ![s] = worker[s]] /\ claims' \in Nat /\ claims' >= claims
    BY <1>1, <2>1, <2>6
  <2> QED BY <1>2, <2>1, <2>3, <2>4, <2>8, <2>9, FirstOne
<1> QED BY <1>4, <1>5 DEF Claim

(* The answer of a claim starts a worker, unless the one before is still there: then its
   session is not at its first message. *)
LEMMA FirstReceive ==
    ASSUME ExecInv, ExecInv', FirstInv, Tidy, NEW i \in Callers, Receive(i)
    PROVE  FirstInv'
<1>1. /\ calls \in [Callers -> Call] /\ calls[i].phase = "answered" /\ claims \in Nat
      /\ worker \in [Sessions -> Worker] /\ book \in [Sessions -> Book]
      /\ calls' = [calls EXCEPT ![i] = NoCall]
      /\ UNCHANGED <<book, claims, earlier, online, daemon, sends, closes, late>>
  BY CallsTyped, BoundsAssumption
     DEF CallTypes, Receive, ExecInv, LedgerInv, ExecTyped, ExecutionTypeOK
<1>2. /\ CallsTidy /\ late' = {} /\ 0 \in Callers /\ calls[i] # NoCall
      /\ daemon.up /\ daemon.run = i /\ i # 0
  <2>1. CallsTidy /\ late' = {}
    BY <1>1 DEF FirstInv
  <2>2. 0 \in Callers
    BY ExecutionAssumption DEF Callers
  <2>3. calls[i] # NoCall
    BY <1>1 DEF NoCall
  <2> QED BY <1>1, <2>1, <2>2, <2>3 DEF CallsTidy
<1>3. /\ \A j \in Callers : j # i => calls'[j] = calls[j]
      /\ calls'[i] = NoCall /\ NoCall.grant = {} /\ NoCall.leases = {} /\ NoCall.doomed = {}
  BY <1>1 DEF NoCall
<1>4. CallsTidy'
  BY <1>1, <1>2, <1>3 DEF CallsTidy
<1>5. \A s : GrantsOf(s)' \subseteq GrantsOf(s)
  BY <1>3 DEF GrantsOf
<1>6. CASE calls[i].grant = {}
  <2>1. UNCHANGED worker
    BY <1>2, <1>6 DEF Receive
  <2>2. \A j \in Callers : calls'[j].grant = calls[j].grant
    BY <1>3, <1>6
  <2> QED BY <1>1, <1>2, <1>4, <2>1, <2>2, SameGrants, FirstNone
<1>7. CASE calls[i].grant # {}
  <2>1. PICK a \in calls[i].grant : calls[i].grant = {a}
    BY <1>7 DEF ExecInv, GrantsDiffer
  <2> DEFINE s == a.session
             b == book[s]
             w == worker[s]
             G == GrantsOf(s)
             H == GrantsOf(s)'
             n == claims
  <2>2. s \in Sessions
    BY <1>1 DEF Call, Assignment
  <2>3. \A u \in Sessions \ {s} : GrantsOf(u)' = GrantsOf(u)
    <3>1. \A u \in Sessions \ {s} : \A j \in Callers :
              {d \in calls'[j].grant : d.session = u} = {d \in calls[j].grant : d.session = u}
      BY <1>3, <2>1
    <3> QED BY <3>1 DEF GrantsOf
  <2>4. FirstOK(b, w, G, n) /\ a \in G /\ H \subseteq G
    BY <1>5, <2>2, GrantIn DEF FirstInv, First
  <2>5. book' = [book EXCEPT ![s] = b] /\ claims' \in Nat /\ claims' >= claims
    BY <1>1
  <2>6. ASSUME NEW v, worker' = [worker EXCEPT ![s] = v], FirstOK(b, v, H, n)
        PROVE  FirstInv'
    <3>1. FirstOK(b, v, GrantsOf(s)', claims')
      BY <1>1, <2>6
    <3> QED BY <1>2, <1>4, <2>2, <2>3, <2>5, <2>6, <3>1, FirstOne
  <2>7. CASE Busy(s)
    <3>1. UNCHANGED worker
      BY <1>2, <2>1, <2>7 DEF Receive
    <3>2. worker' = [worker EXCEPT ![s] = w]
      BY <1>1, <3>1
    <3>3. w.phase # "idle"
      BY <2>7 DEF Busy
    <3> HIDE DEF b, w, G, H, n
    <3>4. FirstOK(b, w, H, n)
      BY <2>4, <3>3 DEF FirstOK
    <3> QED BY <2>6, <3>2, <3>4
  <2>8. CASE ~Busy(s)
    <3>1. PICK v \in Accepting(a) : worker' = [worker EXCEPT ![s] = v]
      BY <1>2, <2>1, <2>8 DEF Receive
    <3>2. /\ v.phase \in {"prepare", "refused"} /\ v.token = a.token /\ v.msg = a.msg
          /\ v.phase = "prepare" => v.reply = "none"
          /\ v.phase = "refused" => v.reply = "waiting"
      BY <3>1 DEF Accepting, Posting, IdleWorker
    <3>3. ~Over(b) => Awaits(b, a.token, a.msg)
      BY <2>2, <2>4, WorkerOf DEF SessionOK, GrantsOK, Holding
    <3> HIDE DEF b, w, G, H, n
    <3>4. FirstOK(b, v, H, n)
      <4>1. b.state \notin {"absent", "queued"} /\ ~b.lease.expired /\ b.lease.id \in 0..n
        BY <2>4 DEF FirstOK
      <4>2. FirstLive(b) => /\ b.state = "dispatched" /\ b.lease.token = v.token
                            /\ b.active = v.msg
                            /\ b.streams[RunnerSource(b.active)] = 0
        BY <2>4, <3>2, <3>3 DEF FirstOK, Awaits, FirstLive, Over, Terminal
      <4> QED BY <3>2, <4>1, <4>2 DEF FirstOK
    <3> QED BY <2>6, <3>1, <3>4
  <2> QED BY <2>7, <2>8
<1> QED BY <1>6, <1>7
----------------------------------------------------------------------------
LEMMA FirstWork ==
    ASSUME ExecInv, FirstInv, NEW s \in Sessions, NEW v, WorkerStep(s, v),
           FirstOK(book[s], v, GrantsOf(s), claims)
    PROVE  FirstInv'
<1>1. /\ claims \in Nat /\ book = [book EXCEPT ![s] = book[s]]
      /\ UNCHANGED <<book, claims, daemon, calls, late>> /\ worker' = [worker EXCEPT ![s] = v]
  BY BoundsAssumption DEF ExecInv, LedgerInv, WorkerStep
<1>2. late' = {} /\ CallsTidy' /\ \A u : GrantsOf(u)' = GrantsOf(u)
  BY <1>1, SameCalls, SameGrants DEF FirstInv
<1> DEFINE q == book[s]
<1>3. /\ book' = [book EXCEPT ![s] = q] /\ claims' \in Nat /\ claims' >= claims
      /\ FirstOK(q, v, GrantsOf(s)', claims')
  BY <1>1, <1>2
<1> HIDE DEF q
<1> QED BY <1>1, <1>2, <1>3, FirstOne

(* What the worker does on its own. *)
LEMMA FirstWorker ==
    ASSUME ExecInv, FirstInv, Tidy, NEW s \in Sessions,
           \/ PrepareFails(s) \/ Prepare(s) \/ StartProcess(s) \/ SeeThread(s)
           \/ \E end \in Ends, said \in BOOLEAN : ProcessEnds(s, end, said)
           \/ PublishStart(s) \/ Conclude(s) \/ Finish(s) \/ WorkerRejects(s)
    PROVE  FirstInv'
<1> DEFINE w == worker[s]
           b == book[s]
           G == GrantsOf(s)
           n == claims
<1>1. w \in Worker /\ WorkerShape(w) /\ FirstOK(b, w, G, n) /\ w.started \in BOOLEAN
  BY WorkerOf DEF FirstInv, First, Worker
<1>2. ASSUME NEW v, WorkerStep(s, v), FirstOK(b, v, G, n) PROVE FirstInv'
  BY <1>2, FirstWork
<1>3. ASSUME NEW v, WorkerStep(s, v), SameJob(w, v), w.phase # "idle",
             v.phase \notin {"idle", "last", "refused"},
             v.reply = w.reply \/ v.reply # "rejected", w.started => v.started
      PROVE  FirstInv'
  <2> HIDE DEF w, b, G, n
  <2>1. FirstOK(b, v, G, n)
    BY <1>1, <1>3, WorkerFirst
  <2> QED BY <1>2, <1>3, <2>1
<1>4. CASE PrepareFails(s)
  <2> DEFINE v == [Posting(w, RefusalBatch(w)) EXCEPT !.phase = "last"]
  <2>1. w.phase = "prepare" /\ ~w.started /\ WorkerStep(s, v)
    BY <1>1, <1>4 DEF PrepareFails, WorkerShape
  <2>2. Posts(w, v, RefusalBatch(w), "last", w.started)
    BY <1>1, <2>1, WorkerBatchesOf, PostingTyped DEF Busy
  <2> HIDE DEF v, w, b, G, n
  <2>3. SameJob(w, v) /\ LastBatch(v) /\ v.phase = "last" /\ v.reply = "waiting"
    BY <2>1, <2>2, SameBatches DEF Posts, LastBatch
  <2>4. FirstOK(b, v, G, n)
    BY <1>1, <2>1, <2>3, WorkerFirst
  <2> QED BY <1>2, <2>1, <2>4
<1>5. CASE Prepare(s)
  <2>1. w.phase = "prepare" /\ w.started = FALSE
    BY <1>1, <1>5 DEF Prepare, WorkerShape
  <2>2. CASE w.provider # "none" \/ s \in EagerSessions
    <3> DEFINE v == [Posting(w, StartBatch(w)) EXCEPT !.phase = "starting", !.started = TRUE]
    <3>1. WorkerStep(s, v)
      BY <1>5, <2>2 DEF Prepare
    <3>2. Posts(w, v, StartBatch(w), "starting", TRUE)
      BY <1>1, <2>1, WorkerBatchesOf, PostingTyped DEF Busy
    <3> HIDE DEF v
    <3> QED BY <1>3, <2>1, <3>1, <3>2 DEF Posts
  <2>3. CASE ~(w.provider # "none" \/ s \in EagerSessions)
    <3> DEFINE v == [w EXCEPT !.phase = "running"]
    <3>1. WorkerStep(s, v)
      BY <1>5, <2>3 DEF Prepare
    <3>2. v.phase = "running" /\ v.reply = w.reply /\ SameJob(w, v)
      BY <1>1 DEF Worker, SameJob
    <3> HIDE DEF v
    <3> QED BY <1>3, <2>1, <3>1, <3>2
  <2> QED BY <2>2, <2>3
<1>6. CASE StartProcess(s)
  <2> DEFINE v == [w EXCEPT !.phase = "running", !.reply = "none"]
  <2>1. w.phase = "starting" /\ WorkerStep(s, v)
    BY <1>6 DEF StartProcess
  <2>2. v.phase = "running" /\ v.reply = "none" /\ SameJob(w, v) /\ v.started = w.started
    BY <1>1 DEF Worker, SameJob
  <2> HIDE DEF v
  <2> QED BY <1>3, <2>1, <2>2
<1>7. CASE SeeThread(s) \/ PublishStart(s)
  <2> DEFINE v == [Posting(w, StartBatch(w)) EXCEPT !.started = TRUE]
  <2>1. w.phase \in {"running", "ended"} /\ WorkerStep(s, v)
    BY <1>7 DEF SeeThread, PublishStart
  <2>2. Posts(w, v, StartBatch(w), w.phase, TRUE)
    BY <1>1, <2>1, WorkerBatchesOf, PostingTyped DEF Busy
  <2> HIDE DEF v
  <2> QED BY <1>3, <2>1, <2>2 DEF Posts
<1>8. ASSUME NEW end \in Ends, NEW said \in BOOLEAN, ProcessEnds(s, end, said) PROVE FirstInv'
  <2> DEFINE v == [w EXCEPT !.phase = "ended", !.end = end, !.said = said]
  <2>1. w.phase = "running" /\ WorkerStep(s, v)
    BY <1>8 DEF ProcessEnds
  <2>2. v.phase = "ended" /\ v.started = w.started /\ v.reply = w.reply /\ SameJob(w, v)
    BY <1>1 DEF Worker, SameJob
  <2> HIDE DEF v
  <2> QED BY <1>3, <2>1, <2>2
<1>9. CASE Conclude(s)
  <2> DEFINE v == [Posting(w, FinalBatch(w)) EXCEPT !.phase = "last"]
  <2>1. /\ w.phase = "ended" /\ (w.started \/ w.end \in {"broken", "aborted"})
        /\ WorkerStep(s, v) /\ w.end \in Ends
    BY <1>1, <1>9 DEF Conclude, WorkerShape
  <2>2. Posts(w, v, FinalBatch(w), "last", w.started)
    BY <1>1, <2>1, WorkerBatchesOf, PostingTyped DEF Busy
  <2> HIDE DEF v, w, b, G, n
  <2>3. SameJob(w, v) /\ LastBatch(v) /\ v.phase = "last" /\ v.reply = "waiting" /\ v.started = w.started
    BY <2>1, <2>2, SameFinal DEF Posts, LastBatch
  <2>4. FirstOK(b, v, G, n)
    BY <1>1, <2>1, <2>3, WorkerFirst
  <2> QED BY <1>2, <2>1, <2>4
<1>10. CASE Finish(s)
  <2>1. /\ WorkerStep(s, IdleWorker) /\ w.phase \in {"last", "refused"}
        /\ w.reply \in {"ok", "rejected"}
    BY <1>10 DEF Finish
  <2> HIDE DEF w, b, G, n
  <2>2. FirstOK(b, IdleWorker, G, n)
    <3>1. ~FirstLive(b)
      BY <1>1, <2>1 DEF FirstOK
    <3> QED BY <1>1, <3>1, IdleFirst
  <2> QED BY <1>2, <2>1, <2>2
<1>11. CASE WorkerRejects(s)
  <2>1. WorkerStep(s, IdleWorker) /\ w.reply = "rejected"
    BY <1>11 DEF WorkerRejects, Tidy
  <2> HIDE DEF w, b, G, n
  <2>2. FirstOK(b, IdleWorker, G, n)
    <3>1. ~FirstLive(b)
      BY <1>1, <2>1 DEF FirstOK
    <3> QED BY <1>1, <3>1, IdleFirst
  <2> QED BY <1>2, <2>1, <2>2
<1> QED BY <1>4, <1>5, <1>6, <1>7, <1>8, <1>9, <1>10, <1>11

(* The answer to its call: a first message's worker is never refused. *)
LEMMA FirstAnswer ==
    ASSUME ExecInv, ExecInv', FirstInv, Tidy, NEW s \in Sessions, Answer(s)
    PROVE  FirstInv'
<1> DEFINE w == worker[s]
           b == book[s]
           O == RequestsOf(s)
           G == GrantsOf(s)
           n == claims
           x == Request(s)
<1>1. /\ w \in Worker /\ WorkerShape(w) /\ Good(b) /\ n \in Nat /\ SessionOK(b, w, O, G, n)
      /\ FirstOK(b, w, G, n) /\ w.reply = "waiting"
      /\ book \in [Sessions -> Book] /\ worker \in [Sessions -> Worker]
  BY WorkerOf DEF FirstInv, First, Answer, ExecInv, LedgerInv, ExecTyped, ExecutionTypeOK
<1>2. x \in O /\ x.token = w.token /\ x.batch = w.batch
  BY <1>1 DEF RequestsOf, Request
<1>3. UNCHANGED <<daemon, calls, late>>
  BY DEF Answer
<1>4. late' = {} /\ CallsTidy' /\ \A u : GrantsOf(u)' = GrantsOf(u)
  BY <1>3, SameCalls, SameGrants DEF FirstInv
<1>5. CASE PostBatch(s, w.token, w.batch) /\ worker' = [worker EXCEPT ![s].reply = "ok"]
  <2> DEFINE q == AfterBatch(b, w.token, w.batch)
             v == [w EXCEPT !.reply = "ok"]
  <2>1. /\ BatchAccepted(b, w.token, w.batch)
        /\ book' = [book EXCEPT ![s] = q] /\ claims' = n
    BY <1>5, AppendedBook DEF PostBatch
  <2>2. worker' = [worker EXCEPT ![s] = v]
    BY <1>1, <1>5
  <2>3. Good(q)
    <3>1. Good(book'[s])
      BY DEF ExecInv, LedgerInv
    <3> QED BY <1>1, <2>1, <3>1
  <2>4. v = [w EXCEPT !.reply = "ok"] /\ q = AfterBatch(b, w.token, w.batch)
    OBVIOUS
  <2> HIDE DEF w, b, O, G, x, q, v
  <2>5. FirstOK(q, v, G, n)
    BY <1>1, <1>2, <2>1, <2>3, <2>4, PostFirst
  <2>6. FirstOK(q, v, GrantsOf(s)', claims') /\ claims' \in Nat /\ claims' >= claims
    BY <1>1, <1>4, <2>1, <2>5 DEF G
  <2>7. book' = [book EXCEPT ![s] = q]
    BY <2>1
  <2> QED BY <1>4, <2>2, <2>6, <2>7, FirstOne
<1>6. CASE /\ Refused(s, w.token, w.batch) /\ UNCHANGED ledgerVars
           /\ worker' = [worker EXCEPT ![s].reply = "rejected"]
  <2> DEFINE v == [w EXCEPT !.reply = "rejected"]
  <2>1. ~BatchAccepted(b, w.token, w.batch)
    BY <1>6 DEF Refused, MayAbort, Tidy
  <2>2. WorkerStep(s, v)
    BY <1>1, <1>3, <1>6 DEF WorkerStep, ledgerVars, Answer
  <2>3. /\ v.phase = w.phase /\ v.started = w.started /\ v.end = w.end /\ v.said = w.said
        /\ SameJob(w, v) /\ v.batch = w.batch
    BY <1>1 DEF Worker, SameJob
  <2> HIDE DEF w, b, O, G, x, v, n
  <2>4. ~FirstLive(b)
    BY <1>1, <1>2, <2>1, FirstAccepted
  <2>5. v.phase = "last" => LastBatch(v)
    <3>1. FinalBatch(v) = FinalBatch(w) /\ RefusalBatch(v) = RefusalBatch(w)
      BY <2>3, SameFinal, SameBatches
    <3>2. v.phase = "last" => LastBatch(w)
      BY <1>1, <2>3 DEF FirstOK
    <3> QED BY <2>3, <3>1, <3>2 DEF LastBatch
  <2>6. FirstOK(b, v, G, n)
    BY <1>1, <2>3, <2>4, <2>5 DEF FirstOK
  <2> QED BY <2>2, <2>6, FirstWork DEF b, G, n
<1> QED BY <1>5, <1>6 DEF Answer
----------------------------------------------------------------------------
(* The runner process, and the steps that a tidy run does not take. *)
LEMMA FirstDaemon ==
    ASSUME ExecInv, FirstInv, Tidy, DaemonNext
    PROVE  FirstInv'
<1>1. CallsTidy /\ late = {} /\ 0 \in Callers /\ daemon \in [run : 0..MaxRuns, up : BOOLEAN, stopping : BOOLEAN]
  BY CallsTyped, ExecutionAssumption DEF FirstInv, Callers, CallTypes
<1>2. ASSUME UNCHANGED <<book, claims, worker, calls, late>>, CallsTidy' PROVE FirstInv'
  <2>1. \A u : GrantsOf(u)' = GrantsOf(u)
    BY <1>2, SameGrants
  <2> QED BY <1>1, <1>2, <2>1, FirstNone
<1>3. CASE StartDaemon
  <2>1. UNCHANGED <<book, claims, worker, calls, late>> /\ ~daemon.up
    BY <1>3 DEF StartDaemon
  <2>2. CallsTidy'
    BY <1>1, <2>1 DEF CallsTidy
  <2> QED BY <1>2, <2>1, <2>2
<1>4. CASE Stop \/ GoOffline \/ Heartbeat
  <2>1. /\ UNCHANGED <<book, claims, worker, calls, late>>
        /\ daemon'.up = daemon.up /\ daemon'.run = daemon.run
    BY <1>1, <1>4 DEF Stop, GoOffline, Heartbeat
  <2> QED BY <1>1, <1>2, <2>1, SameCalls
<1>5. CASE Exit
  <2>1. /\ daemon.up /\ calls[daemon.run] = NoCall /\ \A s \in Sessions : ~Busy(s)
        /\ UNCHANGED <<book, claims, calls>> /\ worker' = [s \in Sessions |-> IdleWorker]
        /\ late' = late \cup {Request(s) : s \in Unanswered}
    BY <1>5 DEF Exit, DaemonEnds
  <2>2. \A s \in Sessions : worker[s] = IdleWorker
    BY <2>1, WorkerOf DEF Busy, WorkerShape
  <2>3. worker' = worker
    BY <2>1, <2>2 DEF ExecInv, ExecTyped, ExecutionTypeOK
  <2>4. late' = late
    BY <2>1, <2>2 DEF Unanswered, IdleWorker
  <2>5. CallsTidy'
    BY <1>1, <2>1 DEF CallsTidy
  <2> QED BY <1>2, <2>1, <2>3, <2>4, <2>5
<1>6. ~Crash /\ ~Restart
  BY DEF Tidy, Crash, Restart
<1> QED BY <1>3, <1>4, <1>5, <1>6 DEF DaemonNext

LEMMA FirstStep ==
    ASSUME ExecInv, ExecInv', FirstInv, Tidy, ExecutionNext
    PROVE  FirstInv'
<1>1. CASE UserNext
  BY <1>1, FirstUser DEF UserNext
<1>2. ASSUME NEW i \in Callers, ClaimNext(i) PROVE FirstInv'
  <2>1. ~LoseGrant(i)
    BY DEF LoseGrant, Tidy
  <2>2. ~FailSession(i) /\ \A lease \in calls[i].leases : ~Examine(i, lease)
    BY DEF FirstInv, CallsTidy, FailSession
  <2> QED BY <1>2, <2>1, <2>2, FirstPoll, FirstClaim, FirstReceive DEF ClaimNext
<1>3. ASSUME NEW s \in Sessions, WorkerNext(s) PROVE FirstInv'
  <2>1. ~StopWaiting(s)
    BY DEF StopWaiting, Tidy
  <2> QED BY <1>3, <2>1, FirstWorker, FirstAnswer DEF WorkerNext
<1>4. ASSUME NEW s \in Sessions, Expire(s) PROVE FirstInv'
  BY <1>4, FirstUser
<1>5. ~\E r \in late : AnswerLate(r)
  BY DEF FirstInv
<1>6. CASE DaemonNext
  BY <1>6, FirstDaemon
<1> QED BY <1>1, <1>2, <1>3, <1>4, <1>5, <1>6 DEF ExecutionNext

LEMMA FirstInit == ExecutionInit => FirstInv
<1> SUFFICES ASSUME ExecutionInit PROVE FirstInv
  OBVIOUS
<1>1. /\ \A s \in Sessions : book[s] = EmptyBook /\ worker[s] = IdleWorker
      /\ \A i \in Callers : calls[i] = NoCall
      /\ late = {} /\ claims = 0 /\ 0 \in Callers
  BY ExecutionAssumption DEF ExecutionInit, LedgerInit, Callers
<1>2. CallsTidy
  BY <1>1 DEF CallsTidy, NoCall
<1>3. ASSUME NEW s \in Sessions PROVE First(s)
  <2>1. GrantsOf(s) = {}
    BY <1>1 DEF GrantsOf, NoCall
  <2>2. IdleWorker.phase = "idle"
    BY DEF IdleWorker
  <2>3. /\ EmptyBook.state = "absent" /\ EmptyBook.lease = NoLease
        /\ ~NoLease.expired /\ NoLease.id = 0
        /\ \A src \in Sources : EmptyBook.streams[src] = 0
    BY DEF EmptyBook, NoLease, NoToken
  <2>4. \A m \in Messages : RunnerSource(m) \in Sources
    BY DEF RunnerSource, Sources
  <2> QED BY <1>1, <2>1, <2>2, <2>3, <2>4 DEF First, FirstOK, FirstLive
<1> QED BY <1>1, <1>2, <1>3 DEF FirstInv

(* claimSession, the claim's answer, the runner's loop and its workers: without crashes,
   lost answers, expired leases and aborted transactions (Tidy), a first message that was
   dispatched is in somebody's hands until its session ends or its outcome is recorded. *)
THEOREM FirstMessageCarried == ASSUME Tidy PROVE ExecutionSpec => []FirstClaimCarried
<1>1. ExecInv /\ ExecInv' /\ FirstInv /\ [ExecutionNext]_execVars => FirstInv'
  <2>1. ASSUME ExecInv, FirstInv, UNCHANGED execVars PROVE FirstInv'
    <3>1. UNCHANGED <<book, claims, worker, calls, late, daemon>>
      BY <2>1 DEF execVars
    <3>2. CallsTidy' /\ late' = {} /\ \A u : GrantsOf(u)' = GrantsOf(u)
      BY <2>1, <3>1, SameCalls, SameGrants DEF FirstInv
    <3> QED BY <2>1, <3>1, <3>2, FirstNone
  <2> QED BY <2>1, FirstStep
<1>2. ExecInv /\ FirstInv => FirstClaimCarried
  <2> SUFFICES ASSUME ExecInv, FirstInv, NEW s \in Sessions, FirstLive(book[s])
               PROVE  Carried(s)
    BY DEF FirstClaimCarried, FirstLive
  <2>1. FirstOK(book[s], worker[s], GrantsOf(s), claims)
    BY DEF FirstInv, First
  <2>2. Busy(s) \/ GrantsOf(s) # {}
    BY <2>1 DEF FirstOK, Busy
  <2> QED BY <2>2 DEF Carried, GrantsOf
<1> QED BY <1>1, <1>2, FirstInit, ExecutionInvariant, PTL DEF ExecutionSpec
=============================================================================
