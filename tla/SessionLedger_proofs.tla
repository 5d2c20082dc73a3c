------------------------ MODULE SessionLedger_proofs ------------------------
(***************************************************************************)
(* The invariants of the session ledger hold for every number of sessions  *)
(* and messages, every set of batches a lease holder may post and every    *)
(* bound.  The argument is about one book: an accepted event, a claim, a   *)
(* launch and an expiry each keep a book good (Good), and an action of the *)
(* ledger changes one book.                                                *)
(***************************************************************************)
EXTENDS SessionLedger, TLAPS

(* The states in which a response to the active message has started. *)
Responding == {"running", "interrupted", "waiting_for_handoff"}

(* The kinds of event the control plane appends without a lease. *)
ControlKinds == {"user_message_submitted", "close_requested", "closed", "runtime_lost"}

----------------------------------------------------------------------------
LEMMA KindCases ==
    ASSUME NEW e \in Event
    PROVE  \/ e.kind \in PassiveKinds
           \/ e.kind \in OutcomeKinds
           \/ e.kind \in FailureKinds
           \/ e.kind = "user_message_submitted"
           \/ e.kind = "runtime_dispatched"
           \/ e.kind = "provider_started"
           \/ e.kind = "response_started"
           \/ e.kind = "interrupted"
           \/ e.kind = "resumed"
           \/ e.kind = "handoff_requested"
           \/ e.kind = "handoff_completed"
           \/ e.kind = "closed"
  BY DEF Event, EventKind

LEMMA AcceptedStates ==
    ASSUME NEW b, NEW e \in Event, Accepts(b, e)
    PROVE  /\ b.state \in NonTerminal
           /\ e.kind = "user_message_submitted" =>
                 b.state \in {"queued", "ready", "interrupted"} /\ e.msg # NoMessage
           /\ e.kind = "runtime_dispatched" => b.state \in {"queued", "message_pending"}
           /\ e.kind = "provider_started" => b.state = "dispatched"
           /\ e.kind = "response_started" =>
                 /\ b.state \in {"dispatched", "message_pending", "interrupted"}
                 /\ e.msg = b.active /\ e.msg # NoMessage
           /\ e.kind = "interrupted" => b.state = "running"
           /\ e.kind = "resumed" => b.state = "interrupted"
           /\ e.kind = "handoff_requested" => b.state \in {"running", "interrupted"}
           /\ e.kind = "handoff_completed" => b.state = "waiting_for_handoff"
           /\ e.kind \in OutcomeKinds =>
                 b.state \in Responding /\ e.msg = b.active /\ e.msg # NoMessage
  BY DEF Accepts, AcceptedFrom, Event, EventKind, PassiveKinds, LaunchFacts, ResponseFacts,
         InterruptFacts, FailureKinds, OutcomeKinds, NonTerminal, Terminal, SessionState,
         Responding

(* What every accepted event keeps of a session row, whatever its kind. *)
ProjectionKeeps(b, e, q) ==
    /\ q \in Book
    /\ q.head = b.head /\ q.rows = b.rows /\ q.streams = b.streams /\ q.lease = b.lease
    /\ q.state \in SessionState
    /\ q.active # NoMessage <=> q.state \in NonTerminal \ {"ready"}
    /\ q.active \in {NoMessage, b.active} \/ (e.kind = "user_message_submitted" /\ q.active = e.msg)
    /\ q.state = "queued" => b.state = "queued"
    /\ b.state = "queued" /\ e.kind \in ControlKinds => q.state \in {"queued"} \cup Terminal
    /\ q.state \in Responding =>
          /\ q.active = b.active
          /\ b.state \in Responding \/ (e.kind = "response_started" /\ e.msg = b.active)
    /\ e.kind \in OutcomeKinds => q.active = NoMessage

LEMMA ProjectionKept ==
    ASSUME NEW b \in Book, NEW e \in Event, Accepts(b, e),
           b.active # NoMessage <=> b.state \in NonTerminal \ {"ready"}
    PROVE  ProjectionKeeps(b, e, Project(b, e))
<1> USE DEF SessionState, NonTerminal, Terminal, Responding, ControlKinds
<1>1. CASE e.kind \in PassiveKinds
  <2>1. Project(b, e) = b
    BY <1>1 DEF Project, PassiveKinds, LaunchFacts, ResponseFacts,
       InterruptFacts, OutcomeKinds, FailureKinds
  <2>2. e.kind \in ControlKinds => e.kind = "close_requested"
    BY <1>1 DEF PassiveKinds, LaunchFacts, ResponseFacts, InterruptFacts
  <2>3. e.kind \notin OutcomeKinds
    BY <1>1 DEF PassiveKinds, LaunchFacts, ResponseFacts, InterruptFacts, OutcomeKinds
  <2> QED BY <2>1, <2>3, AcceptedStates DEF ProjectionKeeps
<1>2. CASE e.kind \in OutcomeKinds
  <2>1. Project(b, e) = [b EXCEPT !.state = "ready", !.last = e.msg, !.active = NoMessage,
                                  !.mode = "none"]
    BY <1>2 DEF Project, PassiveKinds, LaunchFacts, ResponseFacts,
       InterruptFacts, OutcomeKinds, FailureKinds
  <2>2. e.msg \in Messages /\ b.state \in Responding
    BY <1>2, AcceptedStates DEF Event
  <2>3. e.kind \notin ControlKinds
    BY <1>2 DEF OutcomeKinds
  <2>4. Project(b, e) \in Book
    BY <2>1, <2>2 DEF Book
  <2> QED BY <2>1, <2>2, <2>3, <2>4 DEF ProjectionKeeps, Book
<1>3. CASE e.kind \in FailureKinds
  <2>1. Project(b, e) = [b EXCEPT !.state = "failed", !.active = NoMessage, !.mode = "none"]
    BY <1>3 DEF Project, PassiveKinds, LaunchFacts, ResponseFacts,
       InterruptFacts, OutcomeKinds, FailureKinds
  <2>2. e.kind \notin OutcomeKinds
    BY <1>3 DEF OutcomeKinds, FailureKinds
  <2>3. Project(b, e) \in Book
    BY <2>1 DEF Book
  <2> QED BY <2>1, <2>2, <2>3 DEF ProjectionKeeps, Book
<1>4. CASE e.kind = "user_message_submitted"
  <2>1. Project(b, e) =
          [b EXCEPT !.state = IF b.state = "queued" THEN "queued" ELSE "message_pending",
                    !.active = e.msg, !.mode = "none"]
    BY <1>4 DEF Project, PassiveKinds, LaunchFacts, ResponseFacts,
       InterruptFacts, OutcomeKinds, FailureKinds
  <2>2. e.msg \in Messages /\ e.msg # NoMessage /\ b.state \in {"queued", "ready", "interrupted"}
    BY <1>4, AcceptedStates DEF Event
  <2>3. e.kind \notin OutcomeKinds
    BY <1>4 DEF OutcomeKinds
  <2>4. Project(b, e) \in Book
    BY <2>1, <2>2 DEF Book
  <2> QED BY <1>4, <2>1, <2>2, <2>3, <2>4 DEF ProjectionKeeps, Book
<1>5. CASE e.kind \in {"runtime_dispatched", "provider_started"}
  <2>1. \E st \in {"dispatched", "message_pending"} : Project(b, e) = [b EXCEPT !.state = st]
    BY <1>5 DEF Project, PassiveKinds, LaunchFacts, ResponseFacts,
       InterruptFacts, OutcomeKinds, FailureKinds
  <2>2. b.state \in {"queued", "message_pending", "dispatched"}
    BY <1>5, AcceptedStates
  <2>3. e.kind \notin OutcomeKinds \cup ControlKinds
    BY <1>5 DEF OutcomeKinds
  <2>4. Project(b, e) \in Book
    BY <2>1 DEF Book
  <2> QED BY <2>1, <2>2, <2>3, <2>4 DEF ProjectionKeeps, Book
<1>6. CASE e.kind = "response_started"
  <2>1. Project(b, e) = [b EXCEPT !.state = "running", !.mode = "none"]
    BY <1>6 DEF Project, PassiveKinds, LaunchFacts, ResponseFacts,
       InterruptFacts, OutcomeKinds, FailureKinds
  <2>2. /\ b.state \in {"dispatched", "message_pending", "interrupted"}
        /\ e.msg = b.active /\ e.msg # NoMessage
    BY <1>6, AcceptedStates
  <2>3. e.kind \notin OutcomeKinds \cup ControlKinds
    BY <1>6 DEF OutcomeKinds
  <2>4. Project(b, e) \in Book
    BY <2>1 DEF Book
  <2> QED BY <1>6, <2>1, <2>2, <2>3, <2>4 DEF ProjectionKeeps, Book
<1>7. CASE e.kind \in {"interrupted", "resumed"}
  <2>1. \E st \in {"interrupted", "running", "message_pending"}, md \in ContinuationMode \cup {"none"} :
           Project(b, e) = [b EXCEPT !.state = st, !.mode = md]
    <3>1. CASE e.kind = "interrupted"
      <4>1. Project(b, e) = [b EXCEPT !.state = "interrupted", !.mode = e.body]
        BY <3>1 DEF Project, PassiveKinds, LaunchFacts, ResponseFacts,
           InterruptFacts, OutcomeKinds, FailureKinds
      <4> QED BY <4>1, <3>1 DEF Event
    <3>2. CASE e.kind = "resumed"
      <4>1. Project(b, e) = [b EXCEPT !.state = IF e.body = "resume_message" THEN "running"
                                               ELSE "message_pending",
                                      !.mode = "none"]
        BY <3>2 DEF Project, PassiveKinds, LaunchFacts, ResponseFacts,
           InterruptFacts, OutcomeKinds, FailureKinds
      <4> QED BY <4>1
    <3> QED BY <1>7, <3>1, <3>2
  <2>2. b.state \in {"running", "interrupted"}
    BY <1>7, AcceptedStates
  <2>3. e.kind \notin OutcomeKinds \cup ControlKinds
    BY <1>7 DEF OutcomeKinds
  <2>4. Project(b, e) \in Book
    BY <2>1 DEF Book
  <2> QED BY <2>1, <2>2, <2>3, <2>4 DEF ProjectionKeeps, Book
<1>8. CASE e.kind = "handoff_requested"
  <2>1. Project(b, e) = [b EXCEPT !.state = "waiting_for_handoff"]
    BY <1>8 DEF Project, PassiveKinds, LaunchFacts, ResponseFacts,
       InterruptFacts, OutcomeKinds, FailureKinds
  <2>2. b.state \in {"running", "interrupted"}
    BY <1>8, AcceptedStates
  <2>3. e.kind \notin OutcomeKinds \cup ControlKinds
    BY <1>8 DEF OutcomeKinds
  <2>4. Project(b, e) \in Book
    BY <2>1 DEF Book
  <2> QED BY <2>1, <2>2, <2>3, <2>4 DEF ProjectionKeeps, Book
<1>9. CASE e.kind = "handoff_completed"
  <2>1. Project(b, e) = [b EXCEPT !.state = "ready", !.last = b.active, !.active = NoMessage]
    BY <1>9 DEF Project, PassiveKinds, LaunchFacts, ResponseFacts,
       InterruptFacts, OutcomeKinds, FailureKinds
  <2>2. b.state = "waiting_for_handoff"
    BY <1>9, AcceptedStates
  <2>3. e.kind \notin OutcomeKinds \cup ControlKinds
    BY <1>9 DEF OutcomeKinds
  <2>4. Project(b, e) \in Book
    BY <2>1 DEF Book
  <2> QED BY <2>1, <2>2, <2>3, <2>4 DEF ProjectionKeeps, Book
<1>10. CASE e.kind = "closed"
  <2>1. Project(b, e) = [b EXCEPT !.state = "closed", !.active = NoMessage, !.mode = "none"]
    BY <1>10 DEF Project, PassiveKinds, LaunchFacts, ResponseFacts,
       InterruptFacts, OutcomeKinds, FailureKinds
  <2>2. e.kind \notin OutcomeKinds
    BY <1>10 DEF OutcomeKinds
  <2>3. Project(b, e) \in Book
    BY <2>1 DEF Book
  <2> QED BY <2>1, <2>2, <2>3 DEF ProjectionKeeps, Book
<1> QED BY <1>1, <1>2, <1>3, <1>4, <1>5, <1>6, <1>7, <1>8, <1>9, <1>10, KindCases

----------------------------------------------------------------------------
(* The inductive invariant, about one book.  A batch of two events passes
   through a book that is no state of the ledger: there a terminal session may
   still have its lease, which Settled then deletes.  MidInv is what holds
   there, Good what holds between transactions. *)
Submitted(b, m) == \E r \in b.rows : r.kind = "user_message_submitted" /\ r.msg = m
Answering(b, m) == \E r \in b.rows : r.kind = "response_started" /\ r.msg = m

RowsInv(b) ==
    /\ GlobalSequenceOf(b)
    /\ SourceSequenceOf(b)

HistoryInv(b) ==
    /\ \A r, q \in b.rows :
          r.kind = "user_message_submitted" /\ q.kind = "user_message_submitted"
          /\ r.msg = q.msg => r = q
    /\ \A r, q \in b.rows :
          r.kind \in OutcomeKinds /\ q.kind \in OutcomeKinds /\ r.msg = q.msg => r = q
    /\ \A r \in b.rows : r.kind \in OutcomeKinds => r.msg # b.active /\ r.msg # NoMessage
    /\ \A r \in b.rows :
          /\ r.kind = "response_started" => Precedes(b, "user_message_submitted", r)
          /\ r.kind \in OutcomeKinds => Precedes(b, "response_started", r)

ActiveInv(b) ==
    /\ b.active # NoMessage <=> b.state \in NonTerminal \ {"ready"}
    /\ b.active # NoMessage => Submitted(b, b.active)
    /\ b.state \in Responding => Answering(b, b.active)

LeaseInv(b) ==
    /\ b.state \in {"absent", "queued"} => ~HasLease(b)
    /\ b.state \in Held => HasLease(b)

MidInv(b) == b \in Book /\ RowsInv(b) /\ HistoryInv(b) /\ ActiveInv(b) /\ LeaseInv(b)

Good(b) ==
    /\ MidInv(b)
    /\ b.state \in Terminal => ~HasLease(b)
    /\ b.state = "absent" => b.rows = {} /\ b.head = 0

(* q's ledger is b's with new rows after it. *)
Extends(b, q) ==
    /\ b.rows \subseteq q.rows
    /\ b.head =< q.head
    /\ \A r \in q.rows \ b.rows : r.global > b.head

(* q's ledger is b's with the event e after it. *)
Records(b, e, q) ==
    /\ q.head = b.head + 1
    /\ q.streams = [b.streams EXCEPT ![e.source] = e.seq]
    /\ q.rows = b.rows \cup {RowOf(e, b.head + 1)}

----------------------------------------------------------------------------
LEMMA RowsRecorded ==
    ASSUME NEW b \in Book, NEW e \in Event, NEW q \in Book, Records(b, e, q),
           RowsInv(b), e.seq = b.streams[e.source] + 1
    PROVE  RowsInv(q) /\ Extends(b, q)
<1> DEFINE new == RowOf(e, b.head + 1)
<1>1. /\ q.head = b.head + 1 /\ b.head \in Nat
      /\ q.rows = b.rows \cup {new}
      /\ new.global = b.head + 1 /\ new.source = e.source /\ new.seq = e.seq
  BY DEF Records, RowOf, Book
<1>2. /\ e.source \in Sources /\ b.streams \in [Sources -> Nat]
      /\ q.streams[e.source] = e.seq
      /\ \A src \in Sources : src # e.source => q.streams[src] = b.streams[src]
  BY DEF Records, Book, Event
<1>3. \A r \in b.rows : r.source \in Sources /\ r.global \in Nat /\ r.seq \in Nat
  BY DEF Book, Row
<1> HIDE DEF new
<1>4. GlobalSequenceOf(q)
  <2>1. \A r \in q.rows : r.global \in 1..q.head
    BY <1>1 DEF RowsInv, GlobalSequenceOf
  <2>2. \A g \in 1..q.head : \E r \in q.rows : r.global = g
    BY <1>1 DEF RowsInv, GlobalSequenceOf
  <2>3. \A r, p \in q.rows : r.global = p.global => r = p
    BY <1>1 DEF RowsInv, GlobalSequenceOf
  <2> QED BY <2>1, <2>2, <2>3 DEF GlobalSequenceOf
<1>5. SourceSequenceOf(q)
  <2>1. \A r \in q.rows : r.seq \in 1..q.streams[r.source]
    <3> SUFFICES ASSUME NEW r \in q.rows PROVE r.seq \in 1..q.streams[r.source]
      OBVIOUS
    <3>1. CASE r = new
      BY <3>1, <1>1, <1>2
    <3>2. CASE r \in b.rows /\ r.source = e.source
      BY <3>2, <1>1, <1>2 DEF RowsInv, SourceSequenceOf
    <3>3. CASE r \in b.rows /\ r.source # e.source
      BY <3>3, <1>1, <1>2, <1>3 DEF RowsInv, SourceSequenceOf
    <3> QED BY <3>1, <3>2, <3>3, <1>1
  <2>2. ASSUME NEW src \in Sources, NEW n \in 1..q.streams[src]
        PROVE  \E r \in q.rows : r.source = src /\ r.seq = n
    <3>1. CASE src = e.source /\ n = e.seq
      BY <3>1, <1>1
    <3>2. CASE ~(src = e.source /\ n = e.seq)
      <4>1. n \in 1..b.streams[src]
        BY <3>2, <1>2
      <4> QED BY <4>1, <1>1 DEF RowsInv, SourceSequenceOf
    <3> QED BY <3>1, <3>2
  <2>3. \A r, p \in q.rows : r.source = p.source /\ r.seq = p.seq => r = p
    <3> SUFFICES ASSUME NEW r \in q.rows, NEW p \in q.rows, r.source = p.source, r.seq = p.seq
                 PROVE  r = p
      OBVIOUS
    <3>1. \A x \in b.rows : ~(x.source = e.source /\ x.seq = e.seq)
      BY <1>2, <1>3 DEF RowsInv, SourceSequenceOf
    <3> QED BY <3>1, <1>1 DEF RowsInv, SourceSequenceOf
  <2> QED BY <2>1, <2>2, <2>3 DEF SourceSequenceOf
<1>6. Extends(b, q)
  BY <1>1 DEF Extends
<1> QED BY <1>4, <1>5, <1>6 DEF RowsInv

LEMMA HistoryRecorded ==
    ASSUME NEW b \in Book, NEW e \in Event, NEW q \in Book, Records(b, e, q),
           RowsInv(b), HistoryInv(b), ActiveInv(b), Accepts(b, e),
           e.kind = "user_message_submitted" => ~Mentioned(b, e.msg),
           NEW p, ProjectionKeeps(b, e, p), q.state = p.state, q.active = p.active
    PROVE  HistoryInv(q) /\ ActiveInv(q)
<1> DEFINE new == RowOf(e, b.head + 1)
<1>1. /\ q.rows = b.rows \cup {new} /\ b.head \in Nat
      /\ new.global = b.head + 1 /\ new.kind = e.kind /\ new.msg = e.msg
      /\ \A r \in b.rows : r.global \in Nat /\ r.global < new.global
  BY DEF Records, RowOf, Book, RowsInv, GlobalSequenceOf
<1> HIDE DEF new
<1>2. e.kind = "user_message_submitted" =>
          e.msg # NoMessage /\ \A r \in b.rows : r.msg # e.msg
  BY DEF Mentioned, Accepts
<1>3. e.kind = "response_started" => e.msg = b.active /\ e.msg # NoMessage
  BY AcceptedStates
<1>4. e.kind \in OutcomeKinds =>
          /\ b.state \in Responding /\ e.msg = b.active /\ e.msg # NoMessage
          /\ q.active = NoMessage
  BY AcceptedStates DEF ProjectionKeeps
<1>5. q.active \in {NoMessage, b.active} \/ (e.kind = "user_message_submitted" /\ q.active = e.msg)
  BY DEF ProjectionKeeps
<1>7. \A x, y \in q.rows :
          x.kind = "user_message_submitted" /\ y.kind = "user_message_submitted"
          /\ x.msg = y.msg => x = y
  BY <1>1, <1>2 DEF HistoryInv
<1>8. \A x, y \in q.rows :
          x.kind \in OutcomeKinds /\ y.kind \in OutcomeKinds /\ x.msg = y.msg => x = y
  BY <1>1, <1>4 DEF HistoryInv
<1>9. \A x \in q.rows : x.kind \in OutcomeKinds => x.msg # q.active /\ x.msg # NoMessage
  <2> SUFFICES ASSUME NEW x \in q.rows, x.kind \in OutcomeKinds
               PROVE  x.msg # q.active /\ x.msg # NoMessage
    OBVIOUS
  <2>1. CASE x = new
    BY <2>1, <1>1, <1>4
  <2>2. CASE x \in b.rows
    BY <2>2, <1>2, <1>5 DEF HistoryInv
  <2> QED BY <2>1, <2>2, <1>1
<1>10. ASSUME NEW x \in q.rows, x.kind = "response_started"
       PROVE  Precedes(q, "user_message_submitted", x)
  <2>1. CASE x = new
    <3>1. Submitted(b, b.active)
      BY <2>1, <1>10, <1>1, <1>3 DEF ActiveInv
    <3> QED BY <3>1, <2>1, <1>10, <1>1, <1>3 DEF Submitted, Precedes
  <2>2. CASE x \in b.rows
    BY <2>2, <1>1, <1>10 DEF HistoryInv, Precedes
  <2> QED BY <2>1, <2>2, <1>1
<1>11. ASSUME NEW x \in q.rows, x.kind \in OutcomeKinds
       PROVE  Precedes(q, "response_started", x)
  <2>1. CASE x = new
    <3>1. Answering(b, b.active)
      BY <2>1, <1>11, <1>1, <1>4 DEF ActiveInv
    <3> QED BY <3>1, <2>1, <1>11, <1>1, <1>4 DEF Answering, Precedes
  <2>2. CASE x \in b.rows
    BY <2>2, <1>1, <1>11 DEF HistoryInv, Precedes
  <2> QED BY <2>1, <2>2, <1>1
<1>12. q.active # NoMessage <=> q.state \in NonTerminal \ {"ready"}
  BY DEF ProjectionKeeps
<1>13. q.active # NoMessage => Submitted(q, q.active)
  BY <1>1, <1>5 DEF ActiveInv, Submitted
<1>14. q.state \in Responding => Answering(q, q.active)
  <2> SUFFICES ASSUME q.state \in Responding PROVE Answering(q, q.active)
    OBVIOUS
  <2>1. /\ q.active = b.active
        /\ b.state \in Responding \/ (e.kind = "response_started" /\ e.msg = b.active)
    BY DEF ProjectionKeeps
  <2> QED BY <2>1, <1>1 DEF ActiveInv, Answering
<1> QED BY <1>7, <1>8, <1>9, <1>10, <1>11, <1>12, <1>13, <1>14 DEF HistoryInv, ActiveInv

----------------------------------------------------------------------------
(* One event of appendSessionEvents.  Only the kinds the control plane appends
   itself may come without a lease. *)
MayAppend(b, token, e) ==
    /\ e.kind \notin ControlKinds => HasLease(b)
    /\ token # NoToken => HasLease(b)

LEMMA EventInserted ==
    ASSUME NEW b, MidInv(b), NEW e \in Event, NEW token \in Nat, MayAppend(b, token, e), IsNew(b, e)
    PROVE  /\ MidInv(Inserted(b, e, token))
           /\ Extends(b, Inserted(b, e, token))
           /\ Inserted(b, e, token).head = b.head + 1
           /\ HasLease(Inserted(b, e, token)) <=> HasLease(b)
           /\ Inserted(b, e, token).state # "absent"
           /\ b.state \in NonTerminal
<1> DEFINE p == Project(b, e)
           q == Inserted(b, e, token)
<1>1. b \in Book /\ RowsInv(b) /\ HistoryInv(b) /\ ActiveInv(b) /\ LeaseInv(b)
  BY DEF MidInv
<1>2. /\ Accepts(b, e) /\ e.seq = b.streams[e.source] + 1
      /\ e.kind = "user_message_submitted" => ~Mentioned(b, e.msg)
  BY DEF IsNew
<1>3. ProjectionKeeps(b, e, p)
  BY <1>1, <1>2, ProjectionKept DEF ActiveInv
<1>4. /\ p \in Book /\ p.lease = b.lease
      /\ p.state = "queued" => b.state = "queued"
      /\ p.state # "absent"
      /\ b.state = "queued" /\ e.kind \in ControlKinds => p.state \in {"queued"} \cup Terminal
  BY <1>3 DEF ProjectionKeeps, SessionState
<1>5. b.state \in NonTerminal
  BY <1>2, AcceptedStates
<1> HIDE DEF p
<1>6. PICK lease \in Lease \cup {NoLease} :
          /\ q = [p EXCEPT !.head = b.head + 1,
                           !.streams = [b.streams EXCEPT ![e.source] = e.seq],
                           !.rows = b.rows \cup {RowOf(e, b.head + 1)},
                           !.lease = lease]
          /\ lease.token = b.lease.token
  <2>1. CASE e.kind = "provider_started" /\ token # NoToken
    <3>1. b.lease \in Lease
      BY <1>1, <2>1 DEF MayAppend, HasLease, Book, NoLease, NoToken
    <3>2. e.body \in Body
      BY DEF Event
    <3>3. [b.lease EXCEPT !.provider = e.body] \in Lease
      BY <3>1, <3>2 DEF Lease
    <3>4. [b.lease EXCEPT !.provider = e.body].token = b.lease.token
      BY <3>1 DEF Lease
    <3> QED BY <3>3, <3>4, <2>1 DEF Inserted, p
  <2>2. CASE ~(e.kind = "provider_started" /\ token # NoToken)
    BY <2>2, <1>1 DEF Inserted, p, Book
  <2> QED BY <2>1, <2>2
<1>7. /\ b.head + 1 \in Nat
      /\ [b.streams EXCEPT ![e.source] = e.seq] \in [Sources -> Nat]
      /\ b.rows \cup {RowOf(e, b.head + 1)} \in SUBSET Row
  BY <1>1 DEF Event, Book, RowOf, Row
<1>8. q \in Book
  BY <1>4, <1>6, <1>7 DEF Book
<1>9. Records(b, e, q) /\ q.state = p.state /\ q.active = p.active /\ q.lease.token = b.lease.token
  BY <1>4, <1>6 DEF Records, Book
<1> HIDE DEF q
<1>10. RowsInv(q) /\ Extends(b, q)
  BY <1>1, <1>2, <1>8, <1>9, RowsRecorded
<1>11. HistoryInv(q) /\ ActiveInv(q)
  BY <1>1, <1>2, <1>3, <1>8, <1>9, HistoryRecorded
<1>12. HasLease(q) <=> HasLease(b)
  BY <1>9 DEF HasLease
<1>13. LeaseInv(q)
  <2>1. q.state \in {"absent", "queued"} => ~HasLease(q)
    BY <1>1, <1>4, <1>9, <1>12 DEF LeaseInv
  <2>2. ASSUME q.state \in Held PROVE HasLease(q)
    <3>1. CASE b.state = "queued"
      <4>1. q.state \notin {"queued"} \cup Terminal
        BY <2>2 DEF Held, NonTerminal
      <4> QED BY <3>1, <4>1, <1>4, <1>9, <1>12 DEF MayAppend
    <3>2. CASE b.state # "queued"
      BY <3>2, <1>1, <1>5, <1>12 DEF LeaseInv, Held
    <3> QED BY <3>1, <3>2
  <2> QED BY <2>1, <2>2 DEF LeaseInv
<1>14. q.head = b.head + 1
  BY <1>9 DEF Records
<1>15. q.state # "absent"
  BY <1>4, <1>9
<1> QED BY <1>5, <1>8, <1>10, <1>11, <1>12, <1>13, <1>14, <1>15 DEF MidInv, q

LEMMA ExtendsTransitive ==
    ASSUME NEW a \in Book, NEW b \in Book, NEW c \in Book, Extends(a, b), Extends(b, c)
    PROVE  Extends(a, c)
<1>1. \A r \in c.rows : r.global \in Nat
  BY DEF Book, Row
<1> QED BY <1>1 DEF Extends, Book

LEMMA EventApplied ==
    ASSUME NEW b, MidInv(b), NEW e \in Event, NEW token \in Nat, MayAppend(b, token, e),
           Tolerates(b, e)
    PROVE  LET q == Applied(b, e, token) IN
           /\ MidInv(q) /\ Extends(b, q)
           /\ HasLease(q) <=> HasLease(b)
           /\ q.head >= b.head
           /\ b.state # "absent" => q.state # "absent"
           /\ q = b \/ (b.state \in NonTerminal /\ q.head > b.head)
<1>1. b.head \in Nat /\ Extends(b, b)
  BY DEF MidInv, Book, Extends
<1>2. CASE IsReplay(b, e)
  BY <1>1, <1>2 DEF Applied
<1>3. CASE ~IsReplay(b, e)
  <2>1. IsNew(b, e) /\ Applied(b, e, token) = Inserted(b, e, token)
    BY <1>3 DEF Tolerates, Applied
  <2> QED BY <1>1, <2>1, EventInserted
<1> QED BY <1>2, <1>3

----------------------------------------------------------------------------
(* One appendSessionEvents transaction. *)
BatchOfEvents(batch) ==
    \/ Len(batch) = 1 /\ batch[1] \in Event
    \/ Len(batch) = 2 /\ batch[1] \in Event /\ batch[2] \in Event

ControlBatch(batch) ==
    /\ batch[1].kind \in ControlKinds
    /\ Len(batch) = 2 => batch[2].kind \in ControlKinds

LEMMA BatchKeepsGood ==
    ASSUME NEW b, Good(b), NEW token \in Nat, NEW batch, BatchOfEvents(batch),
           token = NoToken => ControlBatch(batch), BatchAccepted(b, token, batch)
    PROVE  LET q == AfterBatch(b, token, batch) IN
           Good(q) /\ Extends(b, q) /\ (b.state \in Terminal => q = b)
<1> DEFINE q1 == Applied(b, batch[1], token)
           q2 == IF Len(batch) = 2 THEN Applied(q1, batch[2], token) ELSE q1
<1>1. MidInv(b) /\ b.head \in Nat /\ b.state # "absent" /\ b \in Book
  BY DEF Good, MidInv, Book, BatchAccepted
<1>2. token # NoToken => HasLease(b)
  BY DEF BatchAccepted, LeaseAuthorises
<1>3. /\ MidInv(q1) /\ Extends(b, q1)
      /\ HasLease(q1) <=> HasLease(b)
      /\ q1.state # "absent"
      /\ q1 = b \/ (b.state \in NonTerminal /\ q1.head > b.head)
  <2>1. batch[1] \in Event /\ Tolerates(b, batch[1]) /\ MayAppend(b, token, batch[1])
    BY <1>2 DEF BatchOfEvents, BatchAccepted, ControlBatch, MayAppend
  <2> QED BY <2>1, <1>1, EventApplied
<1> HIDE DEF q1
<1>4. /\ MidInv(q2) /\ Extends(b, q2)
      /\ HasLease(q2) <=> HasLease(b)
      /\ q2.state # "absent"
      /\ q2 = b \/ q2.head > b.head
      /\ b.state \in Terminal => q2 = b
  <2>1. b.state \in Terminal => b.state \notin NonTerminal
    BY DEF NonTerminal
  <2>2. CASE Len(batch) = 2
    <3>1. /\ batch[2] \in Event /\ Tolerates(q1, batch[2])
      BY <2>2 DEF BatchOfEvents, BatchAccepted, q1
    <3>2. MayAppend(q1, token, batch[2])
      BY <2>2, <1>2, <1>3 DEF ControlBatch, MayAppend
    <3>3. /\ MidInv(q2) /\ Extends(q1, q2)
          /\ HasLease(q2) <=> HasLease(q1)
          /\ q2.head >= q1.head /\ q2.state # "absent"
          /\ q2 = q1 \/ (q1.state \in NonTerminal /\ q2.head > q1.head)
      BY <2>2, <3>1, <3>2, <1>3, EventApplied
    <3>4. q1 \in Book /\ q2 \in Book /\ q1.head \in Nat /\ q2.head \in Nat
      BY <1>3, <3>3 DEF MidInv, Book
    <3>5. Extends(b, q2)
      BY <1>1, <1>3, <3>3, <3>4, ExtendsTransitive
    <3> HIDE DEF q2
    <3>6. q2 = b \/ q2.head > b.head
      BY <1>1, <1>3, <3>3, <3>4
    <3> QED BY <1>3, <2>1, <3>3, <3>5, <3>6
  <2>3. CASE Len(batch) # 2
    BY <2>1, <2>3, <1>3
  <2> QED BY <2>2, <2>3
<1>5. AfterBatch(b, token, batch) = Settled(b, q2)
  BY DEF AfterBatch, q1, q2
<1> HIDE DEF q2
<1>6. q2 \in Book /\ q2.head \in Nat
  BY <1>4 DEF MidInv, Book
<1>7. CASE q2.head # b.head /\ q2.state \in Terminal
  <2> DEFINE q == [q2 EXCEPT !.lease = NoLease]
  <2>1. Settled(b, q2) = q
    BY <1>7 DEF Settled
  <2>2. /\ q \in Book /\ q.state = q2.state /\ q.rows = q2.rows /\ q.head = q2.head
        /\ q.streams = q2.streams /\ q.active = q2.active /\ q.lease = NoLease
    BY <1>6 DEF Book
  <2> HIDE DEF q
  <2>3. ~HasLease(q)
    BY <2>2 DEF HasLease, NoLease, NoToken
  <2>4. RowsInv(q) /\ HistoryInv(q) /\ ActiveInv(q) /\ Extends(b, q)
    BY <1>4, <2>2 DEF MidInv, RowsInv, GlobalSequenceOf, SourceSequenceOf, HistoryInv, Precedes,
                      ActiveInv, Submitted, Answering, Extends
  <2>5. LeaseInv(q) /\ q.state # "absent"
    BY <1>7, <2>2, <2>3 DEF LeaseInv, Held, NonTerminal, Terminal
  <2>6. b.state \notin Terminal
    BY <1>7, <1>4
  <2> QED BY <2>1, <2>2, <2>3, <2>4, <2>5, <2>6, <1>5 DEF Good, MidInv
<1>8. CASE q2.head = b.head
  <2>1. q2 = b
    BY <1>1, <1>4, <1>6, <1>8
  <2>2. Settled(b, q2) = b
    BY <2>1 DEF Settled
  <2> QED BY <2>2, <2>1, <1>4, <1>5
<1>9. CASE q2.head # b.head /\ q2.state \notin Terminal
  <2>1. Settled(b, q2) = q2
    BY <1>9 DEF Settled
  <2>2. q2 # b
    BY <1>9
  <2>3. b.state \in NonTerminal
    BY <1>1, <1>4, <2>2 DEF NonTerminal, Book
  <2> QED BY <2>1, <1>4, <1>5, <1>9, <2>2, <2>3 DEF Good, NonTerminal
<1> QED BY <1>7, <1>8, <1>9

----------------------------------------------------------------------------
(* The other transactions on a book. *)
LaunchedBook(m, content) ==
    [EmptyBook EXCEPT !.state = "queued", !.active = m, !.head = 4,
                      !.streams[LaunchSource] = 4, !.rows = InitialRows(m, content)]

LEMMA LaunchGood ==
    ASSUME NEW m \in Messages, NEW content \in Contents
    PROVE  Good(LaunchedBook(m, content))
<1> DEFINE q == LaunchedBook(m, content)
           r1 == RowOf(LaunchEvent(1, "created", NoMessage, "none"), 1)
           r2 == RowOf(LaunchEvent(2, "system_prompt_configured", NoMessage, "none"), 2)
           r3 == RowOf(LaunchEvent(3, "workspace_attached", NoMessage, "none"), 3)
           r4 == RowOf(LaunchEvent(4, "user_message_submitted", m, content), 4)
<1>1. /\ r1.global = 1 /\ r1.seq = 1 /\ r1.source = LaunchSource /\ r1.kind = "created"
      /\ r2.global = 2 /\ r2.seq = 2 /\ r2.source = LaunchSource
      /\ r2.kind = "system_prompt_configured"
      /\ r3.global = 3 /\ r3.seq = 3 /\ r3.source = LaunchSource /\ r3.kind = "workspace_attached"
      /\ r4.global = 4 /\ r4.seq = 4 /\ r4.source = LaunchSource
      /\ r4.kind = "user_message_submitted" /\ r4.msg = m
  BY DEF RowOf, LaunchEvent
<1>2. {r1, r2, r3, r4} \in SUBSET Row
  <2>1. FreshId \in EventId /\ LaunchSource \in Sources /\ content \in Body /\ "none" \in Body
    BY DEF FreshId, EventId, Sources, Body
  <2>2. {"created", "system_prompt_configured", "workspace_attached", "user_message_submitted"}
           \subseteq EventKind
    BY DEF EventKind, PassiveKinds, LaunchFacts
  <2> QED BY <2>1, <2>2 DEF Row, RowOf, LaunchEvent
<1>3. /\ q.state = "queued" /\ q.active = m /\ q.head = 4 /\ q.lease = NoLease
      /\ q.rows = {r1, r2, r3, r4} /\ q.last = NoMessage /\ q.mode = "none"
      /\ q.streams = [[src \in Sources |-> 0] EXCEPT ![LaunchSource] = 4]
  BY DEF LaunchedBook, EmptyBook, InitialRows
<1>4. q \in Book
  <2>1. EmptyBook \in Book /\ EmptyBook.streams \in [Sources -> Nat]
    BY DEF EmptyBook, Book
  <2>2. PICK f \in [Sources -> Nat] :
            q = [EmptyBook EXCEPT !.state = "queued", !.active = m, !.head = 4,
                                  !.streams = f, !.rows = InitialRows(m, content)]
    BY <2>1 DEF LaunchedBook
  <2>3. InitialRows(m, content) \in SUBSET Row
    BY <1>2 DEF InitialRows
  <2> HIDE DEF q
  <2>4. "queued" \in SessionState
    BY DEF SessionState
  <2> QED BY <2>1, <2>2, <2>3, <2>4 DEF Book
<1>5. /\ q.streams[LaunchSource] = 4
      /\ \A src \in Sources : src # LaunchSource => q.streams[src] = 0
  BY <1>3 DEF Sources
<1> HIDE DEF q, r1, r2, r3, r4
<1>6. GlobalSequenceOf(q)
  BY <1>1, <1>3 DEF GlobalSequenceOf
<1>7. SourceSequenceOf(q)
  <2>1. \A r \in q.rows : r.seq \in 1..q.streams[r.source]
    BY <1>1, <1>3, <1>5
  <2>2. \A src \in Sources : \A n \in 1..q.streams[src] :
           \E r \in q.rows : r.source = src /\ r.seq = n
    BY <1>1, <1>3, <1>5
  <2>3. \A r, p \in q.rows : r.source = p.source /\ r.seq = p.seq => r = p
    BY <1>1, <1>3
  <2> QED BY <2>1, <2>2, <2>3 DEF SourceSequenceOf
<1>8. HistoryInv(q)
  BY <1>1, <1>3 DEF HistoryInv, OutcomeKinds
<1>9. ActiveInv(q)
  BY <1>1, <1>3, NoMessageAssumption DEF ActiveInv, Submitted, Responding, NonTerminal, SessionState,
     Terminal
<1>10. ~HasLease(q)
  BY <1>3 DEF HasLease, NoLease, NoToken
<1> QED BY <1>3, <1>4, <1>6, <1>7, <1>8, <1>9, <1>10
        DEF Good, MidInv, RowsInv, LeaseInv, Held, Terminal, q

LEMMA DispatchGood ==
    ASSUME NEW b, Good(b), NEW n \in Tokens, b.state \in Claimable,
           b.state = "message_pending" => HasLease(b), b.streams[ClaimSource(n)] = 0
    PROVE  Good(Dispatched(b, n)) /\ Extends(b, Dispatched(b, n))
<1> DEFINE e == DispatchEvent(n)
           p == Project(b, e)
           q == Dispatched(b, n)
<1>1. /\ b \in Book /\ RowsInv(b) /\ HistoryInv(b) /\ ActiveInv(b) /\ LeaseInv(b)
      /\ b.head \in Nat
  BY DEF Good, MidInv, Book
<1>2. e \in Event /\ e.kind = "runtime_dispatched" /\ e.source = ClaimSource(n) /\ e.seq = 1
  <2>1. FreshId \in EventId /\ ClaimSource(n) \in Sources /\ "none" \in Body
        /\ "runtime_dispatched" \in EventKind
    BY DEF FreshId, EventId, Sources, Body, EventKind
  <2> QED BY <2>1 DEF Event, DispatchEvent
<1> HIDE DEF e
<1>3. Accepts(b, e)
  BY <1>2 DEF Accepts, AcceptedFrom, Claimable, PassiveKinds, LaunchFacts, ResponseFacts,
              InterruptFacts, OutcomeKinds, FailureKinds
<1>4. p = [b EXCEPT !.state = "dispatched"]
  BY <1>2 DEF Project, PassiveKinds, LaunchFacts, ResponseFacts, InterruptFacts, OutcomeKinds,
              FailureKinds
<1>5. ProjectionKeeps(b, e, p)
  BY <1>1, <1>2, <1>3, ProjectionKept DEF ActiveInv
<1>6. PICK lease \in Lease :
          q = [b EXCEPT !.state = "dispatched", !.head = b.head + 1,
                        !.streams[ClaimSource(n)] = 1,
                        !.rows = b.rows \cup {RowOf(e, b.head + 1)},
                        !.lease = lease]
  <2>1. CASE b.state = "queued"
    <3>1. [id |-> n, token |-> n, provider |-> "none", expired |-> FALSE] \in Lease
      BY DEF Lease, Body
    <3> QED BY <2>1, <3>1 DEF Dispatched, e
  <2>2. CASE b.state # "queued"
    <3>1. b.lease \in Lease
      BY <2>2, <1>1 DEF Claimable, HasLease, Book, NoLease, NoToken
    <3>2. [b.lease EXCEPT !.token = n, !.expired = FALSE] \in Lease
      BY <3>1 DEF Lease
    <3> QED BY <2>2, <3>2 DEF Dispatched, e
  <2> QED BY <2>1, <2>2
<1>7. /\ b.head + 1 \in Nat
      /\ [b.streams EXCEPT ![ClaimSource(n)] = 1] \in [Sources -> Nat]
      /\ b.rows \cup {RowOf(e, b.head + 1)} \in SUBSET Row
  BY <1>1, <1>2 DEF Event, Book, RowOf, Row
<1>8. q \in Book /\ q.lease \in Lease /\ q.state = "dispatched"
  BY <1>1, <1>6, <1>7 DEF Book, SessionState
<1>9. Records(b, e, q) /\ q.state = p.state /\ q.active = p.active
  BY <1>1, <1>2, <1>4, <1>6 DEF Records, Book
<1>10. e.seq = b.streams[e.source] + 1
  BY <1>2
<1> HIDE DEF p, q
<1>11. RowsInv(q) /\ Extends(b, q)
  BY <1>1, <1>2, <1>8, <1>9, <1>10, RowsRecorded
<1>12. HistoryInv(q) /\ ActiveInv(q)
  BY <1>1, <1>2, <1>3, <1>5, <1>8, <1>9, HistoryRecorded
<1>13. HasLease(q)
  BY <1>8 DEF HasLease, Lease, Tokens, NoToken
<1> QED BY <1>8, <1>11, <1>12, <1>13 DEF Good, MidInv, LeaseInv, Terminal, q

LEMMA ExpiryGood ==
    ASSUME NEW b, Good(b), HasLease(b)
    PROVE  Good([b EXCEPT !.lease.expired = TRUE]) /\ Extends(b, [b EXCEPT !.lease.expired = TRUE])
<1> DEFINE q == [b EXCEPT !.lease.expired = TRUE]
<1>1. b \in Book /\ b.lease \in Lease
  BY DEF Good, MidInv, Book, HasLease, NoLease, NoToken
<1>2. [b.lease EXCEPT !.expired = TRUE] \in Lease
  BY <1>1 DEF Lease
<1>3. /\ q \in Book /\ q.state = b.state /\ q.rows = b.rows /\ q.head = b.head
      /\ q.streams = b.streams /\ q.active = b.active /\ q.lease.token = b.lease.token
  BY <1>1, <1>2 DEF Book, Lease
<1> HIDE DEF q
<1>4. RowsInv(q) /\ HistoryInv(q) /\ ActiveInv(q) /\ LeaseInv(q) /\ Extends(b, q)
  BY <1>1, <1>3 DEF Good, MidInv, RowsInv, GlobalSequenceOf, SourceSequenceOf, HistoryInv, Precedes,
                    ActiveInv, Submitted, Answering, LeaseInv, HasLease, Extends, Book
<1> QED BY <1>3, <1>4 DEF Good, MidInv, HasLease, q

----------------------------------------------------------------------------
(* The ledger: its types, and every book good (MidInv, no lease after the end,
   nothing at all before the launch). *)
LedgerInv ==
    /\ book \in [Sessions -> Book]
    /\ claims \in 0..MaxClaims
    /\ earlier \subseteq Sessions \X Sessions
    /\ \A s \in Sessions : Good(book[s])

(* How an action changes the books: at most one changes, its ledger only grows
   and a terminal one does not change at all. *)
BooksGrow ==
    \A s \in Sessions :
        Extends(book[s], book'[s]) /\ (book[s].state \in Terminal => book'[s] = book[s])

LEMMA ExtendsItself == ASSUME NEW b \in Book PROVE Extends(b, b)
  BY DEF Extends, Book

LEMMA TouchedType ==
    ASSUME earlier \subseteq Sessions \X Sessions, NEW s \in Sessions
    PROVE  Touched(s) \subseteq Sessions \X Sessions
  BY DEF Touched

(* An action that replaces one book by a good one keeps the invariant. *)
LEMMA OneBook ==
    ASSUME LedgerInv, NEW s \in Sessions, NEW q, Good(q), Extends(book[s], q),
           book[s].state \in Terminal => q = book[s],
           book' = [book EXCEPT ![s] = q], claims' \in 0..MaxClaims,
           earlier' \in {earlier, Touched(s)}
    PROVE  LedgerInv' /\ BooksGrow
<1>1. q \in Book
  BY DEF Good, MidInv
<1>2. book' \in [Sessions -> Book]
  BY <1>1 DEF LedgerInv
<1>3. \A t \in Sessions : book'[t] = IF t = s THEN q ELSE book[t]
  BY DEF LedgerInv
<1>4. earlier' \subseteq Sessions \X Sessions
  BY TouchedType DEF LedgerInv
<1>5. \A t \in Sessions : Good(book'[t])
  BY <1>3 DEF LedgerInv
<1>6. ASSUME NEW t \in Sessions
      PROVE  Extends(book[t], book'[t]) /\ (book[t].state \in Terminal => book'[t] = book[t])
  <2>1. book[t] \in Book
    BY DEF LedgerInv
  <2> QED BY <2>1, <1>3, ExtendsItself
<1>7. BooksGrow
  BY <1>6 DEF BooksGrow
<1> QED BY <1>2, <1>4, <1>5, <1>7 DEF LedgerInv

LEMMA AppendStep ==
    ASSUME LedgerInv, NEW s \in Sessions, NEW token \in Nat, NEW batch, BatchOfEvents(batch),
           token = NoToken => ControlBatch(batch), AppendSessionEvents(s, token, batch)
    PROVE  LedgerInv' /\ BooksGrow
<1> DEFINE q == AfterBatch(book[s], token, batch)
<1>1. Good(book[s]) /\ BatchAccepted(book[s], token, batch)
  BY DEF LedgerInv, AppendSessionEvents
<1>2. /\ Good(q) /\ Extends(book[s], q) /\ (book[s].state \in Terminal => q = book[s])
  BY <1>1, BatchKeepsGood
<1> HIDE DEF q
<1>3. /\ book' = [book EXCEPT ![s] = q] /\ claims' \in 0..MaxClaims
      /\ earlier' \in {earlier, Touched(s)}
  BY DEF AppendSessionEvents, LedgerInv, q
<1> QED BY <1>2, <1>3, OneBook

----------------------------------------------------------------------------
LEMMA ControlBatchesTyped ==
    /\ \A m \in Messages, c \in Contents :
           BatchOfEvents(MessageBatch(m, c)) /\ ControlBatch(MessageBatch(m, c))
    /\ BatchOfEvents(CloseBatch) /\ ControlBatch(CloseBatch)
    /\ \A n \in Tokens : BatchOfEvents(RuntimeLostBatch(n)) /\ ControlBatch(RuntimeLostBatch(n))
<1>1. /\ FreshId \in EventId /\ "none" \in Body /\ CloseSource \in Sources
      /\ {"user_message_submitted", "close_requested", "closed", "runtime_lost"} \subseteq EventKind
  BY DEF FreshId, EventId, Body, Sources, EventKind, PassiveKinds, FailureKinds
<1>2. ASSUME NEW m \in Messages, NEW c \in Contents
      PROVE  BatchOfEvents(MessageBatch(m, c)) /\ ControlBatch(MessageBatch(m, c))
  <2>1. MessageSource(m) \in Sources /\ c \in Body
    BY DEF Sources, Body
  <2>2. Len(MessageBatch(m, c)) = 1 /\ MessageBatch(m, c)[1] \in Event
        /\ MessageBatch(m, c)[1].kind = "user_message_submitted"
    BY <1>1, <2>1 DEF MessageBatch, Event
  <2> QED BY <2>2 DEF BatchOfEvents, ControlBatch, ControlKinds
<1>3. BatchOfEvents(CloseBatch) /\ ControlBatch(CloseBatch)
  <2>1. CloseEvent(1, "close_requested") \in Event /\ CloseEvent(2, "closed") \in Event
    BY <1>1 DEF CloseEvent, Event
  <2> QED BY <2>1 DEF CloseBatch, BatchOfEvents, ControlBatch, ControlKinds, CloseEvent
<1>4. ASSUME NEW n \in Tokens
      PROVE  BatchOfEvents(RuntimeLostBatch(n)) /\ ControlBatch(RuntimeLostBatch(n))
  <2>1. ReaperSource(n) \in Sources
    BY DEF Sources
  <2>2. Len(RuntimeLostBatch(n)) = 1 /\ RuntimeLostBatch(n)[1] \in Event
        /\ RuntimeLostBatch(n)[1].kind = "runtime_lost"
    BY <1>1, <2>1 DEF RuntimeLostBatch, Event
  <2> QED BY <2>2 DEF BatchOfEvents, ControlBatch, ControlKinds
<1> QED BY <1>2, <1>3, <1>4

----------------------------------------------------------------------------
(* The transitions an accepted event makes, kind by kind. *)

LEMMA ProjectionMoves ==
    ASSUME NEW b \in Book, NEW e \in Event, Accepts(b, e)
    PROVE  Moves(b.state, Project(b, e).state)
<1> DEFINE a == b.state
           z == Project(b, e).state
<1>1. a \in NonTerminal
  BY AcceptedStates
<1>2. /\ \A from \in NonTerminal : Moves(from, from) /\ Moves(from, "failed") /\ Moves(from, "closed")
      /\ Moves("ready", "message_pending") /\ Moves("interrupted", "message_pending")
      /\ Moves("queued", "dispatched") /\ Moves("message_pending", "dispatched")
      /\ Moves("dispatched", "message_pending") /\ Moves("dispatched", "running")
      /\ Moves("message_pending", "running") /\ Moves("interrupted", "running")
      /\ Moves("running", "interrupted")
      /\ Moves("running", "waiting_for_handoff") /\ Moves("interrupted", "waiting_for_handoff")
      /\ \A from \in Responding : Moves(from, "ready")
  BY DEF Moves, CanTransition, AllowedTransitions, NonTerminal, Terminal, SessionState, Responding
<1> USE DEF Project, PassiveKinds, LaunchFacts, ResponseFacts, InterruptFacts, OutcomeKinds,
            FailureKinds, Book
<1>3. CASE e.kind \in PassiveKinds
  BY <1>1, <1>2, <1>3
<1>4. CASE e.kind \in OutcomeKinds
  <2>1. z = "ready" /\ a \in Responding
    BY <1>4, AcceptedStates
  <2> QED BY <1>2, <2>1
<1>5. CASE e.kind \in FailureKinds \cup {"closed"}
  <2>1. z \in {"failed", "closed"}
    BY <1>5
  <2> QED BY <1>1, <1>2, <2>1
<1>6. CASE e.kind = "user_message_submitted"
  <2>1. /\ a \in {"queued", "ready", "interrupted"}
        /\ z = IF a = "queued" THEN "queued" ELSE "message_pending"
    BY <1>6, AcceptedStates
  <2> QED BY <1>1, <1>2, <2>1
<1>7. CASE e.kind = "runtime_dispatched"
  <2>1. a \in {"queued", "message_pending"} /\ z = "dispatched"
    BY <1>7, AcceptedStates
  <2> QED BY <1>2, <2>1
<1>8. CASE e.kind = "provider_started"
  <2>1. a = "dispatched" /\ z = "message_pending"
    BY <1>8, AcceptedStates
  <2> QED BY <1>2, <2>1
<1>9. CASE e.kind = "response_started"
  <2>1. a \in {"dispatched", "message_pending", "interrupted"} /\ z = "running"
    BY <1>9, AcceptedStates
  <2> QED BY <1>2, <2>1
<1>10. CASE e.kind = "interrupted"
  <2>1. a = "running" /\ z = "interrupted"
    BY <1>10, AcceptedStates
  <2> QED BY <1>2, <2>1
<1>11. CASE e.kind = "resumed"
  <2>1. a = "interrupted" /\ z \in {"running", "message_pending"}
    BY <1>11, AcceptedStates
  <2> QED BY <1>2, <2>1
<1>12. CASE e.kind = "handoff_requested"
  <2>1. a \in {"running", "interrupted"} /\ z = "waiting_for_handoff"
    BY <1>12, AcceptedStates
  <2> QED BY <1>2, <2>1
<1>13. CASE e.kind = "handoff_completed"
  <2>1. a \in Responding /\ z = "ready"
    BY <1>13, AcceptedStates DEF Responding
  <2> QED BY <1>2, <2>1
<1> QED BY KindCases, <1>3, <1>4, <1>5, <1>6, <1>7, <1>8, <1>9, <1>10, <1>11, <1>12, <1>13

LEMMA AppliedMoves ==
    ASSUME NEW b, MidInv(b), NEW e \in Event, NEW token \in Nat, MayAppend(b, token, e),
           Tolerates(b, e)
    PROVE  LET q == Applied(b, e, token) IN
           \/ q = b
           \/ q.head = b.head + 1 /\ Moves(b.state, q.state)
<1>1. CASE IsReplay(b, e)
  BY <1>1 DEF Applied
<1>2. CASE ~IsReplay(b, e)
  <2> DEFINE p == Project(b, e)
             q == Inserted(b, e, token)
  <2>1. IsNew(b, e) /\ Accepts(b, e) /\ Applied(b, e, token) = q
    BY <1>2 DEF Tolerates, IsNew, Applied
  <2>2. b \in Book /\ ActiveInv(b)
    BY DEF MidInv
  <2>3. Moves(b.state, p.state)
    BY <2>1, <2>2, ProjectionMoves
  <2>4. q.state = p.state
    <3>1. p \in Book
      BY <2>1, <2>2, ProjectionKept DEF ProjectionKeeps, ActiveInv
    <3> QED BY <3>1 DEF Inserted, Book
  <2>5. q.head = b.head + 1
    BY <2>1, EventInserted
  <2> QED BY <2>1, <2>3, <2>4, <2>5
<1> QED BY <1>1, <1>2

(* A batch moves the state once for each of its events that is new. *)
LEMMA BatchMoves ==
    ASSUME NEW b, Good(b), NEW token \in Nat, NEW batch, BatchOfEvents(batch),
           token = NoToken => ControlBatch(batch), BatchAccepted(b, token, batch)
    PROVE  Advances(b, AfterBatch(b, token, batch))
<1> DEFINE q1 == Applied(b, batch[1], token)
           q2 == IF Len(batch) = 2 THEN Applied(q1, batch[2], token) ELSE q1
           q == AfterBatch(b, token, batch)
<1>1. MidInv(b) /\ b.head \in Nat /\ b.state # "absent"
  BY DEF Good, MidInv, Book, BatchAccepted
<1>2. token # NoToken => HasLease(b)
  BY DEF BatchAccepted, LeaseAuthorises
<1>3. batch[1] \in Event /\ Tolerates(b, batch[1]) /\ MayAppend(b, token, batch[1])
  BY <1>2 DEF BatchOfEvents, BatchAccepted, ControlBatch, MayAppend
<1>4. q1 = b \/ (q1.head = b.head + 1 /\ Moves(b.state, q1.state))
  BY <1>1, <1>3, AppliedMoves
<1>5. MidInv(q1) /\ (HasLease(q1) <=> HasLease(b)) /\ q1.state # "absent"
  BY <1>1, <1>3, EventApplied
<1>6. Len(batch) = 2 => /\ batch[2] \in Event /\ Tolerates(q1, batch[2])
                        /\ token = NoToken => batch[2].kind \in ControlKinds
  BY DEF BatchOfEvents, BatchAccepted, ControlBatch
<1>7. q = Settled(b, q2)
  BY DEF AfterBatch
<1> HIDE DEF q1
<1>8. q1.state \in SessionState
  BY <1>5 DEF MidInv, Book
<1>9. Len(batch) = 2 =>
          /\ MidInv(q2)
          /\ q2 = q1 \/ (q2.head = q1.head + 1 /\ Moves(q1.state, q2.state))
  BY <1>2, <1>5, <1>6, AppliedMoves, EventApplied DEF MayAppend
<1>10. MidInv(q2) /\ (q2 = q1 \/ (q2.head = q1.head + 1 /\ Moves(q1.state, q2.state)))
  BY <1>5, <1>9
<1> HIDE DEF q2, q
<1>11. q.head = q2.head /\ q.state = q2.state
  BY <1>7, <1>10 DEF Settled, MidInv, Book
<1>12. ASSUME q1 = b \/ q2 = q1 PROVE Advances(b, q)
  BY <1>1, <1>4, <1>10, <1>11, <1>12 DEF Advances
<1>13. ASSUME q1 # b, q2 # q1 PROVE Advances(b, q)
  <2>1. q.head = b.head + 2
    BY <1>1, <1>4, <1>10, <1>11, <1>13
  <2>2. Moves(b.state, q1.state) /\ Moves(q1.state, q.state)
    BY <1>4, <1>10, <1>11, <1>13
  <2> QED BY <1>8, <2>1, <2>2 DEF Advances
<1>14. Advances(b, q)
  BY <1>12, <1>13
<1> QED BY <1>14 DEF q

LEMMA Unmoved == ASSUME NEW b \in Book, NEW q, q.head = b.head, q.state = b.state
                 PROVE  Advances(b, q)
  BY DEF Advances

LEMMA AppendMoves ==
    ASSUME LedgerInv, NEW s \in Sessions, NEW token \in Nat, NEW batch, BatchOfEvents(batch),
           token = NoToken => ControlBatch(batch), AppendSessionEvents(s, token, batch),
           NEW t \in Sessions
    PROVE  Advances(book[t], book'[t])
<1>1. /\ Good(book[s]) /\ BatchAccepted(book[s], token, batch)
      /\ book' = [book EXCEPT ![s] = AfterBatch(book[s], token, batch)]
      /\ book \in [Sessions -> Book]
  BY DEF LedgerInv, AppendSessionEvents
<1>2. CASE t = s
  <2>1. book'[s] = AfterBatch(book[s], token, batch)
    BY <1>1
  <2> QED BY <1>1, <1>2, <2>1, BatchMoves
<1>3. CASE t # s
  BY <1>1, <1>3, Unmoved
<1> QED BY <1>2, <1>3

LEMMA InvInit == LedgerInit => LedgerInv
<1> SUFFICES ASSUME LedgerInit PROVE LedgerInv
  OBVIOUS
<1>1. EmptyBook \in Book
  BY DEF EmptyBook, Book
<1>2. Good(EmptyBook)
  <2>1. /\ EmptyBook.rows = {} /\ EmptyBook.head = 0 /\ EmptyBook.state = "absent"
        /\ EmptyBook.active = NoMessage /\ ~HasLease(EmptyBook)
        /\ \A src \in Sources : EmptyBook.streams[src] = 0
    BY DEF EmptyBook, HasLease, NoLease, NoToken
  <2> QED BY <1>1, <2>1 DEF Good, MidInv, RowsInv, GlobalSequenceOf, SourceSequenceOf, HistoryInv,
             ActiveInv, LeaseInv, Held, Responding, NonTerminal, Terminal, SessionState
<1> QED BY <1>1, <1>2, BoundsAssumption DEF LedgerInit, LedgerInv

LEMMA InvStep == LedgerInv /\ LedgerNext => LedgerInv' /\ BooksGrow
<1> SUFFICES ASSUME LedgerInv, LedgerNext PROVE LedgerInv' /\ BooksGrow
  OBVIOUS
<1>1. NoToken \in Nat /\ \A token \in Tokens : token \in Nat /\ token # NoToken
  BY DEF Tokens, NoToken
<1>2. PICK s \in Sessions :
        \/ \E m \in Messages, c \in Contents : LaunchSession(s, m, c)
        \/ \E m \in Messages, c \in Contents : SubmitMessage(s, m, c)
        \/ CloseSession(s)
        \/ LoseRuntime(s)
        \/ ClaimSession(s)
        \/ LeaseExpires(s)
        \/ \E token \in Tokens, batch \in RunnerBatches : PostBatch(s, token, batch)
  BY DEF LedgerNext
<1>3. Good(book[s]) /\ book[s] \in Book
  BY DEF LedgerInv
<1>4. ASSUME NEW m \in Messages, NEW c \in Contents, LaunchSession(s, m, c)
      PROVE  LedgerInv' /\ BooksGrow
  <2> DEFINE q == LaunchedBook(m, c)
  <2>1. Good(q)
    BY LaunchGood
  <2>2. /\ book' = [book EXCEPT ![s] = q] /\ book[s].state = "absent"
        /\ claims' \in 0..MaxClaims /\ earlier' = Touched(s)
    BY <1>4 DEF LaunchSession, LedgerInv, LaunchedBook
  <2>3. book[s].rows = {} /\ book[s].head = 0 /\ book[s].state \notin Terminal
    BY <1>3, <2>2 DEF Good, Terminal
  <2>4. Extends(book[s], q)
    BY <2>1, <2>3 DEF Extends, Good, MidInv, Book, RowsInv, GlobalSequenceOf
  <2> HIDE DEF q
  <2> QED BY <2>1, <2>2, <2>3, <2>4, OneBook
<1>5. ASSUME NEW m \in Messages, NEW c \in Contents, SubmitMessage(s, m, c)
      PROVE  LedgerInv' /\ BooksGrow
  BY <1>1, <1>5, ControlBatchesTyped, AppendStep DEF SubmitMessage
<1>6. CASE CloseSession(s)
  BY <1>1, <1>6, ControlBatchesTyped, AppendStep DEF CloseSession
<1>7. CASE LoseRuntime(s)
  <2>1. book[s].lease.id \in Tokens
    BY <1>3, <1>7 DEF LoseRuntime, HasLease, Book, Lease, NoLease, NoToken
  <2> QED BY <1>1, <1>7, <2>1, ControlBatchesTyped, AppendStep DEF LoseRuntime
<1>8. CASE ClaimSession(s)
  <2> DEFINE n == claims + 1
             q == Dispatched(book[s], n)
  <2>1. /\ n \in Tokens /\ book[s].state \in Claimable
        /\ book[s].state = "message_pending" => HasLease(book[s])
        /\ book[s].streams[ClaimSource(n)] = 0
        /\ book' = [book EXCEPT ![s] = q] /\ claims' = n /\ earlier' = Touched(s)
    BY <1>8 DEF ClaimSession, NextInLine
  <2>2. Good(q) /\ Extends(book[s], q)
    BY <1>3, <2>1, DispatchGood
  <2>3. book[s].state \notin Terminal /\ claims' \in 0..MaxClaims
    BY <2>1 DEF Claimable, Terminal, Tokens
  <2> HIDE DEF q
  <2> QED BY <2>1, <2>2, <2>3, OneBook
<1>9. CASE LeaseExpires(s)
  <2> DEFINE q == [book[s] EXCEPT !.lease.expired = TRUE]
  <2>1. /\ HasLease(book[s]) /\ book' = [book EXCEPT ![s] = q]
        /\ claims' \in 0..MaxClaims /\ earlier' = earlier
    BY <1>9 DEF LeaseExpires, LedgerInv
  <2>2. Good(q) /\ Extends(book[s], q)
    BY <1>3, <2>1, ExpiryGood
  <2>3. book[s].state \notin Terminal
    BY <1>3, <2>1 DEF Good
  <2> HIDE DEF q
  <2> QED BY <2>1, <2>2, <2>3, OneBook
<1>10. ASSUME NEW token \in Tokens, NEW batch \in RunnerBatches, PostBatch(s, token, batch)
       PROVE  LedgerInv' /\ BooksGrow
  <2>1. BatchOfEvents(batch)
    BY RunnerBatchesAssumption DEF BatchOfEvents
  <2> QED BY <1>1, <1>10, <2>1, AppendStep DEF PostBatch
<1> QED BY <1>2, <1>4, <1>5, <1>6, <1>7, <1>8, <1>9, <1>10

LEMMA InvStutter == LedgerInv /\ UNCHANGED ledgerVars => LedgerInv'
  BY DEF LedgerInv, ledgerVars

(* The inductive invariant holds of every behaviour of the ledger. *)
THEOREM LedgerInvariant == LedgerSpec => []LedgerInv
<1>1. LedgerInv /\ [LedgerNext]_ledgerVars => LedgerInv'
  BY InvStep, InvStutter
<1> QED BY <1>1, InvInit, PTL DEF LedgerSpec

----------------------------------------------------------------------------
(* Type correctness of the session tables, for every instance. *)
THEOREM TypeCorrect == LedgerSpec => []LedgerTypeOK
<1>1. LedgerInv => LedgerTypeOK
  BY DEF LedgerInv, LedgerTypeOK
<1> QED BY <1>1, LedgerInvariant, PTL

(* claimSession and appendSessionEvents: lease and active message agree with the state
   for any number of sessions, messages and claims. *)
THEOREM OwnershipAlwaysAgrees == LedgerSpec => []OwnershipAgrees
<1>1. LedgerInv => OwnershipAgrees
  <2> SUFFICES ASSUME LedgerInv, NEW s \in Sessions
               PROVE  /\ HasLease(book[s]) <=> book[s].state \in Held
                      /\ book[s].active # NoMessage <=> book[s].state \in NonTerminal \ {"ready"}
    BY DEF OwnershipAgrees
  <2>1. Good(book[s]) /\ book[s] \in Book
    BY DEF LedgerInv
  <2>2. book[s].state \in {"absent", "queued"} \cup Held \cup Terminal
    BY <2>1 DEF Book, Held, NonTerminal
  <2>3. book[s].state \in Held => book[s].state \notin {"absent", "queued"} \cup Terminal
    BY DEF Held, NonTerminal, SessionState
  <2>4. HasLease(book[s]) <=> book[s].state \in Held
    BY <2>1, <2>2, <2>3 DEF Good, MidInv, LeaseInv
  <2>5. book[s].active # NoMessage <=> book[s].state \in NonTerminal \ {"ready"}
    BY <2>1 DEF Good, MidInv, ActiveInv
  <2> QED BY <2>4, <2>5
<1> QED BY <1>1, LedgerInvariant, PTL

(* Neither the ledger's global sequence nor any source's has a gap or a
   duplicate. *)
THEOREM NoGaps == LedgerSpec => []SequencesContiguous
<1>1. LedgerInv => SequencesContiguous
  BY DEF LedgerInv, Good, MidInv, RowsInv, SequencesContiguous
<1> QED BY <1>1, LedgerInvariant, PTL

(* appendSessionEvents and applySessionEventProjection: a message is submitted once,
   started after that and answered at most once after that. *)
THEOREM MessageLivesOnce == LedgerSpec => []MessageLife
<1>1. LedgerInv => SubmittedOnce
  BY DEF LedgerInv, Good, MidInv, HistoryInv, SubmittedOnce
<1>2. LedgerInv => OneOutcome
  BY DEF LedgerInv, Good, MidInv, HistoryInv, OneOutcome
<1>3. LedgerInv => CausalOrder
  BY DEF LedgerInv, Good, MidInv, HistoryInv, CausalOrder
<1>4. LedgerInv => MessageLife
  BY <1>1, <1>2, <1>3 DEF MessageLife
<1> QED BY <1>4, LedgerInvariant, PTL

(* No committed event is rewritten, dropped or renumbered. *)
THEOREM OnlyAppends == LedgerSpec => AppendOnly
<1> DEFINE Step == \A s \in Sessions :
              /\ book[s].rows \subseteq book'[s].rows
              /\ \A r \in book'[s].rows \ book[s].rows : r.global > book[s].head
<1>1. LedgerInv /\ [LedgerNext]_ledgerVars => [Step]_ledgerVars
  BY InvStep DEF BooksGrow, Extends
<1> QED BY <1>1, LedgerInvariant, PTL DEF LedgerSpec, AppendOnly

(* A closed or failed session never changes again. *)
THEOREM TerminalFinal == LedgerSpec => TerminalIsFinal
<1>1. LedgerInv /\ [LedgerNext]_ledgerVars =>
          [\A s \in Sessions : book[s].state \in Terminal => book'[s] = book[s]]_ledgerVars
  BY InvStep DEF BooksGrow
<1> QED BY <1>1, LedgerInvariant, PTL DEF LedgerSpec, TerminalIsFinal

(* appendSessionEvents and claimSession: whatever is posted, each event that a step appends
   to a session is a move of the table that state.ts publishes, or the start of a response
   straight from dispatched; a step that appends nothing leaves the state. *)
THEOREM MovesWithinTable == LedgerSpec => WithinTable
<1> DEFINE Step == \A s \in Sessions :
                       book[s].state # "absent" => Advances(book[s], book'[s])
<1>1. ASSUME LedgerInv, LedgerNext, NEW t \in Sessions, book[t].state # "absent"
      PROVE  Advances(book[t], book'[t])
  <2>1. NoToken \in Nat /\ \A token \in Tokens : token \in Nat /\ token # NoToken
    BY DEF Tokens, NoToken
  <2>2. book \in [Sessions -> Book]
    BY <1>1 DEF LedgerInv
  <2>3. PICK s \in Sessions :
          \/ \E m \in Messages, c \in Contents : LaunchSession(s, m, c)
          \/ \E m \in Messages, c \in Contents : SubmitMessage(s, m, c)
          \/ CloseSession(s)
          \/ LoseRuntime(s)
          \/ ClaimSession(s)
          \/ LeaseExpires(s)
          \/ \E token \in Tokens, batch \in RunnerBatches : PostBatch(s, token, batch)
    BY <1>1 DEF LedgerNext
  <2>4. ASSUME NEW m \in Messages, NEW c \in Contents, LaunchSession(s, m, c)
        PROVE  Advances(book[t], book'[t])
    <3>1. book[s].state = "absent" /\ (t # s => book'[t] = book[t])
      BY <2>2, <2>4 DEF LaunchSession
    <3> QED BY <1>1, <2>2, <3>1, Unmoved
  <2>5. ASSUME NEW m \in Messages, NEW c \in Contents, SubmitMessage(s, m, c)
        PROVE  Advances(book[t], book'[t])
    BY <1>1, <2>1, <2>5, ControlBatchesTyped, AppendMoves DEF SubmitMessage
  <2>6. CASE CloseSession(s)
    BY <1>1, <2>1, <2>6, ControlBatchesTyped, AppendMoves DEF CloseSession
  <2>7. CASE LoseRuntime(s)
    <3>1. book[s].lease.id \in Tokens
      BY <2>2, <2>7 DEF LoseRuntime, HasLease, Book, Lease, NoLease, NoToken
    <3> QED BY <1>1, <2>1, <2>7, <3>1, ControlBatchesTyped, AppendMoves DEF LoseRuntime
  <2>8. CASE ClaimSession(s)
    <3> DEFINE q == Dispatched(book[s], claims + 1)
    <3>1. /\ book[s].state \in {"queued", "message_pending"}
          /\ book' = [book EXCEPT ![s] = q]
      BY <2>8 DEF ClaimSession, NextInLine, Claimable
    <3>2. q.state = "dispatched" /\ q.head = book[s].head + 1 /\ book[s].head \in Nat
      BY <2>2 DEF Dispatched, Book
    <3> HIDE DEF q
    <3>3. CASE t # s
      BY <2>2, <3>1, <3>3, Unmoved
    <3>4. CASE t = s
      <4>1. book'[t] = q
        BY <2>2, <3>1, <3>4
      <4>2. Moves(book[s].state, "dispatched")
        BY <3>1 DEF Moves, CanTransition, AllowedTransitions
      <4> QED BY <3>2, <3>4, <4>1, <4>2 DEF Advances
    <3> QED BY <3>3, <3>4
  <2>9. CASE LeaseExpires(s)
    <3>1. book'[t].head = book[t].head /\ book'[t].state = book[t].state
      BY <2>2, <2>9 DEF LeaseExpires, Book
    <3> QED BY <2>2, <3>1, Unmoved
  <2>10. ASSUME NEW token \in Tokens, NEW batch \in RunnerBatches, PostBatch(s, token, batch)
         PROVE  Advances(book[t], book'[t])
    <3>1. BatchOfEvents(batch)
      BY RunnerBatchesAssumption DEF BatchOfEvents
    <3> QED BY <1>1, <2>1, <2>10, <3>1, AppendMoves DEF PostBatch
  <2> QED BY <2>3, <2>4, <2>5, <2>6, <2>7, <2>8, <2>9, <2>10
<1>2. LedgerInv /\ [LedgerNext]_ledgerVars => [Step]_ledgerVars
  BY <1>1
<1> QED BY <1>2, LedgerInvariant, PTL DEF LedgerSpec, WithinTable
=============================================================================
