-------------------- MODULE WorkspacePreparation_proofs --------------------
(***************************************************************************)
(* The preparation protocol is correct for every number of workspaces,     *)
(* requests, commits and attempts, and whatever goes wrong.  The argument  *)
(* is about one workspace: every transaction makes one of eight things of  *)
(* its row (Turns), each keeps the row good over its directory (GoodRow)   *)
(* and never undoes a decision (Kept); and a grant, once handed out, names *)
(* an attempt that will not be queued again (Genuine).                     *)
(***************************************************************************)
EXTENDS WorkspacePreparation, TLAPS

Published(d, base) == d.state # "none" /\ d.base = base

(* A row r over the directory d. *)
RowAgrees(r) ==
    /\ r.state # "absent" => r.active \in Seqs /\ <<r.state, r.attempts[r.active]>> \in Stories
    /\ \A n \in Seqs : n < r.active => r.attempts[n] \in {"failed", "expired"}
    /\ \A n \in Seqs : n > r.active => r.attempts[n] = "none"
    /\ r.attached <=> r.state = "ready"
    /\ r.failure # NoCause <=> r.state \in {"failed", "unavailable"}

GoodRow(r, d) ==
    /\ r \in Row
    /\ RowAgrees(r)
    /\ IF r.state = "absent" THEN r = Absent ELSE r.base \in Commits
    /\ r.state = "ready" => Published(d, r.base)

(* What a step makes of a row. *)
Turns(r, q, d) ==
    \/ q = r
    \/ r = Absent /\ \E base \in Commits : q = NewRow(base)
    \/ r.state = "failed" /\ r.active < MaxAttempts /\ q = Retried(r)
    \/ Due(r) /\ q = Expired(r)
    \/ r.state = "queued" /\ r.attempts[r.active] = "queued" /\ q = Claimed(r)
    \/ \E rep \in Report :
          /\ Current(r, rep)
          /\ rep.status = "succeeded" => Published(d, rep.base)
          /\ rep.failure = NoCause <=> rep.status = "succeeded"
          /\ q = Settled(r, rep)
    \/ r.state = "ready" /\ q = Unavailable(r)
    \/ r.state = "preparing" /\ q = [r EXCEPT !.lapsed = TRUE]

(* What no step undoes. *)
Kept(r, q) ==
    /\ \A n \in Seqs :
          /\ r.attempts[n] \in SettledStates => q.attempts[n] = r.attempts[n]
          /\ r.attempts[n] \notin {"none", "queued"} => q.attempts[n] \notin {"none", "queued"}
    /\ r.state # "absent" => q.state # "absent" /\ q.base = r.base
    /\ q.state # r.state => <<r.state, q.state>> \in Lifecycle!Follows
----------------------------------------------------------------------------
LEMMA AbsentRow == Absent \in Row /\ RowAgrees(Absent)
<1>1. Absent \in Row
  <2>1. [n \in Seqs |-> "none"] \in [Seqs -> AttemptStates]
    BY DEF AttemptStates
  <2> DEFINE attempts == [n \in Seqs |-> "none"]
  <2>2. "absent" \in RowStates /\ attempts \in [Seqs -> AttemptStates]
    BY <2>1 DEF RowStates
  <2> HIDE DEF attempts
  <2>3. [state |-> "absent", base |-> NoCommit, attached |-> FALSE,
         failure |-> NoCause, active |-> 0, attempts |-> attempts, lapsed |-> FALSE] \in Row
    BY <2>2 DEF Row
  <2> QED BY <2>3 DEF Absent, attempts
<1>2. RowAgrees(Absent)
  BY MaxAttemptsAssumption DEF Absent, RowAgrees, NoCause, Seqs
<1> QED BY <1>1, <1>2

(* Every transaction keeps a good row good and undoes nothing. *)
LEMMA Turned ==
    ASSUME NEW r, NEW q, NEW d, GoodRow(r, d), Turns(r, q, d)
    PROVE  GoodRow(q, d) /\ Kept(r, q)
<1> USE MaxAttemptsAssumption
    DEF Stories, GoodRow, RowAgrees, Kept, Seqs, SettledStates, Row, RowStates, AttemptStates
<1>1. CASE q = r
  BY <1>1
<1>2. CASE r = Absent /\ \E base \in Commits : q = NewRow(base)
  <2>1. PICK base \in Commits : q = NewRow(base)
    BY <1>2
  <2>2. /\ q.state = "queued" /\ q.base = base /\ q.active = 1
        /\ q.attempts = [n \in Seqs |-> IF n = 1 THEN "queued" ELSE "none"]
        /\ q.attached = FALSE /\ q.failure = NoCause
    BY <2>1 DEF NewRow, Absent
  <2>3. q \in Row
    BY <2>1 DEF NewRow, Absent
  <2> QED BY <1>2, <2>2, <2>3 DEF Absent, Lifecycle!Follows
<1>3. CASE r.state = "failed" /\ r.active < MaxAttempts /\ q = Retried(r)
  <2> DEFINE next == r.active + 1
  <2>1. next \in Seqs /\ r.active \in Seqs /\ next # r.active
    BY <1>3
  <2>2. /\ q.state = "queued" /\ q.base = r.base /\ q.active = next
        /\ q.attached = r.attached /\ q.failure = NoCause /\ q.lapsed = r.lapsed
        /\ q.attempts = [r.attempts EXCEPT ![next] = "queued"]
    BY <1>3 DEF Retried
  <2>3. q \in Row
    <3>1. [r.attempts EXCEPT ![next] = "queued"] \in [Seqs -> AttemptStates]
      BY <2>1
    <3>2. next \in Nat
      BY <2>1
    <3> QED BY <1>3, <3>1, <3>2 DEF Retried
  <2>4. r.attempts[next] = "none" /\ r.attempts[r.active] \in {"failed", "expired"}
    BY <1>3, <2>1
  <2>5. \A n \in Seqs : q.attempts[n] = IF n = next THEN "queued" ELSE r.attempts[n]
    BY <2>2
  <2>6. RowAgrees(q)
    BY <1>3, <2>1, <2>2, <2>4, <2>5
  <2>7. Kept(r, q)
    BY <1>3, <2>2, <2>4, <2>5 DEF Lifecycle!Follows
  <2> QED BY <1>3, <2>2, <2>3, <2>6, <2>7
<1>4. CASE Due(r) /\ q = Expired(r)
  BY <1>4 DEF Due, Expired, Causes, NoCause, Lifecycle!Follows
<1>5. CASE r.state = "queued" /\ r.attempts[r.active] = "queued" /\ q = Claimed(r)
  BY <1>5 DEF Claimed, Lifecycle!Follows
<1>6. CASE \E rep \in Report : /\ Current(r, rep)
                               /\ rep.status = "succeeded" => Published(d, rep.base)
                               /\ rep.failure = NoCause <=> rep.status = "succeeded"
                               /\ q = Settled(r, rep)
  <2>1. PICK rep \in Report : /\ Current(r, rep)
                              /\ rep.status = "succeeded" => Published(d, rep.base)
                              /\ rep.failure = NoCause <=> rep.status = "succeeded"
                              /\ q = Settled(r, rep)
    BY <1>6
  <2> DEFINE done == rep.status = "succeeded"
  <2>2. /\ rep.seq \in Seqs /\ rep.status \in {"succeeded", "failed"}
        /\ rep.failure \in Causes \cup {NoCause}
        /\ rep.seq = r.active /\ r.attempts[rep.seq] = "claimed" /\ r.state = "preparing"
        /\ done => rep.base = r.base
    BY <2>1 DEF Report, Current
  <2>3. /\ q.state = IF done THEN "ready" ELSE "failed"
        /\ q.base = r.base /\ q.active = r.active
        /\ q.attached = done /\ q.failure = rep.failure
        /\ q.attempts = [r.attempts EXCEPT ![rep.seq] = rep.status]
    BY <2>1 DEF Settled
  <2>4. q \in Row
    <3>1. [r.attempts EXCEPT ![rep.seq] = rep.status] \in [Seqs -> AttemptStates]
      BY <2>2
    <3>2. CASE done
      <4>1. q = [r EXCEPT !.state = "ready", !.attached = TRUE, !.failure = rep.failure,
                          !.attempts = [r.attempts EXCEPT ![rep.seq] = rep.status]]
        BY <2>1, <3>2 DEF Settled
      <4> QED BY <2>2, <3>1, <4>1
    <3>3. CASE ~done
      <4>1. q = [r EXCEPT !.state = "failed", !.attached = FALSE, !.failure = rep.failure,
                          !.attempts = [r.attempts EXCEPT ![rep.seq] = rep.status]]
        BY <2>1, <3>3 DEF Settled
      <4> QED BY <2>2, <3>1, <4>1
    <3> QED BY <3>2, <3>3
  <2>5. \A n \in Seqs : q.attempts[n] = IF n = rep.seq THEN rep.status ELSE r.attempts[n]
    BY <2>2, <2>3
  <2>6. RowAgrees(q)
    <3>1. q.attempts[q.active] = rep.status
      BY <2>2, <2>3, <2>5
    <3>2. \A n \in Seqs : n < q.active => q.attempts[n] \in {"failed", "expired"}
      BY <2>2, <2>3, <2>5
    <3>3. \A n \in Seqs : n > q.active => q.attempts[n] = "none"
      BY <2>2, <2>3, <2>5
    <3>4. CASE done
      <4>1. q.state = "ready" /\ q.attached /\ q.failure = NoCause /\ rep.status = "succeeded"
        BY <2>1, <2>3, <3>4
      <4> QED BY <2>2, <2>3, <3>1, <3>2, <3>3, <4>1
    <3>5. CASE ~done
      <4>1. q.state = "failed" /\ ~q.attached /\ q.failure # NoCause /\ rep.status = "failed"
        BY <2>1, <2>2, <2>3, <3>5
      <4> QED BY <2>2, <2>3, <3>1, <3>2, <3>3, <4>1
    <3> QED BY <3>4, <3>5
  <2>7. Kept(r, q)
    BY <2>2, <2>3, <2>5 DEF Lifecycle!Follows
  <2> QED BY <2>1, <2>2, <2>3, <2>4, <2>6, <2>7
<1>7. CASE r.state = "ready" /\ q = Unavailable(r)
  <2>1. /\ q.state = "unavailable" /\ q.base = r.base /\ q.active = r.active
        /\ q.attached = FALSE /\ q.failure = "missing" /\ q.attempts = r.attempts
    BY <1>7 DEF Unavailable
  <2>2. q \in Row
    BY <1>7 DEF Unavailable, Causes
  <2>3. RowAgrees(q)
    BY <1>7, <2>1 DEF NoCause
  <2>4. Kept(r, q)
    BY <1>7, <2>1 DEF Lifecycle!Follows
  <2> QED BY <1>7, <2>1, <2>2, <2>3, <2>4
<1>8. CASE r.state = "preparing" /\ q = [r EXCEPT !.lapsed = TRUE]
  BY <1>8
<1> QED BY <1>1, <1>2, <1>3, <1>4, <1>5, <1>6, <1>7, <1>8 DEF Turns
----------------------------------------------------------------------------
(* The inductive invariant. *)

(* A report in the Runner's hands or on its way tells the truth. *)
Sound(rep, directories) ==
    /\ rep \in Report
    /\ rep.status = "succeeded" => Published(directories[rep.w], rep.base)
    /\ rep.failure = NoCause <=> rep.status = "succeeded"

(* A grant is of an attempt that has been taken, for the frozen commit. *)
Taken(g, rows) ==
    /\ g \in Grant
    /\ rows[g.w].state # "absent"
    /\ rows[g.w].base = g.base
    /\ rows[g.w].attempts[g.seq] \notin {"none", "queued"}

Genuine(g, held, rows) == IF held THEN Taken(g, rows) ELSE g = NoGrant

RowsGood == \A w \in Workspaces : GoodRow(row[w], disk[w])

SetupsNamed ==
    \A c \in Setups : /\ setups[c].phase # "idle" => setups[c].w \in Workspaces
                      /\ setups[c].phase = "creating" => setups[c].base \in Commits

GrantsGenuine ==
    /\ \A p \in Polls : Genuine(polls[p].grant, polls[p].stage = "granted", row)
    /\ Genuine(runner.grant, runner.phase \in {"building", "reporting"}, row)

ReportsSound ==
    /\ runner.phase = "reporting" => Sound(OwnReport, disk)
    /\ \A rep \in strays : Sound(rep, disk)

PrepInv == PreparationTypeOK /\ RowsGood /\ SetupsNamed /\ GrantsGenuine /\ ReportsSound /\ OneHolder

(* What every step does to the rows and to the directories. *)
RowsTurn ==
    /\ row' = [w \in Workspaces |-> row'[w]]
    /\ \A w \in Workspaces : Turns(row[w], row'[w], disk[w])

DisksKept ==
    /\ disk' \in [Workspaces -> Directory]
    /\ \A w \in Workspaces : \A base : Published(disk[w], base) => Published(disk'[w], base)
----------------------------------------------------------------------------
LEMMA InitInv == PreparationInit => PrepInv
<1> SUFFICES ASSUME PreparationInit
             PROVE  PrepInv
  OBVIOUS
<1> USE DEF PreparationInit
<1>1. PreparationTypeOK
  BY AbsentRow DEF PreparationTypeOK, Setup, NoSetup, Poll, NoPoll, Runner, IdleRunner,
     Directory, Grant, NoGrant, Report
<1>2. RowsGood
  BY AbsentRow DEF RowsGood, GoodRow, Absent
<1>3. SetupsNamed
  BY DEF SetupsNamed, NoSetup
<1>4. GrantsGenuine
  BY DEF GrantsGenuine, Genuine, NoPoll, IdleRunner
<1>5. ReportsSound
  BY DEF ReportsSound, IdleRunner
<1>6. OneHolder
  BY NamesAssumption DEF OneHolder, Holds, NoPoll, NoGrant, IdleRunner
<1> QED BY <1>1, <1>2, <1>3, <1>4, <1>5, <1>6 DEF PrepInv

LEMMA NextCases ==
    ASSUME PreparationNext
    PROVE  \/ \E c \in Setups, w \in Workspaces : Look(c, w)
           \/ \E c \in Setups : \/ ResolveBase(c)
                                \/ RepositoryUnavailable(c)
                                \/ Create(c)
                                \/ Retry(c)
                                \/ Abandon(c)
           \/ \E p \in Polls, w \in Workspaces : ClaimGrants(p, w)
           \/ \E p \in Polls : \/ ClaimFindsNothing(p)
                               \/ ClaimAborts(p)
                               \/ AnswerClaim(p)
                               \/ BuildClaimFails(p)
                               \/ PollForWork(p)
           \/ LoseClaim \/ Adopt \/ Refuse \/ Publish \/ GitFails
           \/ ReportAnswered \/ ReportInterrupted \/ ReportLost
           \/ \E rep \in strays : StrayArrives(rep)
           \/ Crash \/ Start
           \/ \E w \in Workspaces : LeaseLapses(w)
           \/ \E w \in Workspaces : SessionMisses(w)
           \/ \E commit \in Commits : BranchMoves(commit)
           \/ \E w \in Workspaces, state \in {"advanced", "broken"} : UseDirectory(w, state)
  BY DEF PreparationNext, SetupStep, PollStep, Materialize

(* The row a report leaves behind. *)
LEMMA CompletedTurns ==
    ASSUME NEW r, NEW rep, NEW d, rep \in Report,
           rep.status = "succeeded" => Published(d, rep.base),
           rep.failure = NoCause <=> rep.status = "succeeded"
    PROVE  Turns(r, Completed(r, rep), d)
<1>1. CASE Current(r, rep)
  BY <1>1 DEF Turns, Completed
<1>2. CASE ~Current(r, rep)
  BY <1>2 DEF Turns, Completed
<1> QED BY <1>1, <1>2

LEMMA ReportTurns ==
    ASSUME PrepInv, NEW rep, Sound(rep, disk), Receives(rep)
    PROVE  RowsTurn
<1>1. row \in [Workspaces -> Row] /\ rep.w \in Workspaces
  BY DEF PrepInv, PreparationTypeOK, Sound, Report
<1>2. row' = [row EXCEPT ![rep.w] = Completed(row[rep.w], rep)]
  BY DEF Receives
<1>3. Turns(row[rep.w], Completed(row[rep.w], rep), disk[rep.w])
  BY CompletedTurns DEF Sound
<1> QED BY <1>1, <1>2, <1>3 DEF RowsTurn, Turns

LEMMA UnchangedTurns ==
    ASSUME PrepInv, UNCHANGED row
    PROVE  RowsTurn
  BY DEF RowsTurn, Turns, PrepInv, PreparationTypeOK

(* A claim expires rows that are due and takes one that is queued. *)
LEMMA ReapedTurns ==
    ASSUME PrepInv, NEW w \in Workspaces
    PROVE  /\ Turns(row[w], Reaped[w], disk[w])
           /\ Reaped[w].state = "queued" => Reaped[w] = row[w]
           /\ Reaped = [u \in Workspaces |-> Reaped[u]]
<1>1. row[w] \in Row /\ Reaped[w] = IF Due(row[w]) THEN Expired(row[w]) ELSE row[w]
  BY DEF Reaped, PrepInv, PreparationTypeOK
<1>2. CASE Due(row[w])
  BY <1>1, <1>2 DEF Turns, Expired, Row, Reaped
<1>3. CASE ~Due(row[w])
  BY <1>1, <1>3 DEF Turns, Reaped
<1> QED BY <1>2, <1>3

LEMMA ClaimTurns ==
    ASSUME PrepInv, NEW p \in Polls, NEW w \in Workspaces, ClaimGrants(p, w)
    PROVE  /\ RowsTurn
           /\ row[w].state = "queued" /\ row[w].active \in Seqs
           /\ row[w].attempts[row[w].active] = "queued"
           /\ row'[w] = Claimed(row[w])
<1>1. /\ Reaped[w].state = "queued"
      /\ Reaped[w].attempts[Reaped[w].active] = "queued"
      /\ row' = [Reaped EXCEPT ![w] = Claimed(Reaped[w])]
  BY DEF ClaimGrants, Oldest
<1>2. Reaped[w] = row[w] /\ Reaped = [u \in Workspaces |-> Reaped[u]]
  BY <1>1, ReapedTurns
<1>3. row'[w] = Claimed(row[w])
  BY <1>1, <1>2
<1>4. \A u \in Workspaces : u # w => row'[u] = Reaped[u]
  BY <1>1, <1>2
<1>5. \A u \in Workspaces : Turns(row[u], row'[u], disk[u])
  <2> TAKE u \in Workspaces
  <2>1. CASE u = w
    BY <1>1, <1>2, <1>3, <2>1 DEF Turns
  <2>2. CASE u # w
    BY <1>4, <2>2, ReapedTurns
  <2> QED BY <2>1, <2>2
<1>6. row' = [u \in Workspaces |-> row'[u]]
  BY <1>1, <1>2
<1>7. row[w].active \in Seqs
  BY <1>1, <1>2 DEF PrepInv, RowsGood, GoodRow, RowAgrees
<1> QED BY <1>1, <1>2, <1>3, <1>5, <1>6, <1>7 DEF RowsTurn

LEMMA RowStep ==
    ASSUME PrepInv, PreparationNext
    PROVE  RowsTurn
<1> USE DEF PrepInv
<1>t. row \in [Workspaces -> Row]
  BY DEF PreparationTypeOK
<1>1. ASSUME NEW c \in Setups, Create(c)
      PROVE  RowsTurn
  <2>1. CASE UNCHANGED row
    BY <2>1, UnchangedTurns
  <2>2. CASE /\ row[setups[c].w].state = "absent"
             /\ row' = [row EXCEPT ![setups[c].w] = NewRow(setups[c].base)]
    <3>1. setups[c].w \in Workspaces /\ setups[c].base \in Commits
      BY <1>1 DEF Create, SetupsNamed
    <3>2. row[setups[c].w] = Absent
      BY <2>2, <3>1 DEF RowsGood, GoodRow
    <3> QED BY <1>t, <2>2, <3>1, <3>2 DEF RowsTurn, Turns
  <2> QED BY <1>1, <2>1, <2>2 DEF Create
<1>2. ASSUME NEW c \in Setups, Retry(c)
      PROVE  RowsTurn
  <2>1. CASE UNCHANGED row
    BY <2>1, UnchangedTurns
  <2>2. CASE /\ row[setups[c].w].state = "failed" /\ row[setups[c].w].active < MaxAttempts
             /\ row' = [row EXCEPT ![setups[c].w] = Retried(row[setups[c].w])]
    <3>1. setups[c].w \in Workspaces
      BY <1>2 DEF Retry, SetupsNamed
    <3> QED BY <1>t, <2>2, <3>1 DEF RowsTurn, Turns
  <2> QED BY <1>2, <2>1, <2>2 DEF Retry
<1>3. ASSUME NEW p \in Polls, ClaimFindsNothing(p)
      PROVE  RowsTurn
  <2>1. row' = Reaped
    BY <1>3 DEF ClaimFindsNothing
  <2> QED BY <2>1, ReapedTurns DEF RowsTurn, Reaped
<1>4. ASSUME NEW p \in Polls, BuildClaimFails(p)
      PROVE  RowsTurn
  <2> DEFINE g == polls[p].grant
             rep == [w |-> g.w, seq |-> g.seq, base |-> g.base,
                     status |-> "failed", failure |-> "access"]
  <2>1. CASE UNCHANGED row
    BY <2>1, UnchangedTurns
  <2>2. CASE row' = [row EXCEPT ![g.w] = Completed(row[g.w], rep)]
    <3>1. g \in Grant
      BY <1>4 DEF BuildClaimFails, GrantsGenuine, Genuine, Taken
    <3>2. Sound(rep, disk)
      BY <3>1 DEF Sound, Report, Grant, Causes, NoCause
    <3>3. Receives(rep)
      BY <2>2 DEF Receives
    <3> HIDE DEF rep
    <3> QED BY <3>2, <3>3, ReportTurns
  <2> QED BY <1>4, <2>1, <2>2 DEF BuildClaimFails
<1>5. ASSUME ReportAnswered \/ ReportInterrupted
      PROVE  RowsTurn
  BY <1>5, ReportTurns DEF ReportAnswered, ReportInterrupted, ReportsSound
<1>6. ASSUME NEW rep \in strays, StrayArrives(rep)
      PROVE  RowsTurn
  BY <1>6, ReportTurns DEF StrayArrives, ReportsSound
<1>7. ASSUME NEW w \in Workspaces, LeaseLapses(w)
      PROVE  RowsTurn
  BY <1>t, <1>7 DEF LeaseLapses, RowsTurn, Turns
<1>8. ASSUME NEW w \in Workspaces, SessionMisses(w)
      PROVE  RowsTurn
  BY <1>t, <1>8 DEF SessionMisses, RowsTurn, Turns
<1>9. ASSUME UNCHANGED row
      PROVE  RowsTurn
  BY <1>9, UnchangedTurns
<1> QED BY <1>1, <1>2, ClaimTurns, <1>3, <1>4, <1>5, <1>6, <1>7, <1>8, <1>9, NextCases
        DEF Look, ResolveBase, RepositoryUnavailable, Abandon, ClaimAborts, AnswerClaim,
            PollForWork, LoseClaim, Adopt, Refuse, Publish, GitFails, ReportLost, Crash,
            Start, BranchMoves, UseDirectory

LEMMA DiskStep ==
    ASSUME PrepInv, PreparationNext
    PROVE  DisksKept
<1> USE DEF PrepInv, PreparationTypeOK
<1>1. CASE UNCHANGED disk
  BY <1>1 DEF DisksKept
<1>2. CASE Publish
  <2>1. runner.grant \in Grant
    BY <1>2 DEF Publish, GrantsGenuine, Genuine, Taken
  <2> QED BY <1>2, <2>1 DEF Publish, Target, DisksKept, Directory, Grant, Published
<1>3. ASSUME NEW w \in Workspaces, NEW state \in {"advanced", "broken"}, UseDirectory(w, state)
      PROVE  DisksKept
  BY <1>3 DEF UseDirectory, DisksKept, Directory, Published
<1> QED BY <1>1, <1>2, <1>3, NextCases
        DEF Look, ResolveBase, RepositoryUnavailable, Create, Retry, Abandon, ClaimGrants,
            ClaimFindsNothing, ClaimAborts, AnswerClaim, BuildClaimFails, PollForWork,
            LoseClaim, Adopt, Refuse, GitFails, ReportAnswered, ReportInterrupted,
            ReportLost, StrayArrives, Crash, Start, LeaseLapses, SessionMisses, BranchMoves

LEMMA RowsKept ==
    ASSUME PrepInv, RowsTurn, DisksKept
    PROVE  RowsGood' /\ \A w \in Workspaces : Kept(row[w], row'[w])
<1> SUFFICES ASSUME NEW w \in Workspaces
             PROVE  GoodRow(row'[w], disk'[w]) /\ Kept(row[w], row'[w])
  BY DEF RowsGood
<1>1. GoodRow(row'[w], disk[w]) /\ Kept(row[w], row'[w])
  BY Turned DEF PrepInv, RowsGood, RowsTurn
<1> QED BY <1>1 DEF GoodRow, DisksKept

LEMMA SetupStepKept ==
    ASSUME PrepInv, PreparationNext
    PROVE  SetupsNamed' /\ (setups \in [Setups -> Setup] /\ order \in Seq(Workspaces))'
<1> USE DEF PrepInv, PreparationTypeOK
<1> DEFINE Goal == SetupsNamed' /\ (setups \in [Setups -> Setup] /\ order \in Seq(Workspaces))'
<1>1. CASE UNCHANGED <<setups, order>>
  BY <1>1 DEF SetupsNamed
<1>2. ASSUME NEW c \in Setups, setups' = [setups EXCEPT ![c] = NoSetup], UNCHANGED order
      PROVE  Goal
  <2>1. NoSetup \in Setup
    BY DEF NoSetup, Setup
  <2> QED BY <1>2, <2>1 DEF SetupsNamed, NoSetup
<1>3. ASSUME NEW c \in Setups, Create(c)
      PROVE  Goal
  <2>1. setups[c].w \in Workspaces
    BY <1>3 DEF Create, SetupsNamed
  <2>2. order' \in Seq(Workspaces)
    BY <1>3, <2>1 DEF Create
  <2>3. NoSetup \in Setup
    BY DEF NoSetup, Setup
  <2> QED BY <1>3, <2>2, <2>3 DEF Create, SetupsNamed, NoSetup
<1>4. ASSUME NEW c \in Setups, NEW w \in Workspaces, Look(c, w)
      PROVE  Goal
  <2>1. \E phase \in {"resolving", "retrying"} :
           setups' = [setups EXCEPT ![c] = [phase |-> phase, w |-> w, base |-> NoCommit]]
    BY <1>4 DEF Look, NoSetup
  <2> QED BY <1>4, <2>1 DEF Look, Setup, SetupsNamed
<1>5. ASSUME NEW c \in Setups, ResolveBase(c)
      PROVE  Goal
  BY <1>5 DEF ResolveBase, Setup, SetupsNamed
<1> QED BY <1>1, <1>2, <1>3, <1>4, <1>5, NextCases
        DEF RepositoryUnavailable, Retry, Abandon, ClaimGrants, ClaimFindsNothing,
            ClaimAborts, AnswerClaim, BuildClaimFails, PollForWork, LoseClaim, Adopt,
            Refuse, Publish, GitFails, ReportAnswered, ReportInterrupted, ReportLost,
            StrayArrives, Crash, Start, LeaseLapses, SessionMisses, BranchMoves,
            UseDirectory

(* Steps hand grants on; only a claim makes one. *)
LEMMA GrantKept ==
    ASSUME PrepInv, NEW g, Taken(g, row), \A w \in Workspaces : Kept(row[w], row'[w])
    PROVE  Taken(g, row')
  BY DEF Taken, Kept, Grant

LEMMA GrantTaken ==
    ASSUME PrepInv, NEW p \in Polls, NEW w \in Workspaces, ClaimGrants(p, w), NEW g,
           g = [w |-> w, seq |-> row[w].active, base |-> row[w].base]
    PROVE  Taken(g, row') /\ row[w].attempts[g.seq] = "queued"
<1>1. /\ row[w].state = "queued" /\ row[w].active \in Seqs
      /\ row[w].attempts[row[w].active] = "queued"
      /\ row'[w] = Claimed(row[w])
  BY ClaimTurns
<1>2. row[w] \in Row /\ row[w].base \in Commits
  BY <1>1 DEF PrepInv, RowsGood, GoodRow
<1>3. row'[w].state = "preparing" /\ row'[w].base = row[w].base
      /\ row'[w].attempts[row[w].active] = "claimed"
  BY <1>1, <1>2 DEF Claimed, Row
<1> QED BY <1>1, <1>2, <1>3 DEF Taken, Grant

LEMMA GrantStep ==
    ASSUME PrepInv, PreparationNext, RowsGood', \A w \in Workspaces : Kept(row[w], row'[w])
    PROVE  GrantsGenuine' /\ (polls \in [Polls -> Poll] /\ runner \in Runner)'
<1> DEFINE Polled == /\ (polls \in [Polls -> Poll])'
                     /\ \A p \in Polls : Genuine(polls[p].grant, polls[p].stage = "granted", row)'
           Run == /\ (runner \in Runner)'
                  /\ Genuine(runner.grant, runner.phase \in {"building", "reporting"}, row)'
<1>a. /\ polls \in [Polls -> Poll] /\ runner \in Runner
      /\ \A p \in Polls : Genuine(polls[p].grant, polls[p].stage = "granted", row)
      /\ Genuine(runner.grant, runner.phase \in {"building", "reporting"}, row)
  BY DEF PrepInv, PreparationTypeOK, GrantsGenuine
<1>b. NoPoll \in Poll /\ \A phase \in {"down", "idle", "waiting"} : IdleRunner(phase) \in Runner
  BY DEF NoPoll, Poll, IdleRunner, Runner
<1>1. ASSUME UNCHANGED polls
      PROVE  Polled
  BY <1>1, <1>a, GrantKept DEF Genuine
<1>2. ASSUME UNCHANGED runner
      PROVE  Run
  BY <1>2, <1>a, GrantKept DEF Genuine
<1>3. ASSUME NEW phase \in {"down", "idle", "waiting"}, runner' = IdleRunner(phase)
      PROVE  Run
  BY <1>3, <1>b DEF IdleRunner, Genuine
<1>4. ASSUME NEW p \in Polls, polls' = [polls EXCEPT ![p] = NoPoll]
      PROVE  Polled
  BY <1>4, <1>a, <1>b, GrantKept DEF NoPoll, Genuine
<1>5. ASSUME polls' = Deaf
      PROVE  Polled
  BY <1>5, <1>a, GrantKept DEF Deaf, Poll, Genuine
<1>6. ASSUME NEW p \in Polls, PollForWork(p)
      PROVE  Polled
  BY <1>6, <1>a, GrantKept DEF PollForWork, NoPoll, Poll, Genuine
<1>7. ASSUME NEW p \in Polls, NEW w \in Workspaces, ClaimGrants(p, w)
      PROVE  Polled
  <2>0. PICK g : g = [w |-> w, seq |-> row[w].active, base |-> row[w].base]
    OBVIOUS
  <2>1. Taken(g, row')
    BY <1>7, <2>0, GrantTaken
  <2>2. g \in Grant
    BY <2>1 DEF Taken
  <2>3. polls' = [polls EXCEPT ![p].stage = "granted", ![p].grant = g]
    BY <1>7, <2>0 DEF ClaimGrants
  <2> QED BY <1>a, <2>1, <2>2, <2>3, GrantKept DEF Poll, Genuine
<1>8. ASSUME NEW p \in Polls, AnswerClaim(p)
      PROVE  Run
  <2>1. Taken(polls[p].grant, row)
    BY <1>8, <1>a DEF AnswerClaim, Genuine
  <2>2. Taken(polls[p].grant, row') /\ polls[p].grant \in Grant
    BY <2>1, GrantKept DEF Taken
  <2>3. \/ UNCHANGED runner
        \/ runner' = [IdleRunner("building") EXCEPT !.grant = polls[p].grant]
    BY <1>8 DEF AnswerClaim, Hear
  <2>4. CASE runner' = [IdleRunner("building") EXCEPT !.grant = polls[p].grant]
    BY <2>2, <2>4 DEF IdleRunner, Runner, Genuine
  <2> QED BY <1>2, <2>3, <2>4
<1>9. ASSUME NEW status \in {"succeeded", "failed"}, NEW cause \in Causes \cup {NoCause},
             Reporting(status, cause), runner.phase = "building"
      PROVE  Run
  BY <1>9, <1>a, GrantKept DEF Reporting, Runner, Genuine
<1>10. ASSUME NEW p \in Polls, Hear(p, IdleRunner("idle"))
       PROVE  Run
  BY <1>10, <1>2, <1>3 DEF Hear
<1>11. Polled
  BY <1>1, <1>4, <1>5, <1>6, <1>7, NextCases
     DEF Look, ResolveBase, RepositoryUnavailable, Create, Retry, Abandon,
         ClaimFindsNothing, ClaimAborts, AnswerClaim, BuildClaimFails, LoseClaim, Adopt,
         Refuse, Publish, GitFails, ReportAnswered, ReportInterrupted, ReportLost,
         StrayArrives, Crash, Start, LeaseLapses, SessionMisses, BranchMoves, UseDirectory
<1>12. "git" \in Causes /\ "target_exists" \in Causes
  BY DEF Causes
<1>13. Run
  BY <1>2, <1>3, <1>8, <1>9, <1>10, <1>12, NextCases
     DEF Look, ResolveBase, RepositoryUnavailable, Create, Retry, Abandon, ClaimGrants,
         ClaimFindsNothing, ClaimAborts, BuildClaimFails, PollForWork, LoseClaim, Adopt,
         Refuse, Publish, GitFails, ReportAnswered, ReportInterrupted, ReportLost,
         StrayArrives, Crash, Start, LeaseLapses, SessionMisses, BranchMoves, UseDirectory
<1> QED BY <1>11, <1>13 DEF GrantsGenuine

(* Reports stay true because directories stay published. *)
LEMMA ReportStep ==
    ASSUME PrepInv, PreparationNext, DisksKept, GrantsGenuine', (runner \in Runner)'
    PROVE  ReportsSound' /\ (strays \subseteq Report)'
<1> DEFINE Own == runner'.phase = "reporting" => Sound(OwnReport', disk')
           Strays == \A rep \in strays' : Sound(rep, disk')
<1>1. ASSUME NEW rep, Sound(rep, disk)
      PROVE  Sound(rep, disk')
  BY <1>1 DEF Sound, DisksKept, Report
<1>2. /\ \A rep \in strays : Sound(rep, disk)
      /\ runner.phase = "reporting" => Sound(OwnReport, disk)
  BY DEF PrepInv, ReportsSound
<1>3. Strays
  <2>1. CASE strays' \subseteq strays
    BY <1>1, <1>2, <2>1
  <2>2. CASE ReportLost
    BY <1>1, <1>2, <2>2 DEF ReportLost
  <2> QED BY <2>1, <2>2, NextCases
       DEF Look, ResolveBase, RepositoryUnavailable, Create, Retry, Abandon, ClaimGrants,
           ClaimFindsNothing, ClaimAborts, AnswerClaim, BuildClaimFails, PollForWork,
           LoseClaim, Adopt, Refuse, Publish, GitFails, ReportAnswered, ReportInterrupted,
           StrayArrives, Crash, Start, LeaseLapses, SessionMisses, BranchMoves, UseDirectory
<1>4. ASSUME UNCHANGED runner
      PROVE  Own
  BY <1>1, <1>2, <1>4 DEF OwnReport
<1>5. ASSUME NEW phase \in {"down", "idle", "waiting", "building"}, runner'.phase = phase
      PROVE  Own
  BY <1>5
<1>6. ASSUME NEW status \in {"succeeded", "failed"}, NEW cause \in Causes \cup {NoCause},
             Reporting(status, cause), runner.phase = "building",
             status = "succeeded" => Published(disk'[runner.grant.w], runner.grant.base),
             cause = NoCause <=> status = "succeeded"
      PROVE  Own
  <2>1. runner.grant \in Grant /\ runner \in Runner
    BY <1>6 DEF PrepInv, PreparationTypeOK, GrantsGenuine, Genuine, Taken
  <2>2. /\ runner'.grant = runner.grant /\ runner'.status = status
        /\ runner'.failure = cause
    BY <1>6, <2>1 DEF Reporting, Runner
  <2>3. OwnReport' = [w |-> runner.grant.w, seq |-> runner.grant.seq,
                      base |-> runner.grant.base, status |-> status, failure |-> cause]
    BY <2>2 DEF OwnReport
  <2>4. OwnReport' \in Report
    BY <2>1, <2>3 DEF Report, Grant
  <2> QED BY <1>6, <2>3, <2>4 DEF Sound
<1>7. CASE Adopt \/ Publish
  <2>1. runner.grant \in Grant
    BY <1>7 DEF Adopt, Publish, PrepInv, GrantsGenuine, Genuine, Taken
  <2>2. Published(disk'[runner.grant.w], runner.grant.base)
    BY <1>7, <2>1 DEF Adopt, Publish, Target, Published, PrepInv, PreparationTypeOK, Grant
  <2> QED BY <1>3, <1>6, <1>7, <2>2 DEF Adopt, Publish, ReportsSound, PrepInv, Sound
<1>8. CASE Refuse \/ GitFails
  <2>1. {"git", "target_exists"} \subseteq Causes /\ NoCause \notin {"git", "target_exists"}
    BY DEF Causes, NoCause
  <2> QED BY <1>3, <1>6, <1>8, <2>1 DEF Refuse, GitFails, ReportsSound, Sound
<1>9. ASSUME NEW p \in Polls, \/ Hear(p, IdleRunner("idle"))
                               \/ AnswerClaim(p)
      PROVE  Own
  <2>1. \/ UNCHANGED runner
        \/ runner'.phase = "idle"
        \/ runner'.phase = "building"
    BY <1>9 DEF AnswerClaim, Hear, IdleRunner
  <2> QED BY <1>4, <1>5, <2>1
<1>10. CASE ~(Adopt \/ Publish \/ Refuse \/ GitFails)
  <2>0. \A phase : IdleRunner(phase).phase = phase
    BY DEF IdleRunner
  <2> HIDE DEF Own
  <2>1. Own
    BY <1>4, <1>5, <1>9, <1>10, <2>0, NextCases
       DEF Look, ResolveBase, RepositoryUnavailable, Create, Retry, Abandon, ClaimGrants,
           ClaimFindsNothing, ClaimAborts, BuildClaimFails, PollForWork,
           LoseClaim, ReportAnswered, ReportInterrupted, ReportLost, StrayArrives, Crash,
           Start, LeaseLapses, SessionMisses, BranchMoves, UseDirectory
  <2> QED BY <1>3, <2>1 DEF ReportsSound, Own, Sound
<1> QED BY <1>7, <1>8, <1>10

LEMMA FewerHolders ==
    ASSUME OneHolder,
           \A p \in Polls : polls'[p].grant \in {polls[p].grant, NoGrant},
           runner'.grant \in {runner.grant, NoGrant}
    PROVE  OneHolder'
  BY NamesAssumption DEF OneHolder, Holds, NoGrant

(* A claim takes an attempt nobody can hold, for it is queued; an answer moves it. *)
LEMMA HolderStep ==
    ASSUME PrepInv, PreparationNext, RowsGood'
    PROVE  OneHolder'
<1> USE DEF PrepInv
<1>0. polls \in [Polls -> Poll] /\ runner \in Runner /\ OneHolder
  BY DEF PreparationTypeOK
<1>1. ASSUME NEW p \in Polls, NEW w \in Workspaces, ClaimGrants(p, w)
      PROVE  OneHolder'
  <2>0. PICK g : g = [w |-> w, seq |-> row[w].active, base |-> row[w].base]
    OBVIOUS
  <2>1. row[w].attempts[g.seq] = "queued" /\ g.w = w
    BY <1>1, <2>0, GrantTaken
  <2>2. /\ polls' = [polls EXCEPT ![p].stage = "granted", ![p].grant = g]
        /\ UNCHANGED runner
    BY <1>1, <2>0 DEF ClaimGrants
  <2>3. polls'[p].grant = g /\ \A q \in Polls : q # p => polls'[q] = polls[q]
    BY <1>0, <2>2 DEF Poll
  <2>4. ASSUME NEW h, Taken(h, row) \/ h = NoGrant
        PROVE  ~(h.w = g.w /\ h.seq = g.seq)
    BY <2>1, <2>4, NamesAssumption DEF Taken, NoGrant
  <2>5. ~(runner.grant.w = g.w /\ runner.grant.seq = g.seq)
    BY <2>4 DEF GrantsGenuine, Genuine
  <2>6. \A q \in Polls : ~(polls[q].grant.w = g.w /\ polls[q].grant.seq = g.seq)
    BY <2>4 DEF GrantsGenuine, Genuine
  <2> SUFFICES ASSUME NEW u \in Workspaces, NEW n \in Seqs,
                      NEW h \in Polls \cup {"runner"}, NEW k \in Polls \cup {"runner"},
                      Holds(h, u, n)', Holds(k, u, n)'
               PROVE  h = k
    BY DEF OneHolder
  <2>7. CASE h # p /\ k # p
    <3>1. Holds(h, u, n) /\ Holds(k, u, n)
      BY <2>2, <2>3, <2>7 DEF Holds
    <3> QED BY <1>0, <3>1 DEF OneHolder
  <2>8. CASE h = p /\ k # p
    <3>1. u = g.w /\ n = g.seq
      BY <2>3, <2>8, NamesAssumption DEF Holds
    <3>2. Holds(k, u, n)
      BY <2>2, <2>3, <2>8 DEF Holds
    <3> QED BY <2>5, <2>6, <3>1, <3>2 DEF Holds
  <2>9. CASE h # p /\ k = p
    <3>1. u = g.w /\ n = g.seq
      BY <2>3, <2>9, NamesAssumption DEF Holds
    <3>2. Holds(h, u, n)
      BY <2>2, <2>3, <2>9 DEF Holds
    <3> QED BY <2>5, <2>6, <3>1, <3>2 DEF Holds
  <2> QED BY <2>7, <2>8, <2>9
<1>2. ASSUME NEW p \in Polls, AnswerClaim(p)
      PROVE  OneHolder'
  <2>1. polls'[p].grant = NoGrant /\ \A q \in Polls : q # p => polls'[q] = polls[q]
    BY <1>0, <1>2 DEF AnswerClaim, NoPoll
  <2>2. runner'.grant \in {runner.grant, polls[p].grant}
    BY <1>2 DEF AnswerClaim, Hear, IdleRunner
  <2>3. NoGrant.w \notin Workspaces
    BY NamesAssumption DEF NoGrant
  <2>4. CASE runner'.grant = runner.grant
    BY <1>0, <2>1, <2>4, FewerHolders
  <2>5. CASE runner'.grant = polls[p].grant
    <3> SUFFICES ASSUME NEW w \in Workspaces, NEW n \in Seqs,
                        NEW h \in Polls \cup {"runner"}, NEW k \in Polls \cup {"runner"},
                        Holds(h, w, n)', Holds(k, w, n)'
                 PROVE  h = k
      BY DEF OneHolder
    <3>1. CASE h = "runner" /\ k # "runner"
      <4>1. Holds(k, w, n) /\ k # p
        BY <2>1, <2>3, <3>1 DEF Holds
      <4>2. Holds(p, w, n)
        BY <2>5, <3>1, NamesAssumption DEF Holds
      <4> QED BY <1>0, <4>1, <4>2 DEF OneHolder
    <3>2. CASE h # "runner" /\ k = "runner"
      <4>1. Holds(h, w, n) /\ h # p
        BY <2>1, <2>3, <3>2 DEF Holds
      <4>2. Holds(p, w, n)
        BY <2>5, <3>2, NamesAssumption DEF Holds
      <4> QED BY <1>0, <4>1, <4>2 DEF OneHolder
    <3>3. CASE h # "runner" /\ k # "runner"
      <4>1. Holds(h, w, n) /\ Holds(k, w, n)
        BY <2>1, <2>3, <3>3 DEF Holds
      <4> QED BY <1>0, <4>1 DEF OneHolder
    <3> QED BY <3>1, <3>2, <3>3
  <2> QED BY <2>2, <2>4, <2>5
<1>3. ASSUME NEW p \in Polls, polls' = [polls EXCEPT ![p] = NoPoll]
      PROVE  \A q \in Polls : polls'[q].grant \in {polls[q].grant, NoGrant}
  BY <1>0, <1>3 DEF NoPoll
<1>4. ASSUME NEW p \in Polls, PollForWork(p)
      PROVE  \A q \in Polls : polls'[q].grant \in {polls[q].grant, NoGrant}
  BY <1>0, <1>4 DEF PollForWork, NoPoll
<1>5. ASSUME polls' = Deaf
      PROVE  \A q \in Polls : polls'[q].grant \in {polls[q].grant, NoGrant}
  BY <1>0, <1>5 DEF Deaf, Poll
<1>6. ASSUME NEW p \in Polls, Hear(p, IdleRunner("idle"))
      PROVE  runner'.grant \in {runner.grant, NoGrant}
  BY <1>6 DEF Hear, IdleRunner
<1>7. ASSUME NEW status, NEW cause, Reporting(status, cause)
      PROVE  runner'.grant = runner.grant
  BY <1>0, <1>7 DEF Reporting, Runner
<1>8. \A phase : IdleRunner(phase).grant = NoGrant
  BY DEF IdleRunner
<1> QED BY <1>0, <1>1, <1>2, <1>3, <1>4, <1>5, <1>6, <1>7, <1>8, NextCases, FewerHolders
        DEF Look, ResolveBase, RepositoryUnavailable, Create, Retry, Abandon,
            ClaimFindsNothing, ClaimAborts, BuildClaimFails, PollForWork, LoseClaim, Adopt,
            Refuse, Publish, GitFails, ReportAnswered, ReportInterrupted, ReportLost,
            StrayArrives, Crash, Start, LeaseLapses, SessionMisses, BranchMoves, UseDirectory

LEMMA OthersTyped ==
    ASSUME PrepInv, PreparationNext
    PROVE  (head \in Commits /\ continued \subseteq Workspaces)'
<1> USE DEF PrepInv, PreparationTypeOK
<1>1. (head \in Commits)'
  BY NextCases
     DEF Look, ResolveBase, RepositoryUnavailable, Create, Retry, Abandon, ClaimGrants,
         ClaimFindsNothing, ClaimAborts, AnswerClaim, BuildClaimFails, PollForWork,
         LoseClaim, Adopt, Refuse, Publish, GitFails, ReportAnswered, ReportInterrupted,
         ReportLost, StrayArrives, Crash, Start, LeaseLapses, SessionMisses, BranchMoves,
         UseDirectory
<1>2. ASSUME NEW rep \in Report, Continues(rep)
      PROVE  (continued \subseteq Workspaces)'
  BY <1>2 DEF Continues, Report
<1>3. (continued \subseteq Workspaces)'
  BY <1>2, NextCases
     DEF Look, ResolveBase, RepositoryUnavailable, Create, Retry, Abandon, ClaimGrants,
         ClaimFindsNothing, ClaimAborts, AnswerClaim, BuildClaimFails, PollForWork,
         LoseClaim, Adopt, Refuse, Publish, GitFails, ReportAnswered, ReportInterrupted,
         ReportLost, StrayArrives, Crash, Start, LeaseLapses, SessionMisses, BranchMoves,
         UseDirectory, ReportsSound, Sound
<1> QED BY <1>1, <1>3

LEMMA InvStep ==
    ASSUME PrepInv, PreparationNext
    PROVE  PrepInv' /\ \A w \in Workspaces : Kept(row[w], row'[w])
<1>1. RowsTurn /\ DisksKept
  BY RowStep, DiskStep
<1>2. RowsGood' /\ \A w \in Workspaces : Kept(row[w], row'[w])
  BY <1>1, RowsKept
<1>3. row' \in [Workspaces -> Row] /\ disk' \in [Workspaces -> Directory]
  BY <1>1, <1>2 DEF RowsTurn, DisksKept, RowsGood, GoodRow
<1>4. GrantsGenuine' /\ (polls \in [Polls -> Poll] /\ runner \in Runner)'
  BY <1>2, GrantStep
<1>5. ReportsSound' /\ (strays \subseteq Report)'
  BY <1>1, <1>4, ReportStep
<1>6. PreparationTypeOK'
  BY <1>3, <1>4, <1>5, SetupStepKept, OthersTyped DEF PreparationTypeOK
<1> QED BY <1>2, <1>4, <1>5, <1>6, SetupStepKept, HolderStep DEF PrepInv

LEMMA InvStutter ==
    ASSUME PrepInv, UNCHANGED prepVars
    PROVE  PrepInv' /\ \A w \in Workspaces : Kept(row[w], row'[w])
<1> USE DEF prepVars, PrepInv
<1>1. PreparationTypeOK'
  BY DEF PreparationTypeOK
<1>2. RowsGood' /\ \A w \in Workspaces : Kept(row[w], row'[w])
  BY DEF RowsGood, Kept
<1>3. SetupsNamed' /\ GrantsGenuine'
  BY DEF SetupsNamed, GrantsGenuine, Genuine, Taken
<1>4. ReportsSound'
  BY DEF ReportsSound, Sound, OwnReport
<1>5. OneHolder'
  BY DEF OneHolder, Holds
<1> QED BY <1>1, <1>2, <1>3, <1>4, <1>5

(* The invariant of the preparation protocol. *)
THEOREM PreparationInvariant == PreparationSpec => []PrepInv
<1>1. PrepInv /\ [PreparationNext]_prepVars => PrepInv'
  BY InvStep, InvStutter
<1> QED BY <1>1, InitInv, PTL DEF PreparationSpec

----------------------------------------------------------------------------
(* Type correctness of the preparation protocol, for every instance. *)
THEOREM PreparationTypeCorrect == PreparationSpec => []PreparationTypeOK
<1>1. PrepInv => PreparationTypeOK
  BY DEF PrepInv
<1> QED BY <1>1, PreparationInvariant, PTL

(* A workspace row and its attempts always tell the same story, whatever reports
   and claims come when. *)
THEOREM AttemptsAlwaysAgree == PreparationSpec => []AttemptsAgree
<1>1. PrepInv => AttemptsAgree
  BY DEF PrepInv, RowsGood, GoodRow, RowAgrees, AttemptsAgree
<1> QED BY <1>1, PreparationInvariant, PTL

(* A ready workspace has a directory published from its frozen commit. *)
THEOREM ReadyAlwaysPublished == PreparationSpec => []ReadyIsPublished
<1>1. PrepInv => ReadyIsPublished
  BY DEF PrepInv, RowsGood, GoodRow, Published, ReadyIsPublished
<1> QED BY <1>1, PreparationInvariant, PTL

(* No attempt is in two hands. *)
THEOREM AttemptHeldOnce == PreparationSpec => []OneHolder
<1>1. PrepInv => OneHolder
  BY DEF PrepInv
<1> QED BY <1>1, PreparationInvariant, PTL

(* The outcome of an attempt is never rewritten. *)
THEOREM OutcomeFinal == PreparationSpec => SettledForGood
<1> DEFINE Step == \A w \in Workspaces, n \in Seqs :
                      row[w].attempts[n] \in SettledStates
                          => row'[w].attempts[n] = row[w].attempts[n]
<1>1. PrepInv /\ [PreparationNext]_prepVars => [Step]_prepVars
  BY InvStep DEF Kept
<1> QED BY <1>1, PreparationInvariant, PTL DEF PreparationSpec, SettledForGood

(* The preparation protocol implements the lifecycle of a workspace: only its
   moves, and none out of a lost one. *)
THEOREM PreparationImplementsLifecycle == PreparationSpec => ImplementsLifecycle
<1> DEFINE phase == [w \in Workspaces |-> row[w].state]
<1>1. PreparationInit => Lifecycle!LifecycleInit
  BY DEF PreparationInit, Lifecycle!LifecycleInit, Absent
<1>2. PrepInv /\ [PreparationNext]_prepVars => [Lifecycle!Move]_phase
  <2> SUFFICES ASSUME PrepInv, [PreparationNext]_prepVars
               PROVE  Lifecycle!Move
    OBVIOUS
  <2>1. PrepInv' /\ \A w \in Workspaces : Kept(row[w], row'[w])
    BY InvStep, InvStutter
  <2>2. \A w \in Workspaces : row'[w].state \in RowStates
    BY <2>1 DEF PrepInv, PreparationTypeOK, Row
  <2> QED BY <2>1, <2>2 DEF Kept, RowStates, Lifecycle!Move, Lifecycle!Phases
<1> QED BY <1>1, <1>2, PreparationInvariant, PTL
        DEF PreparationSpec, ImplementsLifecycle, Lifecycle!LifecycleSpec
----------------------------------------------------------------------------
(* Directories that only sessions change. *)

Adoptable(r, d) ==
    /\ r.state = "absent" => d.state = "none"
    /\ r.state \in {"queued", "preparing", "failed"} /\ d.state # "none"
          => d.state = "intact" /\ d.base = r.base

AllAdoptable == \A w \in Workspaces : Adoptable(row[w], disk[w])

LEMMA AdoptableKept ==
    ASSUME NEW r \in Row, NEW q, NEW d, Adoptable(r, d), Kept(r, q)
    PROVE  Adoptable(q, d)
  BY DEF Adoptable, Kept, Row, RowStates, Lifecycle!Follows

LEMMA AdoptableStep ==
    ASSUME PrepInv, AllAdoptable, "disk" \notin Disturbances, [PreparationNext]_prepVars
    PROVE  AllAdoptable'
<1>1. \A w \in Workspaces : Kept(row[w], row'[w])
  BY InvStep, InvStutter
<1>2. row \in [Workspaces -> Row] /\ disk \in [Workspaces -> Directory]
  BY DEF PrepInv, PreparationTypeOK
<1>3. CASE UNCHANGED disk
  BY <1>1, <1>2, <1>3, AdoptableKept DEF AllAdoptable
<1>4. CASE Publish
  <2>1. Taken(runner.grant, row)
    BY <1>4 DEF Publish, PrepInv, GrantsGenuine, Genuine
  <2> QED BY <1>2, <1>4, <2>1 DEF Publish, Taken, Grant, AllAdoptable, Adoptable
<1>5. ASSUME NEW w \in Workspaces, NEW state, UseDirectory(w, state)
      PROVE  AllAdoptable'
  BY <1>2, <1>5 DEF UseDirectory, AllAdoptable, Adoptable
<1> QED BY <1>3, <1>4, <1>5, NextCases
        DEF Look, ResolveBase, RepositoryUnavailable, Create, Retry, Abandon, ClaimGrants,
            ClaimFindsNothing, ClaimAborts, AnswerClaim, BuildClaimFails, PollForWork,
            LoseClaim, Adopt, Refuse, GitFails, ReportAnswered, ReportInterrupted,
            ReportLost, StrayArrives, Crash, Start, LeaseLapses, SessionMisses, BranchMoves,
            prepVars

(* As long as nothing but sessions touches the Runner's directories, what a late
   attempt has published is always what the next one asks for. *)
THEOREM LeftoverAlwaysAdoptable ==
    ASSUME "disk" \notin Disturbances
    PROVE  PreparationSpec => []LeftoverAdoptable
<1>1. PreparationInit => AllAdoptable
  <2> SUFFICES ASSUME PreparationInit, NEW w \in Workspaces
               PROVE  Adoptable(row[w], disk[w])
    BY DEF AllAdoptable
  <2>1. disk[w].state = "none"
    BY DEF PreparationInit
  <2> QED BY <2>1 DEF Adoptable
<1>2. PrepInv /\ AllAdoptable /\ [PreparationNext]_prepVars => AllAdoptable'
  BY AdoptableStep
<1>3. AllAdoptable => LeftoverAdoptable
  BY DEF AllAdoptable, Adoptable, LeftoverAdoptable
<1> QED BY <1>1, <1>2, <1>3, PreparationInvariant, PTL DEF PreparationSpec
=============================================================================
