----------------------- MODULE TaskProduction_proofs -----------------------
(***************************************************************************)
(* The production of a Task is correct for any number of requests, reports,  *)
(* status requests, Sessions and restarts.  A request uses what it has read   *)
(* long after it may have changed; what carries the proof is what a request   *)
(* may rely on all the same: a context that is there stays there, with the     *)
(* Session it has planned (CallsGrounded), and what an Agent was let in with    *)
(* is taken from it only by the end of the Task (MovesGrounded).               *)
(***************************************************************************)
EXTENDS TaskProduction, TLAPS

(* What the history and the Workspace say of the context. *)
Grounds ==
    /\ \A n \in DOMAIN history :
          /\ history[n].to # "pending"
          /\ IF history[n].by = "assign" THEN history[n].key \in Sessions \cup StartKeys
                                         ELSE history[n].key \in StatusKeys
    /\ context = NoContext =>
          /\ task.status \in {"pending", "canceled"} /\ ~task.bound
          /\ workspace = "absent" /\ ~owed
          /\ \A s \in Sessions : sessions[s] = NoSession

(* What a call may rely on at each point. *)
Relies(call, of, made) ==
    /\ call.at \in {"prepare", "giveUp", "bind", "continue", "check", "attach", "launch",
                     "record", "apologise", "setup", "dispatch"} => of # NoContext
    /\ call.at \in {"look", "start", "assign"} => call.key # "none"
    /\ call.at \in {"look", "start", "assign", "setup", "dispatch"} =>
          call.session # "none" /\ call.input # "none"
    /\ call.at = "look" /\ call.status # "pending" => of # NoContext
    /\ call.at \in {"setup", "dispatch"} => call.session # of.planned
    /\ call.at = "record" => made[of.planned] = Launched("context", of.input)

CallsGrounded == \A c \in Calls : Relies(calls[c], context, sessions)

(* ... and a status request. *)
MovesGrounded ==
    \A m \in Moves :
        /\ moves[m].at # "free" => moves[m].key # "none"
        /\ moves[m].at \in {"read", "move"} /\ moves[m].by = "agent" =>
              context # NoContext /\ context.attached /\ context.launched

ProductionInv ==
    /\ ProductionTypeOK
    /\ HistoryChains /\ ContextIsStart /\ RevokedIffTerminal /\ AnswerRecorded /\ SessionOfContext
    /\ Grounds /\ CallsGrounded /\ MovesGrounded
----------------------------------------------------------------------------
LEMMA Constants ==
    /\ "none" \notin Sessions \cup StartKeys \cup StatusKeys \cup Inputs
    /\ Sessions \cap StartKeys = {} /\ (Sessions \cup StartKeys) \cap StatusKeys = {}
    /\ 1 \in Revisions /\ Revisions \subseteq Nat
    /\ NoCall \in Call /\ NoMove \in Move /\ NoSession \in Session
BY SessionsAssumption, KeysAssumption, InputsAssumption, BoundsAssumption
   DEF Revisions, NoCall, Call, NoMove, Move, NoSession, Session, Statuses, People, Points

(* A call stays one when one of its fields changes. *)
LEMMA CallWith ==
    ASSUME NEW q \in Call, NEW point \in Points, NEW b \in BOOLEAN
    PROVE  /\ [q EXCEPT !.at = point] \in Call
           /\ [q EXCEPT !.ready = b] \in Call
           /\ [q EXCEPT !.attached = b] \in Call
           /\ [q EXCEPT !.launched = b] \in Call
<1>1. [q EXCEPT !.at = point] \in Call
  BY DEF Call
<1>2. [q EXCEPT !.ready = b] \in Call
  BY DEF Call
<1>3. [q EXCEPT !.attached = b] \in Call
  BY DEF Call
<1>4. [q EXCEPT !.launched = b] \in Call
  BY DEF Call
<1> QED BY <1>1, <1>2, <1>3, <1>4

LEMMA CallTypes ==
    ASSUME ProductionTypeOK, NEW c \in Calls
    PROVE  /\ \A point \in Points : Go(c, point) \/ Enter(c, point) => calls' \in [Calls -> Call]
           /\ Answer(c) => calls' \in [Calls -> Call] /\ owed' \in BOOLEAN
<1>1. calls \in [Calls -> Call] /\ owed \in BOOLEAN
  BY DEF ProductionTypeOK
<1>2. ASSUME NEW point \in Points, Go(c, point)
      PROVE  calls' \in [Calls -> Call]
  <2>1. [calls[c] EXCEPT !.at = point] \in Call
    BY <1>1 DEF Call
  <2> QED BY <1>1, <1>2, <2>1 DEF Go
<1>3. ASSUME NEW point \in Points, Enter(c, point)
      PROVE  calls' \in [Calls -> Call]
  <2>1. [NoCall EXCEPT !.at = point] \in Call
    BY Constants DEF Call
  <2> QED BY <1>1, <1>3, <2>1 DEF Enter
<1>4. Answer(c) => calls' \in [Calls -> Call] /\ owed' \in BOOLEAN
  BY <1>1, Constants DEF Answer
<1> QED BY <1>2, <1>3, <1>4

LEMMA CallsTyped ==
    ASSUME ProductionTypeOK, CallsGrounded, ProductionNext
    PROVE  calls' \in [Calls -> Call] /\ owed' \in BOOLEAN
<1>1. calls \in [Calls -> Call] /\ owed \in BOOLEAN /\ task \in Task /\ workspace \in Lifecycle!Phases
  BY DEF ProductionTypeOK
<1>2. {"assign", "start", "setup", "prepare", "giveUp", "bind", "continue", "check", "attach", "launch",
       "record", "apologise", "dispatch", "look"} \subseteq Points
  BY DEF Points
<1>3. ASSUME NEW c \in Calls, NEW i \in Inputs, NEW s \in Sessions, BeginLaunch(c, s, i)
      PROVE  calls' \in [Calls -> Call] /\ owed' \in BOOLEAN
  <2>1. [NoCall EXCEPT !.at = "look", !.key = s, !.session = s, !.input = i,
                       !.status = task.status, !.revision = task.revision,
                       !.bound = task.bound] \in Call
    BY <1>1, Constants DEF Call, Task, NoCall, Points
  <2> QED BY <1>1, <1>3, <2>1 DEF BeginLaunch
<1>4. ASSUME NEW c \in Calls, NEW i \in Inputs, NEW k \in StartKeys, BeginStart(c, k, i)
      PROVE  calls' \in [Calls -> Call] /\ owed' \in BOOLEAN
  <2>1. \A n \in Revisions : [NoCall EXCEPT !.at = "start", !.key = k, !.session = Generated,
                                         !.input = i, !.revision = n] \in Call
    BY <1>1, Constants, SessionsAssumption DEF Call, NoCall, Points
  <2> QED BY <1>1, <1>4, <2>1 DEF BeginStart
<1>5. ASSUME NEW c \in Calls, LookAtOther(c)
      PROVE  calls' \in [Calls -> Call] /\ owed' \in BOOLEAN
  <2>1. [NoCall EXCEPT !.at = "setup", !.session = calls[c].session, !.input = calls[c].input] \in Call
    BY <1>1, Constants DEF Call, NoCall, Points
  <2> QED BY <1>1, <1>2, <1>5, <2>1, CallTypes DEF LookAtOther
<1>6. ASSUME NEW c \in Calls, Prepare(c)
      PROVE  calls' \in [Calls -> Call] /\ owed' \in BOOLEAN
  <2> DEFINE b == workspace = "ready"
  <2>2. \/ calls' = [calls EXCEPT ![c] = [calls[c] EXCEPT !.at = "bind", !.ready = b]]
        \/ Go(c, "giveUp")
    BY <1>6 DEF Prepare
  <2>3. b \in BOOLEAN
    OBVIOUS
  <2> HIDE DEF b
  <2>1. [calls[c] EXCEPT !.at = "bind", !.ready = b] \in Call
    <3>1. "bind" \in Points
      BY DEF Points
    <3> QED BY <1>1, <2>3, <3>1, CallWith
  <2> QED BY <1>1, <1>2, <1>6, <2>1, <2>2, CallTypes DEF Prepare
<1>7. ASSUME NEW c \in Calls, Continue(c), context # NoContext, context \in Context
      PROVE  calls' \in [Calls -> Call] /\ owed' \in BOOLEAN
  <2> DEFINE a == context.attached
             l == context.launched
  <2>1. a \in BOOLEAN /\ l \in BOOLEAN
    BY <1>7 DEF Context
  <2>2. calls' = [calls EXCEPT ![c] = [calls[c] EXCEPT !.at = "check", !.attached = a, !.launched = l]]
        /\ owed' = owed
    BY <1>7 DEF Continue
  <2> HIDE DEF a, l
  <2>3. [calls[c] EXCEPT !.at = "check", !.attached = a, !.launched = l] \in Call
    <3>1. "check" \in Points
      BY DEF Points
    <3>2. [[calls[c] EXCEPT !.at = "check"] EXCEPT !.attached = a] \in Call
      BY <1>1, <2>1, <3>1, CallWith
    <3> QED BY <2>1, <3>1, <3>2, CallWith
  <2> QED BY <1>1, <2>2, <2>3
<1>8. ASSUME NEW c \in Calls, BeginContinuation(c)
      PROVE  calls' \in [Calls -> Call] /\ owed' \in BOOLEAN
  BY <1>1, <1>2, <1>8, CallTypes DEF BeginContinuation
<1>9. ASSUME NEW c \in Calls,
             \/ LookAtOwn(c) \/ Start(c) \/ Assign(c) \/ GiveUp(c) \/ Bind(c)
             \/ Attach(c) \/ LaunchPlanned(c) \/ FailPlanned(c) \/ Record(c) \/ Apologise(c)
             \/ SetUpMore(c) \/ Dispatch(c) \/ DispatchConflict(c) \/ DispatchFails(c)
      PROVE  calls' \in [Calls -> Call] /\ owed' \in BOOLEAN
  BY <1>1, <1>2, <1>9, CallTypes
     DEF LookAtOwn, Start, Assign, GiveUp, Bind, Attach, LaunchPlanned, FailPlanned, Record,
         Apologise, SetUpMore, Dispatch, DispatchConflict, DispatchFails
<1>10. ASSUME NEW c \in Calls, Check(c)
       PROVE  calls' \in [Calls -> Call] /\ owed' \in BOOLEAN
  BY <1>1, <1>2, <1>10, CallTypes DEF Check
<1>11. ASSUME NEW m \in Moves,
              \/ ReadTask(m) \/ Transit(m) \/ TransitAgain(m)
              \/ \E by \in People, k \in StatusKeys, to \in Statuses, n \in Revisions : BeginMove(m, by, k, to, n)
       PROVE  calls' \in [Calls -> Call] /\ owed' \in BOOLEAN
  BY <1>1, <1>11 DEF BeginMove, ReadTask, Transit, TransitAgain
<1>12. ASSUME UserSetUp \/ Preparation \/ PreparationFails \/ LoseWorkspace \/ Crash
       PROVE  calls' \in [Calls -> Call] /\ owed' \in BOOLEAN
  BY <1>1, <1>12, Constants DEF UserSetUp, Preparation, PreparationFails, LoseWorkspace, Crash
<1>13. ASSUME NEW c \in Calls, Continue(c)
       PROVE  context # NoContext /\ context \in Context
  BY <1>13 DEF Continue, At, CallsGrounded, Relies, ProductionTypeOK
<1> QED BY <1>3, <1>4, <1>5, <1>6, <1>7, <1>8, <1>9, <1>10, <1>11, <1>12, <1>13
        DEF ProductionNext, Step
----------------------------------------------------------------------------
(* What a step makes of the Task, its history and its context: a Start, a status
   change, or a mark on the context. *)

Started(c) ==
    /\ At(c, "assign") /\ Eligible(c) /\ task.revision < MaxRevision
    /\ task' = [status |-> "in_progress", revision |-> calls[c].revision + 1, bound |-> TRUE]
    /\ history' = Append(history,
                     [key |-> calls[c].key, by |-> "assign", from |-> task.status,
                      to |-> "in_progress", revision |-> calls[c].revision + 1])
    /\ context' = NewContext(c)
    /\ UNCHANGED <<moves, workspace, sessions>>

Marked ==
    /\ context # NoContext /\ context' \in Context
    /\ context'.key = context.key /\ context'.planned = context.planned
    /\ context'.input = context.input /\ context'.revoked = context.revoked
    /\ context.attached => context'.attached
    /\ context.launched => context'.launched
    /\ context'.launched => context.launched \/ \E c \in Calls : At(c, "record")

LEMMA ContextWith ==
    ASSUME NEW q \in Context, NEW f \in Failures
    PROVE  /\ [q EXCEPT !.failure = f] \in Context /\ [q EXCEPT !.attached = TRUE] \in Context
           /\ [q EXCEPT !.launched = TRUE] \in Context /\ [q EXCEPT !.revoked = TRUE] \in Context
           /\ q # NoContext
<1>1. [q EXCEPT !.failure = f] \in Context
  BY DEF Context
<1>2. [q EXCEPT !.attached = TRUE] \in Context
  BY DEF Context
<1>3. [q EXCEPT !.launched = TRUE] \in Context
  BY DEF Context
<1>4. [q EXCEPT !.revoked = TRUE] \in Context
  BY DEF Context
<1>5. q # NoContext
  BY Constants DEF Context, NoContext
<1> QED BY <1>1, <1>2, <1>3, <1>4, <1>5

LEMMA Turns ==
    ASSUME ProductionTypeOK, CallsGrounded, ProductionNext
    PROVE  \/ \E c \in Calls : Started(c)
           \/ \E m \in Moves : Transit(m)
           \/ UNCHANGED <<task, history>> /\ (UNCHANGED context \/ Marked)
<1>1. context \in Context \cup {NoContext}
  BY DEF ProductionTypeOK
<1>2. {"none", "workspace", "launch"} \subseteq Failures
  BY DEF Failures
<1>3. ASSUME NEW c \in Calls, Assign(c)
      PROVE  Started(c) \/ UNCHANGED <<task, history, context>>
  BY <1>3 DEF Assign, Started
<1>4. ASSUME NEW c \in Calls, GiveUp(c) \/ Bind(c) \/ Attach(c) \/ Record(c) \/ Apologise(c)
      PROVE  UNCHANGED <<task, history>> /\ Marked
  <2>1. context # NoContext /\ context \in Context
    BY <1>1, <1>4 DEF GiveUp, Bind, Attach, Record, Apologise, At, CallsGrounded, Relies
  <2>2. UNCHANGED <<task, history>>
    BY <1>4 DEF GiveUp, Bind, Attach, Record, Apologise, statusVars
  <2>3. CASE GiveUp(c)
    <3>1. context' = [context EXCEPT !.failure = "workspace"]
      BY <2>3 DEF GiveUp
    <3>2. context' \in Context
      BY <1>2, <2>1, <3>1, ContextWith
    <3> QED BY <2>1, <2>2, <3>1, <3>2 DEF Marked, Context
  <2>4. CASE Bind(c)
    <3>1. context' = [context EXCEPT !.attached = TRUE, !.failure = "none"]
      BY <2>4 DEF Bind
    <3>2. context' \in Context
      BY <1>2, <2>1, <3>1, ContextWith
    <3> QED BY <2>1, <2>2, <3>1, <3>2 DEF Marked, Context
  <2>5. CASE Attach(c)
    <3>1. context' = [context EXCEPT !.attached = TRUE]
      BY <2>5 DEF Attach
    <3>2. context' \in Context
      BY <1>2, <2>1, <3>1, ContextWith
    <3> QED BY <2>1, <2>2, <3>1, <3>2 DEF Marked, Context
  <2>6. CASE Record(c)
    <3>1. context' = [context EXCEPT !.attached = TRUE, !.launched = TRUE, !.failure = "none"]
      BY <2>6 DEF Record
    <3>2. context' \in Context
      <4>1. [context EXCEPT !.attached = TRUE] \in Context
        BY <1>2, <2>1, ContextWith
      <4>2. [context EXCEPT !.attached = TRUE, !.launched = TRUE] \in Context
        BY <1>2, <4>1, ContextWith
      <4> QED BY <1>2, <3>1, <4>2, ContextWith
    <3> QED BY <2>1, <2>2, <2>6, <3>1, <3>2 DEF Marked, Context, Record
  <2>7. CASE Apologise(c)
    <3>1. context' = [context EXCEPT !.attached = TRUE, !.failure = "launch"]
      BY <2>7 DEF Apologise
    <3>2. context' \in Context
      BY <1>2, <2>1, <3>1, ContextWith
    <3> QED BY <2>1, <2>2, <3>1, <3>2 DEF Marked, Context
  <2> QED BY <1>4, <2>3, <2>4, <2>5, <2>6, <2>7
<1>5. ASSUME NEW c \in Calls,
             \/ LookAtOwn(c) \/ LookAtOther(c) \/ Start(c) \/ Prepare(c) \/ Continue(c) \/ Check(c)
             \/ LaunchPlanned(c) \/ FailPlanned(c) \/ SetUpMore(c) \/ Dispatch(c)
             \/ DispatchConflict(c) \/ DispatchFails(c) \/ BeginContinuation(c)
      PROVE  UNCHANGED <<task, history, context>>
  BY <1>5 DEF LookAtOwn, LookAtOther, Start, Prepare, Continue, Check, LaunchPlanned, FailPlanned,
        SetUpMore, Dispatch, DispatchConflict, DispatchFails, BeginContinuation, statusVars
<1>6. ASSUME NEW c \in Calls, NEW i \in Inputs,
             \/ \E s \in Sessions : BeginLaunch(c, s, i)
             \/ \E k \in StartKeys : BeginStart(c, k, i)
      PROVE  UNCHANGED <<task, history, context>>
  BY <1>6 DEF BeginLaunch, BeginStart, statusVars
<1>7. ASSUME NEW m \in Moves,
             \/ ReadTask(m) \/ TransitAgain(m)
             \/ \E by \in People, k \in StatusKeys, to \in Statuses, n \in Revisions : BeginMove(m, by, k, to, n)
      PROVE  UNCHANGED <<task, history, context>>
  BY <1>7 DEF BeginMove, ReadTask, TransitAgain
<1>8. ASSUME UserSetUp \/ Preparation \/ PreparationFails \/ LoseWorkspace \/ Crash
      PROVE  UNCHANGED <<task, history, context>>
  BY <1>8 DEF UserSetUp, Preparation, PreparationFails, LoseWorkspace, Crash, statusVars
<1> QED BY <1>3, <1>4, <1>5, <1>6, <1>7, <1>8 DEF ProductionNext, Step
----------------------------------------------------------------------------
(* Who may move the Task where: nobody moves it to "pending" or out of its end. *)
LEMMA AllowedMoves ==
    ASSUME NEW by, NEW from, NEW to, Allowed(by, from, to)
    PROVE  /\ from \in Statuses \ Terminal /\ to \in Statuses \ {"pending"} /\ by \in People
           /\ by = "agent" => to \notin Terminal /\ from # "pending"
           /\ from = "pending" => to = "canceled"
BY DEF Allowed, Statuses, Terminal, People

(* A transition is of the Task as it is. *)
LEMMA TransitFacts ==
    ASSUME ProductionTypeOK, MovesGrounded, NEW m \in Moves, Transit(m)
    PROVE  LET made == [key |-> moves[m].key, by |-> moves[m].by, from |-> task.status,
                        to |-> moves[m].to, revision |-> task.revision + 1]
           IN  /\ history' = Append(history, made) /\ made \in Transition
               /\ moves[m].key \in StatusKeys /\ moves[m].by \in People
               /\ task' \in Task /\ task'.status = made.to /\ task'.revision = made.revision
               /\ task'.bound = task.bound
               /\ Allowed(made.by, made.from, made.to)
               /\ made.by = "agent" => context # NoContext /\ context.attached /\ context.launched
               /\ \A n \in DOMAIN history : history[n].key # made.key
               /\ moves[m].expected = task.revision
               /\ context' = RevokedBy(m)
               /\ moves' = [moves EXCEPT ![m] = [moves[m] EXCEPT !.at = "done", !.from = "pending"]]
               /\ UNCHANGED <<workspace, sessions, calls, owed, budget>>
<1>1. task \in Task /\ moves[m] \in Move /\ history \in Seq(Transition)
  BY DEF ProductionTypeOK
<1>2. /\ moves[m].at = "move" /\ moves[m].key \in StatusKeys /\ moves[m].by \in People
      /\ moves[m].by = "agent" => context # NoContext /\ context.attached /\ context.launched
  BY <1>1 DEF Transit, MovesGrounded, Move
<1>3. /\ moves[m].from = task.status /\ moves[m].expected = task.revision
      /\ Allowed(moves[m].by, task.status, moves[m].to) /\ task.revision < MaxRevision
      /\ moves[m].to \in Statuses
  BY <1>1, AllowedMoves DEF Transit, Admissible
<1>4. task.revision + 1 \in Revisions
  BY <1>1, <1>3, BoundsAssumption DEF Task, Revisions
<1>5. /\ task' = [task EXCEPT !.status = moves[m].to, !.revision = task.revision + 1]
      /\ history' = Append(history, [key |-> moves[m].key, by |-> moves[m].by, from |-> task.status,
                                     to |-> moves[m].to, revision |-> task.revision + 1])
      /\ UNCHANGED <<workspace, sessions, calls, owed, budget>>
      /\ moves' = [moves EXCEPT ![m] = [moves[m] EXCEPT !.at = "done", !.from = "pending"]]
      /\ context' = RevokedBy(m)
  <2>1. moves' = [moves EXCEPT ![m] = [moves[m] EXCEPT !.at = "done", !.from = "pending"]]
    BY DEF Transit
  <2> QED BY <1>3, <2>1 DEF Transit
<1>6. /\ task' \in Task /\ task'.status = moves[m].to /\ task'.revision = task.revision + 1
      /\ task'.bound = task.bound
  BY <1>1, <1>3, <1>4, <1>5 DEF Task
<1>7. \A n \in DOMAIN history : history[n].key # moves[m].key
  <2>1. Made(m) = {}
    BY DEF Transit, Admissible
  <2>2. \A n \in DOMAIN history : history[n] \in {history[k] : k \in DOMAIN history}
    OBVIOUS
  <2> QED BY <2>1, <2>2 DEF Made, Range
<1>8. [key |-> moves[m].key, by |-> moves[m].by, from |-> task.status,
       to |-> moves[m].to, revision |-> task.revision + 1] \in Transition
  BY <1>1, <1>2, <1>3, <1>4 DEF Transition, Keys, Task
<1> QED BY <1>2, <1>3, <1>5, <1>6, <1>7, <1>8

LEMMA StartedFacts ==
    ASSUME ProductionTypeOK, CallsGrounded, NEW c \in Calls, Started(c)
    PROVE  LET made == [key |-> calls[c].key, by |-> "assign", from |-> "pending",
                        to |-> "in_progress", revision |-> task.revision + 1]
           IN  /\ context = NoContext /\ task.status = "pending"
               /\ calls[c].key \in Sessions \cup StartKeys
               /\ calls[c].session \in Sessions /\ calls[c].input \in Inputs
               /\ history' = Append(history, made) /\ made \in Transition
               /\ task' \in Task /\ task'.status = "in_progress" /\ task'.revision = task.revision + 1
               /\ context' = NewContext(c) /\ context' \in Context /\ context'.key = calls[c].key
               /\ context'.planned = calls[c].session
               /\ ~context'.launched /\ ~context'.attached /\ ~context'.revoked
               /\ UNCHANGED <<moves, workspace, sessions>>
<1>1. task \in Task /\ calls[c] \in Call
  BY DEF ProductionTypeOK
<1>2. /\ calls[c].key \in Sessions \cup StartKeys
      /\ calls[c].session \in Sessions /\ calls[c].input \in Inputs
  BY <1>1, Constants DEF Started, At, CallsGrounded, Relies, Call
<1>3. /\ context = NoContext /\ task.status = "pending" /\ task.revision = calls[c].revision
      /\ task.revision < MaxRevision
  BY DEF Started, Eligible
<1>4. task.revision + 1 \in Revisions
  BY <1>1, <1>3, BoundsAssumption DEF Task, Revisions
<1>5. /\ context' \in Context /\ context'.key = calls[c].key /\ context'.planned = calls[c].session
      /\ ~context'.launched /\ ~context'.attached /\ ~context'.revoked
  <2>1. context' = NewContext(c)
    BY DEF Started
  <2> QED BY <1>2, <2>1 DEF NewContext, Context, Failures
<1>6. task' \in Task /\ task'.status = "in_progress" /\ task'.revision = task.revision + 1
  BY <1>3, <1>4 DEF Started, Task, Statuses
<1>7. [key |-> calls[c].key, by |-> "assign", from |-> "pending",
       to |-> "in_progress", revision |-> task.revision + 1] \in Transition
  BY <1>2, <1>4 DEF Transition, Keys, Statuses
<1> QED BY <1>2, <1>3, <1>5, <1>6, <1>7 DEF Started
----------------------------------------------------------------------------
(* Types. *)

LEMMA MarksTyped ==
    ASSUME ProductionTypeOK, CallsGrounded, MovesGrounded, ProductionNext
    PROVE  task' \in Task /\ history' \in Seq(Transition) /\ context' \in Context \cup {NoContext}
<1>1. task \in Task /\ history \in Seq(Transition) /\ context \in Context \cup {NoContext}
  BY DEF ProductionTypeOK
<1>2. ASSUME NEW c \in Calls, Started(c)
      PROVE  task' \in Task /\ history' \in Seq(Transition) /\ context' \in Context
  <2>1. \E made \in Transition : history' = Append(history, made)
    BY <1>2, StartedFacts
  <2>2. task' \in Task /\ context' \in Context
    BY <1>2, StartedFacts
  <2> QED BY <1>1, <2>1, <2>2
<1>3. ASSUME NEW m \in Moves, Transit(m)
      PROVE  task' \in Task /\ history' \in Seq(Transition) /\ context' \in Context \cup {NoContext}
  <2>1. context' = context \/ (context # NoContext /\ context' = [context EXCEPT !.revoked = TRUE])
    <3>1. context' = RevokedBy(m)
      BY <1>3 DEF Transit
    <3> QED BY <3>1 DEF RevokedBy
  <2>2. context' \in Context \cup {NoContext}
    BY <1>1, <2>1, ContextWith DEF Failures
  <2>3. \E made \in Transition : history' = Append(history, made)
    BY <1>3, TransitFacts
  <2>4. task' \in Task
    BY <1>3, TransitFacts
  <2> QED BY <1>1, <2>2, <2>3, <2>4
<1>4. ASSUME UNCHANGED <<task, history>>, UNCHANGED context \/ Marked
      PROVE  task' \in Task /\ history' \in Seq(Transition) /\ context' \in Context \cup {NoContext}
  BY <1>1, <1>4 DEF Marked
<1> QED BY <1>2, <1>3, <1>4, Turns

LEMMA MovesTyped ==
    ASSUME ProductionTypeOK, MovesGrounded, ProductionNext
    PROVE  moves' \in [Moves -> Move]
<1>1. moves \in [Moves -> Move] /\ task \in Task
  BY DEF ProductionTypeOK
<1>2. ASSUME NEW m \in Moves, NEW by \in People, NEW k \in StatusKeys, NEW to \in Statuses,
             NEW n \in Revisions, BeginMove(m, by, k, to, n)
      PROVE  moves' \in [Moves -> Move]
  <2>1. [NoMove EXCEPT !.at = "read", !.by = by, !.key = k, !.to = to, !.expected = n] \in Move
    BY Constants DEF Move, NoMove
  <2> QED BY <1>1, <1>2, <2>1 DEF BeginMove
<1>3. ASSUME NEW m \in Moves, ReadTask(m)
      PROVE  moves' \in [Moves -> Move]
  <2>1. [moves[m] EXCEPT !.at = "move", !.from = task.status] \in Move
    BY <1>1 DEF Move, Task
  <2> QED BY <1>1, <1>3, <2>1, Constants DEF ReadTask
<1>4. ASSUME NEW m \in Moves, Transit(m) \/ TransitAgain(m)
      PROVE  moves' \in [Moves -> Move]
  <2>1. [moves[m] EXCEPT !.at = "done", !.from = "pending"] \in Move
    BY <1>1 DEF Move, Statuses
  <2>2. \/ moves' = [moves EXCEPT ![m] = [moves[m] EXCEPT !.at = "done", !.from = "pending"]]
        \/ moves' = [moves EXCEPT ![m] = NoMove]
    BY <1>1, <1>4 DEF Transit, TransitAgain
  <2> QED BY <1>1, <2>1, <2>2, Constants
<1>5. ASSUME NEW c \in Calls,
             \/ \E i \in Inputs : \/ \E s \in Sessions : BeginLaunch(c, s, i)
                                  \/ \E k \in StartKeys : BeginStart(c, k, i)
             \/ BeginContinuation(c) \/ Step(c)
      PROVE  UNCHANGED moves
  BY <1>5 DEF BeginLaunch, BeginStart, BeginContinuation, Step, LookAtOwn, LookAtOther, Start, Assign,
        Prepare, GiveUp, Bind, Continue, Check, Attach, LaunchPlanned, FailPlanned, Record, Apologise,
        SetUpMore, Dispatch, DispatchConflict, DispatchFails, statusVars
<1>6. ASSUME UserSetUp \/ Preparation \/ PreparationFails \/ LoseWorkspace \/ Crash
      PROVE  moves' \in [Moves -> Move]
  BY <1>1, <1>6, Constants DEF UserSetUp, Preparation, PreparationFails, LoseWorkspace, Crash, statusVars
<1> QED BY <1>1, <1>2, <1>3, <1>4, <1>5, <1>6 DEF ProductionNext

(* Who makes a Session, and who changes the Workspace. *)
LEMMA SessionsMade ==
    ASSUME ProductionTypeOK, CallsGrounded, ProductionNext
    PROVE  \/ UNCHANGED sessions
           \/ \E c \in Calls : LaunchPlanned(c) \/ Dispatch(c)
<1>1. ASSUME NEW c \in Calls,
             \/ LookAtOwn(c) \/ LookAtOther(c) \/ Start(c) \/ Assign(c) \/ Prepare(c) \/ GiveUp(c) \/ Bind(c)
             \/ Continue(c) \/ Check(c) \/ Attach(c) \/ FailPlanned(c) \/ Record(c) \/ Apologise(c)
             \/ SetUpMore(c) \/ DispatchConflict(c) \/ DispatchFails(c) \/ BeginContinuation(c)
             \/ \E i \in Inputs : \/ \E s \in Sessions : BeginLaunch(c, s, i)
                                  \/ \E k \in StartKeys : BeginStart(c, k, i)
      PROVE  UNCHANGED sessions
  BY <1>1 DEF BeginLaunch, BeginStart, BeginContinuation, LookAtOwn, LookAtOther, Start, Assign,
        Prepare, GiveUp, Bind, Continue, Check, Attach, FailPlanned, Record, Apologise,
        SetUpMore, DispatchConflict, DispatchFails
<1>2. ASSUME NEW m \in Moves,
             \/ ReadTask(m) \/ Transit(m) \/ TransitAgain(m)
             \/ \E by \in People, k \in StatusKeys, to \in Statuses, n \in Revisions : BeginMove(m, by, k, to, n)
      PROVE  UNCHANGED sessions
  BY <1>2 DEF BeginMove, ReadTask, Transit, TransitAgain
<1>3. ASSUME UserSetUp \/ Preparation \/ PreparationFails \/ LoseWorkspace \/ Crash
      PROVE  UNCHANGED sessions
  BY <1>3 DEF UserSetUp, Preparation, PreparationFails, LoseWorkspace, Crash
<1> QED BY <1>1, <1>2, <1>3 DEF ProductionNext, Step

LEMMA LaunchFacts ==
    ASSUME ProductionTypeOK, CallsGrounded, NEW c \in Calls, LaunchPlanned(c) \/ Dispatch(c)
    PROVE  /\ context # NoContext /\ UNCHANGED <<task, history, context, moves, workspace>>
           /\ sessions' \in [Sessions -> Session]
           /\ LaunchPlanned(c) => sessions' = [sessions EXCEPT ![context.planned] = Launched("context", context.input)]
           /\ Dispatch(c) => \A s \in Sessions : s = context.planned => sessions'[s] = sessions[s]
<1>1. /\ context \in Context \cup {NoContext} /\ calls[c] \in Call /\ sessions \in [Sessions -> Session]
  BY DEF ProductionTypeOK
<1>2. context # NoContext /\ context \in Context
  BY <1>1 DEF LaunchPlanned, Dispatch, At, CallsGrounded, Relies
<1>3. CASE LaunchPlanned(c)
  BY <1>1, <1>2, <1>3 DEF LaunchPlanned, Launched, Session, Context, statusVars, Dispatch, At
<1>4. CASE Dispatch(c)
  <2>1. calls[c].session \in Sessions /\ calls[c].session # context.planned /\ calls[c].input \in Inputs
    BY <1>1, <1>4 DEF Dispatch, At, CallsGrounded, Relies, Call
  <2>2. ~LaunchPlanned(c)
    BY <1>4 DEF LaunchPlanned, Dispatch, At
  <2> QED BY <1>1, <1>2, <1>4, <2>1, <2>2 DEF Dispatch, Launched, Session, statusVars
<1> QED BY <1>3, <1>4

LEMMA WorkspaceMoves ==
    ASSUME ProductionTypeOK, CallsGrounded, Grounds, ProductionNext
    PROVE  /\ workspace' \in Lifecycle!Phases
           /\ context = NoContext => UNCHANGED workspace
<1>1. workspace \in Lifecycle!Phases /\ task \in Task /\ context \in Context \cup {NoContext}
  BY DEF ProductionTypeOK
<1>2. "queued" \in Lifecycle!Phases /\ "failed" \in Lifecycle!Phases /\ "unavailable" \in Lifecycle!Phases
  BY DEF Lifecycle!Phases
<1>3. ASSUME NEW c \in Calls, Prepare(c) \/ SetUpMore(c)
      PROVE  workspace' \in Lifecycle!Phases /\ context # NoContext
  BY <1>1, <1>2, <1>3 DEF Prepare, SetUpMore, SetUp, At, CallsGrounded, Relies
<1>4. ASSUME NEW c \in Calls,
             \/ LookAtOwn(c) \/ LookAtOther(c) \/ Start(c) \/ Assign(c) \/ GiveUp(c) \/ Bind(c)
             \/ Continue(c) \/ Check(c) \/ Attach(c) \/ LaunchPlanned(c) \/ FailPlanned(c) \/ Record(c) \/ Apologise(c)
             \/ Dispatch(c) \/ DispatchConflict(c) \/ DispatchFails(c) \/ BeginContinuation(c)
             \/ \E i \in Inputs : \/ \E s \in Sessions : BeginLaunch(c, s, i)
                                  \/ \E k \in StartKeys : BeginStart(c, k, i)
      PROVE  UNCHANGED workspace
  BY <1>4 DEF BeginLaunch, BeginStart, BeginContinuation, LookAtOwn, LookAtOther, Start, Assign,
        GiveUp, Bind, Continue, Check, Attach, LaunchPlanned, FailPlanned, Record, Apologise,
        Dispatch, DispatchConflict, DispatchFails
<1>5. ASSUME NEW m \in Moves,
             \/ ReadTask(m) \/ Transit(m) \/ TransitAgain(m)
             \/ \E by \in People, k \in StatusKeys, to \in Statuses, n \in Revisions : BeginMove(m, by, k, to, n)
      PROVE  UNCHANGED workspace
  BY <1>5 DEF BeginMove, ReadTask, Transit, TransitAgain
<1>6. CASE UserSetUp
  BY <1>1, <1>2, <1>6 DEF UserSetUp, SetUp, Grounds
<1>7. CASE Preparation
  BY <1>1, <1>7 DEF Preparation, Grounds
<1>8. CASE PreparationFails
  BY <1>1, <1>2, <1>8 DEF PreparationFails, Grounds, Lifecycle!Follows
<1>9. CASE LoseWorkspace
  BY <1>1, <1>2, <1>9 DEF LoseWorkspace, Grounds, Lifecycle!Follows
<1>10. CASE Crash
  BY <1>1, <1>10 DEF Crash
<1> QED BY <1>1, <1>3, <1>4, <1>5, <1>6, <1>7, <1>8, <1>9, <1>10 DEF ProductionNext, Step

LEMMA BudgetKept ==
    ASSUME ProductionTypeOK, ProductionNext
    PROVE  outages' \in 0..MaxOutages /\ crashes' \in 0..MaxCrashes /\ losses' \in 0..MaxLosses
<1>1. outages \in 0..MaxOutages /\ crashes \in 0..MaxCrashes /\ losses \in 0..MaxLosses
  BY DEF ProductionTypeOK
<1>2. UNCHANGED budget \/ Outage => outages' \in 0..MaxOutages /\ crashes' \in 0..MaxCrashes /\ losses' \in 0..MaxLosses
  BY <1>1, BoundsAssumption DEF budget, Outage
<1>3. ASSUME NEW c \in Calls,
             \/ \E i \in Inputs : \/ \E s \in Sessions : BeginLaunch(c, s, i)
                                  \/ \E k \in StartKeys : BeginStart(c, k, i)
             \/ BeginContinuation(c) \/ Step(c)
      PROVE  UNCHANGED budget \/ Outage
  BY <1>3 DEF BeginLaunch, BeginStart, BeginContinuation, Step, LookAtOwn, LookAtOther, Start, Assign,
        Prepare, GiveUp, Bind, Continue, Check, Attach, LaunchPlanned, FailPlanned, Record, Apologise,
        SetUpMore, Dispatch, DispatchConflict, DispatchFails, budget
<1>4. ASSUME NEW m \in Moves,
             \/ ReadTask(m) \/ Transit(m) \/ TransitAgain(m)
             \/ \E by \in People, k \in StatusKeys, to \in Statuses, n \in Revisions : BeginMove(m, by, k, to, n)
      PROVE  UNCHANGED budget
  BY <1>4 DEF BeginMove, ReadTask, Transit, TransitAgain
<1>5. ASSUME UserSetUp \/ Preparation \/ PreparationFails
      PROVE  UNCHANGED budget \/ Outage
  BY <1>5 DEF UserSetUp, Preparation, PreparationFails
<1>6. CASE LoseWorkspace
  BY <1>1, <1>6, BoundsAssumption DEF LoseWorkspace
<1>7. CASE Crash
  BY <1>1, <1>7, BoundsAssumption DEF Crash
<1> QED BY <1>2, <1>3, <1>4, <1>5, <1>6, <1>7 DEF ProductionNext

LEMMA TypesKept ==
    ASSUME ProductionTypeOK, CallsGrounded, MovesGrounded, Grounds, ProductionNext
    PROVE  ProductionTypeOK'
<1>1. task' \in Task /\ history' \in Seq(Transition) /\ context' \in Context \cup {NoContext}
  BY MarksTyped
<1>2. moves' \in [Moves -> Move] /\ calls' \in [Calls -> Call] /\ owed' \in BOOLEAN
  BY MovesTyped, CallsTyped
<1>3. sessions' \in [Sessions -> Session] /\ workspace' \in Lifecycle!Phases
  BY SessionsMade, LaunchFacts, WorkspaceMoves DEF ProductionTypeOK
<1> QED BY <1>1, <1>2, <1>3, BudgetKept DEF ProductionTypeOK
----------------------------------------------------------------------------
(* The history. *)

LEMMA Appended ==
    ASSUME ProductionTypeOK, NEW made \in Transition, history' = Append(history, made)
    PROVE  /\ Len(history') = Len(history) + 1 /\ Len(history) \in Nat
           /\ DOMAIN history = 1..Len(history) /\ DOMAIN history' = 1..(Len(history) + 1)
           /\ history'[Len(history) + 1] = made
           /\ \A n \in DOMAIN history : history'[n] = history[n]
           /\ history' # << >>
BY DEF ProductionTypeOK

LEMMA ChainsAppended ==
    ASSUME ProductionTypeOK, HistoryChains, NEW made \in Transition,
           made.from = task.status, made.revision = task.revision + 1,
           \A n \in DOMAIN history : history[n].key # made.key,
           history' = Append(history, made), task'.status = made.to, task'.revision = made.revision
    PROVE  HistoryChains'
<1> DEFINE l == Len(history)
<1>1. task \in Task /\ history \in Seq(Transition)
  BY DEF ProductionTypeOK
<1>2. /\ Len(history') = l + 1 /\ l \in Nat /\ DOMAIN history = 1..l /\ DOMAIN history' = 1..(l + 1)
      /\ history'[l + 1] = made /\ \A n \in 1..l : history'[n] = history[n]
      /\ history' # << >>
  BY Appended
<1>3. task.revision = l + 1 /\ task.status = IF l = 0 THEN "pending" ELSE history[l].to
  BY <1>1, <1>2 DEF HistoryChains, Task, Revisions
<1> HIDE DEF l
<1>4. ASSUME NEW n \in 1..(l + 1)
      PROVE  /\ history'[n].revision = n + 1
             /\ history'[n].from = IF n = 1 THEN "pending" ELSE history'[n - 1].to
             /\ \A k \in 1..(n - 1) : history'[k].key # history'[n].key
  <2>1. CASE n \in 1..l
    <3>1. \A k \in 1..n : k \in 1..l
      BY <1>2, <2>1
    <3>2. /\ history[n].revision = n + 1
          /\ history[n].from = IF n = 1 THEN "pending" ELSE history[n - 1].to
          /\ \A k \in 1..(n - 1) : history[k].key # history[n].key
      BY <1>2, <2>1 DEF HistoryChains
    <3>3. n # 1 => n - 1 \in 1..n
      BY <1>2, <2>1
    <3>4. \A k \in 1..(n - 1) : k \in 1..n
      BY <1>2, <2>1
    <3> QED BY <1>2, <2>1, <3>1, <3>2, <3>3, <3>4
  <2>2. CASE n = l + 1
    <3>1. history'[n] = made /\ made.revision = n + 1
      BY <1>2, <1>3, <2>2
    <3>2. made.from = IF n = 1 THEN "pending" ELSE history'[n - 1].to
      <4>1. n # 1 => n - 1 \in 1..l /\ n - 1 = l /\ l # 0
        BY <1>2, <2>2
      <4>2. n = 1 => l = 0
        BY <1>2, <2>2
      <4> QED BY <1>2, <1>3, <4>1, <4>2
    <3>3. \A k \in 1..(n - 1) : k \in 1..l
      BY <1>2, <2>2
    <3> QED BY <1>2, <3>1, <3>2, <3>3
  <2> QED BY <1>2, <2>1, <2>2
<1>5. Len(history') = task'.revision - 1
  BY <1>2, <1>3
<1>6. task'.status = history'[Len(history')].to
  BY <1>2
<1> QED BY <1>2, <1>4, <1>5, <1>6 DEF HistoryChains

(* Nothing has been made of a pending Task. *)
LEMMA PendingIsNew ==
    ASSUME ProductionTypeOK, HistoryChains, Grounds
    PROVE  /\ task.status = "pending" => history = << >>
           /\ history = << >> => task.status = "pending"
<1>1. history \in Seq(Transition)
  BY DEF ProductionTypeOK
<1>2. history # << >> => Len(history) \in DOMAIN history
  BY <1>1
<1> QED BY <1>1, <1>2 DEF HistoryChains, Grounds

LEMMA ChainsKept ==
    ASSUME ProductionInv, ProductionNext
    PROVE  HistoryChains'
<1> USE DEF ProductionInv
<1>1. ASSUME NEW c \in Calls, Started(c)
      PROVE  HistoryChains'
  <2> DEFINE made == [key |-> calls[c].key, by |-> "assign", from |-> "pending",
                      to |-> "in_progress", revision |-> task.revision + 1]
  <2>1. /\ history' = Append(history, made) /\ made \in Transition
        /\ task'.status = "in_progress" /\ task'.revision = task.revision + 1 /\ task.status = "pending"
    BY <1>1, StartedFacts
  <2>2. history = << >>
    BY <2>1, PendingIsNew
  <2>3. \A n \in DOMAIN history : history[n].key # made.key
    BY <2>2
  <2>4. /\ made.from = task.status /\ made.revision = task.revision + 1 /\ task'.status = made.to
        /\ task'.revision = made.revision
    BY <2>1
  <2> HIDE DEF made
  <2> QED BY <2>1, <2>3, <2>4, ChainsAppended
<1>2. ASSUME NEW m \in Moves, Transit(m)
      PROVE  HistoryChains'
  <2> DEFINE made == [key |-> moves[m].key, by |-> moves[m].by, from |-> task.status,
                      to |-> moves[m].to, revision |-> task.revision + 1]
  <2>1. /\ history' = Append(history, made) /\ made \in Transition
        /\ task'.status = made.to /\ task'.revision = made.revision
        /\ \A n \in DOMAIN history : history[n].key # made.key
    BY <1>2, TransitFacts
  <2>2. made.from = task.status /\ made.revision = task.revision + 1
    OBVIOUS
  <2> HIDE DEF made
  <2> QED BY <2>1, <2>2, ChainsAppended
<1>3. ASSUME UNCHANGED <<task, history>>
      PROVE  HistoryChains'
  BY <1>3 DEF HistoryChains
<1> QED BY <1>1, <1>2, <1>3, Turns

LEMMA StartKept ==
    ASSUME ProductionInv, ProductionNext
    PROVE  ContextIsStart'
<1> USE DEF ProductionInv
<1>1. ASSUME NEW c \in Calls, Started(c)
      PROVE  ContextIsStart'
  <2> DEFINE made == [key |-> calls[c].key, by |-> "assign", from |-> "pending",
                      to |-> "in_progress", revision |-> task.revision + 1]
  <2>1. /\ history' = Append(history, made) /\ made \in Transition /\ task.status = "pending"
        /\ context' \in Context /\ context'.key = made.key
    BY <1>1, StartedFacts
  <2>2. history = << >> /\ made.by = "assign"
    BY <2>1, PendingIsNew
  <2>3. context' # NoContext
    BY <2>1, ContextWith DEF Failures
  <2> HIDE DEF made
  <2>4. DOMAIN history' = {1} /\ history'[1] = made /\ history' # << >>
    BY <2>1, <2>2
  <2> QED BY <2>1, <2>2, <2>3, <2>4 DEF ContextIsStart
<1>2. ASSUME NEW m \in Moves, Transit(m)
      PROVE  ContextIsStart'
  <2> DEFINE made == [key |-> moves[m].key, by |-> moves[m].by, from |-> task.status,
                      to |-> moves[m].to, revision |-> task.revision + 1]
  <2>1. history' = Append(history, made) /\ made \in Transition /\ made.by # "assign"
    BY <1>2, TransitFacts DEF People
  <2>2. /\ context' # NoContext <=> context # NoContext
        /\ context # NoContext => context'.key = context.key
    <3>1. context \in Context \cup {NoContext}
      BY DEF ProductionTypeOK
    <3>2. context' = RevokedBy(m)
      BY <1>2 DEF Transit
    <3>3. context \in Context =>
              [context EXCEPT !.revoked = TRUE] # NoContext /\ [context EXCEPT !.revoked = TRUE].key = context.key
      <4>1. context \in Context => [context EXCEPT !.revoked = TRUE] \in Context
        BY ContextWith DEF Failures
      <4> QED BY <4>1, ContextWith DEF Failures, Context
    <3> QED BY <3>1, <3>2, <3>3 DEF RevokedBy
  <2> HIDE DEF made
  <2>3. \A n \in DOMAIN history' :
            \/ n \in DOMAIN history /\ history'[n] = history[n]
            \/ n = Len(history) + 1 /\ history'[n] = made
    BY <2>1, Appended
  <2>4. history # << >> => 1 \in DOMAIN history /\ history'[1] = history[1] /\ history' # << >>
    BY <2>1, Appended DEF ProductionTypeOK
  <2> QED BY <2>1, <2>2, <2>3, <2>4 DEF ContextIsStart
<1>3. ASSUME UNCHANGED <<task, history>>, UNCHANGED context \/ Marked
      PROVE  ContextIsStart'
  <2>1. context' # NoContext <=> context # NoContext
    BY <1>3, ContextWith DEF Marked, Failures
  <2>2. context # NoContext => context'.key = context.key
    BY <1>3 DEF Marked
  <2> QED BY <1>3, <2>1, <2>2 DEF ContextIsStart
<1> QED BY <1>1, <1>2, <1>3, Turns

LEMMA RevocationKept ==
    ASSUME ProductionInv, ProductionNext
    PROVE  RevokedIffTerminal'
<1> USE DEF ProductionInv
<1>1. ASSUME NEW c \in Calls, Started(c)
      PROVE  RevokedIffTerminal'
  <2>1. ~context'.revoked /\ task'.status = "in_progress"
    BY <1>1, StartedFacts
  <2> QED BY <2>1 DEF RevokedIffTerminal, Terminal
<1>2. ASSUME NEW m \in Moves, Transit(m)
      PROVE  RevokedIffTerminal'
  <2>1. task.status \notin Terminal /\ task'.status = moves[m].to
    BY <1>2, TransitFacts, AllowedMoves
  <2>2. context \in Context \cup {NoContext}
    BY DEF ProductionTypeOK
  <2>3. context' = RevokedBy(m)
    BY <1>2 DEF Transit
  <2>4. CASE moves[m].to \in Terminal /\ context # NoContext
    <3>1. context' = [context EXCEPT !.revoked = TRUE]
      BY <2>3, <2>4 DEF RevokedBy
    <3>2. context'.revoked
      BY <2>2, <2>4, <3>1 DEF Context
    <3> QED BY <2>1, <2>4, <3>2 DEF RevokedIffTerminal
  <2>5. CASE ~(moves[m].to \in Terminal /\ context # NoContext)
    <3>1. context' = context
      BY <2>3, <2>5 DEF RevokedBy
    <3> QED BY <2>1, <2>5, <3>1 DEF RevokedIffTerminal
  <2> QED BY <2>4, <2>5
<1>3. ASSUME UNCHANGED <<task, history>>, UNCHANGED context \/ Marked
      PROVE  RevokedIffTerminal'
  <2>1. context' # NoContext => context # NoContext /\ context'.revoked = context.revoked
    BY <1>3 DEF Marked
  <2> QED BY <1>3, <2>1 DEF RevokedIffTerminal
<1> QED BY <1>1, <1>2, <1>3, Turns
LEMMA HistoryGrows ==
    ASSUME ProductionInv, ProductionNext
    PROVE  \A n \in DOMAIN history : n \in DOMAIN history' /\ history'[n] = history[n]
<1> USE DEF ProductionInv
<1>1. ASSUME NEW c \in Calls, Started(c)
      PROVE  \E made \in Transition : history' = Append(history, made)
  BY <1>1, StartedFacts
<1>2. ASSUME NEW m \in Moves, Transit(m)
      PROVE  \E made \in Transition : history' = Append(history, made)
  BY <1>2, TransitFacts
<1>3. ASSUME NEW made \in Transition, history' = Append(history, made)
      PROVE  \A n \in DOMAIN history : n \in DOMAIN history' /\ history'[n] = history[n]
  BY <1>3, Appended
<1> QED BY <1>1, <1>2, <1>3, Turns

(* Where a status request stands after a step. *)
LEMMA MoveTurns ==
    ASSUME ProductionInv, ProductionNext, NEW m \in Moves
    PROVE  \/ moves'[m] = moves[m]
           \/ moves'[m] = NoMove
           \/ \E by \in People, k \in StatusKeys, to \in Statuses, n \in Revisions :
                 /\ moves'[m].at = "read" /\ moves'[m].by = by /\ moves'[m].key = k
                 /\ by = "agent" => Resolvable
           \/ /\ moves[m].at = "read" /\ moves'[m].at = "move"
              /\ moves'[m].by = moves[m].by /\ moves'[m].key = moves[m].key
           \/ /\ Transit(m) \/ (TransitAgain(m) /\ Repeats(m))
              /\ moves[m].at = "move" /\ moves'[m].at = "done"
              /\ moves'[m].by = moves[m].by /\ moves'[m].key = moves[m].key
              /\ moves'[m].to = moves[m].to /\ moves'[m].expected = moves[m].expected
<1>1. moves \in [Moves -> Move]
  BY DEF ProductionInv, ProductionTypeOK
<1>2. ASSUME NEW r \in Moves, NEW by \in People, NEW k \in StatusKeys, NEW to \in Statuses,
             NEW n \in Revisions, BeginMove(r, by, k, to, n)
      PROVE  \/ moves'[m] = moves[m]
             \/ /\ moves'[m].at = "read" /\ moves'[m].by = by /\ moves'[m].key = k
                /\ by = "agent" => Resolvable
  <2>1. moves' = [moves EXCEPT ![r] = [NoMove EXCEPT !.at = "read", !.by = by, !.key = k, !.to = to, !.expected = n]]
        /\ (by = "agent" => Resolvable)
    BY <1>2 DEF BeginMove
  <2>2. CASE r # m
    BY <1>1, <2>1, <2>2
  <2>3. CASE r = m
    <3>1. moves'[m] = [NoMove EXCEPT !.at = "read", !.by = by, !.key = k, !.to = to, !.expected = n]
      BY <1>1, <2>1, <2>3
    <3>2. moves'[m].at = "read" /\ moves'[m].by = by /\ moves'[m].key = k
      BY <3>1 DEF NoMove
    <3> QED BY <2>1, <3>2
  <2> QED BY <2>2, <2>3
<1>3. ASSUME NEW r \in Moves, ReadTask(r)
      PROVE  \/ moves'[m] = moves[m]
             \/ moves'[m] = NoMove
             \/ /\ moves[m].at = "read" /\ moves'[m].at = "move"
                /\ moves'[m].by = moves[m].by /\ moves'[m].key = moves[m].key
  <2>1. /\ moves[r].at = "read"
        /\ \/ moves' = [moves EXCEPT ![r] = NoMove]
           \/ moves' = [moves EXCEPT ![r] = [moves[r] EXCEPT !.at = "move", !.from = task.status]]
    BY <1>3 DEF ReadTask
  <2>2. moves' = [moves EXCEPT ![r] = NoMove] => moves'[m] = moves[m] \/ moves'[m] = NoMove
    BY <1>1
  <2>3. ASSUME moves' = [moves EXCEPT ![r] = [moves[r] EXCEPT !.at = "move", !.from = task.status]]
        PROVE  \/ moves'[m] = moves[m]
               \/ /\ moves[m].at = "read" /\ moves'[m].at = "move"
                  /\ moves'[m].by = moves[m].by /\ moves'[m].key = moves[m].key
    <3>1. r # m => moves'[m] = moves[m]
      BY <1>1, <2>3
    <3>2. r = m => moves'[m] = [moves[m] EXCEPT !.at = "move", !.from = task.status]
      BY <1>1, <2>3
    <3> QED BY <1>1, <2>1, <3>1, <3>2 DEF Move
  <2> QED BY <2>1, <2>2, <2>3
<1>4. ASSUME NEW r \in Moves, Transit(r) \/ (TransitAgain(r) /\ Repeats(r))
      PROVE  \/ moves'[m] = moves[m]
             \/ /\ r = m
                /\ moves[m].at = "move" /\ moves'[m].at = "done"
                /\ moves'[m].by = moves[m].by /\ moves'[m].key = moves[m].key
                /\ moves'[m].to = moves[m].to /\ moves'[m].expected = moves[m].expected
  <2>1. /\ moves[r].at = "move"
        /\ moves' = [moves EXCEPT ![r] = [moves[r] EXCEPT !.at = "done", !.from = "pending"]]
    BY <1>4 DEF Transit, TransitAgain
  <2>2. r # m => moves'[m] = moves[m]
    BY <1>1, <2>1
  <2>3. r = m => moves'[m] = [moves[m] EXCEPT !.at = "done", !.from = "pending"]
    BY <1>1, <2>1
  <2> QED BY <1>1, <2>1, <2>2, <2>3 DEF Move
<1>5. ASSUME NEW r \in Moves, TransitAgain(r), ~Repeats(r)
      PROVE  moves'[m] = moves[m] \/ moves'[m] = NoMove
  BY <1>1, <1>5 DEF TransitAgain
<1>6. ASSUME NEW c \in Calls,
             \/ \E i \in Inputs : \/ \E s \in Sessions : BeginLaunch(c, s, i)
                                  \/ \E k \in StartKeys : BeginStart(c, k, i)
             \/ BeginContinuation(c) \/ Step(c)
      PROVE  UNCHANGED moves
  BY <1>6 DEF BeginLaunch, BeginStart, BeginContinuation, Step, LookAtOwn, LookAtOther, Start, Assign,
        Prepare, GiveUp, Bind, Continue, Check, Attach, LaunchPlanned, FailPlanned, Record, Apologise,
        SetUpMore, Dispatch, DispatchConflict, DispatchFails, statusVars
<1>7. ASSUME UserSetUp \/ Preparation \/ PreparationFails \/ LoseWorkspace \/ Crash
      PROVE  moves'[m] = moves[m] \/ moves'[m] = NoMove
  BY <1>7 DEF UserSetUp, Preparation, PreparationFails, LoseWorkspace, Crash, statusVars
<1> QED
  <2>1. ASSUME NEW r \in Moves,
               ReadTask(r) \/ Transit(r) \/ TransitAgain(r)
                 \/ \E by \in People, k \in StatusKeys, to \in Statuses, n \in Revisions : BeginMove(r, by, k, to, n)
        PROVE  \/ moves'[m] = moves[m]
               \/ moves'[m] = NoMove
               \/ \E by \in People, k \in StatusKeys, to \in Statuses, n \in Revisions :
                     /\ moves'[m].at = "read" /\ moves'[m].by = by /\ moves'[m].key = k
                     /\ by = "agent" => Resolvable
               \/ /\ moves[m].at = "read" /\ moves'[m].at = "move"
                  /\ moves'[m].by = moves[m].by /\ moves'[m].key = moves[m].key
               \/ /\ Transit(m) \/ (TransitAgain(m) /\ Repeats(m))
                  /\ moves[m].at = "move" /\ moves'[m].at = "done"
                  /\ moves'[m].by = moves[m].by /\ moves'[m].key = moves[m].key
                  /\ moves'[m].to = moves[m].to /\ moves'[m].expected = moves[m].expected
    BY <1>2, <1>3, <1>4, <1>5, <2>1
  <2> QED BY <1>6, <1>7, <2>1 DEF ProductionNext

LEMMA AnswersKept ==
    ASSUME ProductionInv, ProductionNext
    PROVE  AnswerRecorded'
<1> SUFFICES ASSUME NEW m \in Moves, moves'[m].at = "done"
             PROVE  \E n \in DOMAIN history' :
                       /\ history'[n].key = moves'[m].key /\ history'[n].by = moves'[m].by
                       /\ history'[n].to = moves'[m].to /\ history'[n].revision = moves'[m].expected + 1
  BY DEF AnswerRecorded
<1>1. ASSUME moves'[m] = moves[m]
      PROVE  \E n \in DOMAIN history' :
                 /\ history'[n].key = moves'[m].key /\ history'[n].by = moves'[m].by
                 /\ history'[n].to = moves'[m].to /\ history'[n].revision = moves'[m].expected + 1
  <2>1. PICK n \in DOMAIN history :
            /\ history[n].key = moves[m].key /\ history[n].by = moves[m].by
            /\ history[n].to = moves[m].to /\ history[n].revision = moves[m].expected + 1
    BY <1>1 DEF ProductionInv, AnswerRecorded
  <2>2. n \in DOMAIN history' /\ history'[n] = history[n]
    BY <2>1, HistoryGrows
  <2> QED BY <1>1, <2>1, <2>2
<1>2. ASSUME Transit(m), moves'[m].by = moves[m].by, moves'[m].key = moves[m].key,
             moves'[m].to = moves[m].to, moves'[m].expected = moves[m].expected
      PROVE  \E n \in DOMAIN history' :
                 /\ history'[n].key = moves'[m].key /\ history'[n].by = moves'[m].by
                 /\ history'[n].to = moves'[m].to /\ history'[n].revision = moves'[m].expected + 1
  <2> DEFINE made == [key |-> moves[m].key, by |-> moves[m].by, from |-> task.status,
                      to |-> moves[m].to, revision |-> task.revision + 1]
  <2>1. history' = Append(history, made) /\ made \in Transition /\ moves[m].expected = task.revision
    BY <1>2, TransitFacts DEF ProductionInv
  <2>2. /\ made.key = moves[m].key /\ made.by = moves[m].by /\ made.to = moves[m].to
        /\ made.revision = moves[m].expected + 1
    BY <2>1
  <2> HIDE DEF made
  <2>3. Len(history) + 1 \in DOMAIN history' /\ history'[Len(history) + 1] = made
    BY <2>1, Appended DEF ProductionInv
  <2> QED BY <1>2, <2>2, <2>3
<1>3. ASSUME TransitAgain(m), Repeats(m), moves'[m].by = moves[m].by, moves'[m].key = moves[m].key,
             moves'[m].to = moves[m].to, moves'[m].expected = moves[m].expected
      PROVE  \E n \in DOMAIN history' :
                 /\ history'[n].key = moves'[m].key /\ history'[n].by = moves'[m].by
                 /\ history'[n].to = moves'[m].to /\ history'[n].revision = moves'[m].expected + 1
  <2>1. PICK h \in Made(m) : h.by = moves[m].by /\ h.to = moves[m].to /\ h.revision = moves[m].expected + 1
    BY <1>3 DEF Repeats
  <2>2. PICK n \in DOMAIN history : history[n] = h /\ h.key = moves[m].key
    BY <2>1 DEF Made, Range
  <2>3. n \in DOMAIN history' /\ history'[n] = h
    BY <2>2, HistoryGrows
  <2> QED BY <1>3, <2>1, <2>2, <2>3
<1>4. NoMove.at # "done"
  BY DEF NoMove
<1> QED BY <1>1, <1>2, <1>3, <1>4, MoveTurns

LEMMA MovesGroundedKept ==
    ASSUME ProductionInv, ProductionNext
    PROVE  MovesGrounded'
<1> SUFFICES ASSUME NEW m \in Moves
             PROVE  /\ moves'[m].at # "free" => moves'[m].key # "none"
                    /\ moves'[m].at \in {"read", "move"} /\ moves'[m].by = "agent" =>
                          context' # NoContext /\ context'.attached /\ context'.launched
  BY DEF MovesGrounded
<1>1. ASSUME context # NoContext, context.attached, context.launched
      PROVE  context' # NoContext /\ context'.attached /\ context'.launched
  <2>1. ASSUME NEW c \in Calls, Started(c)
        PROVE  FALSE
    BY <1>1, <2>1 DEF Started, Eligible
  <2>2. ASSUME NEW r \in Moves, Transit(r)
        PROVE  context' # NoContext /\ context'.attached /\ context'.launched
    <3>1. context \in Context
      BY <1>1 DEF ProductionInv, ProductionTypeOK
    <3>2. [context EXCEPT !.revoked = TRUE] \in Context
      BY <3>1, ContextWith DEF Failures
    <3>3. context' = context \/ context' = [context EXCEPT !.revoked = TRUE]
      <4>1. context' = RevokedBy(r)
        BY <2>2 DEF Transit
      <4> QED BY <4>1 DEF RevokedBy
    <3>4. context' \in Context /\ context'.attached /\ context'.launched
      BY <1>1, <3>1, <3>2, <3>3 DEF Context
    <3> QED BY <3>4, ContextWith DEF Failures
  <2>3. ASSUME UNCHANGED context \/ Marked
        PROVE  context' # NoContext /\ context'.attached /\ context'.launched
    BY <1>1, <2>3, ContextWith DEF Marked, Failures
  <2> QED BY <2>1, <2>2, <2>3, Turns DEF ProductionInv
<1>2. NoMove.at = "free" /\ "none" \notin StatusKeys
  BY Constants DEF NoMove
<1>3. /\ moves[m].at # "free" => moves[m].key # "none"
      /\ moves[m].at \in {"read", "move"} /\ moves[m].by = "agent" =>
            context # NoContext /\ context.attached /\ context.launched
  BY DEF ProductionInv, MovesGrounded
<1>4. Resolvable => context # NoContext /\ context.attached /\ context.launched
  BY DEF Resolvable
<1> QED BY <1>1, <1>2, <1>3, <1>4, MoveTurns
----------------------------------------------------------------------------
(* The context stays, and the Session it has planned. *)

LEMMA ContextStays ==
    ASSUME ProductionInv, ProductionNext, context # NoContext
    PROVE  /\ context' # NoContext /\ context' \in Context
           /\ context'.planned = context.planned /\ context'.input = context.input
           /\ context'.launched => context.launched \/ \E c \in Calls : At(c, "record")
<1>1. context \in Context
  BY DEF ProductionInv, ProductionTypeOK
<1>2. ASSUME NEW c \in Calls, Started(c)
      PROVE  FALSE
  BY <1>2 DEF Started, Eligible
<1>3. ASSUME NEW m \in Moves, Transit(m)
      PROVE  /\ context' \in Context
             /\ context'.planned = context.planned /\ context'.input = context.input
             /\ context'.launched => context.launched
  <2>1. context' = context \/ context' = [context EXCEPT !.revoked = TRUE]
    <3>1. context' = RevokedBy(m)
      BY <1>3 DEF Transit
    <3> QED BY <3>1 DEF RevokedBy
  <2>2. [context EXCEPT !.revoked = TRUE] \in Context
    BY <1>1, ContextWith DEF Failures
  <2> QED BY <1>1, <2>1, <2>2 DEF Context
<1>4. UNCHANGED context \/ Marked =>
          /\ context' \in Context
          /\ context'.planned = context.planned /\ context'.input = context.input
          /\ context'.launched => context.launched \/ \E c \in Calls : At(c, "record")
  BY <1>1 DEF Marked
<1>5. /\ context' \in Context
      /\ context'.planned = context.planned /\ context'.input = context.input
      /\ context'.launched => context.launched \/ \E c \in Calls : At(c, "record")
  BY <1>2, <1>3, <1>4, Turns DEF ProductionInv
<1> QED BY <1>5, ContextWith DEF Failures

LEMMA PlannedStays ==
    ASSUME ProductionInv, ProductionNext, context # NoContext
    PROVE  /\ sessions[context.planned].by # "request" => sessions'[context.planned].by # "request"
           /\ sessions[context.planned] = Launched("context", context.input) =>
                 sessions'[context.planned] = Launched("context", context.input)
<1>1. context \in Context /\ context.planned \in Sessions /\ sessions \in [Sessions -> Session]
  BY DEF ProductionInv, ProductionTypeOK, Context
<1>2. ASSUME NEW c \in Calls, LaunchPlanned(c)
      PROVE  sessions'[context.planned] = Launched("context", context.input)
  BY <1>1, <1>2, LaunchFacts DEF ProductionInv
<1>3. ASSUME NEW c \in Calls, Dispatch(c)
      PROVE  sessions'[context.planned] = sessions[context.planned]
  BY <1>1, <1>3, LaunchFacts DEF ProductionInv
<1>4. Launched("context", context.input).by # "request"
  BY DEF Launched
<1> QED BY <1>2, <1>3, <1>4, SessionsMade DEF ProductionInv

LEMMA SessionKept ==
    ASSUME ProductionInv, ProductionNext
    PROVE  SessionOfContext'
<1>1. CASE context # NoContext
  <2>1. /\ sessions[context.planned].by # "request"
        /\ context.launched => sessions[context.planned] = Launched("context", context.input)
    BY <1>1 DEF ProductionInv, SessionOfContext
  <2>2. ASSUME NEW c \in Calls, At(c, "record")
        PROVE  sessions[context.planned] = Launched("context", context.input)
    BY <2>2 DEF At, ProductionInv, CallsGrounded, Relies
  <2>3. /\ context'.planned = context.planned /\ context'.input = context.input
        /\ context'.launched => context.launched \/ \E c \in Calls : At(c, "record")
    BY <1>1, ContextStays
  <2> QED BY <1>1, <2>1, <2>2, <2>3, PlannedStays DEF SessionOfContext
<1>2. CASE context = NoContext
  <2>1. ASSUME NEW c \in Calls, Started(c)
        PROVE  SessionOfContext'
    <3>1. context'.planned \in Sessions /\ ~context'.launched /\ UNCHANGED sessions
      BY <2>1, StartedFacts DEF ProductionInv
    <3>2. sessions[context'.planned] = NoSession
      BY <1>2, <3>1 DEF ProductionInv, Grounds
    <3> QED BY <3>1, <3>2 DEF SessionOfContext, NoSession
  <2>2. ASSUME NEW m \in Moves, Transit(m)
        PROVE  context' = NoContext
    <3>1. context' = RevokedBy(m)
      BY <2>2 DEF Transit
    <3> QED BY <1>2, <3>1 DEF RevokedBy
  <2>3. UNCHANGED context \/ Marked => context' = NoContext
    BY <1>2 DEF Marked
  <2>4. context' = NoContext => SessionOfContext'
    BY DEF SessionOfContext
  <2> QED BY <2>1, <2>2, <2>3, <2>4, Turns DEF ProductionInv
<1> QED BY <1>1, <1>2

LEMMA Owing ==
    ASSUME ProductionTypeOK, ProductionNext, owed'
    PROVE  owed \/ Preparation
<1>1. ASSUME NEW c \in Calls, Answer(c)
      PROVE  owed
  BY <1>1 DEF Answer
<1>2. ASSUME NEW c \in Calls,
             \/ LookAtOwn(c) \/ LookAtOther(c) \/ Start(c) \/ Assign(c) \/ Prepare(c) \/ GiveUp(c) \/ Bind(c)
             \/ Continue(c) \/ Check(c) \/ Attach(c) \/ LaunchPlanned(c) \/ FailPlanned(c) \/ Record(c)
             \/ Apologise(c) \/ SetUpMore(c) \/ Dispatch(c) \/ DispatchConflict(c) \/ DispatchFails(c)
             \/ BeginContinuation(c)
             \/ \E i \in Inputs : \/ \E s \in Sessions : BeginLaunch(c, s, i)
                                  \/ \E k \in StartKeys : BeginStart(c, k, i)
      PROVE  owed \/ UNCHANGED owed \/ Answer(c)
  BY <1>2 DEF BeginLaunch, BeginStart, BeginContinuation, LookAtOwn, LookAtOther, Start, Assign,
        Prepare, GiveUp, Bind, Continue, Check, Attach, LaunchPlanned, FailPlanned, Record, Apologise,
        SetUpMore, Dispatch, DispatchConflict, DispatchFails
<1>3. ASSUME NEW m \in Moves,
             \/ ReadTask(m) \/ Transit(m) \/ TransitAgain(m)
             \/ \E by \in People, k \in StatusKeys, to \in Statuses, n \in Revisions : BeginMove(m, by, k, to, n)
      PROVE  UNCHANGED owed
  BY <1>3 DEF BeginMove, ReadTask, Transit, TransitAgain
<1>4. ASSUME UserSetUp \/ PreparationFails \/ LoseWorkspace \/ Crash
      PROVE  UNCHANGED owed
  BY <1>4 DEF UserSetUp, PreparationFails, LoseWorkspace, Crash
<1> QED BY <1>1, <1>2, <1>3, <1>4 DEF ProductionNext, Step

LEMMA GroundsKept ==
    ASSUME ProductionInv, ProductionNext
    PROVE  Grounds'
<1>1. ASSUME NEW made \in Transition, history' = Append(history, made), made.to # "pending",
             IF made.by = "assign" THEN made.key \in Sessions \cup StartKeys ELSE made.key \in StatusKeys
      PROVE  \A n \in DOMAIN history' :
                /\ history'[n].to # "pending"
                /\ IF history'[n].by = "assign" THEN history'[n].key \in Sessions \cup StartKeys
                                                ELSE history'[n].key \in StatusKeys
  <2>1. \A n \in DOMAIN history' :
            \/ n \in DOMAIN history /\ history'[n] = history[n]
            \/ history'[n] = made
    BY <1>1, Appended DEF ProductionInv
  <2> QED BY <1>1, <2>1 DEF ProductionInv, Grounds
<1>2. ASSUME NEW c \in Calls, Started(c)
      PROVE  Grounds'
  <2> DEFINE made == [key |-> calls[c].key, by |-> "assign", from |-> "pending",
                      to |-> "in_progress", revision |-> task.revision + 1]
  <2>1. history' = Append(history, made) /\ made \in Transition /\ made.key \in Sessions \cup StartKeys
        /\ context' \in Context
    BY <1>2, StartedFacts DEF ProductionInv
  <2>2. made.to # "pending" /\ made.by = "assign"
    OBVIOUS
  <2> HIDE DEF made
  <2>3. context' # NoContext
    BY <2>1, ContextWith DEF Failures
  <2> QED BY <1>1, <2>1, <2>2, <2>3 DEF Grounds
<1>3. ASSUME NEW m \in Moves, Transit(m)
      PROVE  Grounds'
  <2> DEFINE made == [key |-> moves[m].key, by |-> moves[m].by, from |-> task.status,
                      to |-> moves[m].to, revision |-> task.revision + 1]
  <2>1. /\ history' = Append(history, made) /\ made \in Transition
        /\ moves[m].key \in StatusKeys /\ moves[m].by \in People
        /\ Allowed(moves[m].by, task.status, moves[m].to)
        /\ task'.status = moves[m].to /\ task'.bound = task.bound
        /\ UNCHANGED <<workspace, sessions, owed>>
        /\ moves[m].by = "agent" => context # NoContext
    BY <1>3, TransitFacts DEF ProductionInv
  <2>2. made.key = moves[m].key /\ made.by = moves[m].by /\ made.to = moves[m].to
    OBVIOUS
  <2> HIDE DEF made
  <2>3. made.to # "pending" /\ made.by # "assign"
    BY <2>1, <2>2, AllowedMoves DEF People
  <2>4. context' = NoContext => context = NoContext
    <3>1. context # NoContext => context' # NoContext
      BY <1>3, ContextStays
    <3> QED BY <3>1
  <2>5. ASSUME context = NoContext
        PROVE  task'.status \in {"pending", "canceled"}
    <3>1. task.status \in {"pending", "canceled"}
      BY <2>5 DEF ProductionInv, Grounds
    <3>2. task.status \notin Terminal
      BY <2>1, AllowedMoves
    <3> QED BY <2>1, <3>1, <3>2, AllowedMoves DEF Terminal
  <2> QED BY <1>1, <2>1, <2>2, <2>3, <2>4, <2>5 DEF Grounds, ProductionInv
<1>4. ASSUME UNCHANGED <<task, history>>, UNCHANGED context \/ Marked
      PROVE  Grounds'
  <2>1. context' = NoContext => context = NoContext
    BY ContextStays
  <2>2. ASSUME context = NoContext
        PROVE  UNCHANGED workspace /\ ~owed' /\ UNCHANGED sessions
    <3>1. UNCHANGED workspace
      BY <2>2, WorkspaceMoves DEF ProductionInv
    <3>2. UNCHANGED sessions
      BY <2>2, SessionsMade, LaunchFacts DEF ProductionInv
    <3>3. ~owed /\ workspace = "absent"
      BY <2>2 DEF ProductionInv, Grounds
    <3>4. ~Preparation
      BY <3>3 DEF Preparation
    <3> QED BY <3>1, <3>2, <3>3, <3>4, Owing DEF ProductionInv
  <2> QED BY <1>4, <2>1, <2>2 DEF Grounds, ProductionInv
<1> QED BY <1>2, <1>3, <1>4, Turns DEF ProductionInv
----------------------------------------------------------------------------
(* What a call relies on stays true of the calls that do not move ... *)
LEMMA ReliesKept ==
    ASSUME ProductionInv, ProductionNext, NEW q, Relies(q, context, sessions)
    PROVE  Relies(q, context', sessions')
<1>1. CASE context # NoContext
  <2>1. context' # NoContext /\ context'.planned = context.planned /\ context'.input = context.input
    BY <1>1, ContextStays
  <2> QED BY <1>1, <2>1, PlannedStays DEF Relies
<1>2. CASE context = NoContext
  BY <1>2 DEF Relies
<1> QED BY <1>1, <1>2

(* ... and is true where a call goes. *)
LEMMA ReliesAt ==
    ASSUME NEW q, NEW of, NEW made,
           \/ q.at = "free"
           \/ /\ q.at \in {"prepare", "giveUp", "bind", "continue", "check", "attach", "launch", "apologise"}
              /\ of # NoContext
    PROVE  Relies(q, of, made)
BY DEF Relies

LEMMA Landing ==
    ASSUME ProductionTypeOK, NEW c \in Calls
    PROVE  /\ \A point \in Points :
                 /\ Go(c, point) => calls'[c] = [calls[c] EXCEPT !.at = point] /\ calls'[c].at = point
                 /\ Enter(c, point) => calls'[c].at = point
           /\ Answer(c) => calls'[c].at = "free"
<1>1. calls \in [Calls -> Call]
  BY DEF ProductionTypeOK
<1>2. ASSUME NEW point \in Points
      PROVE  /\ Go(c, point) => calls'[c] = [calls[c] EXCEPT !.at = point] /\ calls'[c].at = point
             /\ Enter(c, point) => calls'[c].at = point
  BY <1>1 DEF Go, Enter, NoCall, Call
<1>3. Answer(c) => calls'[c].at = "free"
  BY <1>1 DEF Answer, NoCall
<1> QED BY <1>2, <1>3

(* A call in the middle of a launch or a Start. *)
LEMMA StartsRely ==
    ASSUME ProductionInv, ProductionNext, NEW c \in Calls,
           \/ \E i \in Inputs : \/ \E s \in Sessions : BeginLaunch(c, s, i)
                                \/ \E k \in StartKeys : BeginStart(c, k, i)
           \/ LookAtOwn(c) \/ LookAtOther(c) \/ Start(c) \/ Assign(c)
    PROVE  Relies(calls'[c], context', sessions')
<1> DEFINE call == calls[c]
<1>1. /\ calls \in [Calls -> Call] /\ task \in Task /\ context \in Context \cup {NoContext}
  BY DEF ProductionInv, ProductionTypeOK
<1>2. Relies(calls[c], context, sessions)
  BY DEF ProductionInv, CallsGrounded
<1>3. task.status = "in_progress" => context # NoContext
  BY DEF ProductionInv, Grounds
<1>4. ASSUME NEW i \in Inputs, NEW s \in Sessions, BeginLaunch(c, s, i)
      PROVE  Relies(calls'[c], context', sessions')
  <2>1. calls'[c] = [NoCall EXCEPT !.at = "look", !.key = s, !.session = s, !.input = i,
                                   !.status = task.status, !.revision = task.revision,
                                   !.bound = task.bound]
        /\ task.status \in {"pending", "in_progress"} /\ context' = context
    BY <1>1, <1>4 DEF BeginLaunch
  <2>2. /\ calls'[c].at = "look" /\ calls'[c].key = s /\ calls'[c].session = s /\ calls'[c].input = i
        /\ calls'[c].status = task.status
    BY <2>1 DEF NoCall
  <2> QED BY <1>3, <2>1, <2>2, Constants DEF Relies
<1>5. ASSUME NEW i \in Inputs, NEW k \in StartKeys, BeginStart(c, k, i)
      PROVE  Relies(calls'[c], context', sessions')
  <2>1. PICK n \in Revisions :
            calls'[c] = [NoCall EXCEPT !.at = "start", !.key = k, !.session = Generated,
                                       !.input = i, !.revision = n]
    BY <1>1, <1>5 DEF BeginStart
  <2>2. /\ calls'[c].at = "start" /\ calls'[c].key = k /\ calls'[c].session = Generated /\ calls'[c].input = i
    BY <2>1 DEF NoCall
  <2> QED BY <2>2, Constants, SessionsAssumption DEF Relies
<1>6. CASE LookAtOwn(c)
  <2>1. context # NoContext
    <3>1. call.at = "look" /\ context.planned = call.session
      BY <1>6 DEF LookAtOwn, At, Planned
    <3>2. call.session # "none"
      BY <1>2, <3>1 DEF Relies
    <3> QED BY <3>1, <3>2 DEF NoContext
  <2>2. calls'[c].at \in {"free", "continue"}
    BY <1>6, Landing DEF LookAtOwn, Points, ProductionInv
  <2> QED BY <2>1, <2>2, ReliesAt, ContextStays
<1>7. CASE LookAtOther(c)
  <2>1. /\ call.at = "look" /\ context.planned # call.session
        /\ UNCHANGED context
    BY <1>7 DEF LookAtOther, At, Planned
  <2>2. CASE Answer(c)
    BY <2>2, ReliesAt, Landing DEF ProductionInv
  <2>3. CASE Go(c, "start")
    <3>1. calls'[c] = [calls[c] EXCEPT !.at = "start"]
      BY <2>3, Landing DEF Points, ProductionInv
    <3>2. /\ calls'[c].at = "start" /\ calls'[c].key = call.key /\ calls'[c].session = call.session
          /\ calls'[c].input = call.input
      BY <1>1, <3>1 DEF Call
    <3> QED BY <1>2, <2>1, <3>2 DEF Relies
  <2>4. CASE /\ call.status # "pending"
             /\ calls' = [calls EXCEPT ![c] =
                             [NoCall EXCEPT !.at = "setup", !.session = calls[c].session,
                                            !.input = calls[c].input]]
    <3>1. /\ calls'[c].at = "setup" /\ calls'[c].session = call.session
          /\ calls'[c].input = call.input
      BY <1>1, <2>4 DEF NoCall
    <3> QED BY <1>2, <2>1, <2>4, <3>1 DEF Relies
  <2> QED BY <1>7, <2>2, <2>3, <2>4 DEF LookAtOther
<1>8. CASE Start(c)
  <2>1. call.at = "start" /\ UNCHANGED context
    BY <1>8 DEF Start, At
  <2>2. CASE Answer(c)
    BY <2>2, ReliesAt, Landing DEF ProductionInv
  <2>3. CASE Go(c, "assign")
    <3>1. calls'[c] = [calls[c] EXCEPT !.at = "assign"]
      BY <2>3, Landing DEF Points, ProductionInv
    <3>2. /\ calls'[c].at = "assign" /\ calls'[c].key = call.key /\ calls'[c].session = call.session
          /\ calls'[c].input = call.input
      BY <1>1, <3>1 DEF Call
    <3> QED BY <1>2, <2>1, <3>2 DEF Relies
  <2>4. CASE SameStart(c) /\ Enter(c, "prepare")
    <3>1. calls'[c].at = "prepare"
      BY <2>4, Landing DEF Points, ProductionInv
    <3> QED BY <2>1, <2>4, <3>1, ReliesAt DEF SameStart
  <2> QED BY <1>8, <2>2, <2>3, <2>4 DEF Start
<1>9. CASE Assign(c)
  <2>1. CASE Answer(c)
    BY <2>1, ReliesAt, Landing DEF ProductionInv
  <2>2. CASE Enter(c, "prepare")
    <3>1. calls'[c].at = "prepare"
      BY <2>2, Landing DEF Points, ProductionInv
    <3>2. context' # NoContext
      <4>1. CASE Started(c)
        BY <4>1, StartedFacts, ContextWith DEF ProductionInv, Failures
      <4>2. CASE SameStart(c)
        BY <4>2, ContextStays DEF SameStart
      <4>3. Started(c) \/ SameStart(c) \/ Answer(c)
        BY <1>9 DEF Assign, Started
      <4>4. ~Answer(c)
        BY <3>1, Landing DEF ProductionInv
      <4> QED BY <4>1, <4>2, <4>3, <4>4
    <3> QED BY <3>1, <3>2, ReliesAt
  <2> QED BY <1>9, <2>1, <2>2 DEF Assign
<1> QED BY <1>4, <1>5, <1>6, <1>7, <1>8, <1>9

(* ... in the middle of a continuation. *)
LEMMA ContinuationsRely ==
    ASSUME ProductionInv, ProductionNext, NEW c \in Calls,
           \/ Prepare(c) \/ GiveUp(c) \/ Bind(c) \/ BeginContinuation(c)
           \/ Continue(c) \/ Check(c) \/ Attach(c)
           \/ LaunchPlanned(c) \/ FailPlanned(c) \/ Record(c) \/ Apologise(c)
    PROVE  Relies(calls'[c], context', sessions')
<1>1. calls \in [Calls -> Call] /\ context \in Context \cup {NoContext} /\ sessions \in [Sessions -> Session]
  BY DEF ProductionInv, ProductionTypeOK
<1>2. Relies(calls[c], context, sessions)
  BY DEF ProductionInv, CallsGrounded
<1>3. context # NoContext \/ Answer(c)
  <2>1. owed => context # NoContext
    BY DEF ProductionInv, Grounds
  <2> QED BY <1>2, <2>1 DEF Relies, At, Prepare, GiveUp, Bind, BeginContinuation, Continue, Check, Attach,
        LaunchPlanned, FailPlanned, Record, Apologise
<1>4. context # NoContext => context' # NoContext
  BY ContextStays
<1>5. CASE Prepare(c)
  <2>1. calls'[c].at \in {"bind", "giveUp"}
    <3>1. CASE Go(c, "giveUp")
      BY <3>1, Landing DEF Points, ProductionInv
    <3>2. CASE calls' = [calls EXCEPT ![c].at = "bind", ![c].ready = (workspace = "ready")]
      <4> DEFINE b == workspace = "ready"
      <4>1. calls' = [calls EXCEPT ![c].at = "bind", ![c].ready = b]
        BY <3>2
      <4> HIDE DEF b
      <4>2. calls'[c].at = "bind"
        BY <1>1, <4>1 DEF Call
      <4> QED BY <4>2
    <3> QED BY <1>5, <3>1, <3>2 DEF Prepare
  <2> QED BY <1>3, <1>4, <2>1, ReliesAt, Landing DEF ProductionInv
<1>6. CASE GiveUp(c) \/ Record(c) \/ Apologise(c)
  BY <1>6, ReliesAt, Landing DEF GiveUp, Record, Apologise, ProductionInv
<1>7. CASE Bind(c) \/ BeginContinuation(c) \/ Attach(c) \/ Check(c) \/ FailPlanned(c)
  <2>1. calls'[c].at \in {"free", "continue", "launch", "attach", "apologise"}
    BY <1>7, Landing DEF Bind, BeginContinuation, Attach, Check, FailPlanned, Points, ProductionInv
  <2>2. Answer(c) => calls'[c].at = "free"
    BY Landing DEF ProductionInv
  <2> QED BY <1>3, <1>4, <2>1, <2>2, ReliesAt
<1>8. CASE Continue(c)
  <2> DEFINE a == context.attached
             l == context.launched
  <2>1. calls' = [calls EXCEPT ![c].at = "check", ![c].attached = a, ![c].launched = l]
    BY <1>8 DEF Continue
  <2> HIDE DEF a, l
  <2>2. calls'[c].at = "check"
    BY <1>1, <2>1 DEF Call
  <2>3. Answer(c) => calls'[c].at = "free"
    BY Landing DEF ProductionInv
  <2> QED BY <1>3, <1>4, <2>2, <2>3, ReliesAt
<1>9. CASE LaunchPlanned(c)
  <2>1. calls'[c].at = "record"
    BY <1>9, Landing DEF LaunchPlanned, Points, ProductionInv
  <2>2. context # NoContext /\ context' = context
        /\ sessions' = [sessions EXCEPT ![context.planned] = Launched("context", context.input)]
    BY <1>9, LaunchFacts DEF ProductionInv
  <2>3. context.planned \in Sessions
    BY <1>1, <2>2 DEF Context
  <2>4. sessions'[context'.planned] = Launched("context", context'.input)
    BY <1>1, <2>2, <2>3
  <2> QED BY <2>1, <2>2, <2>4 DEF Relies
<1> QED BY <1>5, <1>6, <1>7, <1>8, <1>9

(* ... in the launch of one more Session. *)
LEMMA LaunchesRely ==
    ASSUME ProductionInv, ProductionNext, NEW c \in Calls,
           SetUpMore(c) \/ Dispatch(c) \/ DispatchConflict(c) \/ DispatchFails(c)
    PROVE  Relies(calls'[c], context', sessions')
<1>1. calls \in [Calls -> Call]
  BY DEF ProductionInv, ProductionTypeOK
<1>2. Relies(calls[c], context, sessions)
  BY DEF ProductionInv, CallsGrounded
<1>3. CASE Answer(c)
  BY <1>3, ReliesAt, Landing DEF ProductionInv
<1>4. CASE SetUpMore(c) /\ Go(c, "dispatch")
  <2>1. calls'[c] = [calls[c] EXCEPT !.at = "dispatch"]
    BY <1>4, Landing DEF Points, ProductionInv
  <2>2. calls'[c].at = "dispatch" /\ calls'[c].session = calls[c].session /\ calls'[c].input = calls[c].input
    BY <1>1, <2>1 DEF Call
  <2>3. calls[c].at = "setup" /\ UNCHANGED context
    BY <1>4 DEF SetUpMore, At
  <2> QED BY <1>2, <2>2, <2>3 DEF Relies
<1> QED BY <1>3, <1>4 DEF SetUpMore, Dispatch, DispatchConflict, DispatchFails

LEMMA CallTurns ==
    ASSUME ProductionInv, ProductionNext, NEW d \in Calls
    PROVE  \/ calls'[d] = calls[d]
           \/ calls'[d].at = "free"
           \/ \E i \in Inputs : \/ \E s \in Sessions : BeginLaunch(d, s, i)
                                \/ \E k \in StartKeys : BeginStart(d, k, i)
           \/ BeginContinuation(d) \/ Step(d)
<1>1. calls \in [Calls -> Call]
  BY DEF ProductionInv, ProductionTypeOK
<1>2. ASSUME NEW c \in Calls, c # d,
             \/ (\E point \in Points : Go(c, point) \/ Enter(c, point)) \/ Answer(c)
             \/ \E q : calls' = [calls EXCEPT ![c] = q]
             \/ \E a, b : calls' = [calls EXCEPT ![c].at = "bind", ![c].ready = b]
             \/ \E a, b : calls' = [calls EXCEPT ![c].at = "check", ![c].attached = a, ![c].launched = b]
      PROVE  calls'[d] = calls[d]
  BY <1>1, <1>2 DEF Go, Enter, Answer
<1>3. Points # {} /\ {"assign", "start", "setup", "prepare", "giveUp", "bind", "continue", "check", "attach",
       "launch", "record", "apologise", "dispatch", "look"} \subseteq Points
  BY DEF Points
<1>4. ASSUME NEW c \in Calls, c # d,
             \/ \E i \in Inputs : \/ \E s \in Sessions : BeginLaunch(c, s, i)
                                  \/ \E k \in StartKeys : BeginStart(c, k, i)
             \/ LookAtOther(c) \/ Prepare(c) \/ Continue(c)
      PROVE  calls'[d] = calls[d]
  <2>1. CASE \E i \in Inputs, s \in Sessions : BeginLaunch(c, s, i)
    BY <1>2, <1>4, <2>1 DEF BeginLaunch
  <2>2. CASE \E i \in Inputs, k \in StartKeys : BeginStart(c, k, i)
    BY <1>2, <1>4, <2>2 DEF BeginStart
  <2>3. CASE LookAtOther(c)
    BY <1>2, <1>3, <1>4, <2>3 DEF LookAtOther
  <2>4. CASE Prepare(c)
    BY <1>2, <1>3, <1>4, <2>4 DEF Prepare
  <2>5. CASE Continue(c)
    BY <1>2, <1>4, <2>5 DEF Continue
  <2> QED BY <1>4, <2>1, <2>2, <2>3, <2>4, <2>5
<1>5. ASSUME NEW c \in Calls, c # d,
             \/ LookAtOwn(c) \/ Start(c) \/ Assign(c) \/ GiveUp(c) \/ Bind(c) \/ BeginContinuation(c)
             \/ Check(c) \/ Attach(c) \/ LaunchPlanned(c) \/ FailPlanned(c) \/ Record(c)
             \/ Apologise(c) \/ SetUpMore(c) \/ Dispatch(c) \/ DispatchConflict(c) \/ DispatchFails(c)
      PROVE  calls'[d] = calls[d]
  <2>1. (\E point \in Points : Go(c, point) \/ Enter(c, point)) \/ Answer(c)
    BY <1>3, <1>5 DEF LookAtOwn, Start, Assign, GiveUp, Bind, BeginContinuation, Check, Attach, LaunchPlanned,
          FailPlanned, Record, Apologise, SetUpMore, Dispatch, DispatchConflict, DispatchFails
  <2> QED BY <1>2, <1>5, <2>1
<1>6. ASSUME NEW m \in Moves,
             \/ ReadTask(m) \/ Transit(m) \/ TransitAgain(m)
             \/ \E by \in People, k \in StatusKeys, to \in Statuses, n \in Revisions : BeginMove(m, by, k, to, n)
      PROVE  UNCHANGED calls
  BY <1>6 DEF BeginMove, ReadTask, Transit, TransitAgain
<1>7. ASSUME UserSetUp \/ Preparation \/ PreparationFails \/ LoseWorkspace \/ Crash
      PROVE  UNCHANGED calls \/ calls'[d].at = "free"
  BY <1>7 DEF UserSetUp, Preparation, PreparationFails, LoseWorkspace, Crash, NoCall
<1> QED BY <1>4, <1>5, <1>6, <1>7 DEF ProductionNext, Step

LEMMA CallsGroundedKept ==
    ASSUME ProductionInv, ProductionNext
    PROVE  CallsGrounded'
<1> SUFFICES ASSUME NEW d \in Calls
             PROVE  Relies(calls'[d], context', sessions')
  BY DEF CallsGrounded
<1>1. CASE calls'[d] = calls[d]
  <2>1. Relies(calls[d], context, sessions)
    BY DEF ProductionInv, CallsGrounded
  <2> QED BY <1>1, <2>1, ReliesKept
<1>2. CASE calls'[d].at = "free"
  BY <1>2, ReliesAt
<1>3. CASE \/ \E i \in Inputs : \/ \E s \in Sessions : BeginLaunch(d, s, i)
                                \/ \E k \in StartKeys : BeginStart(d, k, i)
           \/ BeginContinuation(d) \/ Step(d)
  BY <1>3, StartsRely, ContinuationsRely, LaunchesRely DEF Step
<1> QED BY <1>1, <1>2, <1>3, CallTurns
----------------------------------------------------------------------------
LEMMA Initially == ProductionInit => ProductionInv
<1> SUFFICES ASSUME ProductionInit
             PROVE  ProductionInv
  OBVIOUS
<1>1. ProductionTypeOK
  <2>1. task \in Task /\ history \in Seq(Transition) /\ context = NoContext
    BY Constants DEF ProductionInit, Task, Statuses
  <2>2. workspace \in Lifecycle!Phases /\ sessions \in [Sessions -> Session] /\ owed \in BOOLEAN
        /\ calls \in [Calls -> Call] /\ moves \in [Moves -> Move]
    BY Constants DEF ProductionInit, Lifecycle!Phases
  <2>3. outages \in 0..MaxOutages /\ crashes \in 0..MaxCrashes /\ losses \in 0..MaxLosses
    BY BoundsAssumption DEF ProductionInit
  <2> QED BY <2>1, <2>2, <2>3 DEF ProductionTypeOK
<1>2. HistoryChains /\ ContextIsStart /\ RevokedIffTerminal /\ AnswerRecorded /\ SessionOfContext
  BY DEF ProductionInit, HistoryChains, ContextIsStart, RevokedIffTerminal, AnswerRecorded,
         SessionOfContext, NoMove
<1>3. Grounds /\ MovesGrounded
  BY DEF ProductionInit, Grounds, MovesGrounded, NoMove
<1>4. CallsGrounded
  BY DEF ProductionInit, CallsGrounded, Relies, NoCall
<1> QED BY <1>1, <1>2, <1>3, <1>4 DEF ProductionInv

LEMMA Inductive == ProductionInv /\ [ProductionNext]_vars => ProductionInv'
<1> SUFFICES ASSUME ProductionInv, [ProductionNext]_vars
             PROVE  ProductionInv'
  OBVIOUS
<1>1. CASE ProductionNext
  <2>1. ProductionTypeOK'
    BY <1>1, TypesKept DEF ProductionInv
  <2>2. HistoryChains' /\ ContextIsStart' /\ RevokedIffTerminal' /\ AnswerRecorded' /\ SessionOfContext'
    BY <1>1, ChainsKept, StartKept, RevocationKept, AnswersKept, SessionKept
  <2>3. Grounds' /\ CallsGrounded' /\ MovesGrounded'
    BY <1>1, GroundsKept, CallsGroundedKept, MovesGroundedKept
  <2> QED BY <2>1, <2>2, <2>3 DEF ProductionInv
<1>2. CASE UNCHANGED vars
  <2>1. ProductionTypeOK'
    BY <1>2 DEF vars, ProductionInv, ProductionTypeOK
  <2>2. HistoryChains' /\ ContextIsStart' /\ RevokedIffTerminal' /\ AnswerRecorded' /\ SessionOfContext'
    BY <1>2 DEF vars, ProductionInv, HistoryChains, ContextIsStart, RevokedIffTerminal, AnswerRecorded,
                SessionOfContext
  <2>3. Grounds' /\ CallsGrounded' /\ MovesGrounded'
    BY <1>2 DEF vars, ProductionInv, Grounds, CallsGrounded, MovesGrounded
  <2> QED BY <2>1, <2>2, <2>3 DEF ProductionInv
<1> QED BY <1>1, <1>2

(* The inductive invariant. *)
THEOREM ProductionInvariant == ProductionSpec => []ProductionInv
<1> QED BY Initially, Inductive, PTL DEF ProductionSpec

(* Every variable has its type, for any number of requests, keys and Sessions. *)
THEOREM ProductionTypes == ProductionSpec => []ProductionTypeOK
<1>1. ProductionInv => ProductionTypeOK
  BY DEF ProductionInv
<1> QED BY <1>1, ProductionInvariant, PTL

(* Of all requests that race for a revision of the Task one makes its transition
   (transitionTaskStatus, startTaskProduction). *)
THEOREM HistoryIsOneChain == ProductionSpec => []HistoryChains
<1>1. ProductionInv => HistoryChains
  BY DEF ProductionInv
<1> QED BY <1>1, ProductionInvariant, PTL

(* Only one Start makes the production context (startTaskProduction). *)
THEOREM ContextsAreStarted == ProductionSpec => []ContextIsStart
<1>1. ProductionInv => ContextIsStart
  BY DEF ProductionInv
<1> QED BY <1>1, ProductionInvariant, PTL

(* The capability of the Agent lasts exactly as long as the Task. *)
THEOREM CapabilityEndsWithTask == ProductionSpec => []RevokedIffTerminal
<1>1. ProductionInv => RevokedIffTerminal
  BY DEF ProductionInv
<1> QED BY <1>1, ProductionInvariant, PTL

(* What a status request is told to have made is in the history. *)
THEOREM AnswersAreRecorded == ProductionSpec => []AnswerRecorded
<1>1. ProductionInv => AnswerRecorded
  BY DEF ProductionInv
<1> QED BY <1>1, ProductionInvariant, PTL

(* No launch takes the place of the planned Session (launchExecutionContext). *)
THEOREM PlannedSessionIsOfContext == ProductionSpec => []SessionOfContext
<1>1. ProductionInv => SessionOfContext
  BY DEF ProductionInv
<1> QED BY <1>1, ProductionInvariant, PTL

(* A status request of an Agent that was let in long ago moves the Task only if
   the Agent's capability is still open: nothing but the end of the Task closes
   it, and the transaction finds the end of the Task. *)
THEOREM AgentsAreFenced == ProductionSpec => AgentFenced
<1>1. ASSUME ProductionInv, [ProductionNext]_vars
      PROVE  [Len(history') > Len(history) /\ Last(history').by = "agent" => Resolvable]_vars
  <2> SUFFICES ASSUME ProductionNext, Len(history') > Len(history), Last(history').by = "agent"
               PROVE  Resolvable
    BY <1>1
  <2>1. Len(history) \in Nat
    BY <1>1 DEF ProductionInv, ProductionTypeOK
  <2>2. history' # history
    BY <2>1
  <2>3. ASSUME NEW c \in Calls, Started(c)
        PROVE  FALSE
    <3> DEFINE made == [key |-> calls[c].key, by |-> "assign", from |-> "pending",
                        to |-> "in_progress", revision |-> task.revision + 1]
    <3>1. history' = Append(history, made) /\ made \in Transition /\ made.by = "assign"
      BY <1>1, <2>3, StartedFacts DEF ProductionInv
    <3> HIDE DEF made
    <3>2. Last(history') = made
      BY <1>1, <3>1, Appended DEF ProductionInv, Last
    <3> QED BY <3>1, <3>2
  <2>4. ASSUME NEW m \in Moves, Transit(m)
        PROVE  Resolvable
    <3> DEFINE made == [key |-> moves[m].key, by |-> moves[m].by, from |-> task.status,
                        to |-> moves[m].to, revision |-> task.revision + 1]
    <3>1. history' = Append(history, made) /\ made \in Transition
          /\ Allowed(made.by, made.from, made.to) /\ made.from = task.status
          /\ (made.by = "agent" => context # NoContext /\ context.attached /\ context.launched)
      BY <1>1, <2>4, TransitFacts DEF ProductionInv
    <3> HIDE DEF made
    <3>2. Last(history') = made
      BY <1>1, <3>1, Appended DEF ProductionInv, Last
    <3>3. context # NoContext /\ context.attached /\ context.launched /\ task.status \notin Terminal
      BY <3>1, <3>2, AllowedMoves
    <3>4. ~context.revoked
      BY <1>1, <3>3 DEF ProductionInv, RevokedIffTerminal
    <3> QED BY <3>3, <3>4 DEF Resolvable
  <2> QED BY <1>1, <2>2, <2>3, <2>4, Turns DEF ProductionInv
<1> QED BY <1>1, ProductionInvariant, PTL DEF ProductionSpec, AgentFenced
=============================================================================
