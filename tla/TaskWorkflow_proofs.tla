------------------------ MODULE TaskWorkflow_proofs ------------------------
(***************************************************************************)
(* The Workflow of a Task, for any number of states, Sessions, requests,     *)
(* Skills and changes: its transitions are one path through the stages, a     *)
(* Session can use it as long as its state is active, and the Skills wanted    *)
(* are those of one stage, however late a request commits what it looked up.    *)
(***************************************************************************)
EXTENDS TaskWorkflow, Integers, FiniteSetTheorems, TLAPS

(* The version of the last change of the stage: disabling is one that leaves it. *)
Last(x) == IF states[x].life = "disabled" THEN states[x].version - 1 ELSE states[x].version

(* The stage of a state at a version, without choosing a transition. *)
Reached(x, n, stage) ==
    \/ n = 1 /\ stage = "understand"
    \/ \E t \in transitions : t.state = x /\ t.version = n - 1 /\ stage = ToStage[t.action]

(* The bound counts what has happened: as many transitions as versions. *)
Counted ==
    /\ IsFiniteSet(Enabled) /\ IsFiniteSet(transitions)
    /\ Cardinality(Enabled) + Cardinality(transitions) <= MaxChanges

Numbered(x) ==
    /\ states[x].life = "none" => states[x].version = 1
    /\ states[x].life = "disabled" => states[x].version >= 2
    /\ \A t \in TransitionsOf(x) : t.version <= Last(x) - 1
    /\ \A t, u \in TransitionsOf(x) :
          t.version = u.version \/ t.command = u.command => t = u
    /\ Cardinality(TransitionsOf(x)) = Last(x) - 1

Walked(x) ==
    /\ \A n \in 1..(Last(x) - 1) :
          \E t \in TransitionsOf(x) : t.version = n /\ Reached(x, n, FromStage[t.action])
    /\ Reached(x, Last(x), states[x].stage)

PathInv ==
    /\ \A x, y \in Active : x = y
    /\ \A x \in States : Numbered(x) /\ Walked(x)

(* A Session is bound only to a state that has been enabled. *)
BoundInv ==
    /\ BoundWhileActive
    /\ \A s \in Sessions : capabilities[s].state # "none" =>
          states[capabilities[s].state].life # "none"

(* What a request looks up belongs to one stage: the one its state had at the
   generation, or the one the transition leads to. *)
StageFor(r, stage) ==
    IF r.kind = "transition" THEN stage = ToStage[r.action]
    ELSE r.generation <= states[r.state].version /\ Reached(r.state, r.generation, stage)

Gathers(r) ==
    /\ r.state \in States
    /\ r.at = "look" => r.need # {}
    /\ r.at # "look" => r.need = {} /\ (r.at = "commit" <=> r.kind = "transition")
    /\ r.kind = "transition" =>
          r.action \in Actions /\ r.command \in Commands /\ r.generation >= 2
    /\ \E stage \in Stages :
          /\ StageFor(r, stage)
          /\ r.need \cup {q.scope : q \in r.found} = Contributions(stage)
    /\ \A p, q \in r.found : p.scope = q.scope => p = q
    /\ \A q \in r.found : q.scope \notin r.need

CallOK(r) ==
    /\ r.at \in {"look", "replace", "commit"} => Gathers(r)
    /\ r.at \in {"look", "replace", "commit", "bind"} =>
          r.state \in States /\ r.session \in Sessions

CallsInv == \A c \in Calls : CallOK(calls[c])

(* The sources of a state are those of one stage. *)
OfOneStage(x, new) ==
    \A q \in new :
       /\ q.generation <= states[x].version
       /\ \E stage \in Stages : /\ Reached(x, q.generation, stage)
                                /\ {p.scope : p \in new} = Contributions(stage)
       /\ \A p \in new : p.generation = q.generation /\ (p.scope = q.scope => p = q)

Own(x) == {q \in sources : q.state = x}

(* The projection of a Skill and the sources that ask for it. *)
Projected(p, of) ==
    /\ p = NoProjection <=> of = {}
    /\ \A q \in of : q.revision = p.revision /\ q.generation <= p.generation
    /\ p # NoProjection =>
          /\ p.status # "none"
          /\ \E q \in of : q.generation = p.generation
          /\ p.applied = IF p.status = "pending" THEN 0 ELSE p.generation

Asking(all, k) == {q \in all : q.skill = k}

DesiredInv ==
    /\ \A x \in States : OfOneStage(x, Own(x))
    /\ \A k \in Skills : Projected(projections[k], Asking(sources, k))

WorkflowInv ==
    WorkflowTypeOK /\ Counted /\ PathInv /\ BoundInv /\ CallsInv /\ DesiredInv
----------------------------------------------------------------------------
(* Names of stages and points. *)
LEMMA StageTypes ==
    /\ FromStage \in [Actions -> Stages] /\ ToStage \in [Actions -> Stages]
    /\ \A stage \in Stages : Contributions(stage) \subseteq Scopes
                               /\ "global" \in Contributions(stage)
  BY DEF FromStage, ToStage, Actions, Stages, Contributions, Scopes

(* A finite set of numbers has a greatest one: among the sets of what is at least as
   great as one of them, there is one with no smaller below it. *)
LEMMA Greatest ==
    ASSUME NEW T \in SUBSET Nat, T # {}, IsFiniteSet(T)
    PROVE  \E x \in T : \A y \in T : y <= x
  <1> DEFINE Up(x) == {y \in T : x <= y}
             U == {Up(x) : x \in T}
  <1>1. IsWellFoundedOn(StrictSubsetOrdering(T), FiniteSubsetsOf(T))
    BY FS_StrictSubsetOrderingWellFounded
  <1>2. U \subseteq FiniteSubsetsOf(T) BY FS_Subset DEF FiniteSubsetsOf
  <1>3. U # {} OBVIOUS
  <1>4. \E m \in U : \A u \in U : ~(<<u, m>> \in StrictSubsetOrdering(T))
    BY <1>1, <1>2, <1>3, WFMin
  <1>5. PICK x \in T : \A u \in U : ~(<<u, Up(x)>> \in StrictSubsetOrdering(T)) BY <1>4
  <1>6. ASSUME NEW y \in T, ~(y <= x) PROVE FALSE
    <2>1. x \in Nat /\ y \in Nat /\ \A z \in T : z \in Nat OBVIOUS
    <2>2. x <= y /\ \A z \in T : y <= z => x <= z BY <1>6, <2>1
    <2>3. Up(y) \subseteq Up(x) /\ x \in Up(x) /\ x \notin Up(y)
      <3>1. Up(y) \subseteq Up(x) BY <2>2
      <3>2. x <= x BY <2>1
      <3>3. QED BY <1>6, <3>1, <3>2
    <2>4. Up(y) \in SUBSET T /\ Up(x) \in SUBSET T OBVIOUS
    <2>5. <<Up(y), Up(x)>> \in StrictSubsetOrdering(T) BY <2>3, <2>4 DEF StrictSubsetOrdering
    <2>6. QED BY <1>5, <2>5
  <1>7. QED BY <1>6

(* Of the sources that ask for a Skill one is newest. *)
LEMMA NewestIs ==
    ASSUME NEW all \in SUBSET Source, NEW k, Asking(all, k) # {}
    PROVE  /\ Newest(all, k) \in Asking(all, k)
           /\ \A p \in Asking(all, k) : p.generation <= Newest(all, k).generation
  <1> DEFINE T == {q.generation : q \in Asking(all, k)}
  <1>1. T \in SUBSET Versions /\ T # {} BY DEF Asking, Source
  <1>2. Versions \in SUBSET Nat /\ IsFiniteSet(Versions)
    BY BoundsAssumption, FS_Interval DEF Versions
  <1>3. IsFiniteSet(T) /\ T \in SUBSET Nat BY <1>1, <1>2, FS_Subset
  <1>4. \E n \in T : \A m \in T : m <= n BY <1>1, <1>3, Greatest
  <1>5. \E q \in all : q.skill = k /\ \A p \in all : p.skill = k => p.generation <= q.generation
    BY <1>4 DEF Asking
  <1>6. QED BY <1>5 DEF Newest, Asking
----------------------------------------------------------------------------
(* What the steps leave: versions and transitions only grow. *)
Forward ==
    /\ states' \in [States -> State]
    /\ \A x \in States : states[x].version <= states'[x].version
    /\ transitions \subseteq transitions'

LEMMA VersionTypes == Versions = 1..(MaxChanges + 1) /\ Versions \subseteq Nat /\ MaxChanges \in Nat
  BY BoundsAssumption DEF Versions

LEMMA ReachedKept ==
    ASSUME transitions \subseteq transitions', NEW x, NEW n, NEW stage, Reached(x, n, stage)
    PROVE  Reached(x, n, stage)'
  BY DEF Reached

LEMMA StageForKept ==
    ASSUME WorkflowTypeOK, Forward, NEW r \in Call, r.state \in States, NEW stage,
           StageFor(r, stage)
    PROVE  StageFor(r, stage)'
  <1>1. r.generation \in Nat /\ states[r.state].version \in Nat /\ states'[r.state].version \in Nat
    BY VersionTypes DEF Call, WorkflowTypeOK, State, Forward
  <1>2. r.generation <= states[r.state].version => r.generation <= states'[r.state].version
    BY <1>1 DEF Forward
  <1>3. QED BY <1>2, ReachedKept DEF StageFor, Forward

LEMMA CallKept ==
    ASSUME WorkflowTypeOK, Forward, NEW r \in Call, CallOK(r)
    PROVE  CallOK(r)'
  <1>1. ASSUME Gathers(r) PROVE Gathers(r)'
    <2>1. PICK stage \in Stages : /\ StageFor(r, stage)
                                  /\ r.need \cup {q.scope : q \in r.found} = Contributions(stage)
      BY <1>1 DEF Gathers
    <2>2. StageFor(r, stage)' BY <1>1, <2>1, StageForKept DEF Gathers
    <2>3. QED BY <1>1, <2>1, <2>2 DEF Gathers
  <1>2. QED BY <1>1 DEF CallOK

LEMMA CallsKept ==
    ASSUME WorkflowTypeOK, CallsInv, Forward, NEW c \in Calls, NEW r,
           calls' = [calls EXCEPT ![c] = r], CallOK(r)'
    PROVE  CallsInv'
  <1> SUFFICES ASSUME NEW d \in Calls PROVE CallOK(calls[d])' BY DEF CallsInv
  <1>1. CASE d = c
    <2>1. calls'[d] = r BY <1>1 DEF WorkflowTypeOK
    <2>2. QED BY <2>1 DEF CallOK, Gathers, StageFor
  <1>2. CASE d # c
    <2>1. PICK q : q = calls[d] OBVIOUS
    <2>2. q \in Call /\ CallOK(q) BY <2>1 DEF WorkflowTypeOK, CallsInv
    <2>3. CallOK(q)' BY <2>2, CallKept
    <2>4. calls'[d] = q BY <1>2, <2>1 DEF WorkflowTypeOK
    <2>5. QED BY <2>3, <2>4 DEF CallOK, Gathers, StageFor
  <1>3. QED BY <1>1, <1>2

LEMMA AllCallsKept ==
    ASSUME WorkflowTypeOK, CallsInv, Forward, UNCHANGED calls
    PROVE  CallsInv'
  <1> SUFFICES ASSUME NEW d \in Calls PROVE CallOK(calls[d])' BY DEF CallsInv
  <1>1. PICK q : q = calls[d] OBVIOUS
  <1>2. q \in Call /\ CallOK(q) BY <1>1 DEF WorkflowTypeOK, CallsInv
  <1>3. CallOK(q)' BY <1>2, CallKept
  <1>4. calls'[d] = q BY <1>1
  <1>5. QED BY <1>3, <1>4 DEF CallOK, Gathers, StageFor

(* A state that is as it was has walked no further. *)
LEMMA PathKept ==
    ASSUME PathInv, Counted, UNCHANGED <<states, transitions>>
    PROVE  PathInv' /\ Counted'
  <1>1. ASSUME NEW x \in States PROVE Numbered(x)' /\ Walked(x)'
    <2>1. Numbered(x)' BY DEF PathInv, Numbered, Last, TransitionsOf
    <2>2. Walked(x)' BY DEF PathInv, Walked, Last, Reached, TransitionsOf
    <2>3. QED BY <2>1, <2>2
  <1>3. PathInv' BY <1>1 DEF PathInv, Active
  <1>4. Counted' BY DEF Counted, Enabled
  <1>5. QED BY <1>3, <1>4

LEMMA BoundKept ==
    ASSUME BoundInv, UNCHANGED <<states, capabilities>> PROVE BoundInv'
  BY DEF BoundInv, BoundWhileActive, Active

(* Sources of one stage stay so. *)
LEMMA OfOneStageKept ==
    ASSUME WorkflowTypeOK, Forward, NEW x \in States, NEW own \in SUBSET Source,
           OfOneStage(x, own)
    PROVE  OfOneStage(x, own)'
  <1> SUFFICES ASSUME NEW q \in own
               PROVE  /\ q.generation <= states'[x].version
                      /\ \E stage \in Stages : /\ Reached(x, q.generation, stage)'
                                               /\ {p.scope : p \in own} = Contributions(stage)
    BY DEF OfOneStage
  <1>1. q.generation \in Nat /\ states[x].version \in Nat /\ states'[x].version \in Nat
    BY VersionTypes DEF Source, WorkflowTypeOK, State, Forward
  <1>2. q.generation <= states'[x].version BY <1>1 DEF OfOneStage, Forward
  <1>3. PICK stage \in Stages : /\ Reached(x, q.generation, stage)
                                /\ {p.scope : p \in own} = Contributions(stage)
    BY DEF OfOneStage
  <1>4. Reached(x, q.generation, stage)' BY <1>3, ReachedKept DEF Forward
  <1>5. QED BY <1>2, <1>3, <1>4

LEMMA OwnKept ==
    ASSUME WorkflowTypeOK, DesiredInv, Forward, NEW x \in States, Own(x)' = Own(x)
    PROVE  OfOneStage(x, Own(x))'
  <1>1. PICK own : own = Own(x) OBVIOUS
  <1>2. own \in SUBSET Source /\ OfOneStage(x, own)
    BY <1>1 DEF DesiredInv, Own, WorkflowTypeOK
  <1>3. OfOneStage(x, own)' BY <1>2, OfOneStageKept
  <1>4. Own(x)' = own BY <1>1
  <1>5. QED BY <1>3, <1>4 DEF OfOneStage

(* The desired Skills do not change: nor does what they are of. *)
LEMMA DesiredKept ==
    ASSUME WorkflowTypeOK, DesiredInv, Forward, UNCHANGED desired
    PROVE  DesiredInv'
  <1>1. ASSUME NEW x \in States PROVE OfOneStage(x, Own(x))'
    <2>1. Own(x)' = Own(x) BY DEF Own, desired
    <2>2. QED BY <2>1, OwnKept
  <1>2. \A k \in Skills : Projected(projections[k], Asking(sources, k))'
    BY DEF DesiredInv, Projected, Asking, desired
  <1>3. QED BY <1>1, <1>2 DEF DesiredInv

(* A step that is about the requests alone. *)
LEMMA RequestStep ==
    ASSUME WorkflowInv, UNCHANGED <<states, transitions, capabilities, desired>>,
           NEW c \in Calls, NEW r \in Call, CallOK(r), calls' = [calls EXCEPT ![c] = r],
           UNCHANGED <<catalog, managers>>
    PROVE  WorkflowInv'
  <1> USE DEF WorkflowInv
  <1>1. Forward BY VersionTypes DEF Forward, WorkflowTypeOK, State
  <1>2. WorkflowTypeOK' BY DEF WorkflowTypeOK, desired
  <1>3. CallOK(r)' BY <1>1, CallKept
  <1>4. CallsInv' BY <1>1, <1>3, CallsKept
  <1>5. DesiredInv' BY <1>1, DesiredKept
  <1>6. PathInv' /\ Counted' /\ BoundInv' BY PathKept, BoundKept
  <1>7. QED BY <1>2, <1>4, <1>5, <1>6
----------------------------------------------------------------------------
(* The steps of requests up to what they commit. *)
LEMMA CallTypes ==
    ASSUME WorkflowTypeOK, NEW c \in Calls
    PROVE  calls[c] \in Call /\ NoCall \in Call /\ CallOK(NoCall)
  BY VersionTypes DEF WorkflowTypeOK, Call, NoCall, CallOK, Lookup, Scopes, Stages

(* The version of an active state leaves room for a change. *)
LEMMA ActiveVersion ==
    ASSUME WorkflowInv, NEW x \in Active
    PROVE  states[x].version <= MaxChanges
  <1>1. x \in States /\ x \in Enabled /\ states[x].life = "active" BY DEF Active, Enabled
  <1>2. Cardinality(TransitionsOf(x)) = states[x].version - 1
    BY <1>1 DEF WorkflowInv, PathInv, Numbered, Last
  <1>3. Cardinality(TransitionsOf(x)) <= Cardinality(transitions)
    BY FS_Subset DEF WorkflowInv, Counted, TransitionsOf
  <1>4. Cardinality(Enabled) >= 1 /\ Cardinality(Enabled) \in Nat
    BY <1>1, FS_EmptySet, FS_CardinalityType DEF WorkflowInv, Counted
  <1>5. Cardinality(transitions) \in Nat BY FS_CardinalityType DEF WorkflowInv, Counted
  <1>6. states[x].version \in Nat
    BY <1>1, VersionTypes DEF WorkflowInv, WorkflowTypeOK, State
  <1>7. Cardinality(TransitionsOf(x)) \in Nat BY <1>2, <1>6, FS_CardinalityType, FS_Subset DEF WorkflowInv, Counted, TransitionsOf
  <1>8. QED BY <1>2, <1>3, <1>4, <1>5, <1>6, <1>7, VersionTypes DEF WorkflowInv, Counted

(* A request begins with everything to look up for one stage. *)
LEMMA LookingOK ==
    ASSUME NEW x \in States, NEW stage \in Stages, NEW r \in Call,
           r.at = "look", r.session \in Sessions, r.state = x,
           r.need = Contributions(stage), r.found = {}, StageFor(r, stage),
           r.kind = "transition" =>
              r.command \in Commands /\ r.action \in Actions /\ r.generation >= 2
    PROVE  CallOK(r)
  <1>1. Contributions(stage) # {} BY StageTypes
  <1>2. Gathers(r) BY <1>1 DEF Gathers
  <1>3. QED BY <1>2 DEF CallOK

LEMMA ActiveReached ==
    ASSUME WorkflowInv, NEW x \in Active
    PROVE  /\ x \in States /\ states[x].stage \in Stages /\ states[x].version \in Versions
           /\ Last(x) = states[x].version
           /\ Reached(x, states[x].version, states[x].stage)
  <1>1. x \in States /\ states[x].life = "active" BY DEF Active
  <1>2. Last(x) = states[x].version BY <1>1 DEF Last
  <1>3. QED BY <1>1, <1>2 DEF WorkflowInv, PathInv, Walked, WorkflowTypeOK, State

LEMMA BeginSteps ==
    ASSUME WorkflowInv, NEW c \in Calls, NEW s \in Sessions,
           BeginLaunch(c, s) \/ BeginCurrent(c, s)
    PROVE  WorkflowInv'
  <1>1. PICK x \in Active, kind \in {"launch", "current"} :
           calls' = [calls EXCEPT ![c] = Looking(kind, s, x, states[x].stage, states[x].version)]
    BY DEF BeginLaunch, BeginCurrent, Resolved
  <1>2. PICK r : r = Looking(kind, s, x, states[x].stage, states[x].version) OBVIOUS
  <1>3. /\ x \in States /\ states[x].stage \in Stages /\ states[x].version \in Versions
        /\ states[x].version \in Nat /\ Reached(x, states[x].version, states[x].stage)
    BY <1>1, ActiveReached, VersionTypes
  <1>4. /\ r.at = "look" /\ r.kind = kind /\ r.session = s /\ r.state = x
        /\ r.generation = states[x].version
        /\ r.need = Contributions(states[x].stage) /\ r.found = {}
    BY <1>2 DEF Looking, NoCall
  <1>5. r \in Call /\ CallOK(r)
    <2>1. Contributions(states[x].stage) \subseteq Scopes BY <1>3, StageTypes
    <2>2. r \in Call BY <1>1, <1>2, <1>3, <2>1, VersionTypes DEF Looking, NoCall, Call, Lookup
    <2>3. StageFor(r, states[x].stage) BY <1>1, <1>3, <1>4 DEF StageFor
    <2>4. r.kind # "transition" BY <1>1, <1>4
    <2>5. QED BY <1>3, <1>4, <2>2, <2>3, <2>4, LookingOK
  <1>6. QED BY <1>1, <1>2, <1>5, RequestStep DEF BeginLaunch, BeginCurrent

LEMMA BeginTransitionStep ==
    ASSUME WorkflowInv, NEW c \in Calls, NEW s \in Sessions, BeginTransition(c, s)
    PROVE  WorkflowInv'
  <1> DEFINE x == capabilities[s].state
  <1>0. x \in Active BY DEF BeginTransition, Resolved
  <1>1. PICK k \in Commands, a \in Actions, n \in 1..states[x].version :
           calls' = [calls EXCEPT ![c] =
                        [Looking("transition", s, x, ToStage[a], n + 1)
                            EXCEPT !.command = k, !.action = a]]
    BY DEF BeginTransition
  <1>2. PICK r : r = [Looking("transition", s, x, ToStage[a], n + 1)
                         EXCEPT !.command = k, !.action = a] OBVIOUS
  <1>3. states[x].version \in Nat /\ states[x].version <= MaxChanges
    BY <1>0, ActiveVersion, ActiveReached, VersionTypes
  <1>4. n + 1 \in Versions /\ n + 1 >= 2 BY <1>3, VersionTypes
  <1>5. /\ r.at = "look" /\ r.kind = "transition" /\ r.session = s /\ r.state = x
        /\ r.generation = n + 1 /\ r.need = Contributions(ToStage[a]) /\ r.found = {}
        /\ r.command = k /\ r.action = a
    BY <1>2 DEF Looking, NoCall
  <1>6. r \in Call /\ CallOK(r)
    <2>1. x \in States /\ ToStage[a] \in Stages BY <1>0, ActiveReached, StageTypes
    <2>2. Contributions(ToStage[a]) \subseteq Scopes BY <2>1, StageTypes
    <2>3. r \in Call BY <1>2, <1>4, <2>1, <2>2, VersionTypes DEF Looking, NoCall, Call, Lookup
    <2>4. StageFor(r, ToStage[a]) BY <1>5 DEF StageFor
    <2>5. QED BY <1>4, <1>5, <2>1, <2>3, <2>4, LookingOK
  <1>7. QED BY <1>1, <1>2, <1>6, RequestStep DEF BeginTransition

LEMMA LookUpStep ==
    ASSUME WorkflowInv, NEW c \in Calls, LookUp(c)
    PROVE  WorkflowInv'
  <1> DEFINE q == calls[c]
             scope == NextScope(c)
             rest == q.need \ {scope}
  <1>1. q \in Call /\ q.at = "look" /\ CallOK(q) /\ Gathers(q)
    BY DEF LookUp, At, WorkflowInv, WorkflowTypeOK, CallsInv, CallOK
  <1>2. scope \in q.need
    <2>1. q.need # {} BY <1>1 DEF Gathers
    <2>2. QED BY <2>1 DEF NextScope
  <1>3. PICK k \in Skills, after \in {"look", "commit", "replace"} :
          /\ after = IF rest # {} THEN "look"
                     ELSE IF q.kind = "transition" THEN "commit" ELSE "replace"
          /\ calls' = [calls EXCEPT ![c].at = after, ![c].need = rest,
                          ![c].found = @ \cup {[scope |-> scope, skill |-> k,
                                                revision |-> catalog[k].current]}]
    BY DEF LookUp
  <1>4. PICK l : l = [scope |-> scope, skill |-> k, revision |-> catalog[k].current] OBVIOUS
  <1>5. l \in Lookup
    BY <1>1, <1>2, <1>4 DEF Lookup, Call, WorkflowInv, WorkflowTypeOK
  <1>6. PICK r : r = [q EXCEPT !.at = after, !.need = rest, !.found = @ \cup {l}] OBVIOUS
  <1>7. calls' = [calls EXCEPT ![c] = r] BY <1>3, <1>4, <1>6 DEF WorkflowInv, WorkflowTypeOK
  <1>8. r \in Call BY <1>1, <1>5, <1>6 DEF Call
  <1>9. /\ r.at = after /\ r.need = rest /\ r.found = q.found \cup {l} /\ r.kind = q.kind
        /\ r.state = q.state /\ r.session = q.session /\ r.generation = q.generation
        /\ r.command = q.command /\ r.action = q.action
    BY <1>1, <1>6 DEF Call
  <1>10. Gathers(r)
    <2>1. PICK stage \in Stages : /\ StageFor(q, stage)
                                  /\ q.need \cup {p.scope : p \in q.found} = Contributions(stage)
      BY <1>1 DEF Gathers
    <2>2. StageFor(r, stage) BY <1>9, <2>1 DEF StageFor
    <2>3. {p.scope : p \in q.found \cup {l}} = {p.scope : p \in q.found} \cup {scope} BY <1>4
    <2>4. r.need \cup {p.scope : p \in r.found} = Contributions(stage)
      BY <1>2, <1>9, <2>1, <2>3
    <2>5. \A p \in q.found : p.scope # scope BY <1>1, <1>2 DEF Gathers
    <2>6. \A o, p \in r.found : o.scope = p.scope => o = p
      <3>1. \A o, p \in q.found : o.scope = p.scope => o = p BY <1>1 DEF Gathers
      <3>2. l.scope = scope BY <1>4
      <3>3. QED BY <1>9, <2>5, <3>1, <3>2
    <2>7. \A p \in r.found : p.scope \notin r.need BY <1>1, <1>4, <1>9 DEF Gathers
    <2>8. r.at = "look" => r.need # {} BY <1>3, <1>9
    <2>9. r.at # "look" => r.need = {} /\ (r.at = "commit" <=> r.kind = "transition")
      BY <1>3, <1>9
    <2>10. r.state \in States /\ (r.kind = "transition" =>
              r.action \in Actions /\ r.command \in Commands /\ r.generation >= 2)
      BY <1>1, <1>9 DEF Gathers
    <2>11. QED BY <2>2, <2>4, <2>6, <2>7, <2>8, <2>9, <2>10 DEF Gathers
  <1>11. CallOK(r) BY <1>1, <1>9, <1>10 DEF CallOK
  <1>12. QED BY <1>7, <1>8, <1>11, RequestStep DEF LookUp

(* An answered request, and an answer to install, have nothing more to commit. *)
LEMMA Installable ==
    ASSUME WorkflowTypeOK, NEW c \in Calls, NEW version \in Versions
    PROVE  Installing(c, version) \in Call /\ CallOK(Installing(c, version))
  <1> DEFINE r == Installing(c, version)
  <1>1. calls[c] \in Call BY CallTypes
  <1>2. r.at = "install" /\ r \in Call
    BY <1>1, VersionTypes DEF Installing, NoCall, Call, Lookup
  <1>3. QED BY <1>2 DEF CallOK

LEMMA AnsweredStep ==
    ASSUME WorkflowInv, NEW c \in Calls, Answer(c),
           UNCHANGED <<states, transitions, capabilities, desired, catalog, managers>>
    PROVE  WorkflowInv'
  <1>1. NoCall \in Call /\ CallOK(NoCall) BY CallTypes DEF WorkflowInv
  <1>2. QED BY <1>1, RequestStep DEF Answer

(* From the assignment on a request has nothing to commit, wherever it has got. *)
LEMMA Moved ==
    ASSUME WorkflowTypeOK, NEW c \in Calls,
           NEW point \in {"install", "correct", "write"}, NEW done \in SUBSET Skills,
           NEW outcome \in {"ready", "failed"}
    PROVE  LET r == [calls[c] EXCEPT !.at = point, !.installed = done, !.outcome = outcome]
           IN  r \in Call /\ CallOK(r)
  <1>1. calls[c] \in Call BY CallTypes
  <1>2. PICK r : r = [calls[c] EXCEPT !.at = point, !.installed = done, !.outcome = outcome]
    OBVIOUS
  <1>3. r.at = point /\ r \in Call BY <1>1, <1>2 DEF Call
  <1>4. CallOK(r) BY <1>3 DEF CallOK
  <1>5. QED BY <1>2, <1>3, <1>4

LEMMA MovedStep ==
    ASSUME WorkflowInv, NEW c \in Calls,
           NEW point \in {"install", "correct", "write"}, NEW done \in SUBSET Skills,
           NEW outcome \in {"ready", "failed"},
           calls' = [calls EXCEPT ![c].at = point, ![c].installed = done, ![c].outcome = outcome],
           UNCHANGED <<states, transitions, capabilities, desired, catalog, managers>>
    PROVE  WorkflowInv'
  <1>1. PICK r : r = [calls[c] EXCEPT !.at = point, !.installed = done, !.outcome = outcome]
    OBVIOUS
  <1>2. r \in Call /\ CallOK(r) BY <1>1, Moved DEF WorkflowInv
  <1>3. calls' = [calls EXCEPT ![c] = r] BY <1>1 DEF WorkflowInv, WorkflowTypeOK
  <1>4. QED BY <1>2, <1>3, RequestStep

(* A request that goes on to correct its report keeps its outcome. *)
LEMMA CorrectIs ==
    ASSUME WorkflowTypeOK, NEW c \in Calls, Correct(c)
    PROVE  \E outcome \in {"ready", "failed"} :
              calls' = [calls EXCEPT ![c].at = "correct", ![c].installed = {},
                                     ![c].outcome = outcome]
  <1>1. calls[c] \in Call /\ calls[c].outcome \in {"ready", "failed"} BY CallTypes DEF Call
  <1>2. [calls[c] EXCEPT !.at = "correct", !.installed = {}]
           = [calls[c] EXCEPT !.at = "correct", !.installed = {}, !.outcome = calls[c].outcome]
    BY <1>1 DEF Call
  <1>3. QED BY <1>1, <1>2 DEF Correct, WorkflowTypeOK

LEMMA BeginAssignmentStep ==
    ASSUME WorkflowInv, NEW c \in Calls, NEW s \in Sessions, BeginAssignment(c, s)
    PROVE  WorkflowInv'
  <1>1. PICK x \in Active :
           calls' = [calls EXCEPT ![c] = [NoCall EXCEPT !.at = "assign", !.session = s,
                                                        !.generation = states[x].version]]
    BY DEF BeginAssignment, Resolved
  <1>2. PICK r : r = [NoCall EXCEPT !.at = "assign", !.session = s,
                                    !.generation = states[x].version]
    OBVIOUS
  <1>3. states[x].version \in Versions BY ActiveReached
  <1>4. r \in Call /\ r.at = "assign" BY <1>2, <1>3, VersionTypes DEF NoCall, Call, Lookup
  <1>5. CallOK(r) BY <1>4 DEF CallOK
  <1>6. QED BY <1>1, <1>2, <1>4, <1>5, RequestStep DEF BeginAssignment

(* What a Runner is assigned is what the Workspace is to have. *)
LEMMA AssignStep ==
    ASSUME WorkflowInv, NEW c \in Calls, Assign(c)
    PROVE  WorkflowInv'
  <1>1. AsProjected \in SUBSET Lookup
    BY NamedAssumption DEF AsProjected, Lookup, WorkflowInv, WorkflowTypeOK, Projection
  <1>2. PICK r : r = [calls[c] EXCEPT !.at = "install", !.found = AsProjected] OBVIOUS
  <1>3. r \in Call /\ r.at = "install" BY <1>1, <1>2, CallTypes DEF Call, WorkflowInv
  <1>4. CallOK(r) BY <1>3 DEF CallOK
  <1>5. NoCall \in Call /\ CallOK(NoCall) BY CallTypes DEF WorkflowInv
  <1>6. calls' = [calls EXCEPT ![c] = r] \/ calls' = [calls EXCEPT ![c] = NoCall]
    BY <1>2 DEF Assign, WorkflowInv, WorkflowTypeOK
  <1>7. QED BY <1>3, <1>4, <1>5, <1>6, RequestStep DEF Assign

(* Whatever is downloaded is a Skill of the assignment. *)
LEMMA DownloadStep ==
    ASSUME WorkflowInv, NEW c \in Calls, Download(c)
    PROVE  WorkflowInv'
  <1>1. PICK q \in Missing(c) : calls' = [calls EXCEPT ![c].installed = @ \cup {q.skill}]
    BY DEF Download
  <1>2. calls[c] \in Call /\ calls[c].at = "install" BY CallTypes DEF Download, At, WorkflowInv
  <1>3. q.skill \in Skills BY <1>2 DEF Missing, Call, Lookup
  <1>4. PICK r : r = [calls[c] EXCEPT !.installed = @ \cup {q.skill}] OBVIOUS
  <1>5. r \in Call /\ r.at = "install" BY <1>2, <1>3, <1>4 DEF Call
  <1>6. CallOK(r) BY <1>5 DEF CallOK
  <1>7. calls' = [calls EXCEPT ![c] = r] BY <1>1, <1>4 DEF WorkflowInv, WorkflowTypeOK
  <1>8. QED BY <1>5, <1>6, <1>7, RequestStep DEF Download

LEMMA FruitlessSteps ==
    ASSUME WorkflowInv, NEW c \in Calls, NEW outcome \in {"ready", "failed"},
           \/ LookUpFails(c) \/ ReconcileFails(c) \/ GiveUp(c) \/ CommitFails(c)
           \/ InstallFails(c) \/ Report(c, outcome) \/ ReportRefused(c, outcome)
    PROVE  WorkflowInv'
  <1>1. CASE LookUpFails(c) \/ ReconcileFails(c) \/ GiveUp(c)
    BY <1>1, AnsweredStep DEF LookUpFails, ReconcileFails, GiveUp
  <1>2. CASE CommitFails(c)
    <2>1. CASE calls' = [calls EXCEPT ![c] = NoCall]
      BY <1>2, <2>1, AnsweredStep DEF CommitFails, Answer
    <2>2. CASE calls' = [calls EXCEPT ![c] = Installing(c, states[calls[c].state].version)]
      <3>1. PICK version : version = states[calls[c].state].version OBVIOUS
      <3>2. calls[c].state \in States
        BY <1>2 DEF CommitFails, At, WorkflowInv, CallsInv, CallOK
      <3>3. version \in Versions BY <3>1, <3>2 DEF WorkflowInv, WorkflowTypeOK, State
      <3>4. PICK r : r = Installing(c, version) OBVIOUS
      <3>5. r \in Call /\ CallOK(r) BY <3>3, <3>4, Installable DEF WorkflowInv
      <3>6. QED BY <1>2, <2>2, <3>1, <3>4, <3>5, RequestStep DEF CommitFails
    <2>3. QED BY <1>2, <2>1, <2>2 DEF CommitFails
  <1>3. CASE Report(c, outcome) BY <1>3, MovedStep DEF Report
  <1>4. ASSUME Correct(c), UNCHANGED <<states, transitions, capabilities, desired, catalog, managers>>
        PROVE  WorkflowInv'
    <2>1. PICK kept \in {"ready", "failed"} :
             calls' = [calls EXCEPT ![c].at = "correct", ![c].installed = {}, ![c].outcome = kept]
      BY <1>4, CorrectIs DEF WorkflowInv
    <2>2. {} \in SUBSET Skills OBVIOUS
    <2>3. QED BY <1>4, <2>1, <2>2, MovedStep
  <1>5. CASE InstallFails(c) BY <1>4, <1>5 DEF InstallFails
  <1>6. CASE ReportRefused(c, outcome)
    <2>1. CASE Answer(c) BY <1>6, <2>1, AnsweredStep DEF ReportRefused
    <2>2. CASE Correct(c) BY <1>4, <1>6, <2>2 DEF ReportRefused
    <2>3. QED BY <1>6, <2>1, <2>2 DEF ReportRefused, AfterRefusal
  <1>7. QED BY <1>1, <1>2, <1>3, <1>5, <1>6

(* Nothing of the Workflow moves but what a manager has looked at, and the library. *)
LEMMA BesideSteps ==
    ASSUME WorkflowInv, (\E g \in Managers : Preflight(g) \/ EnableAgain(g)) \/ Library
    PROVE  WorkflowInv'
  <1>1. UNCHANGED <<states, transitions, capabilities, desired, calls>>
    BY DEF Preflight, EnableAgain, Library
  <1>2. managers' \in [Managers -> {"free", "checked"}]
    BY DEF Preflight, EnableAgain, Library, WorkflowInv, WorkflowTypeOK
  <1>3. catalog' \in [Skills -> [current : Nat, archived : BOOLEAN]]
    <2>1. CASE UNCHANGED catalog BY <2>1 DEF WorkflowInv, WorkflowTypeOK
    <2>2. CASE Library
      <3>1. PICK k \in Skills : Catalog!Publish(k) \/ Catalog!Archive(k)
        BY <2>2, NamedAssumption DEF Library
      <3>2. catalog[k] \in [current : Nat, archived : BOOLEAN]
        BY DEF WorkflowInv, WorkflowTypeOK
      <3>3. PICK e \in [current : Nat, archived : BOOLEAN] : catalog' = [catalog EXCEPT ![k] = e]
        <4>1. [catalog[k] EXCEPT !.current = @ + 1] \in [current : Nat, archived : BOOLEAN]
          BY <3>2
        <4>2. [catalog[k] EXCEPT !.archived = TRUE] \in [current : Nat, archived : BOOLEAN]
          BY <3>2
        <4>3. CASE Catalog!Publish(k) BY <4>1, <4>3 DEF Catalog!Publish
        <4>4. CASE Catalog!Archive(k) BY <4>2, <4>4 DEF Catalog!Archive
        <4>5. QED BY <3>1, <4>3, <4>4
      <3>4. QED BY <3>3 DEF WorkflowInv, WorkflowTypeOK
    <2>3. QED BY <2>1, <2>2 DEF Preflight, EnableAgain
  <1>4. WorkflowTypeOK' BY <1>1, <1>2, <1>3 DEF WorkflowInv, WorkflowTypeOK, desired
  <1>5. Forward BY <1>1, VersionTypes DEF Forward, WorkflowInv, WorkflowTypeOK, State
  <1>6. PathInv' /\ Counted' /\ BoundInv' BY <1>1, PathKept, BoundKept DEF WorkflowInv
  <1>7. CallsInv' /\ DesiredInv' BY <1>1, <1>5, AllCallsKept, DesiredKept DEF WorkflowInv
  <1>8. QED BY <1>4, <1>6, <1>7 DEF WorkflowInv
----------------------------------------------------------------------------
(* What commits. *)

(* Sources of one stage take the place of those of a state. *)
LEMMA ReplacedDesired ==
    ASSUME WorkflowTypeOK, DesiredInv, Forward, NEW x \in States, NEW new \in SUBSET Source,
           \A q \in new : q.state = x, Replaceable(x, new), Replace(x, new),
           OfOneStage(x, new)'
    PROVE  DesiredInv' /\ sources' \subseteq Source /\ projections' \in [Skills -> Projection]
  <1>1. sources' = Replaced(x, new) /\ sources' \in SUBSET Source
    BY DEF Replace, Replaced, WorkflowTypeOK
  <1>2. ASSUME NEW y \in States PROVE OfOneStage(y, Own(y))'
    <2>1. CASE y = x
      <3>1. Own(x)' = new BY <1>1 DEF Own, Replaced
      <3>2. QED BY <2>1, <3>1 DEF OfOneStage
    <2>2. CASE y # x
      <3>1. Own(y)' = Own(y) BY <1>1, <2>2 DEF Own, Replaced
      <3>2. QED BY <3>1, OwnKept
    <2>3. QED BY <2>1, <2>2
  <1>3. ASSUME NEW k \in Skills
        PROVE  Projected(projections[k], Asking(sources, k))' /\ projections'[k] \in Projection
    <2> DEFINE all == Replaced(x, new)
               of == Asking(all, k)
    <2>1. all \in SUBSET Source /\ Asking(sources, k)' = of BY <1>1 DEF Asking
    <2>2. CASE of = {}
      <3>1. projections'[k] = NoProjection BY <2>2 DEF Asking, Replace
      <3>2. NoProjection \in Projection BY DEF NoProjection, Projection
      <3>3. QED BY <2>1, <2>2, <3>1, <3>2 DEF Projected
    <2>3. CASE of # {}
      <3>1. projections'[k] = Wanted(all, k) BY <2>3 DEF Asking, Replace
      <3>2. PICK q : q = Newest(all, k) OBVIOUS
      <3>3. q \in of /\ \A p \in of : p.generation <= q.generation
        BY <2>1, <2>3, <3>2, NewestIs
      <3>4. q \in Source /\ \A p \in of : p.revision = q.revision
        BY <2>1, <3>3 DEF Replaceable, Agreed, Asking
      <3>5. PICK p : p = projections[k] OBVIOUS
      <3>6. p \in Projection /\ Projected(p, Asking(sources, k))
        BY <3>5 DEF WorkflowTypeOK, DesiredInv
      <3>7. PICK w : w = Wanted(all, k) OBVIOUS
      <3>8. CASE p.status # "none" /\ p.revision = q.revision /\ p.generation = q.generation
        <4>1. w = p BY <3>2, <3>5, <3>7, <3>8 DEF Wanted
        <4>2. p # NoProjection BY <3>8 DEF NoProjection
        <4>3. p.applied = IF p.status = "pending" THEN 0 ELSE p.generation
          BY <3>6, <4>2 DEF Projected
        <4>4. Projected(w, of)
          BY <2>3, <3>3, <3>4, <3>8, <4>1, <4>2, <4>3 DEF Projected
        <4>5. QED BY <2>1, <3>1, <3>6, <3>7, <4>1, <4>4 DEF Projected
      <3>9. CASE ~(p.status # "none" /\ p.revision = q.revision /\ p.generation = q.generation)
        <4>1. w = [revision |-> q.revision, generation |-> q.generation, applied |-> 0,
                   status |-> "pending"]
          BY <3>2, <3>5, <3>7, <3>9 DEF Wanted
        <4>2. w # NoProjection BY <4>1 DEF NoProjection
        <4>3. w \in Projection BY <3>4, <4>1 DEF Projection, Source
        <4>4. Projected(w, of) BY <2>3, <3>3, <3>4, <4>1, <4>2 DEF Projected
        <4>5. QED BY <2>1, <3>1, <3>7, <4>3, <4>4 DEF Projected
      <3>10. QED BY <3>8, <3>9
    <2>4. QED BY <2>2, <2>3
  <1>4. QED BY <1>1, <1>2, <1>3 DEF DesiredInv, Replace, WorkflowTypeOK

(* The types of a request that has looked up everything. *)
LEMMA Committing ==
    ASSUME WorkflowInv, NEW c \in Calls, calls[c].at \in {"replace", "commit"}
    PROVE  /\ calls[c] \in Call /\ Gathers(calls[c]) /\ calls[c].state \in States
           /\ calls[c].session \in Sessions
           /\ SourcesOf(c) \in SUBSET Source
           /\ \A q \in SourcesOf(c) : q.state = calls[c].state
                                     /\ q.generation = calls[c].generation
           /\ \A p, q \in SourcesOf(c) : p.scope = q.scope => p = q
           /\ {q.scope : q \in SourcesOf(c)} = {q.scope : q \in calls[c].found}
  <1>1. calls[c] \in Call /\ CallOK(calls[c]) BY DEF WorkflowInv, WorkflowTypeOK, CallsInv
  <1>2. Gathers(calls[c]) /\ calls[c].state \in States /\ calls[c].session \in Sessions
    BY <1>1 DEF CallOK
  <1>3. SourcesOf(c) \in SUBSET Source BY <1>1, <1>2 DEF SourcesOf, Call, Lookup, Source
  <1>4. \A p, q \in SourcesOf(c) : p.scope = q.scope => p = q
    <2> SUFFICES ASSUME NEW p \in SourcesOf(c), NEW q \in SourcesOf(c), p.scope = q.scope
                 PROVE  p = q
      OBVIOUS
    <2> DEFINE from(l) == [state |-> calls[c].state, scope |-> l.scope, skill |-> l.skill,
                           revision |-> l.revision, generation |-> calls[c].generation]
    <2>1. PICK l \in calls[c].found, m \in calls[c].found : p = from(l) /\ q = from(m)
      BY DEF SourcesOf
    <2>2. l.scope = m.scope BY <2>1
    <2>3. l = m BY <1>2, <2>2 DEF Gathers
    <2>4. QED BY <2>1, <2>3
  <1>5. {q.scope : q \in SourcesOf(c)} = {q.scope : q \in calls[c].found}
    <2>1. ASSUME NEW l \in calls[c].found PROVE \E q \in SourcesOf(c) : q.scope = l.scope
      <3>1. PICK q : q = [state |-> calls[c].state, scope |-> l.scope, skill |-> l.skill,
                          revision |-> l.revision, generation |-> calls[c].generation]
        OBVIOUS
      <3>2. q \in SourcesOf(c) /\ q.scope = l.scope BY <3>1 DEF SourcesOf
      <3>3. QED BY <3>2
    <2>2. \A q \in SourcesOf(c) : \E l \in calls[c].found : q.scope = l.scope BY DEF SourcesOf
    <2>3. QED BY <2>1, <2>2
  <1>6. \A q \in SourcesOf(c) : q.state = calls[c].state /\ q.generation = calls[c].generation
    BY DEF SourcesOf
  <1>7. QED BY <1>1, <1>2, <1>3, <1>4, <1>5, <1>6

(* Nothing asked for is of every stage. *)
LEMMA NothingOfOneStage == \A x : OfOneStage(x, {})' BY DEF OfOneStage

LEMMA ReconcileStep ==
    ASSUME WorkflowInv, NEW c \in Calls, Reconcile(c)
    PROVE  WorkflowInv'
  <1>1. PICK x, new : x = calls[c].state /\ new = SourcesOf(c) OBVIOUS
  <1>2. calls[c].at = "replace" /\ Replaceable(x, new) /\ Replace(x, new)
        /\ UNCHANGED <<states, transitions, capabilities, catalog, managers>>
    BY <1>1 DEF Reconcile, At
  <1>3. /\ calls[c] \in Call /\ Gathers(calls[c]) /\ x \in States /\ calls[c].session \in Sessions
        /\ new \in SUBSET Source
        /\ \A q \in new : q.state = x /\ q.generation = calls[c].generation
        /\ \A p, q \in new : p.scope = q.scope => p = q
        /\ {q.scope : q \in new} = {q.scope : q \in calls[c].found}
    BY <1>1, <1>2, Committing
  <1>4. Forward BY <1>2, VersionTypes DEF Forward, WorkflowInv, WorkflowTypeOK, State
  <1>5. OfOneStage(x, new)'
    <2>1. PICK stage \in Stages :
             StageFor(calls[c], stage) /\ {q.scope : q \in calls[c].found} = Contributions(stage)
      BY <1>2, <1>3 DEF Gathers
    <2>2. calls[c].generation <= states[x].version /\ Reached(x, calls[c].generation, stage)
      BY <1>1, <1>2, <1>3, <2>1 DEF StageFor, Gathers
    <2>3. OfOneStage(x, new) BY <1>3, <2>1, <2>2 DEF OfOneStage
    <2>4. QED BY <1>3, <1>4, <2>3, OfOneStageKept DEF WorkflowInv
  <1>6. DesiredInv' /\ sources' \subseteq Source /\ projections' \in [Skills -> Projection]
    BY <1>2, <1>3, <1>4, <1>5, ReplacedDesired DEF WorkflowInv
  <1>7. PICK r : r = IF calls[c].kind = "launch"
                     THEN Binding(c) ELSE Installing(c, calls[c].generation)
    OBVIOUS
  <1>8. calls' = [calls EXCEPT ![c] = r]
    BY <1>7 DEF Reconcile, WorkflowInv, WorkflowTypeOK
  <1>9. r \in Call /\ CallOK(r)
    <2>1. CASE calls[c].kind = "launch"
      <3>1. r = [NoCall EXCEPT !.at = "bind", !.session = calls[c].session, !.state = x]
        BY <1>1, <1>7, <2>1 DEF Binding
      <3>2. /\ r \in Call /\ r.at = "bind" /\ r.state = x /\ r.session = calls[c].session
        BY <1>3, <3>1, CallTypes DEF Call, WorkflowInv
      <3>3. QED BY <1>3, <3>2 DEF CallOK
    <2>2. CASE calls[c].kind # "launch"
      <3>1. calls[c].generation \in Versions BY <1>3 DEF Call
      <3>2. QED BY <1>7, <2>2, <3>1, Installable DEF WorkflowInv
    <2>3. QED BY <2>1, <2>2
  <1>10. CallOK(r)' BY <1>4, <1>9, CallKept DEF WorkflowInv
  <1>11. CallsInv' BY <1>4, <1>8, <1>10, CallsKept DEF WorkflowInv
  <1>12. PathInv' /\ Counted' /\ BoundInv' BY <1>2, PathKept, BoundKept DEF WorkflowInv
  <1>13. WorkflowTypeOK'
    BY <1>2, <1>6, <1>8, <1>9 DEF WorkflowInv, WorkflowTypeOK
  <1>14. QED BY <1>6, <1>11, <1>12, <1>13 DEF WorkflowInv

(* A capability is given only while the state of the launch is active. *)
LEMMA BindStep ==
    ASSUME WorkflowInv, NEW c \in Calls, Bind(c)
    PROVE  WorkflowInv'
  <1>1. calls[c].state \in States /\ calls[c].session \in Sessions
    BY DEF Bind, At, WorkflowInv, CallsInv, CallOK
  <1>2. UNCHANGED <<states, transitions, desired, catalog, managers>> BY DEF Bind
  <1>3. Forward BY <1>2, VersionTypes DEF Forward, WorkflowInv, WorkflowTypeOK, State
  <1>4. BoundInv' /\ capabilities' \in [Sessions -> Capability]
    <2>1. CASE Bindable(c)
      <3>1. PICK e : e = [state |-> calls[c].state, revoked |-> FALSE] OBVIOUS
      <3>2. capabilities' = [capabilities EXCEPT ![calls[c].session] = e]
        BY <2>1, <3>1 DEF Bind
      <3>3. e \in Capability /\ e.state \in Active /\ ~e.revoked
        BY <1>1, <2>1, <3>1 DEF Bindable, Capability
      <3>4. states[e.state].life # "none" BY <3>3 DEF Active
      <3>5. \A s \in Sessions : capabilities'[s] = e \/ capabilities'[s] = capabilities[s]
        BY <3>2 DEF WorkflowInv, WorkflowTypeOK
      <3>6. BoundInv'
        BY <1>2, <3>3, <3>4, <3>5 DEF WorkflowInv, BoundInv, BoundWhileActive, Active
      <3>7. QED BY <3>2, <3>3, <3>6 DEF WorkflowInv, WorkflowTypeOK
    <2>2. CASE ~Bindable(c)
      BY <1>2, <2>2, BoundKept DEF Bind, WorkflowInv, WorkflowTypeOK
    <2>3. QED BY <2>1, <2>2
  <1>5. NoCall \in Call /\ CallOK(NoCall) /\ calls' = [calls EXCEPT ![c] = NoCall]
    BY CallTypes DEF Bind, Answer, WorkflowInv
  <1>6. CallOK(NoCall)' BY CallTypes DEF CallOK, NoCall
  <1>7. CallsInv'
    <2>1. PICK r : r = NoCall OBVIOUS
    <2>2. CallOK(r)' BY <1>6, <2>1 DEF CallOK, NoCall
    <2>3. QED BY <1>3, <1>5, <2>1, <2>2, CallsKept DEF WorkflowInv
  <1>8. PathInv' /\ Counted' /\ DesiredInv'
    BY <1>2, <1>3, PathKept, DesiredKept DEF WorkflowInv
  <1>9. WorkflowTypeOK' BY <1>2, <1>4, <1>5 DEF WorkflowInv, WorkflowTypeOK, desired
  <1>10. QED BY <1>4, <1>7, <1>8, <1>9 DEF WorkflowInv

(* What is reported settles only what is wanted at the generation reported. *)
LEMMA WriteStep ==
    ASSUME WorkflowInv, NEW c \in Calls, Write(c)
    PROVE  WorkflowInv'
  <1>1. UNCHANGED <<states, transitions, capabilities, sources, catalog, managers>>
    BY DEF Write
  <1>2. calls[c] \in Call BY CallTypes DEF WorkflowInv
  <1>3. ASSUME NEW k \in Skills
        PROVE  Projected(projections[k], Asking(sources, k))' /\ projections'[k] \in Projection
    <2>1. PICK p : p = projections[k] OBVIOUS
    <2>2. PICK w : w = [p EXCEPT !.applied = calls[c].generation, !.status = calls[c].outcome]
      OBVIOUS
    <2>3. p \in Projection /\ Projected(p, Asking(sources, k))
      BY <2>1 DEF WorkflowInv, WorkflowTypeOK, DesiredInv
    <2>4. projections'[k] = IF k \in Assigned(c) /\ p.generation = calls[c].generation
                            THEN w ELSE p
      BY <2>1, <2>2 DEF Write, Current
    <2>5. Asking(sources, k)' = Asking(sources, k) BY <1>1 DEF Asking
    <2>6. CASE p.generation = calls[c].generation
      <3>1. /\ w.revision = p.revision /\ w.generation = p.generation
            /\ w.applied = p.generation /\ w.status = calls[c].outcome
            /\ w.status \in {"ready", "failed"}
        BY <1>2, <2>2, <2>3, <2>6 DEF Projection, Call
      <3>2. w \in Projection
        BY <1>2, <2>2, <2>3 DEF Projection, Call
      <3>3. p.generation # 0 /\ p # NoProjection /\ w # NoProjection
        BY <1>2, <2>6, <3>1, VersionTypes DEF Call, NoProjection
      <3>4. Projected(w, Asking(sources, k)) BY <2>3, <3>1, <3>3 DEF Projected
      <3>5. QED BY <2>3, <2>4, <2>5, <3>2, <3>4 DEF Projected
    <2>7. CASE p.generation # calls[c].generation
      BY <2>3, <2>4, <2>5, <2>7 DEF Projected
    <2>8. QED BY <2>6, <2>7
  <1>4. projections' \in [Skills -> Projection] BY <1>3 DEF Write
  <1>5. Forward BY <1>1, VersionTypes DEF Forward, WorkflowInv, WorkflowTypeOK, State
  <1>6. ASSUME NEW x \in States PROVE OfOneStage(x, Own(x))'
    <2>1. Own(x)' = Own(x) BY <1>1 DEF Own
    <2>2. QED BY <1>5, <2>1, OwnKept DEF WorkflowInv
  <1>7. DesiredInv' BY <1>3, <1>6 DEF DesiredInv
  <1>8. PICK r \in Call : CallOK(r) /\ calls' = [calls EXCEPT ![c] = r]
    <2>1. CASE Answer(c) BY <2>1, CallTypes DEF Answer, WorkflowInv
    <2>2. CASE Correct(c)
      <3>1. PICK outcome \in {"ready", "failed"} :
               calls' = [calls EXCEPT ![c].at = "correct", ![c].installed = {},
                                      ![c].outcome = outcome]
        BY <2>2, CorrectIs DEF WorkflowInv
      <3>2. PICK r : r = [calls[c] EXCEPT !.at = "correct", !.installed = {},
                                          !.outcome = outcome]
        OBVIOUS
      <3>3. r \in Call /\ CallOK(r) BY <3>2, Moved DEF WorkflowInv
      <3>4. QED BY <3>1, <3>2, <3>3 DEF WorkflowInv, WorkflowTypeOK
    <2>3. QED BY <2>1, <2>2 DEF Write, AfterRefusal
  <1>9. CallOK(r)' BY <1>5, <1>8, CallKept DEF WorkflowInv
  <1>10. CallsInv' BY <1>5, <1>8, <1>9, CallsKept DEF WorkflowInv
  <1>11. PathInv' /\ Counted' /\ BoundInv' BY <1>1, PathKept, BoundKept DEF WorkflowInv
  <1>12. WorkflowTypeOK' BY <1>1, <1>4, <1>8 DEF WorkflowInv, WorkflowTypeOK
  <1>13. QED BY <1>7, <1>10, <1>11, <1>12 DEF WorkflowInv
----------------------------------------------------------------------------
(* What moves a state on. *)
LEMMA OthersKept ==
    ASSUME NEW y \in States, Numbered(y), Walked(y), transitions \subseteq transitions',
           states'[y] = states[y], TransitionsOf(y)' = TransitionsOf(y)
    PROVE  Numbered(y)' /\ Walked(y)'
  <1>1. Last(y)' = Last(y) BY DEF Last
  <1>2. Numbered(y)' BY <1>1 DEF Numbered
  <1>3. PICK last, stage : last = Last(y) /\ stage = states[y].stage OBVIOUS
  <1>4. Reached(y, last, stage)' BY <1>3, ReachedKept DEF Walked
  <1>5. ASSUME NEW n \in 1..(last - 1)
        PROVE  \E t \in TransitionsOf(y)' : t.version = n /\ Reached(y, n, FromStage[t.action])'
    <2>1. PICK t \in TransitionsOf(y) : t.version = n /\ Reached(y, n, FromStage[t.action])
      BY <1>3 DEF Walked
    <2>2. Reached(y, n, FromStage[t.action])' BY <2>1, ReachedKept
    <2>3. QED BY <2>1, <2>2
  <1>6. Reached(y, Last(y), states[y].stage)' BY <1>1, <1>3, <1>4 DEF Reached
  <1>7. Walked(y)' BY <1>1, <1>3, <1>5, <1>6 DEF Walked
  <1>8. QED BY <1>2, <1>7

LEMMA EnableStep ==
    ASSUME WorkflowInv, NEW g \in Managers, NEW x \in States, Enable(g, x)
    PROVE  WorkflowInv'
  <1>1. /\ Active = {} /\ states[x].life = "none" /\ WithinBound
        /\ states' = [states EXCEPT ![x].life = "active"]
        /\ UNCHANGED <<transitions, capabilities, desired, catalog, calls>>
    BY DEF Enable
  <1>2. states \in [States -> State] BY DEF WorkflowInv, WorkflowTypeOK
  <1>3. PICK e : e = [states[x] EXCEPT !.life = "active"] OBVIOUS
  <1>4. /\ e \in State /\ e.life = "active" /\ e.stage = states[x].stage
        /\ e.version = states[x].version
    BY <1>2, <1>3 DEF State
  <1>5. states' = [states EXCEPT ![x] = e] BY <1>1, <1>2, <1>3
  <1>6. /\ states' \in [States -> State] /\ states'[x] = e
        /\ \A y \in States : y # x => states'[y] = states[y]
    BY <1>2, <1>4, <1>5
  <1>7. \A y \in States : states[y].version \in Nat /\ states'[y].version = states[y].version
    BY <1>2, <1>4, <1>6, VersionTypes DEF State
  <1>8. Forward BY <1>1, <1>6, <1>7 DEF Forward
  <1>9. Enabled' = Enabled \cup {x} /\ x \notin Enabled
    BY <1>1, <1>4, <1>6 DEF Enabled
  <1>10. Counted'
    <2>1. IsFiniteSet(Enabled') /\ Cardinality(Enabled') = Cardinality(Enabled) + 1
      BY <1>9, FS_AddElement DEF WorkflowInv, Counted
    <2>2. Cardinality(Enabled) \in Nat /\ Cardinality(transitions) \in Nat
      BY FS_CardinalityType DEF WorkflowInv, Counted
    <2>3. QED BY <1>1, <2>1, <2>2, VersionTypes DEF WithinBound, WorkflowInv, Counted
  <1>11. Active' = {x} BY <1>1, <1>4, <1>6 DEF Active
  <1>12. ASSUME NEW y \in States PROVE Numbered(y)' /\ Walked(y)'
    <2>1. Numbered(y) /\ Walked(y) BY DEF WorkflowInv, PathInv
    <2>2. TransitionsOf(y)' = TransitionsOf(y) BY <1>1 DEF TransitionsOf
    <2>3. CASE y # x BY <1>1, <1>6, <2>1, <2>2, <2>3, OthersKept
    <2>4. CASE y = x
      <3>1. Last(x)' = Last(x) BY <1>1, <1>4, <1>6, <1>7 DEF Last
      <3>2. Numbered(x)' BY <1>1, <1>4, <1>6, <2>1, <2>2, <2>4, <3>1 DEF Numbered
      <3>3. \A n, stage : Reached(x, n, stage)' <=> Reached(x, n, stage)
        BY <1>1 DEF Reached
      <3>4. Walked(x)' BY <1>1, <1>4, <1>6, <2>1, <2>2, <2>4, <3>1, <3>3 DEF Walked
      <3>5. QED BY <2>4, <3>2, <3>4
    <2>5. QED BY <2>3, <2>4
  <1>13. PathInv' BY <1>11, <1>12 DEF PathInv
  <1>14. BoundInv'
    BY <1>1, <1>4, <1>6, <1>11 DEF WorkflowInv, BoundInv, BoundWhileActive, WorkflowTypeOK, Capability
  <1>15. CallsInv' /\ DesiredInv' BY <1>1, <1>8, AllCallsKept, DesiredKept DEF WorkflowInv
  <1>16. WorkflowTypeOK' BY <1>1, <1>6 DEF Enable, WorkflowInv, WorkflowTypeOK, desired
  <1>17. QED BY <1>10, <1>13, <1>14, <1>15, <1>16 DEF WorkflowInv

LEMMA DisableStep ==
    ASSUME WorkflowInv, NEW x \in States, Disable(x)
    PROVE  WorkflowInv'
  <1>1. /\ x \in Active /\ states[x].life = "active" /\ Replaceable(x, {}) /\ Replace(x, {})
        /\ states' = [states EXCEPT ![x].life = "disabled", ![x].version = @ + 1]
        /\ capabilities' = CutOff(x)
        /\ UNCHANGED <<transitions, catalog, calls, managers>>
    BY DEF Disable, Active
  <1>2. states \in [States -> State] BY DEF WorkflowInv, WorkflowTypeOK
  <1>3. states[x].version \in 1..MaxChanges
    BY <1>1, <1>2, ActiveVersion, VersionTypes DEF State
  <1>4. PICK e : e = [states[x] EXCEPT !.life = "disabled", !.version = @ + 1] OBVIOUS
  <1>5. /\ e \in State /\ e.life = "disabled" /\ e.stage = states[x].stage
        /\ e.version = states[x].version + 1
    <2>1. states[x] \in State BY <1>2
    <2>2. states[x].version + 1 \in Versions BY <1>3, VersionTypes
    <2>3. e \in State BY <1>4, <2>1, <2>2 DEF State
    <2>4. QED BY <1>4, <2>1, <2>3 DEF State
  <1>6. states' = [states EXCEPT ![x] = e] BY <1>1, <1>2, <1>4
  <1>7. /\ states' \in [States -> State] /\ states'[x] = e
        /\ \A y \in States : y # x => states'[y] = states[y]
    BY <1>2, <1>5, <1>6
  <1>8. \A y \in States : states[y].version \in Nat /\ states'[y].version >= states[y].version
    BY <1>2, <1>5, <1>7, VersionTypes DEF State
  <1>9. Forward BY <1>1, <1>7, <1>8 DEF Forward
  <1>10. Enabled' = Enabled BY <1>1, <1>5, <1>7 DEF Enabled
  <1>11. Counted' BY <1>1, <1>10 DEF WorkflowInv, Counted
  <1>12. Active' = Active \ {x} BY <1>1, <1>5, <1>7 DEF Active
  <1>13. ASSUME NEW y \in States PROVE Numbered(y)' /\ Walked(y)'
    <2>1. Numbered(y) /\ Walked(y) BY DEF WorkflowInv, PathInv
    <2>2. TransitionsOf(y)' = TransitionsOf(y) BY <1>1 DEF TransitionsOf
    <2>3. CASE y # x BY <1>1, <1>7, <2>1, <2>2, <2>3, OthersKept
    <2>4. CASE y = x
      <3>1. Last(x)' = Last(x) BY <1>1, <1>3, <1>5, <1>7 DEF Last
      <3>2. Numbered(x)' BY <1>3, <1>5, <1>7, <2>1, <2>2, <2>4, <3>1 DEF Numbered
      <3>3. \A n, stage : Reached(x, n, stage)' <=> Reached(x, n, stage)
        BY <1>1 DEF Reached
      <3>4. Walked(x)' BY <1>5, <1>7, <2>1, <2>2, <2>4, <3>1, <3>3 DEF Walked
      <3>5. QED BY <2>4, <3>2, <3>4
    <2>5. QED BY <2>3, <2>4
  <1>14. PathInv' BY <1>12, <1>13 DEF WorkflowInv, PathInv
  <1>15. BoundInv' /\ capabilities' \in [Sessions -> Capability]
    <2>1. ASSUME NEW s \in Sessions
          PROVE  /\ capabilities'[s] \in Capability
                 /\ capabilities'[s].state = capabilities[s].state
                 /\ capabilities'[s].revoked
                       = (capabilities[s].revoked \/ capabilities[s].state = x)
      <3>1. PICK p : p = capabilities[s] OBVIOUS
      <3>2. p \in Capability BY <3>1 DEF WorkflowInv, WorkflowTypeOK
      <3>3. capabilities'[s] = IF p.state = x THEN [p EXCEPT !.revoked = TRUE] ELSE p
        BY <1>1, <3>1 DEF CutOff
      <3>4. QED BY <3>1, <3>2, <3>3 DEF Capability
    <2>2. \A y \in States : states[y].life # "none" => states'[y].life # "none"
      BY <1>1, <1>5, <1>7
    <2>3. \A s \in Sessions : capabilities[s].state \in States \cup {"none"}
      BY DEF WorkflowInv, WorkflowTypeOK, Capability
    <2>4. BoundInv'
      BY <1>12, <2>1, <2>2, <2>3 DEF WorkflowInv, BoundInv, BoundWhileActive
    <2>5. QED BY <1>1, <2>1, <2>4 DEF CutOff
  <1>16. CallsInv' BY <1>1, <1>9, AllCallsKept DEF WorkflowInv
  <1>17. DesiredInv' /\ sources' \subseteq Source /\ projections' \in [Skills -> Projection]
    <2>1. PICK none : none = {} OBVIOUS
    <2>2. none \in SUBSET Source /\ Replaceable(x, none) /\ Replace(x, none) BY <1>1, <2>1
    <2>3. OfOneStage(x, none)' BY <2>1, NothingOfOneStage DEF OfOneStage
    <2>4. \A q \in none : q.state = x BY <2>1
    <2>5. QED BY <1>9, <2>2, <2>3, <2>4, ReplacedDesired DEF WorkflowInv
  <1>18. WorkflowTypeOK' BY <1>1, <1>7, <1>15, <1>17 DEF WorkflowInv, WorkflowTypeOK
  <1>19. QED BY <1>11, <1>14, <1>15, <1>16, <1>17, <1>18 DEF WorkflowInv

LEMMA CommitStep ==
    ASSUME WorkflowInv, NEW c \in Calls, Commit(c)
    PROVE  WorkflowInv'
  <1>1. PICK x, new, row, action, n : /\ x = calls[c].state /\ new = SourcesOf(c)
                                      /\ row = Row(c) /\ action = calls[c].action
                                      /\ n = calls[c].generation
    OBVIOUS
  <1>2. /\ calls[c].at = "commit" /\ Replaceable(x, new) /\ Replace(x, new)
        /\ x \in Active /\ states[x].stage = FromStage[action] /\ states[x].version = n - 1
        /\ \A t \in transitions : t.state = x => t.command # row.command
        /\ WithinBound
        /\ states' = [states EXCEPT ![x].stage = ToStage[action], ![x].version = n]
        /\ transitions' = transitions \cup {row}
        /\ calls' = [calls EXCEPT ![c] = Installing(c, n)]
        /\ UNCHANGED <<capabilities, catalog, managers>>
    BY <1>1 DEF Commit, At, Admissible, Row
  <1>3. /\ calls[c] \in Call /\ Gathers(calls[c]) /\ x \in States
        /\ new \in SUBSET Source
        /\ \A q \in new : q.state = x /\ q.generation = n
        /\ \A p, q \in new : p.scope = q.scope => p = q
        /\ {q.scope : q \in new} = {q.scope : q \in calls[c].found}
    BY <1>1, <1>2, Committing
  <1>4. /\ action \in Actions /\ calls[c].command \in Commands /\ calls[c].kind = "transition"
        /\ n \in Versions /\ n >= 2 /\ calls[c].need = {}
    BY <1>1, <1>2, <1>3 DEF Gathers, Call
  <1>5. /\ row \in Transition /\ row.state = x /\ row.version = n - 1 /\ row.action = action
        /\ row.command \in Commands /\ row \notin transitions
    <2>1. n - 1 \in Versions BY <1>4, VersionTypes
    <2>2. row = [state |-> x, command |-> calls[c].command, action |-> action, version |-> n - 1]
      BY <1>1 DEF Row
    <2>3. QED BY <1>2, <1>3, <1>4, <2>1, <2>2 DEF Transition
  <1>6. states \in [States -> State] BY DEF WorkflowInv, WorkflowTypeOK
  <1>7. PICK e : e = [states[x] EXCEPT !.stage = ToStage[action], !.version = n] OBVIOUS
  <1>8. /\ e \in State /\ e.life = "active" /\ e.stage = ToStage[action] /\ e.version = n
    <2>1. states[x] \in State /\ states[x].life = "active" BY <1>2, <1>3, <1>6 DEF Active
    <2>2. e \in State BY <1>4, <1>7, <2>1, StageTypes DEF State
    <2>3. QED BY <1>7, <2>1, <2>2 DEF State
  <1>9. states' = [states EXCEPT ![x] = e] BY <1>2, <1>6, <1>7
  <1>10. /\ states' \in [States -> State] /\ states'[x] = e
         /\ \A y \in States : y # x => states'[y] = states[y]
    BY <1>3, <1>6, <1>8, <1>9
  <1>11. \A y \in States : states[y].version \in Nat /\ states'[y].version >= states[y].version
    <2>1. \A y \in States : states[y].version \in Nat BY <1>6, VersionTypes DEF State
    <2>2. states'[x].version >= states[x].version BY <1>2, <1>4, <1>8, <1>10, VersionTypes
    <2>3. QED BY <1>10, <2>1, <2>2
  <1>12. Forward BY <1>2, <1>10, <1>11 DEF Forward
  <1>13. Enabled' = Enabled /\ Active' = Active BY <1>2, <1>8, <1>10 DEF Enabled, Active
  <1>14. Counted'
    <2>1. IsFiniteSet(transitions') /\ Cardinality(transitions') = Cardinality(transitions) + 1
      BY <1>2, <1>5, FS_AddElement DEF WorkflowInv, Counted
    <2>2. Cardinality(Enabled) \in Nat /\ Cardinality(transitions) \in Nat
      BY FS_CardinalityType DEF WorkflowInv, Counted
    <2>3. QED BY <1>2, <1>13, <2>1, <2>2, VersionTypes DEF WithinBound, WorkflowInv, Counted
  <1>15. TransitionsOf(x)' = TransitionsOf(x) \cup {row}
    BY <1>2, <1>5 DEF TransitionsOf
  <1>16. Last(x) = n - 1 /\ Last(x)' = n BY <1>2, <1>8, <1>10 DEF Last, Active
  <1>17. ASSUME NEW y \in States PROVE Numbered(y)' /\ Walked(y)'
    <2>1. Numbered(y) /\ Walked(y) BY DEF WorkflowInv, PathInv
    <2>2. CASE y # x
      <3>1. TransitionsOf(y)' = TransitionsOf(y) BY <1>2, <1>5, <2>2 DEF TransitionsOf
      <3>2. QED BY <1>2, <1>10, <2>1, <2>2, <3>1, OthersKept
    <2>3. CASE y = x
      <3>1. n \in Nat BY <1>4, VersionTypes
      <3>2. \A t \in TransitionsOf(x) : t.version \in Nat /\ t.version <= n - 2
        BY <1>16, <2>1, <2>3, <3>1, VersionTypes
        DEF Numbered, TransitionsOf, WorkflowInv, WorkflowTypeOK, Transition
      <3>3. \A t \in TransitionsOf(x) : t.version # row.version /\ t.command # row.command
        BY <1>2, <1>5, <3>1, <3>2 DEF TransitionsOf
      <3>4. \A t, u \in TransitionsOf(x)' :
               t.version = u.version \/ t.command = u.command => t = u
        BY <1>15, <2>1, <2>3, <3>3 DEF Numbered
      <3>5. \A t \in TransitionsOf(x)' : t.version <= n - 1
        BY <1>5, <1>15, <3>1, <3>2
      <3>6. Cardinality(TransitionsOf(x)') = n - 1
        <4>1. Cardinality(TransitionsOf(x)) = n - 2 BY <1>16, <2>1, <2>3, <3>1 DEF Numbered
        <4>2. IsFiniteSet(TransitionsOf(x))
          BY FS_Subset DEF WorkflowInv, Counted, TransitionsOf
        <4>3. row \notin TransitionsOf(x) BY <1>5 DEF TransitionsOf
        <4>4. Cardinality(TransitionsOf(x) \cup {row}) = Cardinality(TransitionsOf(x)) + 1
          BY <4>2, <4>3, FS_AddElement
        <4>5. QED BY <1>15, <3>1, <4>1, <4>4
      <3>7. Numbered(x)'
        BY <1>8, <1>10, <1>16, <3>4, <3>5, <3>6 DEF Numbered
      <3>8. Reached(x, n, ToStage[action])' BY <1>2, <1>5 DEF Reached
      <3>9. Reached(x, n - 1, FromStage[action])'
        <4>1. PICK stage : stage = states[x].stage OBVIOUS
        <4>2. Reached(x, n - 1, stage) BY <1>16, <2>1, <2>3, <4>1 DEF Walked
        <4>3. Reached(x, n - 1, stage)' BY <1>2, <4>2, ReachedKept
        <4>4. QED BY <1>2, <4>1, <4>3
      <3>10. ASSUME NEW m \in 1..(n - 1)
             PROVE  \E t \in TransitionsOf(x)' : t.version = m /\ Reached(x, m, FromStage[t.action])'
        <4>1. CASE m = n - 1
          <5>1. Reached(x, m, FromStage[row.action])' BY <1>5, <3>9, <4>1
          <5>2. QED BY <1>5, <1>15, <4>1, <5>1
        <4>2. CASE m # n - 1
          <5>1. m \in 1..(Last(x) - 1) BY <1>16, <3>1, <4>2
          <5>2. PICK t \in TransitionsOf(x) : t.version = m /\ Reached(x, m, FromStage[t.action])
            BY <2>1, <2>3, <5>1 DEF Walked
          <5>3. Reached(x, m, FromStage[t.action])' BY <1>2, <5>2, ReachedKept
          <5>4. QED BY <1>15, <5>2, <5>3
        <4>3. QED BY <4>1, <4>2
      <3>11. Reached(x, Last(x), states[x].stage)'
        BY <1>8, <1>10, <1>16, <3>8 DEF Reached
      <3>12. Walked(x)' BY <1>16, <3>10, <3>11 DEF Walked
      <3>13. QED BY <2>3, <3>7, <3>12
    <2>4. QED BY <2>2, <2>3
  <1>18. PathInv' BY <1>13, <1>17 DEF WorkflowInv, PathInv
  <1>19. BoundInv'
    <2>1. \A y \in States : states[y].life # "none" => states'[y].life # "none"
      BY <1>8, <1>10
    <2>2. \A s \in Sessions : capabilities[s].state \in States \cup {"none"}
      BY DEF WorkflowInv, WorkflowTypeOK, Capability
    <2>3. QED BY <1>2, <1>13, <2>1, <2>2 DEF WorkflowInv, BoundInv, BoundWhileActive
  <1>20. OfOneStage(x, new)'
    <2>1. Reached(x, n, ToStage[action])' BY <1>2, <1>5 DEF Reached
    <2>2. PICK stage \in Stages :
             StageFor(calls[c], stage) /\ {q.scope : q \in calls[c].found} = Contributions(stage)
      BY <1>3, <1>4 DEF Gathers
    <2>3. stage = ToStage[action] BY <1>1, <1>4, <2>2 DEF StageFor
    <2>4. n <= states'[x].version BY <1>4, <1>8, <1>10, VersionTypes
    <2>5. QED BY <1>3, <2>1, <2>2, <2>3, <2>4 DEF OfOneStage
  <1>21. DesiredInv' /\ sources' \subseteq Source /\ projections' \in [Skills -> Projection]
    BY <1>2, <1>3, <1>12, <1>20, ReplacedDesired DEF WorkflowInv
  <1>22. PICK r : r = Installing(c, n) OBVIOUS
  <1>23. r \in Call /\ CallOK(r) /\ calls' = [calls EXCEPT ![c] = r]
    BY <1>2, <1>4, <1>22, Installable DEF WorkflowInv
  <1>24. CallOK(r)' BY <1>12, <1>23, CallKept DEF WorkflowInv
  <1>25. CallsInv' BY <1>12, <1>23, <1>24, CallsKept DEF WorkflowInv
  <1>26. WorkflowTypeOK'
    BY <1>2, <1>5, <1>10, <1>21, <1>23 DEF WorkflowInv, WorkflowTypeOK
  <1>27. QED BY <1>14, <1>18, <1>19, <1>21, <1>25, <1>26 DEF WorkflowInv
----------------------------------------------------------------------------
LEMMA WorkflowStarts == WorkflowInit => WorkflowInv
  <1> SUFFICES ASSUME WorkflowInit PROVE WorkflowInv OBVIOUS
  <1>1. WorkflowTypeOK
    BY VersionTypes
    DEF WorkflowInit, WorkflowTypeOK, NoState, State, NoCapability, Capability, NoProjection,
        Projection, NoCall, Call, Stages, Lookup, Scopes
  <1>2. Enabled = {} /\ Active = {} /\ transitions = {}
    BY DEF WorkflowInit, Enabled, Active, NoState
  <1>3. Counted BY <1>2, FS_EmptySet, VersionTypes DEF Counted
  <1>4. PathInv
    <2>1. ASSUME NEW x \in States PROVE Numbered(x) /\ Walked(x)
      <3>1. states[x] = NoState /\ TransitionsOf(x) = {} /\ Last(x) = 1
        BY <1>2 DEF WorkflowInit, TransitionsOf, Last, NoState
      <3>2. Numbered(x) BY <3>1, FS_EmptySet DEF Numbered, NoState
      <3>3. Walked(x) BY <3>1 DEF Walked, NoState, Reached
      <3>4. QED BY <3>2, <3>3
    <2>2. QED BY <1>2, <2>1 DEF PathInv
  <1>5. BoundInv BY DEF WorkflowInit, BoundInv, BoundWhileActive, NoCapability
  <1>6. CallsInv BY DEF WorkflowInit, CallsInv, CallOK, NoCall
  <1>7. DesiredInv
    <2>1. \A x \in States : Own(x) = {} BY DEF WorkflowInit, Own
    <2>2. \A k \in Skills : Asking(sources, k) = {} /\ projections[k] = NoProjection
      BY DEF WorkflowInit, Asking
    <2>3. QED BY <2>1, <2>2 DEF DesiredInv, OfOneStage, Projected
  <1>8. QED BY <1>1, <1>3, <1>4, <1>5, <1>6, <1>7 DEF WorkflowInv

LEMMA WorkflowStays == WorkflowInv /\ [WorkflowNext]_vars => WorkflowInv'
  <1> SUFFICES ASSUME WorkflowInv, [WorkflowNext]_vars PROVE WorkflowInv' OBVIOUS
  <1>1. CASE \E g \in Managers : Preflight(g) \/ EnableAgain(g) \/ \E x \in States : Enable(g, x)
    BY <1>1, BesideSteps, EnableStep
  <1>2. CASE \E x \in States : Disable(x) BY <1>2, DisableStep
  <1>3. ASSUME NEW c \in Calls, NEW s \in Sessions,
               \/ BeginLaunch(c, s) \/ BeginCurrent(c, s) \/ BeginTransition(c, s)
               \/ BeginAssignment(c, s)
        PROVE  WorkflowInv'
    BY <1>3, BeginSteps, BeginTransitionStep, BeginAssignmentStep
  <1>4. ASSUME NEW c \in Calls, \/ LookUp(c) \/ Reconcile(c) \/ Bind(c) \/ Commit(c)
                               \/ Assign(c) \/ Download(c) \/ Write(c)
        PROVE  WorkflowInv'
    BY <1>4, LookUpStep, ReconcileStep, BindStep, CommitStep, AssignStep, DownloadStep, WriteStep
  <1>5. ASSUME NEW c \in Calls, NEW outcome \in {"ready", "failed"},
               \/ LookUpFails(c) \/ ReconcileFails(c) \/ GiveUp(c) \/ CommitFails(c)
               \/ InstallFails(c) \/ Report(c, outcome) \/ ReportRefused(c, outcome)
        PROVE  WorkflowInv'
    BY <1>5, FruitlessSteps
  <1>6. CASE Library BY <1>6, BesideSteps
  <1>7. CASE UNCHANGED vars
    <2>1. UNCHANGED <<states, transitions, capabilities, desired, catalog, calls, managers>>
      BY <1>7 DEF vars, desired
    <2>2. Forward BY <2>1, VersionTypes DEF Forward, WorkflowInv, WorkflowTypeOK, State
    <2>3. WorkflowTypeOK' BY <2>1 DEF WorkflowInv, WorkflowTypeOK, desired
    <2>4. PathInv' /\ Counted' /\ BoundInv' BY <2>1, PathKept, BoundKept DEF WorkflowInv
    <2>5. CallsInv' /\ DesiredInv' BY <2>1, <2>2, AllCallsKept, DesiredKept DEF WorkflowInv
    <2>6. QED BY <2>3, <2>4, <2>5 DEF WorkflowInv
  <1>8. QED BY <1>1, <1>2, <1>3, <1>4, <1>5, <1>6, <1>7 DEF WorkflowNext
----------------------------------------------------------------------------
(* The stage a state has reached is the one its transition leads to. *)
LEMMA StageIs ==
    ASSUME WorkflowInv, NEW x \in States, NEW n \in Nat \ {0}, NEW stage, Reached(x, n, stage)
    PROVE  StageAt(x, n) = stage
  <1>1. \A t \in transitions : t.version \in Nat /\ t.version >= 1
    BY VersionTypes DEF WorkflowInv, WorkflowTypeOK, Transition
  <1>2. CASE n = 1 BY <1>1, <1>2 DEF Reached, StageAt
  <1>3. CASE n # 1
    <2>1. PICK t \in transitions : t.state = x /\ t.version = n - 1 /\ stage = ToStage[t.action]
      BY <1>3 DEF Reached
    <2>2. \A u \in transitions : u.state = x /\ u.version = n - 1 => u = t
      <3>1. Numbered(x) BY DEF WorkflowInv, PathInv
      <3>2. QED BY <2>1, <3>1 DEF Numbered, TransitionsOf
    <2>3. (CHOOSE u \in transitions : u.state = x /\ u.version = n - 1) = t BY <2>1, <2>2
    <2>4. QED BY <1>3, <2>1, <2>3 DEF StageAt
  <1>4. QED BY <1>2, <1>3

LEMMA PathFollows == WorkflowInv => StagePath
  <1> SUFFICES ASSUME WorkflowInv PROVE StagePath OBVIOUS
  <1>1. Cardinality(Active) <= 1
    <2>1. CASE Active = {} BY <2>1, FS_EmptySet
    <2>2. CASE Active # {}
      <3>1. PICK x : Active = {x} BY <2>2 DEF WorkflowInv, PathInv
      <3>2. QED BY <3>1, FS_Singleton
    <2>3. QED BY <2>1, <2>2
  <1>2. ASSUME NEW x \in States
        PROVE  /\ Cardinality(TransitionsOf(x)) = Last(x) - 1
               /\ \A n \in 1..(Last(x) - 1) : \E t \in TransitionsOf(x) :
                     t.version = n /\ FromStage[t.action] = StageAt(x, n)
               /\ \A t, u \in TransitionsOf(x) : t.command = u.command => t = u
               /\ states[x].stage = StageAt(x, Last(x))
    <2>1. Numbered(x) /\ Walked(x) BY DEF WorkflowInv, PathInv
    <2>2. states[x].version \in Nat \ {0} BY VersionTypes DEF WorkflowInv, WorkflowTypeOK, State
    <2>3. Last(x) \in Nat \ {0} BY <2>1, <2>2 DEF Last, Numbered
    <2>4. states[x].stage = StageAt(x, Last(x)) BY <2>1, <2>3, StageIs DEF Walked
    <2>5. ASSUME NEW n \in 1..(Last(x) - 1)
          PROVE  \E t \in TransitionsOf(x) : t.version = n /\ FromStage[t.action] = StageAt(x, n)
      <3>1. PICK t \in TransitionsOf(x) : t.version = n /\ Reached(x, n, FromStage[t.action])
        BY <2>1 DEF Walked
      <3>2. n \in Nat \ {0} BY <2>3
      <3>3. StageAt(x, n) = FromStage[t.action] BY <3>1, <3>2, StageIs
      <3>4. QED BY <3>1, <3>3
    <2>6. QED BY <2>1, <2>4, <2>5 DEF Numbered
  <1>3. QED BY <1>1, <1>2 DEF StagePath, Last

LEMMA DesiredFollows == WorkflowInv => DesiredOfOneStage
  <1> SUFFICES ASSUME WorkflowInv PROVE DesiredOfOneStage OBVIOUS
  <1>1. ASSUME NEW x \in States, NEW q \in Own(x)
        PROVE  /\ q.generation <= states[x].version
               /\ {p.scope : p \in Own(x)} = Contributions(StageAt(x, q.generation))
               /\ \A p \in Own(x) : p.generation = q.generation /\ (p.scope = q.scope => p = q)
    <2>1. OfOneStage(x, Own(x)) BY DEF WorkflowInv, DesiredInv
    <2>2. PICK stage \in Stages : /\ Reached(x, q.generation, stage)
                                  /\ {p.scope : p \in Own(x)} = Contributions(stage)
      BY <2>1 DEF OfOneStage
    <2>3. q.generation \in Nat \ {0}
      BY VersionTypes DEF Own, WorkflowInv, WorkflowTypeOK, Source
    <2>4. StageAt(x, q.generation) = stage BY <2>2, <2>3, StageIs
    <2>5. QED BY <2>1, <2>2, <2>4 DEF OfOneStage
  <1>2. \A k \in Skills : Projected(projections[k], Asking(sources, k))
    BY DEF WorkflowInv, DesiredInv
  <1>3. QED BY <1>1, <1>2 DEF DesiredOfOneStage, Own, Projected, Asking
----------------------------------------------------------------------------
(* The requests, the rows and what follows from them keep agreeing in every behaviour. *)
THEOREM WorkflowInvariant == WorkflowSpec => []WorkflowInv
  <1>1. QED BY WorkflowStarts, WorkflowStays, PTL DEF WorkflowSpec

(* Every variable of the model keeps its type; versions stay within the bound. *)
THEOREM WorkflowTypes == WorkflowSpec => []WorkflowTypeOK
  <1>1. WorkflowInv => WorkflowTypeOK BY DEF WorkflowInv
  <1>2. QED BY <1>1, WorkflowInvariant, PTL

(* transitionTaskWorkflow, enableTaskWorkflow and disableTaskWorkflow: the transitions of
   a state are one path from the first stage to the one it has, and one state at most is
   active. *)
THEOREM StagesAreOnePath == WorkflowSpec => []StagePath
  <1>1. QED BY PathFollows, WorkflowInvariant, PTL

(* createSessionWithEvents and disableTaskWorkflow: the capability of a Session is revoked
   exactly when the state it was launched under is no longer active. *)
THEOREM SessionsBoundWhileActive == WorkflowSpec => []BoundWhileActive
  <1>1. WorkflowInv => BoundWhileActive BY DEF WorkflowInv, BoundInv
  <1>2. QED BY <1>1, WorkflowInvariant, PTL

(* replaceWorkflowSkillSourcesInTransaction and reportWorkspaceSkillProjection: the Skills
   wanted are those of one stage, and what is settled is what is wanted. *)
THEOREM DesiredIsOfOneStage == WorkflowSpec => []DesiredOfOneStage
  <1>1. QED BY DesiredFollows, WorkflowInvariant, PTL
=============================================================================
