----------------------- MODULE EventDelivery_proofs -----------------------
(***************************************************************************)
(* What the router delivers, for any number of requests, events, connections  *)
(* and subscriptions: an event once in its dedup window and nothing older than  *)
(* the subscription; and the router and the connections that are open agree.    *)
(* Then the inbox: its bytes are those of the requests it holds, and its queue   *)
(* has each that waits once, whatever is drained, swept and finished.           *)
(***************************************************************************)
EXTENDS EventDelivery, FiniteSetTheorems, SequenceTheorems, TLAPS

(* The part of the type invariant that does not count bytes and frames. *)
RouterTypeOK ==
    /\ stage \in [Items -> Stages] /\ left \in [Items -> SUBSET Events]
    /\ cap \in [Items -> Nat] /\ present \in [Items -> SUBSET Nat]
    /\ dedup \subseteq Events
    /\ connections \in [Connections -> {"new", "authorizing", "open", "closed"}]
    /\ own \in [Connections -> SUBSET Ids]
    /\ subs \subseteq Subscription /\ generation \in Nat \ {0}
    /\ requests \in [Requests -> [connection : Connections, id : Ids, topic : Topics]
                                   \cup {NoRequest}]
    /\ sent \subseteq Sent

(* A subscription that is not newer than a request was there when it was admitted. *)
Generations ==
    /\ \A s \in subs : 0 < s.generation /\ s.generation < generation
    /\ \A i \in Items : cap[i] < generation
    /\ \A i \in Items, s \in subs : s.generation <= cap[i] => s.generation \in present[i]

(* What was sent had its key reserved and came from a request that was admitted. *)
SentOnce ==
    \A d \in sent : d.event \in dedup /\ stage[d.item] # "outside" /\ d.generation \in present[d.item]

(* The subscriptions of the router, and the map of each connection. *)
Books(registered, owned) ==
    /\ \A c \in Open : owned[c] = {s.id : s \in {t \in registered : t.connection = c}}
    /\ \A s, t \in registered :
          /\ s.connection = t.connection /\ s.id = t.id => s = t
          /\ s.generation = t.generation => s = t
    /\ \A c \in Connections : connections[c] \in {"new", "authorizing"} =>
          owned[c] = {} /\ \A s \in registered : s.connection # c

(* A connection that was never open has asked for nothing. *)
Asked == \A r \in Requests, c \in Connections :
            connections[c] \in {"new", "authorizing"} => requests[r].connection # c

PerSession == \A c \in Open : Cardinality({d \in Open : SessionOf[d] = SessionOf[c]}) <= MaxPerSession

RouterInv == /\ RouterTypeOK /\ Generations
             /\ SentOnce /\ DeliveredOnce
             /\ Books(subs, own) /\ Asked /\ PerSession
----------------------------------------------------------------------------
LEMMA StageNames == Stages = {"outside", "queued", "reading", "resolving", "done"} BY DEF Stages

(* What a step that is about the inbox alone leaves as it is. *)
InboxOnly ==
    /\ UNCHANGED <<cap, present, dedup, connections, own, subs, generation, requests, sent>>
    /\ stage' \in [Items -> Stages] /\ left' \in [Items -> SUBSET Events]
    /\ \A i \in Items : stage[i] # "outside" => stage'[i] # "outside"

LEMMA InboxKeeps == ASSUME RouterInv, InboxOnly PROVE RouterInv'
  <1>1. RouterTypeOK' BY DEF RouterInv, InboxOnly, RouterTypeOK
  <1>2. Generations' BY DEF RouterInv, InboxOnly, Generations
  <1>3. SentOnce'
    <2>1. \A d \in sent : d.item \in Items BY DEF RouterInv, RouterTypeOK, Sent
    <2> QED BY <2>1 DEF RouterInv, InboxOnly, SentOnce
  <1>4. DeliveredOnce' BY DEF RouterInv, InboxOnly, DeliveredOnce
  <1>5. Books(subs, own)' /\ Asked' /\ PerSession'
    BY DEF RouterInv, InboxOnly, Books, Asked, PerSession, Open
  <1> QED BY <1>1, <1>2, <1>3, <1>4, <1>5 DEF RouterInv

(* The worker of a request that goes on or ends. *)
LEMMA FinishedKeeps ==
    ASSUME RouterTypeOK, NEW i \in Items, Finished(i) \/ stage' = stage
    PROVE  /\ stage' \in [Items -> Stages]
           /\ \A j \in Items : stage[j] # "outside" => stage'[j] # "outside"
  BY StageNames DEF RouterTypeOK, Finished

LEMMA InboxSteps ==
    ASSUME RouterInv,
           \/ Drain \/ Sweep
           \/ \E i \in Items : \/ Expire(i) \/ Parse(i) \/ Discard(i)
                               \/ \E e \in Events : Unresolved(i, e)
           \/ \E c \in Connections : Flush(c)
    PROVE  RouterInv'
  <1>0. RouterTypeOK BY DEF RouterInv
  <1>1. CASE Drain
    <2>1. stage' \in [Items -> Stages] /\ \A i \in Items : stage[i] # "outside" => stage'[i] # "outside"
      BY <1>0, <1>1, StageNames DEF Drain, RouterTypeOK
    <2> QED BY <1>0, <1>1, <2>1, InboxKeeps DEF Drain, InboxOnly, RouterTypeOK, transport
  <1>2. CASE Sweep
    <2>1. stage' \in [Items -> Stages] /\ \A i \in Items : stage[i] # "outside" => stage'[i] # "outside"
      BY <1>0, <1>2, StageNames DEF Sweep, RouterTypeOK
    <2> QED BY <1>0, <1>2, <2>1, InboxKeeps DEF Sweep, InboxOnly, RouterTypeOK, transport
  <1>3. CASE (\E i \in Items : Expire(i)) \/ (\E c \in Connections : Flush(c))
    <2>1. InboxOnly BY <1>0, <1>3 DEF Expire, Flush, InboxOnly, RouterTypeOK, transport, inbox
    <2> QED BY <2>1, InboxKeeps
  <1>4. ASSUME NEW i \in Items, Parse(i) PROVE RouterInv'
    <2>1. Carries[i] \in SUBSET Events BY CarriesAssumption
    <2>2. left' \in [Items -> SUBSET Events] BY <1>0, <1>4, <2>1 DEF Parse, RouterTypeOK
    <2>3. stage' \in [Items -> Stages] /\ \A j \in Items : stage[j] # "outside" => stage'[j] # "outside"
      BY <1>0, <1>4, StageNames DEF Parse, Finished, RouterTypeOK
    <2> QED BY <1>4, <2>2, <2>3, InboxKeeps DEF Parse, InboxOnly, transport
  <1>5. ASSUME NEW i \in Items, Discard(i) PROVE RouterInv'
    <2>1. stage' \in [Items -> Stages] /\ \A j \in Items : stage[j] # "outside" => stage'[j] # "outside"
      BY <1>0, <1>5, FinishedKeeps DEF Discard
    <2> QED BY <1>0, <1>5, <2>1, InboxKeeps DEF Discard, InboxOnly, RouterTypeOK, transport
  <1>6. ASSUME NEW i \in Items, NEW e \in Events, Unresolved(i, e) PROVE RouterInv'
    <2>1. stage' \in [Items -> Stages] /\ \A j \in Items : stage[j] # "outside" => stage'[j] # "outside"
      BY <1>0, <1>6, FinishedKeeps DEF Unresolved, Proceed
    <2>2. left' \in [Items -> SUBSET Events] BY <1>0, <1>6 DEF Unresolved, Proceed, RouterTypeOK
    <2> QED BY <1>6, <2>1, <2>2, InboxKeeps DEF Unresolved, Proceed, InboxOnly, transport
  <1> QED BY <1>1, <1>2, <1>3, <1>4, <1>5, <1>6

(* An admitted request has seen every subscription there is. *)
LEMMA AdmitKeeps == ASSUME RouterInv, NEW i \in Items, Admit(i) PROVE RouterInv'
  <1>1. /\ RouterTypeOK /\ Generations /\ SentOnce
        /\ stage[i] = "outside" /\ stage' = [stage EXCEPT ![i] = "queued"]
        /\ cap' = [cap EXCEPT ![i] = generation - 1]
        /\ present' = [present EXCEPT ![i] = {s.generation : s \in subs}]
        /\ UNCHANGED <<left, dedup, connections, own, subs, generation, requests, sent>>
    BY DEF RouterInv, Admit, transport
  <1>2. generation - 1 \in Nat /\ {s.generation : s \in subs} \in SUBSET Nat
    BY <1>1 DEF RouterTypeOK, Subscription
  <1>3. RouterTypeOK' BY <1>1, <1>2, StageNames DEF RouterTypeOK
  <1>4. Generations'
    <2>1. \A s \in subs : s.generation \in Nat BY <1>1 DEF RouterTypeOK, Subscription
    <2> QED BY <1>1, <1>2, <2>1 DEF RouterTypeOK, Generations
  <1>5. SentOnce'
    <2> SUFFICES ASSUME NEW d \in sent
                 PROVE  d.event \in dedup /\ stage'[d.item] # "outside" /\ d.generation \in present'[d.item]
      BY <1>1 DEF SentOnce
    <2>1. d.item \in Items /\ d.item # i BY <1>1 DEF RouterTypeOK, Sent, SentOnce
    <2> QED BY <1>1, <2>1 DEF RouterTypeOK, SentOnce
  <1>6. DeliveredOnce' BY <1>1 DEF RouterInv, DeliveredOnce
  <1>7. Books(subs, own)' /\ Asked' /\ PerSession'
    BY <1>1 DEF RouterInv, Books, Asked, PerSession, Open
  <1> QED BY <1>3, <1>4, <1>5, <1>6, <1>7 DEF RouterInv
----------------------------------------------------------------------------
(* Connections that close disturb no count. *)
LEMMA FewerOpen ==
    ASSUME PerSession, Open' \subseteq Open, Open \subseteq Connections, MaxPerSession \in Nat
    PROVE  PerSession'
  <1> SUFFICES ASSUME NEW c \in Open'
               PROVE  Cardinality({d \in Open' : SessionOf[d] = SessionOf[c]}) <= MaxPerSession
    BY DEF PerSession
  <1> DEFINE Before1 == {d \in Open : SessionOf[d] = SessionOf[c]}
             After == {d \in Open' : SessionOf[d] = SessionOf[c]}
  <1>1. IsFiniteSet(Before1) /\ After \in SUBSET Before1
    BY ConnectionsAssumption, FS_Subset
  <1>2. /\ Cardinality(After) <= Cardinality(Before1)
        /\ Cardinality(After) \in Nat /\ Cardinality(Before1) \in Nat
    BY <1>1, FS_Subset, FS_CardinalityType
  <1>3. Cardinality(Before1) <= MaxPerSession BY DEF PerSession
  <1> HIDE DEF Before1, After
  <1>4. Cardinality(After) <= MaxPerSession BY <1>2, <1>3
  <1> QED BY <1>4 DEF After

(* What is left of books that agreed when connections leave. *)
LEMMA LeaveKeeps ==
    ASSUME RouterTypeOK, Asked, PerSession,
           NEW C \in SUBSET Open, NEW queued,
           NEW registered \in SUBSET Subscription, NEW owned \in [Connections -> SUBSET Ids],
           Books(registered, owned), Leave(C, registered, owned, queued),
           \A r \in Requests : requests'[r] = requests[r] \/ requests'[r] = NoRequest
    PROVE  /\ connections' \in [Connections -> {"new", "authorizing", "open", "closed"}]
           /\ own' \in [Connections -> SUBSET Ids] /\ subs' \subseteq registered
           /\ Books(subs, own)' /\ Asked' /\ PerSession'
  <1>1. /\ connections \in [Connections -> {"new", "authorizing", "open", "closed"}]
        /\ connections' = [c \in Connections |-> IF c \in C THEN "closed" ELSE connections[c]]
        /\ subs' = {s \in registered : s.connection \notin C}
        /\ own' = [c \in Connections |-> IF c \in C THEN {} ELSE owned[c]]
    BY DEF RouterTypeOK, Leave
  <1>2. /\ connections' \in [Connections -> {"new", "authorizing", "open", "closed"}]
        /\ own' \in [Connections -> SUBSET Ids] /\ subs' \subseteq registered
    BY <1>1
  <1>3. /\ Open' = Open \ C
        /\ \A c \in Connections : connections'[c] \in {"new", "authorizing"} =>
              connections[c] \in {"new", "authorizing"} /\ c \notin C
    BY <1>1 DEF Open
  <1>4. Books(subs, own)'
    <2>1. ASSUME NEW c \in Open'
          PROVE  own'[c] = {s.id : s \in {t \in subs' : t.connection = c}}
      <3>1. c \in Connections /\ c \in Open /\ c \notin C BY <1>3 DEF Open
      <3>2. own'[c] = owned[c] BY <1>1, <3>1
      <3>3. {t \in subs' : t.connection = c} = {t \in registered : t.connection = c}
        BY <1>1, <3>1
      <3> QED BY <3>1, <3>2, <3>3 DEF Books
    <2>2. \A s, t \in subs' : /\ s.connection = t.connection /\ s.id = t.id => s = t
                              /\ s.generation = t.generation => s = t
      BY <1>2 DEF Books
    <2>3. \A c \in Connections : connections'[c] \in {"new", "authorizing"} =>
             own'[c] = {} /\ \A s \in subs' : s.connection # c
      BY <1>1, <1>2, <1>3 DEF Books
    <2> QED BY <2>1, <2>2, <2>3 DEF Books
  <1>5. Asked'
    <2>1. \A c \in Connections : NoRequest.connection # c
      BY ConnectionsAssumption DEF NoRequest
    <2> QED BY <1>3, <2>1 DEF Asked
  <1>6. PerSession'
    <2>1. Open' \subseteq Open /\ Open \subseteq Connections BY <1>3 DEF Open
    <2> QED BY <2>1, FewerOpen, LimitsAssumption
  <1> QED BY <1>2, <1>4, <1>5, <1>6

(* The books as they are, less some subscriptions of some connections. *)
LEMMA FewerSubscriptions ==
    ASSUME RouterTypeOK, Generations, subs' \subseteq subs, UNCHANGED <<cap, present, generation>>
    PROVE  Generations'
  BY DEF RouterTypeOK, Generations

(* Answers, refusals, disconnections and the shutdown: connections may close, and their
   subscriptions go. *)
LEMMA TransportSteps ==
    ASSUME RouterInv,
           \/ Close
           \/ \E c \in Connections : Disconnect(c) \/ Refuse(c) \/ \E id \in Ids : Unsubscribe(c, id)
           \/ \E r \in Requests : Forbid(r)
    PROVE  RouterInv'
  <1>0. /\ RouterTypeOK /\ Generations /\ SentOnce /\ DeliveredOnce
        /\ Books(subs, own) /\ Asked /\ PerSession
        /\ subs \in SUBSET Subscription /\ own \in [Connections -> SUBSET Ids]
    BY DEF RouterInv, RouterTypeOK
  <1>1. UNCHANGED <<stage, left, cap, present, dedup, generation, sent>>
    BY DEF Close, Disconnect, Refuse, Unsubscribe, Forbid, inbox
  <1> DEFINE Keeping(C, registered, owned, queued) ==
                /\ C \in SUBSET Open /\ registered \in SUBSET subs
                /\ owned \in [Connections -> SUBSET Ids]
                /\ Books(registered, owned) /\ Leave(C, registered, owned, queued)
             Replies == \/ UNCHANGED requests
                        \/ \E r \in Requests : requests' = [requests EXCEPT ![r] = NoRequest]
  <1>2. ASSUME NEW C, NEW registered, NEW owned, NEW queued,
               Keeping(C, registered, owned, queued), Replies
        PROVE  RouterInv'
    <2>1. /\ requests' \in [Requests -> [connection : Connections, id : Ids, topic : Topics]
                                        \cup {NoRequest}]
          /\ \A r \in Requests : requests'[r] = requests[r] \/ requests'[r] = NoRequest
      BY <1>0, <1>2 DEF RouterTypeOK
    <2>2. /\ connections' \in [Connections -> {"new", "authorizing", "open", "closed"}]
          /\ own' \in [Connections -> SUBSET Ids] /\ subs' \subseteq registered
          /\ Books(subs, own)' /\ Asked' /\ PerSession'
      <3>1. registered \in SUBSET Subscription BY <1>0, <1>2
      <3> QED BY <1>0, <1>2, <2>1, <3>1, LeaveKeeps
    <2>3. subs' \subseteq subs BY <1>2, <2>2
    <2>4. RouterTypeOK' BY <1>0, <1>1, <2>1, <2>2, <2>3 DEF RouterTypeOK
    <2>5. Generations' BY <1>0, <1>1, <2>3, FewerSubscriptions
    <2>6. SentOnce' /\ DeliveredOnce' BY <1>0, <1>1 DEF SentOnce, DeliveredOnce
    <2> QED BY <2>2, <2>4, <2>5, <2>6 DEF RouterInv
  <1>3. ASSUME NEW c \in Connections, NEW registered \in SUBSET subs,
               NEW owned \in [Connections -> SUBSET Ids], Books(registered, owned),
               Reply(c, registered, owned), Replies
        PROVE  RouterInv'
    <2>1. CASE c \in Open /\ frames[c] < MaxFrames
      <3>1. Leave({}, registered, owned, [frames EXCEPT ![c] = @ + 1]) BY <1>3, <2>1 DEF Reply
      <3> QED BY <1>2, <1>3, <3>1
    <2>2. CASE ~(c \in Open /\ frames[c] < MaxFrames)
      <3>1. Leave({c} \cap Open, registered, owned, frames) BY <1>3, <2>2 DEF Reply
      <3> QED BY <1>2, <1>3, <3>1
    <2> QED BY <2>1, <2>2
  <1>4. CASE Close
    <2>1. Leave(Open, subs, own, frames) /\ UNCHANGED requests BY <1>4 DEF Close
    <2> QED BY <1>0, <1>2, <2>1
  <1>5. ASSUME NEW c \in Connections, Disconnect(c) PROVE RouterInv'
    <2>1. {c} \in SUBSET Open /\ Leave({c}, subs, own, frames) /\ UNCHANGED requests
      BY <1>5 DEF Disconnect
    <2> QED BY <1>0, <1>2, <2>1
  <1>6. ASSUME NEW c \in Connections, Refuse(c) PROVE RouterInv'
    <2>1. Reply(c, subs, own) /\ UNCHANGED requests BY <1>6 DEF Refuse
    <2> QED BY <1>0, <1>3, <2>1
  <1>7. ASSUME NEW r \in Requests, Forbid(r) PROVE RouterInv'
    <2>1. /\ requests[r].connection \in Connections /\ Reply(requests[r].connection, subs, own)
          /\ requests' = [requests EXCEPT ![r] = NoRequest]
      BY <1>0, <1>7 DEF Forbid, RouterTypeOK
    <2> QED BY <1>0, <1>3, <2>1
  <1>8. ASSUME NEW c \in Connections, NEW id \in Ids, Unsubscribe(c, id) PROVE RouterInv'
    <2> DEFINE registered == {s \in subs : ~(s.connection = c /\ s.id = id)}
               owned == [own EXCEPT ![c] = @ \ {id}]
    <2>1. c \in Open /\ Reply(c, registered, owned) /\ UNCHANGED requests BY <1>8 DEF Unsubscribe
    <2>2. owned \in [Connections -> SUBSET Ids] /\ registered \in SUBSET subs BY <1>0
    <2>3. Books(registered, owned)
      <3>1. ASSUME NEW d \in Open
            PROVE  owned[d] = {s.id : s \in {t \in registered : t.connection = d}}
        <4>1. d \in Connections /\ own[d] = {s.id : s \in {t \in subs : t.connection = d}}
          BY <1>0 DEF Books, Open
        <4>2. CASE d = c BY <1>0, <4>1, <4>2
        <4>3. CASE d # c
          <5>1. {t \in registered : t.connection = d} = {t \in subs : t.connection = d} BY <4>3
          <5> QED BY <1>0, <4>1, <4>3, <5>1
        <4> QED BY <4>2, <4>3
      <3>2. c \in Connections /\ connections[c] = "open" BY <2>1 DEF Open
      <3> QED BY <1>0, <3>1, <3>2 DEF Books
    <2> HIDE DEF registered, owned
    <2> QED BY <1>3, <2>1, <2>2, <2>3
  <1> QED BY <1>4, <1>5, <1>6, <1>7, <1>8

(* Connections on their way to being open; the limit of the session is looked at when they
   are. *)
LEMMA UpgradeSteps ==
    ASSUME RouterInv, NEW c \in Connections, Upgrade(c) \/ Register(c) \/ Reject(c)
    PROVE  RouterInv'
  <1>0. /\ RouterTypeOK /\ Generations /\ SentOnce /\ DeliveredOnce
        /\ Books(subs, own) /\ Asked /\ PerSession
    BY DEF RouterInv
  <1>1. /\ UNCHANGED <<stage, left, cap, present, dedup, own, subs, generation, requests, sent>>
        /\ connections[c] \in {"new", "authorizing"}
        /\ \E s \in {"authorizing", "open", "closed"} : connections' = [connections EXCEPT ![c] = s]
    BY DEF Upgrade, Register, Reject, inbox
  <1>2. RouterTypeOK' BY <1>0, <1>1 DEF RouterTypeOK
  <1>3. Generations' /\ SentOnce' /\ DeliveredOnce'
    BY <1>0, <1>1 DEF Generations, SentOnce, DeliveredOnce
  <1>4. /\ Open' \subseteq Open \cup {c} /\ Open \subseteq Open' /\ c \notin Open
        /\ \A d \in Connections : connections'[d] \in {"new", "authorizing"} =>
              connections[d] \in {"new", "authorizing"}
        /\ Open \subseteq Connections
    BY <1>0, <1>1 DEF Open, RouterTypeOK
  <1>5. Books(subs, own)'
    <2>1. own[c] = {} /\ \A s \in subs : s.connection # c BY <1>0, <1>1 DEF Books
    <2>2. own[c] = {s.id : s \in {t \in subs : t.connection = c}} BY <2>1
    <2> QED BY <1>0, <1>1, <1>4, <2>2 DEF Books
  <1>6. Asked' BY <1>0, <1>1, <1>4 DEF Asked
  <1>7. PerSession'
    <2>1. CASE c \notin Open' BY <1>0, <1>4, <2>1, FewerOpen, LimitsAssumption
    <2>2. CASE c \in Open'
      <3>1. Admissible(c) /\ Open' = Open \cup {c}
        BY <1>0, <1>1, <1>4, <2>2 DEF Upgrade, Register, Reject, Open, RouterTypeOK
      <3> SUFFICES ASSUME NEW d \in Open'
                   PROVE  Cardinality({o \in Open' : SessionOf[o] = SessionOf[d]}) <= MaxPerSession
        BY DEF PerSession
      <3> DEFINE Same == {o \in Open : SessionOf[o] = SessionOf[d]}
      <3>2. IsFiniteSet(Same) BY <1>4, ConnectionsAssumption, FS_Subset
      <3>3. CASE SessionOf[d] = SessionOf[c]
        <4>1. {o \in Open' : SessionOf[o] = SessionOf[d]} = Same \cup {c} BY <3>1, <3>3
        <4>2. Cardinality(Same) < MaxPerSession BY <3>1, <3>3 DEF Admissible
        <4>3. Cardinality(Same) \in Nat BY <3>2, FS_CardinalityType
        <4> HIDE DEF Same
        <4>4. Cardinality(Same \cup {c}) <= Cardinality(Same) + 1 BY <3>2, <4>3, FS_AddElement
        <4>5. Cardinality(Same \cup {c}) \in Nat
          BY <3>2, FS_AddElement, FS_CardinalityType
        <4> QED BY <4>1, <4>2, <4>3, <4>4, <4>5, LimitsAssumption
      <3>4. CASE SessionOf[d] # SessionOf[c]
        <4>1. d \in Open /\ {o \in Open' : SessionOf[o] = SessionOf[d]} = Same BY <3>1, <3>4
        <4> QED BY <1>0, <4>1 DEF PerSession
      <3> QED BY <3>3, <3>4
    <2> QED BY <2>1, <2>2
  <1> QED BY <1>2, <1>3, <1>5, <1>6, <1>7 DEF RouterInv

LEMMA BeginSubscribeKeeps ==
    ASSUME RouterInv, NEW r \in Requests, NEW c \in Connections, NEW id \in Ids,
           NEW topic \in Topics, BeginSubscribe(r, c, id, topic)
    PROVE  RouterInv'
  <1> DEFINE new == [connection |-> c, id |-> id, topic |-> topic]
  <1>0. /\ RouterTypeOK /\ Generations /\ SentOnce /\ DeliveredOnce
        /\ Books(subs, own) /\ Asked /\ PerSession
    BY DEF RouterInv
  <1>1. /\ UNCHANGED <<stage, left, cap, present, dedup, connections, own, subs, generation, sent>>
        /\ c \in Open /\ requests' = [requests EXCEPT ![r] = new]
    BY DEF BeginSubscribe, inbox, transport
  <1>2. RouterTypeOK' BY <1>0, <1>1 DEF RouterTypeOK
  <1>3. Generations' /\ SentOnce' /\ DeliveredOnce'
    BY <1>0, <1>1 DEF Generations, SentOnce, DeliveredOnce
  <1>4. Books(subs, own)' /\ PerSession' BY <1>0, <1>1 DEF Books, PerSession, Open
  <1>5. Asked'
    <2> SUFFICES ASSUME NEW p \in Requests, NEW d \in Connections,
                        connections[d] \in {"new", "authorizing"}
                 PROVE  requests'[p].connection # d
      BY <1>1 DEF Asked
    <2>1. CASE p = r BY <1>0, <1>1, <2>1 DEF Open, RouterTypeOK
    <2>2. CASE p # r BY <1>0, <1>1, <2>2 DEF Asked, RouterTypeOK
    <2> QED BY <2>1, <2>2
  <1> QED BY <1>2, <1>3, <1>4, <1>5 DEF RouterInv

(* A new subscription is newer than every request that has been admitted, and has an id
   that its connection does not use. *)
LEMMA SubscribeKeeps ==
    ASSUME RouterInv, NEW r \in Requests, Subscribe(r)
    PROVE  RouterInv'
  <1> DEFINE c == requests[r].connection
             id == requests[r].id
             new == [connection |-> c, id |-> id, topic |-> requests[r].topic,
                     generation |-> generation]
             conflict == \E s \in Known(r) : s.topic # requests[r].topic
             registered == IF Known(r) = {} THEN subs \cup {new} ELSE subs
             owned == IF conflict THEN own ELSE [own EXCEPT ![c] = @ \cup {id}]
  <1>0. /\ RouterTypeOK /\ Generations /\ SentOnce /\ DeliveredOnce
        /\ Books(subs, own) /\ Asked /\ PerSession
        /\ subs \in SUBSET Subscription /\ own \in [Connections -> SUBSET Ids]
    BY DEF RouterInv, RouterTypeOK
  <1>1. /\ c \in Connections /\ id \in Ids /\ requests[r].topic \in Topics
        /\ connections[c] \notin {"new", "authorizing"}
    BY <1>0 DEF Subscribe, RouterTypeOK, Asked
  <1>2. /\ UNCHANGED <<stage, left, cap, present, dedup, sent>>
        /\ generation' = IF Known(r) = {} THEN generation + 1 ELSE generation
        /\ requests' = [requests EXCEPT ![r] = NoRequest]
        /\ Reply(c, registered, owned)
    BY DEF Subscribe, inbox
  <1>3. /\ new \in Subscription
        /\ new.connection = c /\ new.id = id /\ new.generation = generation
    BY <1>0, <1>1 DEF Subscription, RouterTypeOK
  <1>4. \A s \in subs : s \in Known(r) <=> s.connection = c /\ s.id = id
    BY DEF Known, SameKey
  <1>5. Known(r) \subseteq subs BY DEF Known, SameKey
  <1> HIDE DEF new, c, id
  <1>6. registered \in SUBSET Subscription /\ owned \in [Connections -> SUBSET Ids]
    BY <1>0, <1>1, <1>3
  <1>7. Books(registered, owned)
    <2>1. ASSUME NEW d \in Open
          PROVE  owned[d] = {s.id : s \in {t \in registered : t.connection = d}}
      <3>0. d \in Connections /\ own[d] = {s.id : s \in {t \in subs : t.connection = d}}
        BY <1>0 DEF Books, Open
      <3>1. CASE d # c
        <4>1. {t \in registered : t.connection = d} = {t \in subs : t.connection = d}
          BY <1>3, <3>1
        <4> QED BY <1>0, <3>0, <3>1, <4>1
      <3>2. CASE d = c /\ Known(r) = {}
        <4>1. {t \in registered : t.connection = d} = {t \in subs : t.connection = d} \cup {new}
          BY <1>3, <3>2
        <4>2. owned[d] = own[d] \cup {id} BY <1>0, <1>1, <3>2
        <4> QED BY <1>3, <3>0, <4>1, <4>2
      <3>3. CASE d = c /\ Known(r) # {}
        <4>1. PICK s \in subs : s.connection = c /\ s.id = id BY <1>4, <1>5, <3>3
        <4>2. id \in own[d] BY <3>0, <3>3, <4>1
        <4>3. owned[d] = own[d] BY <1>0, <1>1, <3>3, <4>2
        <4> QED BY <3>0, <3>3, <4>3
      <3> QED BY <3>1, <3>2, <3>3
    <2>2. ASSUME NEW s \in registered, NEW t \in registered
          PROVE  /\ s.connection = t.connection /\ s.id = t.id => s = t
                 /\ s.generation = t.generation => s = t
      <3>1. \A x \in subs : x.generation \in Nat /\ x.generation < generation
        BY <1>0 DEF Generations, Subscription
      <3>2. Known(r) = {} => \A x \in subs : ~(x.connection = c /\ x.id = id) BY <1>4
      <3>3. generation \in Nat BY <1>0 DEF RouterTypeOK
      <3>4. CASE s \in subs /\ t \in subs BY <1>0, <3>4 DEF Books
      <3>5. CASE s \notin subs \/ t \notin subs
        <4>1. Known(r) = {} /\ (s = new \/ t = new) BY <3>5
        <4>2. /\ s = new \/ s \in subs
              /\ t = new \/ t \in subs
          OBVIOUS
        <4> HIDE DEF registered, owned
        <4> QED BY <1>3, <3>1, <3>2, <3>3, <4>1, <4>2
      <3> QED BY <3>4, <3>5
    <2>3. ASSUME NEW d \in Connections, connections[d] \in {"new", "authorizing"}
          PROVE  owned[d] = {} /\ \A s \in registered : s.connection # d
      <3>1. d # c /\ own[d] = {} /\ \A s \in subs : s.connection # d BY <1>0, <1>1, <2>3 DEF Books
      <3> QED BY <1>0, <1>3, <3>1
    <2> QED BY <2>1, <2>2, <2>3 DEF Books
  <1>8. PICK C, queued : C \in SUBSET Open /\ Leave(C, registered, owned, queued)
    <2>1. CASE c \in Open /\ frames[c] < MaxFrames
      <3>1. Leave({}, registered, owned, [frames EXCEPT ![c] = @ + 1]) BY <1>2, <2>1 DEF Reply
      <3> QED BY <3>1
    <2>2. CASE ~(c \in Open /\ frames[c] < MaxFrames)
      <3>1. Leave({c} \cap Open, registered, owned, frames) BY <1>2, <2>2 DEF Reply
      <3> QED BY <3>1
    <2> QED BY <2>1, <2>2
  <1> HIDE DEF owned
  <1>9. /\ requests' \in [Requests -> [connection : Connections, id : Ids, topic : Topics]
                                      \cup {NoRequest}]
        /\ \A p \in Requests : requests'[p] = requests[p] \/ requests'[p] = NoRequest
    BY <1>0, <1>2 DEF RouterTypeOK
  <1>10. /\ connections' \in [Connections -> {"new", "authorizing", "open", "closed"}]
         /\ own' \in [Connections -> SUBSET Ids] /\ subs' \subseteq registered
         /\ Books(subs, own)' /\ Asked' /\ PerSession'
    <2> HIDE DEF registered
    <2> QED BY <1>0, <1>6, <1>7, <1>8, <1>9, LeaveKeeps
  <1>11. RouterTypeOK'
    BY <1>0, <1>2, <1>6, <1>9, <1>10 DEF RouterTypeOK
  <1>12. Generations'
    <2>1. generation \in Nat \ {0} /\ cap \in [Items -> Nat] BY <1>0 DEF RouterTypeOK
    <2>2. \A s \in subs' : s \in subs \/ (s.generation = generation /\ Known(r) = {})
      BY <1>3, <1>10
    <2>3. \A s \in subs : s.generation \in Nat BY <1>0 DEF Subscription
    <2> QED BY <1>0, <1>2, <2>1, <2>2, <2>3 DEF Generations
  <1>13. SentOnce' /\ DeliveredOnce' BY <1>0, <1>2 DEF SentOnce, DeliveredOnce
  <1> QED BY <1>10, <1>11, <1>12, <1>13 DEF RouterInv
----------------------------------------------------------------------------
(* A key that is fresh was reserved for nothing that has been sent, and a subscription that
   matches is one that was present. *)
LEMMA ResolveKeeps ==
    ASSUME RouterInv, NEW i \in Items, NEW e \in Events, Resolve(i, e)
    PROVE  RouterInv'
  <1>0. /\ RouterTypeOK /\ Generations /\ SentOnce /\ DeliveredOnce
        /\ Books(subs, own) /\ Asked /\ PerSession
        /\ subs \in SUBSET Subscription /\ own \in [Connections -> SUBSET Ids]
    BY DEF RouterInv, RouterTypeOK
  <1>1. /\ stage[i] = "resolving" /\ Proceed(i, e)
        /\ UNCHANGED <<cap, present, generation, requests>>
    BY DEF Resolve, Proceed
  <1>2. /\ stage' \in [Items -> Stages]
        /\ \A j \in Items : stage[j] # "outside" => stage'[j] # "outside"
        /\ left' \in [Items -> SUBSET Events]
    BY <1>0, <1>1, FinishedKeeps DEF Proceed, RouterTypeOK
  <1>3. CASE UNCHANGED <<dedup, transport, sent>>
    BY <1>1, <1>2, <1>3, InboxKeeps DEF InboxOnly, transport
  <1>4. CASE Fresh(e) /\ dedup' = dedup \cup {e} /\ UNCHANGED <<transport, sent>>
    <2>1. RouterTypeOK' BY <1>0, <1>1, <1>2, <1>4 DEF RouterTypeOK, transport
    <2>2. Generations' BY <1>0, <1>1, <1>4 DEF Generations, transport
    <2>3. SentOnce' /\ DeliveredOnce'
      <3>1. \A d \in sent : d.item \in Items BY <1>0 DEF RouterTypeOK, Sent
      <3> QED BY <1>0, <1>1, <1>2, <1>4, <3>1 DEF SentOnce, DeliveredOnce
    <2>4. Books(subs, own)' /\ Asked' /\ PerSession'
      BY <1>0, <1>1, <1>4 DEF Books, Asked, PerSession, Open, transport
    <2> QED BY <2>1, <2>2, <2>3, <2>4 DEF RouterInv
  <1>5. CASE Fresh(e) /\ dedup' = dedup \cup {e} /\ Dispatch(i, e)
    <2> DEFINE all == Matching(i, e)
               C == {c \in Open : frames[c] + Of(c, all) > MaxFrames}
               queued == [c \in Connections |-> frames[c] + Of(c, Reached(all))]
               more == {[generation |-> s.generation, event |-> e, item |-> i] : s \in Reached(all)}
    <2>1. C \in SUBSET Open /\ Leave(C, subs, own, queued) /\ sent' = sent \cup more
      BY <1>5 DEF Dispatch
    <2>2. /\ connections' \in [Connections -> {"new", "authorizing", "open", "closed"}]
          /\ own' \in [Connections -> SUBSET Ids] /\ subs' \subseteq subs
          /\ Books(subs, own)' /\ Asked' /\ PerSession'
      <3> HIDE DEF C, queued, more, all
      <3> QED BY <1>0, <1>1, <2>1, LeaveKeeps
    <2>3. \A d \in more : /\ d \in Sent /\ d.event = e /\ d.item = i
                          /\ d.generation \in present[i]
      <3>1. \A s \in Reached(all) : /\ s \in subs /\ s.generation \in Nat
                                    /\ s.generation \in present[i]
        BY <1>0 DEF Reached, Matching, Generations, Subscription
      <3> QED BY <3>1 DEF Sent
    <2>4. e \notin dedup /\ \A d \in sent : d.event # e
      BY <1>0, <1>5 DEF Fresh, SentOnce
    <2> HIDE DEF more, C, queued, all
    <2>5. RouterTypeOK' BY <1>0, <1>1, <1>2, <1>5, <2>1, <2>2, <2>3 DEF RouterTypeOK
    <2>6. Generations' BY <1>0, <1>1, <2>2, FewerSubscriptions
    <2>7. SentOnce'
      <3>1. \A d \in sent : d.item \in Items BY <1>0 DEF RouterTypeOK, Sent
      <3>2. stage'[i] # "outside" BY <1>1, <1>2
      <3> QED BY <1>0, <1>1, <1>2, <1>5, <2>1, <2>3, <3>1, <3>2 DEF SentOnce
    <2>8. DeliveredOnce' BY <1>0, <2>1, <2>3, <2>4 DEF DeliveredOnce
    <2> QED BY <2>2, <2>5, <2>6, <2>7, <2>8 DEF RouterInv
  <1> QED BY <1>3, <1>4, <1>5 DEF Resolve

(* The end of a dedup window, and of the process: what was sent in it is no longer compared. *)
LEMMA WindowSteps ==
    ASSUME RouterInv, Stop \/ \E e \in Events : Lapse(e)
    PROVE  RouterInv'
  <1>0. /\ RouterTypeOK /\ Generations /\ SentOnce /\ DeliveredOnce
        /\ Books(subs, own) /\ Asked /\ PerSession
    BY DEF RouterInv
  <1>1. /\ UNCHANGED <<left, cap, present, connections, own, subs, generation, requests>>
        /\ dedup' \subseteq dedup /\ sent' \subseteq sent
        /\ \A d \in sent' : d.event \in dedup => d.event \in dedup'
    BY DEF Stop, Lapse, inbox, transport
  <1>2. /\ stage' \in [Items -> Stages]
        /\ \A j \in Items : stage[j] # "outside" => stage'[j] # "outside"
    BY <1>0, StageNames DEF Stop, Lapse, inbox, RouterTypeOK
  <1>3. RouterTypeOK' BY <1>0, <1>1, <1>2 DEF RouterTypeOK
  <1>4. Generations' BY <1>0, <1>1 DEF Generations
  <1>5. SentOnce' /\ DeliveredOnce'
    <2>1. \A d \in sent : d.item \in Items BY <1>0 DEF RouterTypeOK, Sent
    <2> QED BY <1>0, <1>1, <1>2, <2>1 DEF SentOnce, DeliveredOnce
  <1>6. Books(subs, own)' /\ Asked' /\ PerSession'
    BY <1>0, <1>1 DEF Books, Asked, PerSession, Open
  <1> QED BY <1>3, <1>4, <1>5, <1>6 DEF RouterInv
----------------------------------------------------------------------------
LEMMA InitRouter == EventsInit => RouterInv
  <1> SUFFICES ASSUME EventsInit PROVE RouterInv OBVIOUS
  <1>1. RouterTypeOK BY StageNames DEF EventsInit, RouterTypeOK
  <1>2. Generations /\ SentOnce /\ DeliveredOnce
    BY DEF EventsInit, Generations, SentOnce, DeliveredOnce
  <1>3. Open = {} BY DEF EventsInit, Open
  <1>4. Books(subs, own) /\ PerSession BY <1>3 DEF EventsInit, Books, PerSession
  <1>5. Asked BY ConnectionsAssumption DEF EventsInit, Asked, NoRequest
  <1> QED BY <1>1, <1>2, <1>4, <1>5 DEF RouterInv

LEMMA StepRouter == RouterInv /\ [EventsNext]_vars => RouterInv'
  <1> SUFFICES ASSUME RouterInv, [EventsNext]_vars PROVE RouterInv' OBVIOUS
  <1>1. CASE UNCHANGED vars
    <2>1. InboxOnly BY <1>1 DEF vars, inbox, transport, InboxOnly, RouterInv, RouterTypeOK
    <2> QED BY <2>1, InboxKeeps
  <1>2. CASE EventsNext
    <2>1. CASE \/ Drain \/ Sweep
               \/ \E i \in Items : \/ Expire(i) \/ Parse(i) \/ Discard(i)
                                   \/ \E e \in Events : Unresolved(i, e)
               \/ \E c \in Connections : Flush(c)
      BY <2>1, InboxSteps
    <2>2. CASE \/ Close
               \/ \E c \in Connections :
                     Disconnect(c) \/ Refuse(c) \/ \E id \in Ids : Unsubscribe(c, id)
               \/ \E r \in Requests : Forbid(r)
      BY <2>2, TransportSteps
    <2>3. CASE Stop \/ \E e \in Events : Lapse(e) BY <2>3, WindowSteps
    <2>4. CASE \E i \in Items : Admit(i) BY <2>4, AdmitKeeps
    <2>5. CASE \E i \in Items, e \in Events : Resolve(i, e) BY <2>5, ResolveKeeps
    <2>6. CASE \E c \in Connections : Upgrade(c) \/ Register(c) \/ Reject(c)
      BY <2>6, UpgradeSteps
    <2>7. CASE \E r \in Requests, c \in Connections, id \in Ids, topic \in Topics :
                  BeginSubscribe(r, c, id, topic)
      BY <2>7, BeginSubscribeKeeps
    <2>8. CASE \E r \in Requests : Subscribe(r) BY <2>8, SubscribeKeeps
    <2> QED BY <1>2, <2>1, <2>2, <2>3, <2>4, <2>5, <2>6, <2>7, <2>8 DEF EventsNext
  <1> QED BY <1>1, <1>2

(* The inductive invariant of router, dedup table and connections. *)
THEOREM RouterInvariant == EventsSpec => []RouterInv
  BY InitRouter, StepRouter, PTL DEF EventsSpec

(* Within a dedup window no subscription is sent an event twice. *)
THEOREM AlwaysDeliveredOnce == EventsSpec => []DeliveredOnce
  <1>1. RouterInv => DeliveredOnce BY DEF RouterInv
  <1> QED BY <1>1, RouterInvariant, PTL

(* No event reaches a subscription made after its request was admitted. *)
THEOREM NeverBacklog == EventsSpec => []NoBacklog
  <1>1. RouterInv => NoBacklog BY DEF RouterInv, SentOnce, NoBacklog
  <1> QED BY <1>1, RouterInvariant, PTL

(* The router and the open connections know of the same subscriptions, and no session has
   more connections than it may. *)
THEOREM ConnectionsAlwaysAgree == EventsSpec => []ConnectionsAgree
  <1>1. RouterInv => ConnectionsAgree BY DEF RouterInv, Books, PerSession, ConnectionsAgree
  <1> QED BY <1>1, RouterInvariant, PTL
----------------------------------------------------------------------------
(* The bytes of a set of requests: what the fold over its elements takes first, and what
   it makes of every part of the set. *)
Pick(s) == CHOOSE x \in s : TRUE
Rest(s) == s \ {Pick(s)}
Sums(g, S) == g = [s \in SUBSET S |-> IF s = {} THEN 0 ELSE Size[Pick(s)] + g[Rest(s)]]
SumOver(S) == CHOOSE g : Sums(g, S)

LEMMA SizeOfIs == ASSUME NEW S PROVE SizeOf(S) = SumOver(S)[S]
  BY DEF SizeOf, MapThenSumSet, MapThenFoldSet, SumOver, Sums, Pick, Rest

LEMMA SumsIs ==
    ASSUME NEW S, NEW g, Sums(g, S), NEW s \in SUBSET S
    PROVE  g[s] = IF s = {} THEN 0 ELSE Size[Pick(s)] + g[Rest(s)]
  <1> DEFINE F == [t \in SUBSET S |-> IF t = {} THEN 0 ELSE Size[Pick(t)] + g[Rest(t)]]
  <1>1. g = F BY DEF Sums
  <1>2. F[s] = IF s = {} THEN 0 ELSE Size[Pick(s)] + g[Rest(s)] OBVIOUS
  <1> HIDE DEF F
  <1> QED BY <1>1, <1>2

LEMMA RestIs ==
    ASSUME NEW s, s # {}
    PROVE  /\ Pick(s) \in s /\ Rest(s) \subseteq s /\ Rest(s) # s
           /\ Pick(s) \notin Rest(s) /\ s = Rest(s) \cup {Pick(s)}
  BY DEF Pick, Rest

(* Of the sets with a property, all within a finite set, one has no smaller one below. *)
LEMMA SmallestSet ==
    ASSUME NEW I, IsFiniteSet(I), NEW B \in SUBSET (SUBSET I), B # {}
    PROVE  \E m \in B : \A u \in B : u \subseteq m => u = m
  <1>1. IsWellFoundedOn(StrictSubsetOrdering(I), FiniteSubsetsOf(I))
    BY FS_StrictSubsetOrderingWellFounded
  <1>2. B \subseteq FiniteSubsetsOf(I) BY FS_Subset DEF FiniteSubsetsOf
  <1>3. PICK m \in B : \A u \in B : ~(<<u, m>> \in StrictSubsetOrdering(I))
    BY <1>1, <1>2, WFMin
  <1>4. ASSUME NEW u \in B, u \subseteq m, u # m PROVE FALSE
    <2>1. u \in SUBSET I /\ m \in SUBSET I OBVIOUS
    <2>2. <<u, m>> \in StrictSubsetOrdering(I) BY <1>4, <2>1 DEF StrictSubsetOrdering
    <2> QED BY <1>3, <2>2
  <1> QED BY <1>4

(* Two folds agree on what both are over. *)
LEMMA SumsAgree ==
    ASSUME NEW S, IsFiniteSet(S), NEW T \in SUBSET S,
           NEW g, NEW h, Sums(g, S), Sums(h, T), NEW s \in SUBSET T
    PROVE  g[s] = h[s]
  <1> DEFINE B == {t \in SUBSET T : g[t] # h[t]}
  <1> SUFFICES ASSUME B # {} PROVE FALSE OBVIOUS
  <1>1. IsFiniteSet(T) BY FS_Subset
  <1>0. B \in SUBSET (SUBSET T) OBVIOUS
  <1>2. PICK m \in B : \A u \in B : u \subseteq m => u = m
    <2> HIDE DEF B
    <2> QED BY <1>0, <1>1, SmallestSet
  <1>3. m \in SUBSET T /\ m \in SUBSET S /\ g[m] # h[m] OBVIOUS
  <1>4. /\ g[m] = IF m = {} THEN 0 ELSE Size[Pick(m)] + g[Rest(m)]
        /\ h[m] = IF m = {} THEN 0 ELSE Size[Pick(m)] + h[Rest(m)]
    BY <1>3, SumsIs
  <1>5. m # {} BY <1>3, <1>4
  <1>6. Rest(m) \in SUBSET T /\ Rest(m) \subseteq m /\ Rest(m) # m BY <1>3, <1>5, RestIs
  <1>7. g[Rest(m)] = h[Rest(m)] BY <1>2, <1>6
  <1> QED BY <1>3, <1>4, <1>5, <1>7

(* The fold over a finite set is defined. *)
LEMMA SumsExist == ASSUME NEW S, IsFiniteSet(S) PROVE Sums(SumOver(S), S)
  <1> DEFINE B == {s \in SUBSET S : ~ \E g : Sums(g, s)}
  <1>1. ASSUME B # {} PROVE FALSE
    <2>0. B \in SUBSET (SUBSET S) OBVIOUS
    <2>1. PICK m \in B : \A u \in B : u \subseteq m => u = m
      <3> HIDE DEF B
      <3> QED BY <1>1, <2>0, SmallestSet
    <2>2. m \in SUBSET S /\ ~ \E g : Sums(g, m) OBVIOUS
    <2>3. ASSUME NEW s \in SUBSET m, s # m PROVE Sums(SumOver(s), s) /\ IsFiniteSet(s)
      <3>1. s \in SUBSET S /\ s \notin B BY <2>1, <2>2, <2>3
      <3>2. \E g : Sums(g, s) BY <3>1
      <3> QED BY <3>1, <3>2, FS_Subset DEF SumOver
    <2> DEFINE f == [s \in SUBSET m |->
                        IF s = {} THEN 0 ELSE Size[Pick(s)] + SumOver(Rest(s))[Rest(s)]]
    <2>4. ASSUME NEW s \in SUBSET m, s # m PROVE f[s] = SumOver(s)[s]
      <3>1. Sums(SumOver(s), s) /\ IsFiniteSet(s) /\ s \in SUBSET s BY <2>3, <2>4
      <3>2. SumOver(s)[s] = IF s = {} THEN 0 ELSE Size[Pick(s)] + SumOver(s)[Rest(s)]
        BY <3>1, SumsIs
      <3>3. CASE s = {} BY <3>2, <3>3
      <3>4. CASE s # {}
        <4>1. Rest(s) \in SUBSET s /\ Rest(s) \in SUBSET m /\ Rest(s) # m BY <3>4, <2>4, RestIs
        <4>2. Sums(SumOver(Rest(s)), Rest(s)) BY <2>3, <4>1
        <4>3. SumOver(s)[Rest(s)] = SumOver(Rest(s))[Rest(s)] BY <3>1, <4>1, <4>2, SumsAgree
        <4> QED BY <3>2, <3>4, <4>3
      <3> QED BY <3>3, <3>4
    <2>5. ASSUME NEW s \in SUBSET m
          PROVE  f[s] = IF s = {} THEN 0 ELSE Size[Pick(s)] + f[Rest(s)]
      <3>1. CASE s = {} BY <3>1
      <3>2. CASE s # {}
        <4>1. Rest(s) \in SUBSET m /\ Rest(s) # m
          <5>1. Rest(s) \subseteq s /\ Rest(s) # s /\ s \subseteq m BY <3>2, RestIs
          <5> QED BY <5>1
        <4>2. f[Rest(s)] = SumOver(Rest(s))[Rest(s)] BY <2>4, <4>1
        <4> QED BY <3>2, <4>2
      <3> QED BY <3>1, <3>2
    <2>6. f = [s \in SUBSET m |-> f[s]] OBVIOUS
    <2> HIDE DEF f
    <2>7. f = [s \in SUBSET m |-> IF s = {} THEN 0 ELSE Size[Pick(s)] + f[Rest(s)]]
      BY <2>5, <2>6
    <2>8. Sums(f, m) BY <2>7 DEF Sums
    <2> QED BY <2>2, <2>8
  <1>2. S \notin B BY <1>1
  <1>3. \E g : Sums(g, S) BY <1>2
  <1> QED BY <1>3 DEF SumOver

LEMMA SizeOfStep ==
    /\ SizeOf({}) = 0
    /\ \A S : IsFiniteSet(S) /\ S # {} => SizeOf(S) = Size[Pick(S)] + SizeOf(Rest(S))
  <1>1. SizeOf({}) = 0
    <2>1. Sums(SumOver({}), {}) BY SumsExist, FS_EmptySet
    <2>2. {} \in SUBSET {} OBVIOUS
    <2>3. SumOver({})[{}] = 0 BY <2>1, <2>2, SumsIs
    <2> QED BY <2>3, SizeOfIs
  <1>2. ASSUME NEW S, IsFiniteSet(S), S # {} PROVE SizeOf(S) = Size[Pick(S)] + SizeOf(Rest(S))
    <2>1. Rest(S) \in SUBSET S /\ S \in SUBSET S BY <1>2, RestIs
    <2>2. IsFiniteSet(Rest(S)) BY <1>2, <2>1, FS_Subset
    <2>3. Sums(SumOver(S), S) /\ Sums(SumOver(Rest(S)), Rest(S)) BY <1>2, <2>2, SumsExist
    <2>4. SumOver(S)[S] = Size[Pick(S)] + SumOver(S)[Rest(S)] BY <1>2, <2>1, <2>3, SumsIs
    <2>5. SumOver(S)[Rest(S)] = SumOver(Rest(S))[Rest(S)] BY <1>2, <2>1, <2>3, SumsAgree
    <2> QED BY <2>4, <2>5, SizeOfIs
  <1> QED BY <1>1, <1>2

LEMMA SizeOfNat == ASSUME NEW I \in SUBSET Items, IsFiniteSet(I) PROVE SizeOf(I) \in Nat
  <1> DEFINE B == {s \in SUBSET I : SizeOf(s) \notin Nat}
  <1> SUFFICES ASSUME B # {} PROVE FALSE OBVIOUS
  <1>0. B \in SUBSET (SUBSET I) OBVIOUS
  <1>1. PICK m \in B : \A u \in B : u \subseteq m => u = m
    <2> HIDE DEF B
    <2> QED BY <1>0, SmallestSet
  <1>2. m \in SUBSET I /\ IsFiniteSet(m) /\ SizeOf(m) \notin Nat BY FS_Subset
  <1>3. m # {}
    <2>1. SizeOf({}) = 0 BY SizeOfStep
    <2> QED BY <1>2, <2>1
  <1>4. Rest(m) \in SUBSET I /\ Rest(m) \subseteq m /\ Rest(m) # m /\ Pick(m) \in Items
    BY <1>2, <1>3, RestIs
  <1>5. SizeOf(Rest(m)) \in Nat BY <1>1, <1>4
  <1>6. Size[Pick(m)] \in Nat BY <1>4, SizeAssumption
  <1>7. SizeOf(m) = Size[Pick(m)] + SizeOf(Rest(m)) BY <1>2, <1>3, SizeOfStep
  <1> QED BY <1>2, <1>5, <1>6, <1>7

(* One more request has its bytes more, whichever the fold takes first. *)
LEMMA SizeOfAdd ==
    ASSUME NEW I \in SUBSET Items, IsFiniteSet(I), NEW j \in Items, j \notin I
    PROVE  SizeOf(I \cup {j}) = SizeOf(I) + Size[j]
  <1> DEFINE A == I \cup {j}
             B == {s \in SUBSET A : \E i \in A \ s : SizeOf(s \cup {i}) # SizeOf(s) + Size[i]}
  <1> SUFFICES ASSUME B # {} PROVE FALSE OBVIOUS
  <1>0. B \in SUBSET (SUBSET A) OBVIOUS
  <1>1. IsFiniteSet(A) /\ A \in SUBSET Items BY FS_AddElement
  <1>2. PICK m \in B : \A u \in B : u \subseteq m => u = m
    <2> HIDE DEF B
    <2> QED BY <1>0, <1>1, SmallestSet
  <1>3. PICK i \in A \ m : SizeOf(m \cup {i}) # SizeOf(m) + Size[i] OBVIOUS
  <1>4. m \in SUBSET A /\ IsFiniteSet(m) BY <1>1, FS_Subset
  <1> DEFINE M == m \cup {i}
             p == Pick(M)
             w == m \ {p}
  <1> HIDE DEF A, B
  <1>5. IsFiniteSet(M) /\ M # {} BY <1>4, FS_AddElement
  <1>6. SizeOf(M) = Size[p] + SizeOf(Rest(M)) /\ p \in M /\ Rest(M) = M \ {p}
    BY <1>5, SizeOfStep, RestIs DEF Rest
  <1> HIDE DEF M, p
  <1>7. i \in Items /\ p \in Items BY <1>1, <1>3, <1>4, <1>6 DEF M
  <1>8. Size[i] \in Nat /\ Size[p] \in Nat BY <1>7, SizeAssumption
  <1>9. m \in SUBSET Items /\ w \in SUBSET Items /\ IsFiniteSet(w) BY <1>1, <1>4, FS_Subset
  <1>10. SizeOf(m) \in Nat /\ SizeOf(w) \in Nat BY <1>4, <1>9, SizeOfNat
  <1>11. CASE p = i
    <2>1. Rest(M) = m BY <1>3, <1>6, <1>11 DEF M
    <2> QED BY <1>3, <1>6, <1>8, <1>10, <1>11, <2>1 DEF M
  <1>12. CASE p # i
    <2>1. p \in m /\ Rest(M) = w \cup {i} BY <1>6, <1>12 DEF M
    <2>2. w \subseteq m /\ w # m /\ w \in SUBSET A /\ i \in A \ w /\ p \in A \ w /\ m = w \cup {p}
      BY <1>3, <1>4, <2>1
    <2>3. w \notin B BY <1>2, <2>2
    <2>4. \A x \in A \ w : SizeOf(w \cup {x}) = SizeOf(w) + Size[x] BY <2>2, <2>3 DEF B
    <2>5. SizeOf(w \cup {i}) = SizeOf(w) + Size[i] BY <2>2, <2>4
    <2>6. SizeOf(m) = SizeOf(w) + Size[p] BY <2>2, <2>4
    <2>7. SizeOf(M) = Size[p] + SizeOf(w \cup {i}) BY <1>6, <2>1
    <2> QED BY <1>3, <1>8, <1>10, <2>5, <2>6, <2>7 DEF M
  <1> QED BY <1>11, <1>12

(* What is taken out and what remains are the whole. *)
LEMMA SizeOfSplit ==
    ASSUME NEW I \in SUBSET Items, IsFiniteSet(I), NEW T \in SUBSET I
    PROVE  SizeOf(I) = SizeOf(I \ T) + SizeOf(T)
  <1> DEFINE B == {s \in SUBSET I : SizeOf(I) # SizeOf(I \ s) + SizeOf(s)}
  <1> SUFFICES ASSUME B # {} PROVE FALSE OBVIOUS
  <1>0. B \in SUBSET (SUBSET I) OBVIOUS
  <1>1. PICK m \in B : \A u \in B : u \subseteq m => u = m
    <2> HIDE DEF B
    <2> QED BY <1>0, SmallestSet
  <1>2. m \in SUBSET I /\ SizeOf(I) # SizeOf(I \ m) + SizeOf(m) OBVIOUS
  <1>3. SizeOf(I) \in Nat /\ SizeOf({}) = 0 BY SizeOfNat, SizeOfStep
  <1>4. CASE m = {}
    <2>1. I \ m = I BY <1>4
    <2> QED BY <1>2, <1>3, <1>4, <2>1
  <1>5. CASE m # {}
    <2>1. PICK x \in m : TRUE BY <1>5
    <2> DEFINE u == m \ {x}
    <2>2. u \subseteq m /\ u # m /\ u \in SUBSET I BY <1>2
    <2>3. SizeOf(I) = SizeOf(I \ u) + SizeOf(u) BY <1>1, <2>2
    <2>4. m = u \cup {x} /\ I \ u = (I \ m) \cup {x} /\ x \in Items /\ x \notin u /\ x \notin I \ m
      BY <1>2
    <2>5. /\ u \in SUBSET Items /\ I \ m \in SUBSET Items
          /\ IsFiniteSet(u) /\ IsFiniteSet(I \ m)
      BY <1>2, <2>2, FS_Subset, FS_Difference
    <2> HIDE DEF u
    <2>6. SizeOf(m) = SizeOf(u) + Size[x] /\ SizeOf(I \ u) = SizeOf(I \ m) + Size[x]
      BY <2>4, <2>5, SizeOfAdd
    <2>7. SizeOf(u) \in Nat /\ SizeOf(I \ m) \in Nat /\ Size[x] \in Nat
      BY <2>4, <2>5, SizeOfNat, SizeAssumption
    <2> QED BY <1>2, <2>3, <2>6, <2>7
  <1> QED BY <1>4, <1>5
----------------------------------------------------------------------------
(* A set of numbers has a least one. *)
LEMMA LeastNumber ==
    ASSUME NEW B \in SUBSET Nat, B # {}
    PROVE  \E m \in B : \A n \in B : m <= n
  <1>1. PICK b \in B : TRUE OBVIOUS
  <1>2. b \in Nat OBVIOUS
  <1> DEFINE U == {0..n : n \in {k \in B : k <= b}}
  <1>3. IsFiniteSet(0..b) BY <1>2, FS_Interval
  <1>4. U \in SUBSET (SUBSET (0..b)) BY <1>2
  <1>5. U # {} BY <1>1, <1>2
  <1>6. \E u \in U : \A v \in U : v \subseteq u => v = u
    <2>1. PICK J : J = 0..b OBVIOUS
    <2>2. IsFiniteSet(J) /\ U \in SUBSET (SUBSET J) BY <1>3, <1>4, <2>1
    <2> HIDE DEF U
    <2> QED BY <1>5, <2>2, SmallestSet
  <1>7. PICK m \in {k \in B : k <= b} : \A v \in U : v \subseteq 0..m => v = 0..m BY <1>6
  <1>8. ASSUME NEW n \in B, ~(m <= n) PROVE FALSE
    <2>1. n \in Nat /\ m \in Nat /\ m <= b OBVIOUS
    <2>2. n < m /\ n <= b BY <1>2, <1>8, <2>1
    <2>3. 0..n \in U BY <2>2
    <2>4. 0..n \subseteq 0..m /\ m \in 0..m /\ m \notin 0..n BY <2>1, <2>2
    <2> QED BY <1>7, <2>3, <2>4
  <1> QED BY <1>8

(* What has been kept of the first requests of the queue. *)
KeptNext(g, I, n) ==
    IF n = 0 THEN <<>> ELSE IF queue[n] \in I THEN g[n - 1] ELSE Append(g[n - 1], queue[n])
Kept(g, I, N) == g = [n \in 0..N |-> KeptNext(g, I, n)]

LEMMA WithoutDef == ASSUME NEW I PROVE Without(I) = (CHOOSE g : Kept(g, I, Len(queue)))[Len(queue)]
  BY DEF Without, Kept, KeptNext

LEMMA KeptIs ==
    ASSUME NEW I, NEW N \in Nat, NEW g, Kept(g, I, N), NEW n \in 0..N
    PROVE  g[n] = KeptNext(g, I, n)
  <1> DEFINE F == [k \in 0..N |-> KeptNext(g, I, k)]
  <1>1. g = F BY DEF Kept
  <1>2. F[n] = KeptNext(g, I, n) OBVIOUS
  <1> HIDE DEF F
  <1> QED BY <1>1, <1>2

LEMMA KeptExists == ASSUME NEW I, NEW N \in Nat PROVE \E g : Kept(g, I, N)
  <1> DEFINE B == {n \in Nat : ~ \E g : Kept(g, I, n)}
  <1>1. ASSUME B # {} PROVE FALSE
    <2>1. PICK m \in B : \A n \in B : m <= n
      <3>1. B \in SUBSET Nat OBVIOUS
      <3> HIDE DEF B
      <3> QED BY <1>1, <3>1, LeastNumber
    <2>2. m \in Nat /\ ~ \E g : Kept(g, I, m) OBVIOUS
    <2>3. CASE m = 0
      <3> DEFINE g == [n \in 0..0 |-> <<>>]
      <3>1. \A n \in 0..0 : n = 0 OBVIOUS
      <3>2. \A n \in 0..0 : <<>> = KeptNext(g, I, n)
        <4> HIDE DEF g
        <4> QED BY <3>1 DEF KeptNext
      <3>3. g = [n \in 0..0 |-> KeptNext(g, I, n)] BY <3>2
      <3> HIDE DEF g
      <3> QED BY <2>2, <2>3, <3>3 DEF Kept
    <2>4. CASE m # 0
      <3>1. m - 1 \in Nat /\ m - 1 \notin B
        <4>1. m - 1 \in Nat /\ ~(m <= m - 1) BY <2>2, <2>4
        <4> HIDE DEF B
        <4> QED BY <2>1, <4>1
      <3>2. PICK h : Kept(h, I, m - 1) BY <3>1
      <3> DEFINE g == [n \in 0..m |-> KeptNext(h, I, n)]
      <3>3. ASSUME NEW n \in 0..(m - 1) PROVE g[n] = h[n]
        <4>1. h[n] = KeptNext(h, I, n) BY <3>1, <3>2, KeptIs
        <4>2. n \in 0..m BY <2>2
        <4> QED BY <4>1, <4>2
      <3>4. ASSUME NEW n \in 0..m PROVE KeptNext(g, I, n) = KeptNext(h, I, n)
        <4>1. CASE n = 0 BY <4>1 DEF KeptNext
        <4>2. CASE n # 0
          <5>1. n - 1 \in 0..(m - 1) BY <2>2, <4>2
          <5>2. g[n - 1] = h[n - 1] BY <3>3, <5>1
          <5> HIDE DEF g
          <5> QED BY <4>2, <5>2 DEF KeptNext
        <4> QED BY <4>1, <4>2
      <3>5. g = [n \in 0..m |-> KeptNext(g, I, n)]
        <4>1. [n \in 0..m |-> KeptNext(h, I, n)] = [n \in 0..m |-> KeptNext(g, I, n)]
          <5> HIDE DEF g
          <5> QED BY <3>4
        <4> QED BY <4>1
      <3> HIDE DEF g
      <3> QED BY <2>2, <3>5 DEF Kept
    <2> QED BY <2>3, <2>4
  <1> QED BY <1>1

(* Each request waits once in a queue that is in order. *)
Once(q) == \A m, n \in DOMAIN q : q[m] = q[n] => m = n
Waits(q) == {q[n] : n \in DOMAIN q}

(* A request that joins the end. *)
LEMMA AppendOnce ==
    ASSUME NEW q \in Seq(Items), Once(q), NEW i \in Items, i \notin Waits(q)
    PROVE  /\ Append(q, i) \in Seq(Items) /\ Once(Append(q, i))
           /\ Waits(Append(q, i)) = Waits(q) \cup {i}
  <1> DEFINE a == Append(q, i)
             N == Len(q)
  <1>1. /\ N \in Nat /\ DOMAIN q = 1..N
        /\ a \in Seq(Items) /\ Len(a) = N + 1 /\ DOMAIN a = 1..(N + 1)
        /\ \A n \in 1..N : a[n] = q[n]
        /\ a[N + 1] = i
    BY AppendProperties, LenProperties
  <1> HIDE DEF a, N
  <1>2. \A n \in 1..(N + 1) : n \in 1..N \/ n = N + 1 BY <1>1
  <1>3. \A n \in 1..N : n \in 1..(N + 1) /\ n # N + 1 BY <1>1
  <1>4. N + 1 \in 1..(N + 1) BY <1>1
  <1>5. Once(a)
    <2> SUFFICES ASSUME NEW m \in 1..(N + 1), NEW n \in 1..(N + 1), a[m] = a[n] PROVE m = n
      BY <1>1 DEF Once
    <2>1. CASE m \in 1..N /\ n \in 1..N BY <1>1, <2>1 DEF Once
    <2>2. CASE m \in 1..N /\ n = N + 1 BY <1>1, <2>2 DEF Waits
    <2>3. CASE n \in 1..N /\ m = N + 1 BY <1>1, <2>3 DEF Waits
    <2> QED BY <1>2, <2>1, <2>2, <2>3
  <1>6. Waits(a) = Waits(q) \cup {i}
    <2>1. Waits(a) \subseteq Waits(q) \cup {i} BY <1>1, <1>2 DEF Waits
    <2>2. Waits(q) \subseteq Waits(a) BY <1>1, <1>3 DEF Waits
    <2>3. i \in Waits(a) BY <1>1, <1>4 DEF Waits
    <2> QED BY <2>1, <2>2, <2>3
  <1> QED BY <1>1, <1>5, <1>6 DEF a

(* The first leaves. *)
LEMMA TailOnce ==
    ASSUME NEW q \in Seq(Items), Once(q), q # <<>>
    PROVE  /\ Head(q) \in Waits(q) /\ Tail(q) \in Seq(Items) /\ Once(Tail(q))
           /\ Waits(Tail(q)) = Waits(q) \ {Head(q)}
  <1> DEFINE t == Tail(q)
             N == Len(q)
  <1>1. /\ N \in Nat /\ N # 0 /\ DOMAIN q = 1..N
        /\ t \in Seq(Items) /\ DOMAIN t = 1..(N - 1)
        /\ \A n \in 1..(N - 1) : t[n] = q[n + 1]
        /\ Head(q) = q[1]
    BY HeadTailProperties, LenProperties, EmptySeq
  <1> HIDE DEF t, N
  <1>2. \A n \in 1..(N - 1) : n + 1 \in 1..N /\ n + 1 # 1 BY <1>1
  <1>3. \A n \in 1..N : n = 1 \/ (n - 1 \in 1..(N - 1) /\ (n - 1) + 1 = n) BY <1>1
  <1>4. 1 \in 1..N BY <1>1
  <1>5. Once(t)
    <2> SUFFICES ASSUME NEW m \in 1..(N - 1), NEW n \in 1..(N - 1), t[m] = t[n] PROVE m = n
      BY <1>1 DEF Once
    <2>1. q[m + 1] = q[n + 1] BY <1>1
    <2>2. m + 1 = n + 1 BY <1>1, <1>2, <2>1 DEF Once
    <2> QED BY <1>1, <2>2
  <1>6. Waits(t) = Waits(q) \ {Head(q)}
    <2>1. ASSUME NEW n \in 1..(N - 1) PROVE t[n] \in Waits(q) /\ t[n] # Head(q)
      <3>1. t[n] = q[n + 1] /\ n + 1 \in 1..N /\ n + 1 # 1 BY <1>1, <1>2
      <3> QED BY <1>1, <1>4, <3>1 DEF Once, Waits
    <2>2. ASSUME NEW n \in 1..N, q[n] # Head(q) PROVE q[n] \in Waits(t)
      <3>1. n - 1 \in 1..(N - 1) /\ (n - 1) + 1 = n BY <1>1, <1>3, <2>2
      <3>2. t[n - 1] = q[n] BY <1>1, <3>1
      <3> QED BY <1>1, <3>1, <3>2 DEF Waits
    <2>3. Waits(t) \subseteq Waits(q) \ {Head(q)} BY <1>1, <2>1 DEF Waits
    <2>4. Waits(q) \ {Head(q)} \subseteq Waits(t) BY <1>1, <2>2 DEF Waits
    <2> QED BY <2>3, <2>4
  <1>7. Head(q) \in Waits(q) BY <1>1, <1>4 DEF Waits
  <1> QED BY <1>1, <1>5, <1>6, <1>7 DEF t

(* A queue in which each waits once is as long as those that wait are many. *)
LEMMA OnceCounts ==
    ASSUME NEW q \in Seq(Items), Once(q)
    PROVE  IsFiniteSet(Waits(q)) /\ Len(q) = Cardinality(Waits(q))
  <1>1. Len(q) \in Nat /\ DOMAIN q = 1..Len(q) /\ q \in [1..Len(q) -> Items] BY LenProperties
  <1>2. q \in [1..Len(q) -> Waits(q)]
    <2>1. \A n \in 1..Len(q) : q[n] \in Waits(q) BY <1>1 DEF Waits
    <2> QED BY <1>1, <2>1
  <1>3. q \in Bijection(1..Len(q), Waits(q))
    BY <1>1, <1>2 DEF Bijection, Injection, Surjection, IsInjective, Once, Waits
  <1>4. ExistsBijection(1..Len(q), Waits(q)) BY <1>3 DEF ExistsBijection
  <1>5. IsFiniteSet(1..Len(q)) /\ Cardinality(1..Len(q)) = Len(q) BY <1>1, FS_Interval
  <1> QED BY <1>4, <1>5, FS_Bijection

(* What the sweep leaves of the queue. *)
LEMMA WithoutIs ==
    ASSUME NEW I, queue \in Seq(Items), Once(queue)
    PROVE  /\ Without(I) \in Seq(Items) /\ Once(Without(I))
           /\ Waits(Without(I)) = Waits(queue) \ I
  <1> DEFINE N == Len(queue)
             First(n) == {queue[k] : k \in 1..n}
             Good(s, n) == s \in Seq(Items) /\ Once(s) /\ Waits(s) = First(n) \ I
  <1>1. N \in Nat /\ DOMAIN queue = 1..N /\ \A n \in 1..N : queue[n] \in Items
    BY LenProperties, ElementOfSeq
  <1>2. PICK g : g = (CHOOSE f : Kept(f, I, N)) OBVIOUS
  <1>3. Kept(g, I, N)
    <2>1. \E f : Kept(f, I, N) BY <1>1, KeptExists
    <2> QED BY <1>2, <2>1
  <1>4. Without(I) = g[N] BY <1>2, WithoutDef
  <1> DEFINE B == {n \in 0..N : ~Good(g[n], n)}
  <1> HIDE DEF N
  <1>5. ASSUME B # {} PROVE FALSE
    <2>1. PICK m \in B : \A n \in B : m <= n
      <3>1. B \in SUBSET Nat BY <1>1
      <3> HIDE DEF B
      <3> QED BY <1>5, <3>1, LeastNumber
    <2>2. m \in 0..N /\ ~Good(g[m], m) OBVIOUS
    <2>3. g[m] = IF m = 0 THEN <<>>
                 ELSE IF queue[m] \in I THEN g[m - 1] ELSE Append(g[m - 1], queue[m])
      <3>1. g[m] = KeptNext(g, I, m) BY <1>1, <1>3, <2>2, KeptIs
      <3> QED BY <3>1 DEF KeptNext
    <2>4. CASE m = 0
      <3>1. g[m] = <<>> /\ 1..m = {} BY <2>3, <2>4
      <3>2. First(m) = {} BY <3>1
      <3>3. <<>> \in Seq(Items) /\ DOMAIN <<>> = {} BY EmptySeq
      <3>4. Once(<<>>) /\ Waits(<<>>) = {} BY <3>3 DEF Once, Waits
      <3> QED BY <2>2, <3>1, <3>2, <3>3, <3>4
    <2>5. CASE m # 0
      <3>1. m - 1 \in 0..N /\ m \in 1..N /\ m - 1 \in Nat /\ m - 1 < m BY <1>1, <2>2, <2>5
      <3>2. m - 1 \notin B
        <4>1. ASSUME m - 1 \in B PROVE FALSE
          <5>1. m <= m - 1
            <6> HIDE DEF B
            <6> QED BY <2>1, <4>1
          <5> QED BY <1>1, <2>2, <5>1
        <4> QED BY <4>1
      <3>3. Good(g[m - 1], m - 1) BY <3>1, <3>2
      <3>4. First(m) = First(m - 1) \cup {queue[m]}
        <4>1. \A k \in 1..m : k \in 1..(m - 1) \/ k = m BY <3>1
        <4>2. \A k \in 1..(m - 1) : k \in 1..m BY <3>1
        <4>3. m \in 1..m BY <3>1
        <4> QED BY <4>1, <4>2, <4>3
      <3>5. queue[m] \in Items /\ queue[m] \notin First(m - 1)
        <4>1. \A k \in 1..(m - 1) : k \in 1..N /\ k # m BY <1>1, <3>1
        <4> QED BY <1>1, <3>1, <4>1 DEF Once
      <3> HIDE DEF First
      <3>6. CASE queue[m] \in I
        <4>1. g[m] = g[m - 1] BY <2>3, <2>5, <3>6
        <4>2. First(m) \ I = First(m - 1) \ I BY <3>4, <3>6
        <4> QED BY <2>2, <3>3, <4>1, <4>2
      <3>7. CASE queue[m] \notin I
        <4>1. g[m] = Append(g[m - 1], queue[m]) BY <2>3, <2>5, <3>7
        <4>2. queue[m] \notin Waits(g[m - 1]) BY <3>3, <3>5
        <4>3. /\ g[m] \in Seq(Items) /\ Once(g[m])
              /\ Waits(g[m]) = Waits(g[m - 1]) \cup {queue[m]}
          BY <3>3, <3>5, <4>1, <4>2, AppendOnce
        <4>4. First(m) \ I = (First(m - 1) \ I) \cup {queue[m]} BY <3>4, <3>7
        <4> QED BY <2>2, <3>3, <4>3, <4>4
      <3> QED BY <3>6, <3>7
    <2> QED BY <2>4, <2>5
  <1>6. Good(g[N], N)
    <2>1. N \in 0..N BY <1>1
    <2>2. N \notin B
      <3> HIDE DEF B
      <3> QED BY <1>5
    <2> QED BY <2>1, <2>2
  <1>7. First(N) = Waits(queue) BY <1>1 DEF Waits
  <1> QED BY <1>4, <1>6, <1>7
----------------------------------------------------------------------------
(* What the inbox says of itself is true. *)
Accounts ==
    /\ IsFiniteSet(Held)
    /\ bytes = SizeOf(Held) /\ bytes <= MaxBytes
    /\ Cardinality(Held) <= MaxItems /\ Cardinality(InFlight) <= MaxWorkers

InboxInv ==
    /\ stage \in [Items -> Stages] /\ queue \in Seq(Items)
    /\ Accounts
    /\ Once(queue) /\ Waits(queue) = Queued

LEMMA HeldIs ==
    ASSUME InboxInv
    PROVE  /\ Held \in SUBSET Items /\ IsFiniteSet(Held)
           /\ Queued \in SUBSET Held /\ InFlight \in SUBSET Held
           /\ Queued \cap InFlight = {}
           /\ IsFiniteSet(Queued) /\ IsFiniteSet(InFlight)
           /\ bytes \in Nat /\ bytes = SizeOf(Held)
           /\ Cardinality(Held) \in Nat /\ Cardinality(InFlight) \in Nat
  <1>1. Held \in SUBSET Items /\ Queued \in SUBSET Held /\ InFlight \in SUBSET Held
    BY DEF Held, Queued, InFlight
  <1>2. Queued \cap InFlight = {} BY DEF Queued, InFlight
  <1>3. IsFiniteSet(Held) /\ bytes = SizeOf(Held) BY DEF InboxInv, Accounts
  <1>4. IsFiniteSet(Queued) /\ IsFiniteSet(InFlight) BY <1>1, <1>3, FS_Subset
  <1>5. bytes \in Nat BY <1>1, <1>3, SizeOfNat
  <1> QED BY <1>1, <1>2, <1>3, <1>4, <1>5, FS_CardinalityType

(* A step that leaves the requests held, their workers and the bytes as they are. *)
LEMMA StillAccounts ==
    ASSUME InboxInv, Held' = Held, InFlight' = InFlight, bytes' = bytes
    PROVE  Accounts'
  BY DEF InboxInv, Accounts

(* Some of the requests go, with their bytes; none comes to a worker. *)
LEMMA FewerHeld ==
    ASSUME InboxInv, NEW T \in SUBSET Held, Held' = Held \ T, InFlight' \subseteq InFlight,
           bytes' = bytes - SizeOf(T)
    PROVE  Accounts'
  <1>0. /\ Held \in SUBSET Items /\ IsFiniteSet(Held) /\ IsFiniteSet(InFlight)
        /\ bytes \in Nat /\ bytes = SizeOf(Held)
        /\ Cardinality(Held) \in Nat /\ Cardinality(InFlight) \in Nat
    BY HeldIs
  <1>1. /\ bytes <= MaxBytes /\ Cardinality(Held) <= MaxItems /\ Cardinality(InFlight) <= MaxWorkers
        /\ MaxBytes \in Nat /\ MaxItems \in Nat /\ MaxWorkers \in Nat
    BY LimitsAssumption DEF InboxInv, Accounts
  <1>2. SizeOf(Held) = SizeOf(Held \ T) + SizeOf(T) BY <1>0, SizeOfSplit
  <1>3. IsFiniteSet(T) /\ IsFiniteSet(Held \ T) /\ T \in SUBSET Items /\ Held \ T \in SUBSET Items
    BY <1>0, FS_Subset
  <1>4. SizeOf(T) \in Nat /\ SizeOf(Held \ T) \in Nat BY <1>3, SizeOfNat
  <1>5. bytes' = SizeOf(Held \ T) /\ bytes' <= MaxBytes BY <1>0, <1>1, <1>2, <1>4
  <1>6. Cardinality(Held \ T) <= Cardinality(Held) /\ Cardinality(Held \ T) \in Nat
    BY <1>0, <1>3, FS_Subset, FS_CardinalityType
  <1>7. Cardinality(InFlight') <= Cardinality(InFlight) /\ Cardinality(InFlight') \in Nat
    BY <1>0, FS_Subset, FS_CardinalityType
  <1>8. Cardinality(Held \ T) <= MaxItems /\ Cardinality(InFlight') <= MaxWorkers
    BY <1>0, <1>1, <1>6, <1>7
  <1> QED BY <1>3, <1>5, <1>8 DEF Accounts

(* The bytes of a single request. *)
LEMMA SizeOfOne == ASSUME NEW i \in Items PROVE SizeOf({i}) = Size[i]
  <1>1. IsFiniteSet({}) /\ {} \in SUBSET Items /\ i \notin {} BY FS_EmptySet
  <1>2. SizeOf({} \cup {i}) = SizeOf({}) + Size[i] BY <1>1, SizeOfAdd
  <1>3. {} \cup {i} = {i} /\ SizeOf({}) = 0 BY SizeOfStep
  <1> QED BY <1>2, <1>3, SizeAssumption

LEMMA AdmitAccounts == ASSUME InboxInv, NEW i \in Items, Admit(i) PROVE InboxInv'
  <1>1. /\ stage \in [Items -> Stages] /\ queue \in Seq(Items) /\ Once(queue) /\ Waits(queue) = Queued
        /\ Cardinality(InFlight) <= MaxWorkers
    BY DEF InboxInv, Accounts
  <1>2. /\ stage[i] = "outside" /\ stage' = [stage EXCEPT ![i] = "queued"]
        /\ queue' = Append(queue, i) /\ bytes' = bytes + Size[i]
        /\ Cardinality(Held) < MaxItems /\ bytes + Size[i] <= MaxBytes
    BY DEF Admit, Room
  <1>3. stage' \in [Items -> Stages] BY <1>1, <1>2, StageNames
  <1>4. i \notin Held /\ i \notin Queued BY <1>2 DEF Held, Queued, InFlight
  <1>5. Queued' = Queued \cup {i} /\ InFlight' = InFlight
    BY <1>1, <1>2 DEF Queued, InFlight
  <1>6. Held' = Held \cup {i} BY <1>5 DEF Held
  <1>7. Held \in SUBSET Items /\ IsFiniteSet(Held) /\ bytes = SizeOf(Held) /\ Cardinality(Held) \in Nat
    BY HeldIs
  <1>8. /\ IsFiniteSet(Held \cup {i}) /\ Cardinality(Held \cup {i}) = Cardinality(Held) + 1
        /\ SizeOf(Held \cup {i}) = SizeOf(Held) + Size[i]
    BY <1>4, <1>7, FS_AddElement, SizeOfAdd
  <1>9. Cardinality(Held) + 1 <= MaxItems BY <1>2, <1>7, LimitsAssumption
  <1>10. Accounts' BY <1>1, <1>2, <1>5, <1>6, <1>7, <1>8, <1>9 DEF Accounts
  <1>11. /\ Append(queue, i) \in Seq(Items) /\ Once(Append(queue, i))
         /\ Waits(Append(queue, i)) = Waits(queue) \cup {i}
    BY <1>1, <1>4, AppendOnce
  <1>12. queue' \in Seq(Items) /\ Once(queue)' /\ Waits(queue)' = Queued'
    BY <1>1, <1>2, <1>5, <1>11
  <1> QED BY <1>3, <1>10, <1>12 DEF InboxInv

LEMMA DrainAccounts == ASSUME InboxInv, Drain PROVE InboxInv'
  <1>1. /\ stage \in [Items -> Stages] /\ queue \in Seq(Items) /\ Once(queue) /\ Waits(queue) = Queued
        /\ queue # <<>> /\ queue' = Tail(queue) /\ Cardinality(InFlight) < MaxWorkers
    BY DEF InboxInv, Drain
  <1>2. PICK i : i = Head(queue) OBVIOUS
  <1>3. /\ i \in Queued /\ Tail(queue) \in Seq(Items) /\ Once(Tail(queue))
        /\ Waits(Tail(queue)) = Queued \ {i}
    BY <1>1, <1>2, TailOnce
  <1>4. i \in Items /\ stage[i] = "queued" /\ i \in Held /\ i \notin InFlight
    BY <1>3 DEF Queued, Held, InFlight
  <1>5. CASE i \in expired
    <2>1. stage' = [stage EXCEPT ![i] = "done"] /\ bytes' = bytes - Size[i]
      BY <1>2, <1>5 DEF Drain
    <2>2. stage' \in [Items -> Stages] BY <1>1, <2>1, StageNames
    <2>3. Queued' = Queued \ {i} /\ InFlight' = InFlight BY <1>1, <1>4, <2>1 DEF Queued, InFlight
    <2>4. Held' = Held \ {i} BY <1>4, <2>3 DEF Held
    <2>5. {i} \in SUBSET Held /\ bytes' = bytes - SizeOf({i}) BY <1>4, <2>1, SizeOfOne
    <2>6. Accounts' BY <2>3, <2>4, <2>5, FewerHeld
    <2> QED BY <1>1, <1>3, <2>2, <2>3, <2>6 DEF InboxInv
  <1>6. CASE i \notin expired
    <2>1. stage' = [stage EXCEPT ![i] = "reading"] /\ bytes' = bytes BY <1>2, <1>6 DEF Drain
    <2>2. stage' \in [Items -> Stages] BY <1>1, <2>1, StageNames
    <2>3. Queued' = Queued \ {i} /\ InFlight' = InFlight \cup {i}
      BY <1>1, <1>4, <2>1 DEF Queued, InFlight
    <2>4. Held' = Held BY <1>3, <2>3 DEF Held
    <2>5. IsFiniteSet(InFlight) /\ Cardinality(InFlight) \in Nat BY HeldIs
    <2>6. Cardinality(InFlight \cup {i}) = Cardinality(InFlight) + 1 BY <1>4, <2>5, FS_AddElement
    <2>7. Cardinality(InFlight)' <= MaxWorkers BY <1>1, <2>3, <2>5, <2>6, LimitsAssumption
    <2>8. Accounts' BY <2>1, <2>4, <2>7 DEF InboxInv, Accounts
    <2> QED BY <1>1, <1>3, <2>2, <2>3, <2>8 DEF InboxInv
  <1> QED BY <1>5, <1>6

LEMMA SweepAccounts == ASSUME InboxInv, Sweep PROVE InboxInv'
  <1>1. /\ stage \in [Items -> Stages] /\ queue \in Seq(Items) /\ Once(queue) /\ Waits(queue) = Queued
        /\ stage' = [i \in Items |-> IF i \in SweptQueue THEN "done" ELSE stage[i]]
        /\ queue' = Without(SweptQueue) /\ bytes' = bytes - SizeOf(SweptQueue)
    BY DEF InboxInv, Sweep, Released
  <1>2. SweptQueue \in SUBSET Queued BY DEF SweptQueue
  <1>3. stage' \in [Items -> Stages] BY <1>1, StageNames
  <1>4. Queued' = Queued \ SweptQueue BY <1>1 DEF Queued
  <1>5. InFlight' = InFlight BY <1>1, <1>2 DEF InFlight, Queued
  <1>6. Held' = Held \ SweptQueue BY <1>2, <1>4, <1>5, HeldIs DEF Held
  <1>7. SweptQueue \in SUBSET Held BY <1>2 DEF Held
  <1>8. Accounts' BY <1>1, <1>5, <1>6, <1>7, FewerHeld
  <1>9. queue' \in Seq(Items) /\ Once(queue)' /\ Waits(queue)' = Queued'
    <2>1. PICK I : I = SweptQueue OBVIOUS
    <2>2. /\ Without(I) \in Seq(Items) /\ Once(Without(I))
          /\ Waits(Without(I)) = Waits(queue) \ I
      BY <1>1, WithoutIs
    <2> QED BY <1>1, <1>4, <2>1, <2>2
  <1> QED BY <1>3, <1>8, <1>9 DEF InboxInv

(* A worker ends. *)
LEMMA FinishedAccounts ==
    ASSUME InboxInv, NEW i \in InFlight, Finished(i), queue' = queue
    PROVE  InboxInv'
  <1>1. /\ stage \in [Items -> Stages] /\ queue \in Seq(Items) /\ Once(queue) /\ Waits(queue) = Queued
        /\ i \in Items /\ i \in Held /\ i \notin Queued
        /\ stage' = [stage EXCEPT ![i] = "done"] /\ bytes' = bytes - Size[i]
    BY DEF InboxInv, Finished, InFlight, Held, Queued
  <1>2. stage' \in [Items -> Stages] BY <1>1, StageNames
  <1>3. Queued' = Queued /\ InFlight' = InFlight \ {i} BY <1>1 DEF Queued, InFlight
  <1>4. Held' = Held \ {i} BY <1>1, <1>3 DEF Held
  <1>5. {i} \in SUBSET Held /\ bytes' = bytes - SizeOf({i}) BY <1>1, SizeOfOne
  <1>6. Accounts' BY <1>3, <1>4, <1>5, FewerHeld
  <1> QED BY <1>1, <1>2, <1>3, <1>6 DEF InboxInv

LEMMA StopAccounts == ASSUME InboxInv, Stop PROVE InboxInv'
  <1>1. /\ stage \in [Items -> Stages]
        /\ stage' = [i \in Items |-> IF i \in Queued THEN "done" ELSE stage[i]]
        /\ queue' = <<>> /\ bytes' = bytes - SizeOf(Queued)
    BY DEF InboxInv, Stop
  <1>2. stage' \in [Items -> Stages] BY <1>1, StageNames
  <1>3. Queued' = {} /\ InFlight' = InFlight BY <1>1 DEF Queued, InFlight
  <1>4. Held' = Held \ Queued /\ Queued \in SUBSET Held BY <1>3, HeldIs DEF Held
  <1>5. Accounts' BY <1>1, <1>3, <1>4, FewerHeld
  <1>6. <<>> \in Seq(Items) /\ DOMAIN <<>> = {} BY EmptySeq
  <1>7. Once(<<>>) /\ Waits(<<>>) = {} BY <1>6 DEF Once, Waits
  <1> QED BY <1>1, <1>2, <1>3, <1>5, <1>6, <1>7 DEF InboxInv

(* A request whose worker goes on. *)
LEMMA WorkerAccounts ==
    ASSUME InboxInv, NEW i \in Items,
           \/ Parse(i) \/ Discard(i)
           \/ \E e \in Events : Unresolved(i, e) \/ Resolve(i, e)
    PROVE  InboxInv'
  <1>1. i \in InFlight /\ queue' = queue
    BY DEF Parse, Discard, Unresolved, Resolve, Proceed, InFlight
  <1>2. CASE Finished(i) BY <1>1, <1>2, FinishedAccounts
  <1>3. CASE stage' = stage /\ bytes' = bytes
    <2>1. Queued' = Queued /\ InFlight' = InFlight /\ Held' = Held
      BY <1>3 DEF Queued, InFlight, Held
    <2>2. Accounts' BY <1>3, <2>1, StillAccounts
    <2> QED BY <1>1, <1>3, <2>1, <2>2 DEF InboxInv
  <1>4. CASE stage' = [stage EXCEPT ![i] = "resolving"] /\ bytes' = bytes
    <2>1. stage \in [Items -> Stages] BY DEF InboxInv
    <2>2. stage' \in [Items -> Stages] BY <1>4, <2>1, StageNames
    <2>3. Queued' = Queued /\ InFlight' = InFlight BY <1>1, <1>4, <2>1 DEF Queued, InFlight
    <2>4. Held' = Held BY <2>3 DEF Held
    <2>5. Accounts' BY <1>4, <2>3, <2>4, StillAccounts
    <2> QED BY <1>1, <2>2, <2>3, <2>5 DEF InboxInv
  <1> QED BY <1>2, <1>3, <1>4 DEF Parse, Discard, Unresolved, Resolve, Proceed

(* All that is not about the inbox. *)
LEMMA OutsideAccounts ==
    ASSUME InboxInv, UNCHANGED <<stage, queue, bytes>>
    PROVE  InboxInv'
  <1>1. Queued' = Queued /\ InFlight' = InFlight /\ Held' = Held BY DEF Queued, InFlight, Held
  <1>2. Accounts' BY <1>1, StillAccounts
  <1> QED BY <1>1, <1>2 DEF InboxInv

LEMMA InitAccounts == EventsInit => InboxInv
  <1> SUFFICES ASSUME EventsInit PROVE InboxInv OBVIOUS
  <1>1. stage \in [Items -> Stages] /\ queue = <<>> /\ bytes = 0 BY StageNames DEF EventsInit
  <1>2. Queued = {} /\ InFlight = {} /\ Held = {} BY DEF EventsInit, Queued, InFlight, Held
  <1>3. IsFiniteSet({}) /\ Cardinality({}) = 0 /\ SizeOf({}) = 0 BY FS_EmptySet, SizeOfStep
  <1>4. Accounts BY <1>1, <1>2, <1>3, LimitsAssumption DEF Accounts
  <1>5. <<>> \in Seq(Items) /\ DOMAIN <<>> = {} BY EmptySeq
  <1>6. Once(<<>>) /\ Waits(<<>>) = {} BY <1>5 DEF Once, Waits
  <1> QED BY <1>1, <1>2, <1>4, <1>5, <1>6 DEF InboxInv

LEMMA StepAccounts == InboxInv /\ [EventsNext]_vars => InboxInv'
  <1> SUFFICES ASSUME InboxInv, [EventsNext]_vars PROVE InboxInv' OBVIOUS
  <1>1. CASE UNCHANGED vars BY <1>1, OutsideAccounts DEF vars, inbox
  <1>2. CASE Drain BY <1>2, DrainAccounts
  <1>3. CASE Sweep BY <1>3, SweepAccounts
  <1>4. CASE Stop BY <1>4, StopAccounts
  <1>5. ASSUME NEW i \in Items, Admit(i) PROVE InboxInv' BY <1>5, AdmitAccounts
  <1>6. ASSUME NEW i \in Items, \/ Parse(i) \/ Discard(i)
                                \/ \E e \in Events : Unresolved(i, e) \/ Resolve(i, e)
        PROVE  InboxInv'
    BY <1>6, WorkerAccounts
  <1>7. CASE \/ Close
             \/ \E i \in Items : Expire(i)
             \/ \E e \in Events : Lapse(e)
             \/ \E c \in Connections : \/ Upgrade(c) \/ Register(c) \/ Reject(c)
                                       \/ Disconnect(c) \/ Flush(c) \/ Refuse(c)
    BY <1>7, OutsideAccounts
       DEF Close, Expire, Lapse, Upgrade, Register, Reject, Disconnect, Flush, Refuse, inbox
  <1>8. ASSUME NEW c \in Connections, NEW id \in Ids,
               Unsubscribe(c, id) \/ \E r \in Requests, topic \in Topics : BeginSubscribe(r, c, id, topic)
        PROVE  InboxInv'
    BY <1>8, OutsideAccounts DEF Unsubscribe, BeginSubscribe, inbox
  <1>9. ASSUME NEW r \in Requests, Subscribe(r) \/ Forbid(r) PROVE InboxInv'
    BY <1>9, OutsideAccounts DEF Subscribe, Forbid, inbox
  <1> QED BY <1>1, <1>2, <1>3, <1>4, <1>5, <1>6, <1>7, <1>8, <1>9 DEF EventsNext

(* The inductive invariant of the inbox. *)
THEOREM InboxInvariant == EventsSpec => []InboxInv
  BY InitAccounts, StepAccounts, PTL DEF EventsSpec

(* What the inbox says of itself is true: bytes, requests and workers within their limits,
   and a queue in which each waits once. *)
THEOREM InboxAlwaysAccounted == EventsSpec => []InboxAccounted
  <1>1. ASSUME InboxInv PROVE InboxAccounted
    <2>1. queue \in Seq(Items) /\ Once(queue) /\ Waits(queue) = Queued /\ Accounts
      BY <1>1 DEF InboxInv
    <2>2. Len(queue) = Cardinality(Queued) BY <2>1, OnceCounts
    <2> QED BY <2>1, <2>2 DEF InboxAccounted, Accounts, Waits
  <1> QED BY <1>1, InboxInvariant, PTL
----------------------------------------------------------------------------
(* The frames that wait for the network, and what else has only a type. *)
FrameInv ==
    /\ frames \in [Connections -> 0..MaxFrames] /\ IsFiniteSet(subs)
    /\ phase \in {"up", "closing", "stopped"} /\ expired \subseteq Items /\ aborted \subseteq Items

QueuedFrames(queued) == \A c \in Connections : queued[c] \in 0..MaxFrames

LEMMA LeaveFrames ==
    ASSUME NEW C, NEW registered, NEW owned, NEW queued, IsFiniteSet(registered),
           \A c \in Connections \ C : queued[c] \in 0..MaxFrames,
           Leave(C, registered, owned, queued)
    PROVE  frames' \in [Connections -> 0..MaxFrames] /\ IsFiniteSet(subs')
  <1>1. /\ frames' = [c \in Connections |-> IF c \in C THEN 0 ELSE queued[c]]
        /\ subs' \in SUBSET registered
    BY DEF Leave
  <1>2. 0 \in 0..MaxFrames BY LimitsAssumption
  <1>3. frames' \in [Connections -> 0..MaxFrames] BY <1>1, <1>2
  <1> QED BY <1>1, <1>3, FS_Subset

LEMMA ReplyFrames ==
    ASSUME FrameInv, NEW c, NEW registered, NEW owned, IsFiniteSet(registered),
           Reply(c, registered, owned)
    PROVE  frames' \in [Connections -> 0..MaxFrames] /\ IsFiniteSet(subs')
  <1>1. frames \in [Connections -> 0..MaxFrames] /\ MaxFrames \in Nat
    BY LimitsAssumption DEF FrameInv
  <1>2. CASE c \in Open /\ frames[c] < MaxFrames
    <2> DEFINE queued == [frames EXCEPT ![c] = @ + 1]
    <2>1. c \in Connections /\ frames[c] + 1 \in 0..MaxFrames BY <1>1, <1>2 DEF Open
    <2>2. \A d \in Connections \ {} : queued[d] \in 0..MaxFrames BY <1>1, <2>1
    <2>3. Leave({}, registered, owned, queued) BY <1>2 DEF Reply
    <2> HIDE DEF queued
    <2> QED BY <2>2, <2>3, LeaveFrames
  <1>3. CASE ~(c \in Open /\ frames[c] < MaxFrames)
    <2>1. Leave({c} \cap Open, registered, owned, frames) BY <1>3 DEF Reply
    <2>2. \A d \in Connections \ ({c} \cap Open) : frames[d] \in 0..MaxFrames BY <1>1
    <2> QED BY <2>1, <2>2, LeaveFrames
  <1> QED BY <1>2, <1>3

(* A dispatch closes every connection for whose subscriptions there is no room. *)
LEMMA DispatchFrames ==
    ASSUME FrameInv, NEW i, NEW e, Dispatch(i, e)
    PROVE  frames' \in [Connections -> 0..MaxFrames] /\ IsFiniteSet(subs')
  <1> DEFINE all == Matching(i, e)
             C == {c \in Open : frames[c] + Of(c, all) > MaxFrames}
             queued == [c \in Connections |-> frames[c] + Of(c, Reached(all))]
  <1>1. /\ frames \in [Connections -> 0..MaxFrames] /\ IsFiniteSet(subs) /\ MaxFrames \in Nat
        /\ Leave(C, subs, own, queued)
    BY LimitsAssumption DEF FrameInv, Dispatch
  <1>2. ASSUME NEW c \in Connections \ C PROVE queued[c] \in 0..MaxFrames
    <2> DEFINE mine == {s \in all : s.connection = c}
               reached == {s \in Reached(all) : s.connection = c}
    <2>1. mine \in SUBSET subs /\ reached \in SUBSET mine BY DEF Matching, Reached
    <2>2. IsFiniteSet(mine) /\ IsFiniteSet(reached) BY <1>1, <2>1, FS_Subset
    <2>3. /\ Cardinality(reached) \in Nat /\ Cardinality(mine) \in Nat
          /\ Cardinality(reached) <= Cardinality(mine)
      BY <2>1, <2>2, FS_CardinalityType, FS_Subset
    <2>4. queued[c] = frames[c] + Cardinality(reached) /\ frames[c] \in 0..MaxFrames
      BY <1>1 DEF Of
    <2>5. CASE c \in Open
      <3>1. ~(frames[c] + Cardinality(mine) > MaxFrames) BY <2>5 DEF Of
      <3> HIDE DEF mine, reached, queued
      <3> QED BY <1>1, <2>3, <2>4, <3>1
    <2>6. CASE c \notin Open
      <3>1. reached = {} BY <2>6 DEF Reached
      <3>2. Cardinality(reached) = 0 BY <3>1, FS_EmptySet
      <3> HIDE DEF mine, reached, queued
      <3> QED BY <1>1, <2>4, <3>2
    <2> QED BY <2>5, <2>6
  <1> HIDE DEF all, C, queued
  <1> QED BY <1>1, <1>2, LeaveFrames

LEMMA InboxFrames ==
    ASSUME FrameInv,
           \/ Drain \/ Sweep \/ Stop \/ \E e \in Events : Lapse(e)
           \/ \E i \in Items : \/ Admit(i) \/ Expire(i) \/ Parse(i) \/ Discard(i)
                               \/ \E e \in Events : Unresolved(i, e) \/ Resolve(i, e)
    PROVE  FrameInv'
  <1>1. CASE Drain
    <2>1. UNCHANGED <<phase, expired, frames, subs>> BY <1>1 DEF Drain, transport
    <2>3. CASE Head(queue) \in expired
      <3>1. aborted' = aborted \cup {Head(queue)} BY <1>1, <2>3 DEF Drain
      <3> QED BY <2>1, <2>3, <3>1 DEF FrameInv
    <2>4. CASE Head(queue) \notin expired
      <3>1. aborted' = aborted BY <1>1, <2>4 DEF Drain
      <3> QED BY <2>1, <3>1 DEF FrameInv
    <2> QED BY <2>3, <2>4
  <1>2. CASE Sweep
    BY <1>2 DEF FrameInv, Sweep, SweptQueue, Queued, InFlight, transport
  <1>3. CASE Stop
    BY <1>3 DEF FrameInv, Stop, Held, Queued, InFlight, transport
  <1>4. CASE \E e \in Events : Lapse(e) BY <1>4 DEF FrameInv, Lapse, inbox, transport
  <1>5. ASSUME NEW i \in Items, Admit(i) \/ Expire(i) \/ Parse(i) \/ Discard(i) PROVE FrameInv'
    BY <1>5 DEF FrameInv, Admit, Expire, Parse, Discard, Held, Queued, InFlight, transport
  <1>6. ASSUME NEW i \in Items, NEW e \in Events, Unresolved(i, e) \/ Resolve(i, e) PROVE FrameInv'
    <2>1. UNCHANGED <<phase, expired, aborted>> BY <1>6 DEF Unresolved, Resolve, Proceed
    <2>2. CASE UNCHANGED transport BY <2>1, <2>2 DEF FrameInv, transport
    <2>3. CASE Dispatch(i, e)
      <3>1. frames' \in [Connections -> 0..MaxFrames] /\ IsFiniteSet(subs') BY <2>3, DispatchFrames
      <3> QED BY <2>1, <3>1 DEF FrameInv
    <2> QED BY <1>6, <2>2, <2>3 DEF Unresolved, Resolve
  <1> QED BY <1>1, <1>2, <1>3, <1>4, <1>5, <1>6

LEMMA TransportFrames ==
    ASSUME FrameInv,
           \/ Close
           \/ \E c \in Connections :
                 \/ Upgrade(c) \/ Register(c) \/ Reject(c) \/ Disconnect(c) \/ Flush(c) \/ Refuse(c)
                 \/ \E id \in Ids :
                       \/ Unsubscribe(c, id)
                       \/ \E r \in Requests, topic \in Topics : BeginSubscribe(r, c, id, topic)
           \/ \E r \in Requests : Subscribe(r) \/ Forbid(r)
    PROVE  FrameInv'
  <1>0. /\ frames \in [Connections -> 0..MaxFrames] /\ IsFiniteSet(subs)
        /\ phase \in {"up", "closing", "stopped"} /\ expired \subseteq Items /\ aborted \subseteq Items
        /\ MaxFrames \in Nat \ {0} /\ \A C : \A c \in Connections \ C : frames[c] \in 0..MaxFrames
    BY LimitsAssumption DEF FrameInv
  <1>1. CASE Close
    <2>1. Leave(Open, subs, own, frames) /\ phase' = "closing" /\ UNCHANGED <<expired, aborted>>
      BY <1>1 DEF Close, inbox
    <2>2. frames' \in [Connections -> 0..MaxFrames] /\ IsFiniteSet(subs')
      BY <1>0, <2>1, LeaveFrames
    <2> QED BY <1>0, <2>1, <2>2 DEF FrameInv
  <1>2. ASSUME NEW c \in Connections, Upgrade(c) \/ Reject(c) PROVE FrameInv'
    BY <1>2 DEF FrameInv, Upgrade, Reject, inbox
  <1>3. ASSUME NEW c \in Connections, Register(c) PROVE FrameInv'
    <2>1. frames' = [frames EXCEPT ![c] = 1] /\ UNCHANGED <<phase, expired, aborted, subs>>
      BY <1>3 DEF Register, inbox
    <2>2. 1 \in 0..MaxFrames BY <1>0
    <2> QED BY <1>0, <2>1, <2>2 DEF FrameInv
  <1>4. ASSUME NEW c \in Connections, Flush(c) PROVE FrameInv'
    <2>1. /\ frames' = [frames EXCEPT ![c] = @ - 1] /\ frames[c] > 0
          /\ UNCHANGED <<phase, expired, aborted, subs>>
      BY <1>4 DEF Flush, inbox
    <2>2. frames[c] - 1 \in 0..MaxFrames BY <1>0, <2>1
    <2>3. frames' \in [Connections -> 0..MaxFrames] BY <1>0, <2>1, <2>2
    <2> QED BY <1>0, <2>1, <2>3 DEF FrameInv
  <1>5. ASSUME NEW c \in Connections, Disconnect(c) PROVE FrameInv'
    <2>1. Leave({c}, subs, own, frames) /\ UNCHANGED <<phase, expired, aborted>>
      BY <1>5 DEF Disconnect, inbox
    <2>2. frames' \in [Connections -> 0..MaxFrames] /\ IsFiniteSet(subs')
      BY <1>0, <2>1, LeaveFrames
    <2> QED BY <1>0, <2>1, <2>2 DEF FrameInv
  <1>6. ASSUME NEW c, NEW registered, NEW owned, IsFiniteSet(registered),
               Reply(c, registered, owned), UNCHANGED <<phase, expired, aborted>>
        PROVE  FrameInv'
    <2>1. frames' \in [Connections -> 0..MaxFrames] /\ IsFiniteSet(subs') BY <1>6, ReplyFrames
    <2> QED BY <1>0, <1>6, <2>1 DEF FrameInv
  <1>7. ASSUME NEW c \in Connections, Refuse(c) PROVE FrameInv'
    <2>1. Reply(c, subs, own) /\ UNCHANGED <<phase, expired, aborted>> BY <1>7 DEF Refuse, inbox
    <2> QED BY <1>0, <1>6, <2>1
  <1>8. ASSUME NEW c \in Connections, NEW id \in Ids, Unsubscribe(c, id) PROVE FrameInv'
    <2> DEFINE registered == {s \in subs : ~(s.connection = c /\ s.id = id)}
    <2>1. IsFiniteSet(registered) BY <1>0, FS_Subset
    <2>2. Reply(c, registered, [own EXCEPT ![c] = @ \ {id}]) /\ UNCHANGED <<phase, expired, aborted>>
      BY <1>8 DEF Unsubscribe, inbox
    <2> HIDE DEF registered
    <2> QED BY <1>6, <2>1, <2>2
  <1>9. ASSUME NEW c \in Connections, NEW id \in Ids, NEW r \in Requests, NEW topic \in Topics,
               BeginSubscribe(r, c, id, topic)
        PROVE  FrameInv'
    BY <1>9 DEF FrameInv, BeginSubscribe, inbox, transport
  <1>10. ASSUME NEW r \in Requests, Subscribe(r) PROVE FrameInv'
    <2>1. PICK registered, owned :
             /\ Reply(requests[r].connection, registered, owned)
             /\ registered = subs \/ \E new : registered = subs \cup {new}
      BY <1>10 DEF Subscribe
    <2>2. IsFiniteSet(registered) BY <1>0, <2>1, FS_AddElement
    <2>3. UNCHANGED <<phase, expired, aborted>> BY <1>10 DEF Subscribe, inbox
    <2> QED BY <1>6, <2>1, <2>2, <2>3
  <1>11. ASSUME NEW r \in Requests, Forbid(r) PROVE FrameInv'
    <2>1. Reply(requests[r].connection, subs, own) /\ UNCHANGED <<phase, expired, aborted>>
      BY <1>11 DEF Forbid, inbox
    <2> QED BY <1>0, <1>6, <2>1
  <1> QED BY <1>1, <1>2, <1>3, <1>4, <1>5, <1>7, <1>8, <1>9, <1>10, <1>11

LEMMA InitFrames == EventsInit => FrameInv
  <1> SUFFICES ASSUME EventsInit PROVE FrameInv OBVIOUS
  <1>1. 0 \in 0..MaxFrames /\ IsFiniteSet({}) BY LimitsAssumption, FS_EmptySet
  <1> QED BY <1>1 DEF EventsInit, FrameInv

LEMMA StepFrames == FrameInv /\ [EventsNext]_vars => FrameInv'
  <1> SUFFICES ASSUME FrameInv, [EventsNext]_vars PROVE FrameInv' OBVIOUS
  <1>1. CASE UNCHANGED vars BY <1>1 DEF vars, inbox, transport, FrameInv
  <1>2. CASE EventsNext BY <1>2, InboxFrames, TransportFrames DEF EventsNext
  <1> QED BY <1>1, <1>2

(* Every reachable state has its type; in particular no queue of frames is longer than it
   may be, whatever is dispatched to its connection at once. *)
THEOREM EventsTypes == EventsSpec => []EventsTypeOK
  <1>1. EventsSpec => []FrameInv BY InitFrames, StepFrames, PTL DEF EventsSpec
  <1>2. ASSUME RouterInv, InboxInv, FrameInv PROVE EventsTypeOK
    <2>1. bytes \in Nat BY <1>2, HeldIs
    <2> QED BY <1>2, <2>1 DEF RouterInv, RouterTypeOK, InboxInv, FrameInv, EventsTypeOK
  <1> QED BY <1>1, <1>2, RouterInvariant, InboxInvariant, PTL
=============================================================================
