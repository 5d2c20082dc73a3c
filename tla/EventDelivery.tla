--------------------------- MODULE EventDelivery ---------------------------
(***************************************************************************)
(* Integration events in one control plane process: webhooks are admitted to  *)
(* a bounded inbox, workers turn them into events and dispatch each once to    *)
(* the subscriptions that match, and WebSocket connections come, subscribe,    *)
(* are too slow and go.  Nothing of it is persisted.                          *)
(*                                                                         *)
(* What happens between two awaits is one step.  Of an event only its topic    *)
(* counts: the Project, the type and the values that a filter names.          *)
(***************************************************************************)
EXTENDS Naturals, Sequences, FiniteSetsExt

CONSTANTS Items,               \* webhook requests that are received
          Events, Topics,      \* provider events, and what they are about
          About, Carries,      \* the topic of an event, the events of a request
          Size,                \* the bytes of a request
          Connections,         \* WebSocket connections
          SessionOf,           \* the AuthSession of each
          Ids,                 \* subscription ids
          Requests,            \* subscribe requests of connections in progress
          MaxItems, MaxBytes, MaxWorkers,   \* limits of the EventRuntime
          MaxKeys,                          \* ... of the EventDedupTable
          MaxConnections, MaxPerSession, MaxSubscriptions, MaxFrames, \* ... of the transport
          MaxGeneration                     \* bound: subscriptions that are made

VARIABLES phase,               \* of the process: "up", "closing" or "stopped"
          stage,               \* stage[i]: where request i is
          queue,               \* the requests that wait, the first first
          bytes,               \* totalQueuedAndInFlightBytes
          expired, aborted,    \* requests past their deadline, and those told so
          cap,                 \* cap[i]: subscriptionGenerationCap
          left,                \* left[i]: the candidates its worker has not done
          dedup,               \* the keys of the EventDedupTable
          connections,         \* connections[c]: the state of a connection
          frames,              \* frames[c]: sendQueueFrames
          own,                 \* own[c]: its map of subscriptions
          subs, generation,    \* the router's subscriptions, and nextGeneration
          requests,            \* requests[r]: a subscribe request that is awaiting
          present,             \* history: the generations registered at admission
          sent                 \* history: what was sent to whom in the dedup window

inbox == <<stage, queue, bytes, expired, aborted, cap, left, present>>
transport == <<connections, frames, own, subs>>
vars == <<phase, inbox, dedup, transport, generation, requests, sent>>

Stages == {"outside", "queued", "reading", "resolving", "done"}
Subscription == [connection : Connections, id : Ids, topic : Topics, generation : Nat]
Sent == [generation : Nat, event : Events, item : Items]
NoRequest == [connection |-> "none", id |-> "none", topic |-> "none"]

ASSUME CarriesAssumption == About \in [Events -> Topics] /\ Carries \in [Items -> SUBSET Events]
ASSUME ConnectionsAssumption == IsFiniteSet(Connections) /\ "none" \notin Connections
ASSUME SizeAssumption == Size \in [Items -> Nat]
ASSUME LimitsAssumption ==
    /\ MaxItems \in Nat /\ MaxBytes \in Nat /\ MaxWorkers \in Nat \ {0} /\ MaxKeys \in Nat
    /\ MaxConnections \in Nat /\ MaxPerSession \in Nat /\ MaxSubscriptions \in Nat
    /\ MaxFrames \in Nat \ {0} /\ MaxGeneration \in Nat
----------------------------------------------------------------------------
EventsInit ==
    /\ phase = "up"
    /\ stage = [i \in Items |-> "outside"]
    /\ queue = <<>> /\ bytes = 0
    /\ expired = {} /\ aborted = {}
    /\ cap = [i \in Items |-> 0] /\ present = [i \in Items |-> {}]
    /\ left = [i \in Items |-> {}]
    /\ dedup = {}
    /\ connections = [c \in Connections |-> "new"]
    /\ frames = [c \in Connections |-> 0]
    /\ own = [c \in Connections |-> {}]
    /\ subs = {} /\ generation = 1
    /\ requests = [r \in Requests |-> NoRequest]
    /\ sent = {}

Queued == {i \in Items : stage[i] = "queued"}
InFlight == {i \in Items : stage[i] \in {"reading", "resolving"}}
Held == Queued \cup InFlight
Open == {c \in Connections : connections[c] = "open"}

SizeOf(I) == MapThenSumSet(LAMBDA i : Size[i], I)
----------------------------------------------------------------------------
(* EventRuntime *)

Room(i) == Cardinality(Held) < MaxItems /\ bytes + Size[i] <= MaxBytes

(* WebhookIngressHandler.handle has received the request; one for which there is no
   room is answered 503 and nothing else happens. *)
Admit(i) ==
    /\ phase = "up"
    /\ stage[i] = "outside" /\ Room(i)
    /\ stage' = [stage EXCEPT ![i] = "queued"]
    /\ queue' = Append(queue, i)
    /\ bytes' = bytes + Size[i]
    /\ cap' = [cap EXCEPT ![i] = generation - 1]
    /\ present' = [present EXCEPT ![i] = {s.generation : s \in subs}]
    /\ UNCHANGED <<phase, expired, aborted, left, dedup, transport, generation, requests, sent>>

(* drain: each admission and each worker that ends sees to the queue. *)
Drain ==
    /\ phase # "stopped"
    /\ queue # <<>> /\ Cardinality(InFlight) < MaxWorkers
    /\ LET i == Head(queue)
       IN  IF i \in expired
           THEN /\ stage' = [stage EXCEPT ![i] = "done"]
                /\ bytes' = bytes - Size[i]
                /\ aborted' = aborted \cup {i}
           ELSE /\ stage' = [stage EXCEPT ![i] = "reading"]
                /\ UNCHANGED <<bytes, aborted>>
    /\ queue' = Tail(queue)
    /\ UNCHANGED <<phase, expired, cap, left, present, dedup, transport, generation, requests, sent>>

(* ITEM_TTL_MS pass. *)
Expire(i) ==
    /\ i \in Held \ expired
    /\ expired' = expired \cup {i}
    /\ UNCHANGED <<phase, stage, queue, bytes, aborted, cap, left, present, dedup, transport,
                   generation, requests, sent>>

SweptQueue == Queued \cap expired

(* The queue without some requests, in its order. *)
Without(I) ==
    LET kept[n \in 0..Len(queue)] ==
            IF n = 0 THEN <<>>
            ELSE IF queue[n] \in I THEN kept[n - 1] ELSE Append(kept[n - 1], queue[n])
    IN  kept[Len(queue)]

(* Mutant: the bytes of what its worker still has are given back as well. *)
ReleasedEarly == SizeOf(Held \cap (expired \ aborted))

Released == SizeOf(SweptQueue)

(* sweepExpired: what waits is dropped, what a worker has is only told. *)
Sweep ==
    /\ phase # "stopped"
    /\ (SweptQueue \cup ((InFlight \cap expired) \ aborted)) # {}
    /\ stage' = [i \in Items |-> IF i \in SweptQueue THEN "done" ELSE stage[i]]
    /\ queue' = Without(SweptQueue)
    /\ bytes' = bytes - Released
    /\ aborted' = aborted \cup SweptQueue \cup (InFlight \cap expired)
    /\ UNCHANGED <<phase, expired, cap, left, present, dedup, transport, generation, requests, sent>>

(* The end of runWorker, which gives the slot and the bytes back. *)
Finished(i) ==
    /\ stage' = [stage EXCEPT ![i] = "done"]
    /\ bytes' = bytes - Size[i]
----------------------------------------------------------------------------
(* The transport: a connection that is removed takes its subscriptions with it. *)
Leave(C, registered, owned, queued) ==
    /\ connections' = [c \in Connections |-> IF c \in C THEN "closed" ELSE connections[c]]
    /\ subs' = {s \in registered : s.connection \notin C}
    /\ own' = [c \in Connections |-> IF c \in C THEN {} ELSE owned[c]]
    /\ frames' = [c \in Connections |-> IF c \in C THEN 0 ELSE queued[c]]

(* send, for the one frame that answers a request: it says nothing on a connection that
   is closed, and closes one whose queue is full. *)
Reply(c, registered, owned) ==
    IF c \in Open /\ frames[c] < MaxFrames
    THEN Leave({}, registered, owned, [frames EXCEPT ![c] = @ + 1])
    ELSE Leave({c} \cap Open, registered, owned, frames)

(* A frame has been handed to the network. *)
Flush(c) ==
    /\ c \in Open /\ frames[c] > 0
    /\ frames' = [frames EXCEPT ![c] = @ - 1]
    /\ UNCHANGED <<phase, inbox, dedup, connections, own, subs, generation, requests, sent>>
----------------------------------------------------------------------------
(* WebhookWorkerPipeline.process *)

(* The endpoint and its connection are as they were, and the payload has been read ... *)
Parse(i) ==
    /\ stage[i] = "reading"
    /\ IF i \in aborted \/ Carries[i] = {}
       THEN Finished(i) /\ UNCHANGED left
       ELSE /\ stage' = [stage EXCEPT ![i] = "resolving"]
            /\ left' = [left EXCEPT ![i] = Carries[i]]
            /\ UNCHANGED bytes
    /\ UNCHANGED <<phase, queue, expired, aborted, cap, present, dedup, transport, generation,
                   requests, sent>>

(* ... or not, or an await throws. *)
Discard(i) ==
    /\ i \in InFlight
    /\ Finished(i)
    /\ UNCHANGED <<phase, queue, expired, aborted, cap, left, present, dedup, transport, generation,
                   requests, sent>>

(* The next candidate, unless the request has been aborted since. *)
Proceed(i, e) ==
    /\ left' = [left EXCEPT ![i] = @ \ {e}]
    /\ IF i \in aborted \/ left[i] = {e}
       THEN Finished(i)
       ELSE UNCHANGED <<stage, bytes>>
    /\ UNCHANGED <<phase, queue, expired, aborted, cap, present, generation, requests>>

(* resolveProjectIssueSourceScope finds no Project that is in use. *)
Unresolved(i, e) ==
    /\ stage[i] = "resolving" /\ e \in left[i]
    /\ Proceed(i, e)
    /\ UNCHANGED <<dedup, transport, sent>>

(* EventRouter.dispatch: the subscriptions that are older than the request. *)

(* Mutant: every subscription there is. *)
MatchingNow(i, e) == {s \in subs : s.topic = About[e]}

Matching(i, e) == {s \in subs : s.generation <= cap[i] /\ s.topic = About[e]}

(* Frames go out in the order of the subscriptions until a queue is full. *)
Before(s, all) ==
    Cardinality({t \in all : t.connection = s.connection /\ t.generation < s.generation})

Reached(all) ==
    {s \in all : s.connection \in Open /\ frames[s.connection] + Before(s, all) < MaxFrames}

Of(c, all) == Cardinality({s \in all : s.connection = c})

Dispatch(i, e) ==
    LET all == Matching(i, e)
    IN  /\ Leave({c \in Open : frames[c] + Of(c, all) > MaxFrames}, subs, own,
                 [c \in Connections |-> frames[c] + Of(c, Reached(all))])
        /\ sent' = sent \cup {[generation |-> s.generation, event |-> e, item |-> i] :
                                 s \in Reached(all)}

(* Mutant: the table is only looked at for room. *)
FreshIfRoom(e) == Cardinality(dedup \cup {e}) <= MaxKeys

Fresh(e) == e \notin dedup /\ Cardinality(dedup) < MaxKeys

(* The key is reserved whether the request has been aborted or not, and kept. *)
Resolve(i, e) ==
    /\ stage[i] = "resolving" /\ e \in left[i]
    /\ Proceed(i, e)
    /\ IF Fresh(e)
       THEN /\ dedup' = dedup \cup {e}
            /\ IF i \in aborted THEN UNCHANGED <<transport, sent>> ELSE Dispatch(i, e)
       ELSE UNCHANGED <<dedup, transport, sent>>

(* EVENT_DEDUP_TTL_MS pass. *)
Lapse(e) ==
    /\ e \in dedup
    /\ dedup' = dedup \ {e}
    /\ sent' = {d \in sent : d.event # e}
    /\ UNCHANGED <<phase, inbox, transport, generation, requests>>
----------------------------------------------------------------------------
(* EventWsTransport *)

(* handleUpgrade, up to the authorization ... *)
Upgrade(c) ==
    /\ phase = "up"
    /\ connections[c] = "new" /\ Cardinality(Open) < MaxConnections
    /\ connections' = [connections EXCEPT ![c] = "authorizing"]
    /\ UNCHANGED <<phase, inbox, dedup, frames, own, subs, generation, requests, sent>>

(* Mutant: the limit of the session was looked at before. *)
AdmissibleBefore(c) == TRUE

Admissible(c) ==
    Cardinality({d \in Open : SessionOf[d] = SessionOf[c]}) < MaxPerSession

(* ... and after it; the hello is the first frame. *)
Register(c) ==
    /\ phase = "up"
    /\ connections[c] = "authorizing" /\ Admissible(c)
    /\ connections' = [connections EXCEPT ![c] = "open"]
    /\ frames' = [frames EXCEPT ![c] = 1]
    /\ UNCHANGED <<phase, inbox, dedup, own, subs, generation, requests, sent>>

Reject(c) ==
    /\ connections[c] = "authorizing"
    /\ connections' = [connections EXCEPT ![c] = "closed"]
    /\ UNCHANGED <<phase, inbox, dedup, frames, own, subs, generation, requests, sent>>

(* The peer closes, fails or has not answered the last ping, or broke a rule of the
   protocol that closes the connection. *)
Disconnect(c) ==
    /\ c \in Open
    /\ Leave({c}, subs, own, frames)
    /\ UNCHANGED <<phase, inbox, dedup, generation, requests, sent>>

(* onSubscribe, up to its awaits: the limit is looked at here and not again. *)
BeginSubscribe(r, c, id, topic) ==
    /\ requests[r] = NoRequest
    /\ c \in Open /\ generation < MaxGeneration
    /\ id \in own[c] \/ Cardinality(own[c]) < MaxSubscriptions
    /\ requests' = [requests EXCEPT ![r] = [connection |-> c, id |-> id, topic |-> topic]]
    /\ UNCHANGED <<phase, inbox, dedup, transport, generation, sent>>

(* The control frame is malformed, asks for what the catalog does not have, or for one
   subscription too many. *)
Refuse(c) ==
    /\ c \in Open
    /\ Reply(c, subs, own)
    /\ UNCHANGED <<phase, inbox, dedup, generation, requests, sent>>

SameKey(r) == {s \in subs : s.connection = requests[r].connection /\ s.id = requests[r].id}

Known(r) == SameKey(r)

(* ... and after them: EventRouter.subscribe, and the confirmation.  Whether the
   connection is still there is not asked. *)
Subscribe(r) ==
    LET q == requests[r]
        new == [connection |-> q.connection, id |-> q.id, topic |-> q.topic,
                generation |-> generation]
        conflict == \E s \in Known(r) : s.topic # q.topic
    IN  /\ q # NoRequest
        /\ Reply(q.connection, IF Known(r) = {} THEN subs \cup {new} ELSE subs,
                 IF conflict THEN own ELSE [own EXCEPT ![q.connection] = @ \cup {q.id}])
        /\ generation' = IF Known(r) = {} THEN generation + 1 ELSE generation
        /\ requests' = [requests EXCEPT ![r] = NoRequest]
        /\ UNCHANGED <<phase, inbox, dedup, sent>>

(* The Team, the membership or the Project is gone, or an await throws. *)
Forbid(r) ==
    /\ requests[r] # NoRequest
    /\ Reply(requests[r].connection, subs, own)
    /\ requests' = [requests EXCEPT ![r] = NoRequest]
    /\ UNCHANGED <<phase, inbox, dedup, generation, sent>>

Unsubscribe(c, id) ==
    /\ c \in Open
    /\ Reply(c, {s \in subs : ~(s.connection = c /\ s.id = id)}, [own EXCEPT ![c] = @ \ {id}])
    /\ UNCHANGED <<phase, inbox, dedup, generation, requests, sent>>
----------------------------------------------------------------------------
(* The shutdown of server.ts: no more admissions and no connections, then, when the
   WebSocket server has closed, no inbox and no table. *)
Close ==
    /\ phase = "up"
    /\ phase' = "closing"
    /\ Leave(Open, subs, own, frames)
    /\ UNCHANGED <<inbox, dedup, generation, requests, sent>>

Stop ==
    /\ phase = "closing"
    /\ phase' = "stopped"
    /\ stage' = [i \in Items |-> IF i \in Queued THEN "done" ELSE stage[i]]
    /\ queue' = <<>>
    /\ bytes' = bytes - SizeOf(Queued)
    /\ aborted' = aborted \cup Held
    /\ dedup' = {} /\ sent' = {}
    /\ UNCHANGED <<expired, cap, left, present, transport, generation, requests>>
----------------------------------------------------------------------------
EventsNext ==
    \/ Drain \/ Sweep \/ Close \/ Stop
    \/ \E i \in Items :
          \/ Admit(i) \/ Expire(i) \/ Parse(i) \/ Discard(i)
          \/ \E e \in Events : Unresolved(i, e) \/ Resolve(i, e)
    \/ \E e \in Events : Lapse(e)
    \/ \E c \in Connections :
          \/ Upgrade(c) \/ Register(c) \/ Reject(c) \/ Disconnect(c) \/ Flush(c) \/ Refuse(c)
          \/ \E id \in Ids :
                \/ Unsubscribe(c, id)
                \/ \E r \in Requests, topic \in Topics : BeginSubscribe(r, c, id, topic)
    \/ \E r \in Requests : Subscribe(r) \/ Forbid(r)

EventsSpec == EventsInit /\ [][EventsNext]_vars
----------------------------------------------------------------------------
EventsTypeOK ==
    /\ phase \in {"up", "closing", "stopped"}
    /\ stage \in [Items -> Stages]
    /\ queue \in Seq(Items) /\ bytes \in Nat
    /\ expired \subseteq Items /\ aborted \subseteq Items
    /\ cap \in [Items -> Nat] /\ present \in [Items -> SUBSET Nat]
    /\ left \in [Items -> SUBSET Events]
    /\ dedup \subseteq Events
    /\ connections \in [Connections -> {"new", "authorizing", "open", "closed"}]
    /\ frames \in [Connections -> 0..MaxFrames]
    /\ own \in [Connections -> SUBSET Ids]
    /\ subs \subseteq Subscription /\ generation \in Nat
    /\ requests \in [Requests -> [connection : Connections, id : Ids, topic : Topics]
                                   \cup {NoRequest}]
    /\ sent \subseteq Sent

(* Within the dedup window no subscription is sent an event twice, whichever requests
   carried it and however their workers overlapped. *)
DeliveredOnce ==
    \A d, f \in sent : d.event = f.event /\ d.generation = f.generation => d.item = f.item

(* An event reaches only subscriptions that were there when its request was admitted:
   neither those made while it waited nor the ones of a client that came back. *)
NoBacklog == \A d \in sent : d.generation \in present[d.item]

(* What the inbox says of itself is true, through expiry, aborts and shutdown: the bytes
   are those of the requests it holds, each waits in the queue once or has one of the
   workers, and the limits are kept. *)
InboxAccounted ==
    /\ bytes = SizeOf(Held) /\ bytes <= MaxBytes
    /\ Cardinality(Held) <= MaxItems /\ Cardinality(InFlight) <= MaxWorkers
    /\ {queue[n] : n \in DOMAIN queue} = Queued /\ Len(queue) = Cardinality(Queued)

(* The router and the open connections know of the same subscriptions, each once, and a
   session has no more connections than it may, however its upgrades overlap. *)
ConnectionsAgree ==
    /\ \A c \in Open :
          /\ own[c] = {s.id : s \in {t \in subs : t.connection = c}}
          /\ Cardinality({d \in Open : SessionOf[d] = SessionOf[c]}) <= MaxPerSession
    /\ \A s, t \in subs :
          /\ s.connection = t.connection /\ s.id = t.id => s = t
          /\ s.generation = t.generation => s = t
=============================================================================
