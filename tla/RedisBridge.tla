----------------------------- MODULE RedisBridge -----------------------------
(***************************************************************************)
(* Several processes whose event buses are bridged over one Redis Pub/Sub  *)
(* channel: EventBusPlugin.load() wires the handlers and then initialises  *)
(* the bridge; RedisBridge.publish() calls the local handlers and then     *)
(* forwards the event; a subscriber hands what it receives to the bus.     *)
(*                                                                         *)
(* A call of EventBus.handleEvent() is one entry of `handled` here, module *)
(* EventBus says what it does.  Redis and the ioredis clients are external:*)
(* a client sends its commands in order, keeps them until they are         *)
(* answered and sends them again after a reconnection; Redis hands a       *)
(* message to the subscribers of the moment and keeps nothing.             *)
(***************************************************************************)
EXTENDS FiniteSets, Integers, Sequences, SequencesExt

CONSTANTS
  Process,     \* the processes that share the channel
  EventType,   \* names of event classes
  Event,       \* event objects
  TypeOf,      \* TypeOf[e]: the class of e
  Source,      \* Source[e]: the process that publishes e
  Deployments, \* [mode, decorated]: a mode and the types of the @EventHandlers per process
  MaxResets,   \* bound: reconnections of the publishing clients
  MaxDrops     \* bound: connections lost by the subscribing clients

Modes == {"publisher", "subscriber", "both"}

ASSUME BridgeAssumption ==
  /\ TypeOf \in [Event -> EventType]
  /\ Source \in [Event -> Process]
  /\ Deployments \subseteq
       [mode : [Process -> Modes], decorated : [Process -> SUBSET EventType]]
  /\ MaxResets \in Nat /\ MaxDrops \in Nat

VARIABLES
  mode,        \* mode[p]: the mode of p's bridge
  decorated,   \* decorated[p]: event types with an @EventHandler in p
  load,        \* load[p]: EventBusPlugin.load() and the init() it awaits
  pubClient,   \* pubClient[p]: whether the client exists
  wired,       \* wired[p]: types the local publisher has a callback for
  inbound,     \* inbound[p]: keys of inboundHandlers
  registry,    \* registry[p]: types the message listener can deserialize
  listening,   \* listening[p]: whether the message listener is attached
  subscribed,  \* subscribed[p]: whether Redis has p's subscription
  outbox,      \* outbox[p]: events whose local delivery publish() awaits
  unanswered,  \* unanswered[p]: PUBLISH commands without answer
  processed,   \* processed[p]: how many of them Redis has executed
  inbox,       \* inbox[p]: messages on their way to p
  result,      \* result[e]: how publish(e) ended
  publishedBy, \* history: the events p published, in order
  handled,     \* history: the calls of handleEvent() in p, in order
  resets,      \* history: reconnections of p's publishing client
  drops,       \* history: connections lost by subscribers
  due          \* history: events p must still handle

pluginVars == <<mode, decorated, load, wired, inbound, registry>>
clientVars == <<pubClient, listening, outbox, unanswered>>
redisVars == <<subscribed, processed, inbox, resets, drops>>
historyVars == <<publishedBy, handled, due>>
vars == <<pluginVars, clientVars, redisVars, result, historyVars>>

IsPublisher(p) == mode[p] \in {"publisher", "both"}

IsSubscriber(p) == mode[p] \in {"subscriber", "both"}
-----------------------------------------------------------------------------

\* bus.subscribe() outside the plugin, at any time; the bus subscribes to
\* its publisher once per type.
Subscribe(p, t) ==
  /\ load[p] # "failed"
  /\ t \notin wired[p]
  /\ wired' = [wired EXCEPT ![p] = @ \cup {t}]
  /\ inbound' = [inbound EXCEPT ![p] = IF IsSubscriber(p) THEN @ \cup {t} ELSE @]
  /\ UNCHANGED <<mode, decorated, load, registry, clientVars, redisVars, result, historyVars>>

\* Mutant: a subscribing bridge does not subscribe to its local publisher.
Wire_EitherOr(p) ==
  /\ wired' = [wired EXCEPT ![p] = IF IsSubscriber(p) THEN @ ELSE @ \cup decorated[p]]
  /\ inbound' = [inbound EXCEPT ![p] = IF IsSubscriber(p) THEN @ \cup decorated[p] ELSE @]

\* The subscriptions of load().
Wire(p) ==
  /\ wired' = [wired EXCEPT ![p] = @ \cup decorated[p]]
  /\ inbound' = [inbound EXCEPT ![p] = IF IsSubscriber(p) THEN @ \cup decorated[p] ELSE @]

\* Mutant: the registry is built before the handlers are wired.
BuildRegistry_BeforeWiring(p) ==
  registry' = [registry EXCEPT ![p] = decorated[p] \cap inbound[p]]

\* activateSubscriber(): the types it can deserialize, once and for all.
BuildRegistry(p) ==
  registry' = [registry EXCEPT ![p] = decorated[p] \cap inbound'[p]]

\* Without an @EventHandler load() returns before it initialises the bridge.
LoadNothing(p) ==
  /\ load[p] = "pending"
  /\ decorated[p] = {}
  /\ load' = [load EXCEPT ![p] = "done"]
  /\ UNCHANGED <<mode, decorated, wired, inbound, registry, clientVars, redisVars,
                 result, historyVars>>

\* init() creates the clients; only a subscriber goes on to build its registry
\* and to await SUBSCRIBE.
LoadInit(p) ==
  /\ load[p] = "pending"
  /\ decorated[p] # {}
  /\ Wire(p)
  /\ pubClient' = [pubClient EXCEPT ![p] = TRUE]
  /\ IF IsSubscriber(p)
       THEN BuildRegistry(p) /\ load' = [load EXCEPT ![p] = "subscribing"]
       ELSE UNCHANGED registry /\ load' = [load EXCEPT ![p] = "done"]
  /\ UNCHANGED <<mode, decorated, listening, outbox, unanswered, redisVars, result,
                 historyVars>>

\* REDIS_URL is not set: init() throws, and the plugin is critical.
LoadFails(p) ==
  /\ load[p] = "pending"
  /\ decorated[p] # {}
  /\ Wire(p)
  /\ load' = [load EXCEPT ![p] = "failed"]
  /\ UNCHANGED <<mode, decorated, registry, clientVars, redisVars, result, historyVars>>

\* SUBSCRIBE is rejected: init() throws with both clients made.
SubscribeRejected(p) ==
  /\ load[p] = "subscribing"
  /\ load' = [load EXCEPT ![p] = "failed"]
  /\ UNCHANGED <<mode, decorated, wired, inbound, registry, clientVars, redisVars,
                 result, historyVars>>

RedisSubscribes(p) ==
  /\ load[p] = "subscribing"
  /\ load' = [load EXCEPT ![p] = "acknowledged"]
  /\ subscribed' = [subscribed EXCEPT ![p] = TRUE]
  /\ UNCHANGED <<mode, decorated, wired, inbound, registry, clientVars, processed,
                 inbox, resets, drops, result, historyVars>>

\* After the await: attach the message listener; load() is done.
Listen(p) ==
  /\ load[p] = "acknowledged"
  /\ listening' = [listening EXCEPT ![p] = TRUE]
  /\ load' = [load EXCEPT ![p] = "done"]
  /\ UNCHANGED <<mode, decorated, wired, inbound, registry, pubClient, outbox,
                 unanswered, redisVars, result, historyVars>>
-----------------------------------------------------------------------------

\* Nothing stands between p and an @EventHandler for e in q.
Reachable(p, q, e) ==
  /\ IsPublisher(p) /\ pubClient[p]
  /\ listening[q] /\ subscribed[q] /\ TypeOf[e] \in decorated[q]

\* publish(): the local handlers are called at once; also before load(), when
\* a bootstrap publishes.
Publish(e) ==
  LET p == Source[e]
  IN  /\ load[p] # "failed"
      /\ result[e] = "none"
      /\ publishedBy' = [publishedBy EXCEPT ![p] = Append(@, e)]
      /\ handled' = [handled EXCEPT ![p] = IF TypeOf[e] \in wired[p] THEN Append(@, <<e, "local">>) ELSE @]
      /\ outbox' = [outbox EXCEPT ![p] = IF IsPublisher(p) THEN Append(@, e) ELSE @]
      /\ result' = [result EXCEPT ![e] = IF IsPublisher(p) THEN "pending" ELSE "ok"]
      /\ due' = [q \in Process |-> IF Reachable(p, q, e) THEN due[q] \cup {e} ELSE due[q]]
      /\ UNCHANGED <<pluginVars, pubClient, listening, unanswered, redisVars>>

\* Mutant: events are forwarded in any order.
Forward_AnyOrder(p) ==
  /\ pubClient[p]
  /\ \E i \in DOMAIN outbox[p] :
       /\ unanswered' = [unanswered EXCEPT ![p] = Append(@, outbox[p][i])]
       /\ outbox' = [outbox EXCEPT ![p] = RemoveAt(@, i)]
  /\ UNCHANGED <<pluginVars, pubClient, listening, redisVars, result, historyVars>>

\* After await local.publish(): the client sends the event.
Forward(p) ==
  /\ pubClient[p]
  /\ outbox[p] # <<>>
  /\ unanswered' = [unanswered EXCEPT ![p] = Append(@, Head(outbox[p]))]
  /\ outbox' = [outbox EXCEPT ![p] = Tail(@)]
  /\ UNCHANGED <<pluginVars, pubClient, listening, redisVars, result, historyVars>>

\* There is no client (pubClient! is undefined), or the event has no JSON form:
\* publish() rejects, its local handlers have run.
ForwardThrows(p) ==
  /\ outbox[p] # <<>>
  /\ result' = [result EXCEPT ![Head(outbox[p])] = "rejected"]
  /\ outbox' = [outbox EXCEPT ![p] = Tail(@)]
  /\ due' = [q \in Process |-> due[q] \ {Head(outbox[p])}]
  /\ UNCHANGED <<pluginVars, pubClient, listening, unanswered, redisVars, publishedBy,
                 handled>>

\* deserialize() knows the class of the message.
Deserializes(p, e) == TypeOf[e] \in registry[p]

\* Mutant: what arrives is also published on the local publisher.
Receive_AlsoLocal(p) ==
  /\ inbox[p] # <<>>
  /\ inbox' = [inbox EXCEPT ![p] = Tail(@)]
  /\ LET e == Head(inbox[p])
     IN  IF listening[p] /\ Deserializes(p, e)
           THEN /\ handled' = [handled EXCEPT ![p] = Append(@, <<e, "redis">>) \o
                                 IF TypeOf[e] \in wired[p] THEN <<<<e, "local">>>> ELSE <<>>]
                /\ due' = [due EXCEPT ![p] = @ \ {e}]
           ELSE UNCHANGED <<handled, due>>
  /\ UNCHANGED <<pluginVars, clientVars, subscribed, processed, resets, drops,
                 result, publishedBy>>

\* A message reaches p: the listener hands it to the bus, unless there is no
\* listener yet or its type is not in the registry.
Receive(p) ==
  /\ inbox[p] # <<>>
  /\ inbox' = [inbox EXCEPT ![p] = Tail(@)]
  /\ LET e == Head(inbox[p])
     IN  IF listening[p] /\ Deserializes(p, e)
           THEN /\ handled' = [handled EXCEPT ![p] = Append(@, <<e, "redis">>)]
                /\ due' = [due EXCEPT ![p] = @ \ {e}]
           ELSE UNCHANGED <<handled, due>>
  /\ UNCHANGED <<pluginVars, clientVars, subscribed, processed, resets, drops,
                 result, publishedBy>>
-----------------------------------------------------------------------------

\* Redis executes the next PUBLISH of p.
RedisPublishes(p) ==
  /\ processed[p] < Len(unanswered[p])
  /\ LET e == unanswered[p][processed[p] + 1]
     IN  inbox' = [q \in Process |-> IF subscribed[q] THEN Append(inbox[q], e) ELSE inbox[q]]
  /\ processed' = [processed EXCEPT ![p] = @ + 1]
  /\ UNCHANGED <<pluginVars, clientVars, subscribed, resets, drops, result,
                 historyVars>>

RedisAnswers(p) ==
  /\ processed[p] > 0
  /\ result' = [result EXCEPT ![Head(unanswered[p])] = "ok"]
  /\ unanswered' = [unanswered EXCEPT ![p] = Tail(@)]
  /\ processed' = [processed EXCEPT ![p] = @ - 1]
  /\ UNCHANGED <<pluginVars, pubClient, listening, outbox, subscribed, inbox,
                 resets, drops, historyVars>>

\* The publishing client reconnects and sends its commands again, or gives
\* up after its retries and fails them.
PublisherResets(p) ==
  /\ unanswered[p] # <<>>
  /\ resets[p] < MaxResets
  /\ resets' = [resets EXCEPT ![p] = @ + 1]
  /\ processed' = [processed EXCEPT ![p] = 0]
  /\ \/ UNCHANGED <<unanswered, result, due>>
     \/ /\ unanswered' = [unanswered EXCEPT ![p] = <<>>]
        /\ result' = [e \in Event |-> IF Contains(unanswered[p], e) THEN "rejected" ELSE result[e]]
        /\ due' = [q \in Process |-> due[q] \ ToSet(unanswered[p])]
  /\ UNCHANGED <<pluginVars, pubClient, listening, outbox, subscribed, inbox, drops,
                 publishedBy, handled>>

\* The subscribing client loses its connection and what is under way.
SubscriberDrops(p) ==
  /\ subscribed[p]
  /\ drops < MaxDrops
  /\ drops' = drops + 1
  /\ subscribed' = [subscribed EXCEPT ![p] = FALSE]
  /\ inbox' = [inbox EXCEPT ![p] = <<>>]
  /\ due' = [due EXCEPT ![p] = {}]
  /\ UNCHANGED <<pluginVars, clientVars, processed, resets, result, publishedBy, handled>>

\* It reconnects and subscribes again.
SubscriberReturns(p) ==
  /\ ~ subscribed[p]
  /\ load[p] \in {"acknowledged", "done"}
  /\ IsSubscriber(p) /\ pubClient[p]
  /\ subscribed' = [subscribed EXCEPT ![p] = TRUE]
  /\ UNCHANGED <<pluginVars, clientVars, processed, inbox, resets, drops, result, historyVars>>
-----------------------------------------------------------------------------

Init ==
  /\ \E d \in Deployments : mode = d.mode /\ decorated = d.decorated
  /\ load = [p \in Process |-> "pending"]
  /\ pubClient = [p \in Process |-> FALSE]
  /\ wired = [p \in Process |-> {}]
  /\ inbound = [p \in Process |-> {}]
  /\ registry = [p \in Process |-> {}]
  /\ listening = [p \in Process |-> FALSE]
  /\ subscribed = [p \in Process |-> FALSE]
  /\ outbox = [p \in Process |-> <<>>]
  /\ unanswered = [p \in Process |-> <<>>]
  /\ processed = [p \in Process |-> 0]
  /\ inbox = [p \in Process |-> <<>>]
  /\ result = [e \in Event |-> "none"]
  /\ publishedBy = [p \in Process |-> <<>>]
  /\ handled = [p \in Process |-> <<>>]
  /\ resets = [p \in Process |-> 0]
  /\ drops = 0
  /\ due = [p \in Process |-> {}]

Next ==
  \/ \E p \in Process, t \in EventType : Subscribe(p, t)
  \/ \E p \in Process : LoadNothing(p) \/ LoadInit(p) \/ LoadFails(p)
  \/ \E p \in Process : RedisSubscribes(p) \/ SubscribeRejected(p) \/ Listen(p)
  \/ \E e \in Event : Publish(e)
  \/ \E p \in Process : Forward(p) \/ ForwardThrows(p) \/ Receive(p)
  \/ \E p \in Process : RedisPublishes(p) \/ RedisAnswers(p) \/ PublisherResets(p)
  \/ \E p \in Process : SubscriberDrops(p) \/ SubscriberReturns(p)

(***************************************************************************)
(* Fairness: the event loop of a process goes on, with the promises that   *)
(* settled and the messages it got, and Redis serves its clients.          *)
(***************************************************************************)
Fairness ==
  \A p \in Process :
    /\ WF_vars(Forward(p) \/ ForwardThrows(p))
    /\ WF_vars(RedisPublishes(p))
    /\ WF_vars(Receive(p))

Spec == Init /\ [][Next]_vars /\ Fairness
-----------------------------------------------------------------------------

Via == {"local", "redis"}

(***************************************************************************)
(* Types; Redis never has executed more commands than it was sent.         *)
(***************************************************************************)
TypeOK ==
  /\ [mode |-> mode, decorated |-> decorated] \in Deployments
  /\ load \in [Process -> {"pending", "subscribing", "acknowledged", "done", "failed"}]
  /\ pubClient \in [Process -> BOOLEAN]
  /\ wired \in [Process -> SUBSET EventType]
  /\ \A p \in Process : registry[p] \subseteq inbound[p] /\ inbound[p] \subseteq wired[p]
  /\ listening \in [Process -> BOOLEAN]
  /\ subscribed \in [Process -> BOOLEAN]
  /\ outbox \in [Process -> Seq(Event)]
  /\ unanswered \in [Process -> Seq(Event)]
  /\ \A p \in Process : processed[p] \in 0 .. Len(unanswered[p])
  /\ inbox \in [Process -> Seq(Event)]
  /\ result \in [Event -> {"none", "pending", "ok", "rejected"}]
  /\ publishedBy \in [Process -> Seq(Event)]
  /\ handled \in [Process -> Seq(Event \X Via)]
  /\ resets \in [Process -> 0 .. MaxResets]
  /\ drops \in 0 .. MaxDrops
  /\ due \in [Process -> SUBSET Event]

Copies(p, e, via) == Cardinality({i \in DOMAIN handled[p] : handled[p][i] = <<e, via>>})

(***************************************************************************)
(* An event is handled in its own process once at most through the local   *)
(* publisher.  It crosses to a process only from a publishing bridge to a  *)
(* subscribing one, once and once more for each time the client had to     *)
(* send it again.  (A process in mode "both" gets its own events back, so  *)
(* that its handlers see them twice.)                                      *)
(***************************************************************************)
CopiesBounded ==
  \A p \in Process, e \in Event :
    /\ Copies(p, e, "local") <= IF Source[e] = p THEN 1 ELSE 0
    /\ Copies(p, e, "redis") <=
         IF IsPublisher(Source[e]) /\ IsSubscriber(p) THEN 1 + resets[Source[e]] ELSE 0

(***************************************************************************)
(* Events of one process are handled elsewhere in the order in which they  *)
(* were published, losses aside, as long as its client did not reconnect.  *)
(***************************************************************************)
InOrder ==
  \A p, q \in Process : resets[p] = 0 =>
    \A i, j \in DOMAIN handled[q] : \A k, l \in DOMAIN publishedBy[p] :
      /\ handled[q][i] = <<publishedBy[p][k], "redis">>
      /\ handled[q][j] = <<publishedBy[p][l], "redis">>
      /\ i < j
      => k < l

(***************************************************************************)
(* An event published by a bridge that is up is handled in every process   *)
(* that listens and has an @EventHandler for it, unless a connection is    *)
(* lost on the way or the event cannot be serialized.                      *)
(***************************************************************************)
ReachesSubscribers ==
  \A p \in Process, e \in Event : e \in due[p] ~> e \notin due[p]
=============================================================================
