-------------------------- MODULE RedisBridgeProofs --------------------------
(***************************************************************************)
(* The safety invariants of RedisBridge, for any number of processes and   *)
(* events, any deployment and any number of lost connections.              *)
(***************************************************************************)
EXTENDS RedisBridge, FunctionTheorems, SequenceTheorems, FiniteSetTheorems, TLAPS

Loads == {"pending", "subscribing", "acknowledged", "done", "failed"}
Results == {"none", "pending", "ok", "rejected"}

Published(e) == result[e] # "none"

\* place[e]: the position of e among the events its process published.
place == [e \in Event |->
  CHOOSE k \in DOMAIN publishedBy[Source[e]] : publishedBy[Source[e]][k] = e]

\* line[p]: the events of p under way, those sent and those to be sent.
line == [p \in Process |-> unanswered[p] \o outbox[p]]

\* waiting[p]: those that Redis has yet to execute a PUBLISH for.
waiting == [p \in Process |-> {line[p][k] : k \in (processed[p] + 1) .. Len(line[p])}]

\* Events that the message listener of q has handed to the bus.
Redis(q, i, e) == i \in DOMAIN handled[q] /\ handled[q][i] = <<e, "redis">>
-----------------------------------------------------------------------------

PluginTyped ==
  /\ [mode |-> mode, decorated |-> decorated] \in Deployments
  /\ load \in [Process -> Loads]
  /\ pubClient \in [Process -> BOOLEAN]
  /\ wired \in [Process -> SUBSET EventType]
  /\ inbound \in [Process -> SUBSET EventType]
  /\ registry \in [Process -> SUBSET EventType]
  /\ \A p \in Process : registry[p] \subseteq inbound[p] /\ inbound[p] \subseteq wired[p]
  /\ listening \in [Process -> BOOLEAN]
  /\ subscribed \in [Process -> BOOLEAN]

TrafficTyped ==
  /\ outbox \in [Process -> Seq(Event)]
  /\ unanswered \in [Process -> Seq(Event)]
  /\ processed \in [Process -> Nat]
  /\ \A p \in Process : processed[p] <= Len(unanswered[p])
  /\ inbox \in [Process -> Seq(Event)]
  /\ result \in [Event -> Results]
  /\ publishedBy \in [Process -> Seq(Event)]
  /\ handled \in [Process -> Seq(Event \X Via)]
  /\ resets \in [Process -> Nat]
  /\ \A p \in Process : resets[p] <= MaxResets
  /\ drops \in Nat
  /\ drops <= MaxDrops
  /\ due \in [Process -> SUBSET Event]

\* Only a subscribing bridge subscribes.
SubscribersOnly ==
  \A q \in Process : subscribed[q] \/ load[q] \in {"subscribing", "acknowledged"} => IsSubscriber(q)

\* publishedBy is what was published, once each.
PublishedOnce ==
  /\ \A p \in Process : \A k \in DOMAIN publishedBy[p] :
       /\ Source[publishedBy[p][k]] = p /\ Published(publishedBy[p][k])
       /\ \A l \in DOMAIN publishedBy[p] : publishedBy[p][k] = publishedBy[p][l] => k = l
  /\ \A e \in Event : Published(e) =>
       \E k \in DOMAIN publishedBy[Source[e]] : publishedBy[Source[e]][k] = e

\* The events of p under way are in the order in which they were published.
Lined(p) ==
  /\ ~ pubClient[p] => unanswered[p] = <<>>
  /\ \A k \in 1 .. Len(line[p]) :
       Source[line[p][k]] = p /\ Published(line[p][k]) /\ IsPublisher(p)
  /\ \A k, l \in 1 .. Len(line[p]) : k < l => place[line[p][k]] < place[line[p][l]]

\* What reaches q was published by a publishing bridge, and q subscribes.
Crosses(q) ==
  /\ \A j \in DOMAIN inbox[q] :
       Published(inbox[q][j]) /\ IsPublisher(Source[inbox[q][j]]) /\ IsSubscriber(q)
  /\ \A e \in Event, i \in DOMAIN handled[q] : Redis(q, i, e) =>
       Published(e) /\ IsPublisher(Source[e]) /\ IsSubscriber(q)

\* What q handled from itself it published, and handled once.
HandledAtHome(q) ==
  \A e \in Event : \A i \in DOMAIN handled[q] : handled[q][i] = <<e, "local">> =>
    /\ Source[e] = q /\ Published(e)
    /\ \A j \in DOMAIN handled[q] : handled[q][j] = <<e, "local">> => i = j

Typed == PluginTyped /\ TrafficTyped /\ SubscribersOnly

AllLined == \A p \in Process : Lined(p)

BridgeInv ==
  /\ Typed /\ PublishedOnce /\ AllLined
  /\ \A q \in Process : Crosses(q) /\ HandledAtHome(q)

\* Without a reconnection, the events of p are in order in q: those handled,
\* then those on their way, then those that wait.
Arrives(p, q) ==
  /\ \A d, e \in Event, i, j \in DOMAIN handled[q] :
       Source[d] = p /\ Source[e] = p /\ Redis(q, i, d) /\ Redis(q, j, e) /\ i < j => place[d] < place[e]
  /\ \A d \in Event, i \in DOMAIN handled[q], j \in DOMAIN inbox[q] :
       Source[d] = p /\ Redis(q, i, d) /\ Source[inbox[q][j]] = p => place[d] < place[inbox[q][j]]
  /\ \A i, j \in DOMAIN inbox[q] :
       Source[inbox[q][i]] = p /\ Source[inbox[q][j]] = p /\ i < j => place[inbox[q][i]] < place[inbox[q][j]]
  /\ \A d \in Event, i \in DOMAIN handled[q], e \in waiting[p] :
       Source[d] = p /\ Redis(q, i, d) => place[d] < place[e]
  /\ \A j \in DOMAIN inbox[q], e \in waiting[p] :
       Source[inbox[q][j]] = p => place[inbox[q][j]] < place[e]

ArrivalInv == \A p, q \in Process : resets[p] = 0 => Arrives(p, q)

Count(s, x) == Cardinality({i \in DOMAIN s : s[i] = x})

\* A PUBLISH of e that Redis may still execute without a reconnection.
Owed(e) == IF e \in waiting[Source[e]] \/ ~ Published(e) THEN 1 ELSE 0

CopiesInv ==
  \A q \in Process, e \in Event :
    Count(handled[q], <<e, "redis">>) + Count(inbox[q], e) + Owed(e) <= 1 + resets[Source[e]]
-----------------------------------------------------------------------------

(***************************************************************************)
(* Types.                                                                  *)
(***************************************************************************)
LEMMA InitTyped == Init => Typed
<1> SUFFICES ASSUME Init PROVE Typed
  OBVIOUS
<1>1. [mode |-> mode, decorated |-> decorated] \in Deployments
  <2>1. PICK d \in Deployments : mode = d.mode /\ decorated = d.decorated
    BY DEF Init
  <2>2. d \in [mode : [Process -> Modes], decorated : [Process -> SUBSET EventType]]
    BY BridgeAssumption
  <2>3. d = [mode |-> d.mode, decorated |-> d.decorated]
    BY <2>2
  <2> QED BY <2>1, <2>3
<1>2. PluginTyped
  BY <1>1 DEF Init, PluginTyped, Loads
<1>3. TrafficTyped
  BY BridgeAssumption DEF Init, TrafficTyped, Results
<1>4. SubscribersOnly
  BY DEF Init, SubscribersOnly
<1> QED BY <1>2, <1>3, <1>4 DEF Typed

LEMMA DeploymentTyped ==
  ASSUME PluginTyped
  PROVE  mode \in [Process -> Modes] /\ decorated \in [Process -> SUBSET EventType]
<1>1. [mode |-> mode, decorated |-> decorated] \in
        [mode : [Process -> Modes], decorated : [Process -> SUBSET EventType]]
  BY BridgeAssumption DEF PluginTyped
<1> QED BY <1>1

LEMMA ElementsTyped ==
  ASSUME TrafficTyped, NEW p \in Process
  PROVE  /\ \A k \in DOMAIN publishedBy[p] : publishedBy[p][k] \in Event
         /\ \A k \in DOMAIN outbox[p] : outbox[p][k] \in Event
         /\ \A k \in DOMAIN unanswered[p] : unanswered[p][k] \in Event
         /\ \A k \in DOMAIN inbox[p] : inbox[p][k] \in Event
BY DEF TrafficTyped

\* The steps of EventBusPlugin.load() and of subscribe().
LEMMA LoadTyped ==
  ASSUME Typed, NEW p \in Process,
         \/ \E t \in EventType : Subscribe(p, t)
         \/ LoadNothing(p) \/ LoadInit(p) \/ LoadFails(p) \/ RedisSubscribes(p) \/ SubscribeRejected(p) \/ Listen(p)
  PROVE  /\ Typed' /\ UNCHANGED mode
         /\ UNCHANGED <<outbox, unanswered, processed, inbox, resets, result, historyVars>>
<1>1. /\ decorated[p] \subseteq EventType
      /\ UNCHANGED <<outbox, unanswered, processed, inbox, resets, drops, result, historyVars>>
      /\ UNCHANGED <<mode, decorated>>
  BY DeploymentTyped DEF Typed, Subscribe, LoadNothing, LoadInit, LoadFails, RedisSubscribes, SubscribeRejected, Listen,
                         clientVars, redisVars
<1>2. TrafficTyped'
  BY <1>1 DEF Typed, TrafficTyped, historyVars
<1>3. ASSUME NEW t \in EventType, Subscribe(p, t)
      PROVE  PluginTyped' /\ SubscribersOnly'
  BY <1>3 DEF Typed, PluginTyped, SubscribersOnly, Subscribe, IsSubscriber, clientVars, redisVars
<1>4. CASE LoadNothing(p)
  BY <1>2, <1>4, <1>1 DEF Typed, PluginTyped, SubscribersOnly, LoadNothing, Loads, IsSubscriber, clientVars, redisVars
<1>5. CASE LoadInit(p)
  <2>1. PluginTyped'
    BY <1>1, <1>5 DEF Typed, PluginTyped, LoadInit, Wire, BuildRegistry, Loads, redisVars
  <2>2. SubscribersOnly'
    BY <1>5 DEF Typed, PluginTyped, SubscribersOnly, LoadInit, IsSubscriber, redisVars
  <2> QED BY <1>1, <1>2, <2>1, <2>2 DEF Typed
<1>6. CASE LoadFails(p)
  <2>1. PluginTyped'
    BY <1>1, <1>6 DEF Typed, PluginTyped, LoadFails, Wire, Loads, clientVars, redisVars
  <2>2. SubscribersOnly'
    BY <1>6 DEF Typed, PluginTyped, SubscribersOnly, LoadFails, IsSubscriber, redisVars
  <2> QED BY <1>1, <1>2, <2>1, <2>2 DEF Typed
<1>7. CASE RedisSubscribes(p)
  BY <1>1, <1>2, <1>7 DEF Typed, PluginTyped, SubscribersOnly, RedisSubscribes, Loads, IsSubscriber, clientVars
<1>8. CASE Listen(p)
  BY <1>1, <1>2, <1>8 DEF Typed, PluginTyped, SubscribersOnly, Listen, Loads, IsSubscriber, redisVars
<1>9. CASE SubscribeRejected(p)
  BY <1>1, <1>2, <1>9 DEF Typed, PluginTyped, SubscribersOnly, SubscribeRejected, Loads, IsSubscriber, clientVars, redisVars
<1> QED BY <1>1, <1>2, <1>3, <1>4, <1>5, <1>6, <1>7, <1>8, <1>9 DEF Typed

LEMMA TrafficKeepsPlugin ==
  ASSUME Typed, UNCHANGED <<pluginVars, pubClient, listening>>,
         \/ UNCHANGED subscribed
         \/ \E p \in Process : /\ subscribed' = [subscribed EXCEPT ![p] = FALSE]
         \/ \E p \in Process : /\ subscribed' = [subscribed EXCEPT ![p] = TRUE]
                              /\ IsSubscriber(p)
  PROVE  PluginTyped' /\ SubscribersOnly' /\ UNCHANGED mode
<1>1. PluginTyped'
  BY DEF Typed, PluginTyped, pluginVars
<1>2. SubscribersOnly'
  BY DEF Typed, PluginTyped, SubscribersOnly, IsSubscriber, pluginVars
<1> QED BY <1>1, <1>2 DEF pluginVars
-----------------------------------------------------------------------------

(***************************************************************************)
(* Places.                                                                 *)
(***************************************************************************)
LEMMA PlaceOf ==
  ASSUME PublishedOnce, NEW e \in Event, Published(e)
  PROVE  /\ place[e] \in DOMAIN publishedBy[Source[e]]
         /\ publishedBy[Source[e]][place[e]] = e
BY DEF PublishedOnce, place

LEMMA PlaceIs ==
  ASSUME PublishedOnce, NEW p \in Process, NEW k \in DOMAIN publishedBy[p], publishedBy[p][k] \in Event
  PROVE  place[publishedBy[p][k]] = k
<1> DEFINE e == publishedBy[p][k]
<1>1. Source[e] = p /\ Published(e)
  BY DEF PublishedOnce
<1>2. place[e] \in DOMAIN publishedBy[p] /\ publishedBy[p][place[e]] = e
  BY <1>1, PlaceOf
<1> QED BY <1>2 DEF PublishedOnce

\* A published event stays published, at its place.
PlacesKept ==
  \A d \in Event : Published(d) => result'[d] # "none" /\ place'[d] = place[d]

\* Steps other than Publish: no event is published.
LEMMA NothingPublished ==
  ASSUME TrafficTyped, PublishedOnce, UNCHANGED publishedBy,
         \A d \in Event : result'[d] # "none" <=> result[d] # "none"
  PROVE  PublishedOnce' /\ PlacesKept /\ place' = place
<1>1. place' = place
  BY DEF place
<1>2. PlacesKept
  BY <1>1 DEF PlacesKept, Published
<1>3. ASSUME NEW p \in Process, NEW k \in DOMAIN publishedBy[p]
      PROVE  Source[publishedBy[p][k]] = p /\ result'[publishedBy[p][k]] # "none"
  BY DEF TrafficTyped, PublishedOnce, Published
<1>4. PublishedOnce'
  BY <1>3 DEF PublishedOnce, Published
<1> QED BY <1>1, <1>2, <1>4

LEMMA PublishTyped ==
  ASSUME Typed, NEW e \in Event, Publish(e)
  PROVE  /\ Typed' /\ UNCHANGED <<mode, unanswered, processed, inbox, resets>>
         /\ Source[e] \in Process /\ result[e] = "none" /\ result'[e] # "none"
         /\ \A d \in Event \ {e} : result'[d] = result[d]
<1> DEFINE p == Source[e]
<1>1. p \in Process
  BY BridgeAssumption
<1>2. /\ result[e] = "none"
      /\ publishedBy' = [publishedBy EXCEPT ![p] = Append(@, e)]
      /\ handled' = [handled EXCEPT ![p] = IF TypeOf[e] \in wired[p] THEN Append(@, <<e, "local">>) ELSE @]
      /\ outbox' = [outbox EXCEPT ![p] = IF IsPublisher(p) THEN Append(@, e) ELSE @]
      /\ result' = [result EXCEPT ![e] = IF IsPublisher(p) THEN "pending" ELSE "ok"]
      /\ due' = [q \in Process |-> IF Reachable(p, q, e) THEN due[q] \cup {e} ELSE due[q]]
      /\ UNCHANGED <<pluginVars, pubClient, listening, unanswered, subscribed, processed, inbox, resets, drops>>
  BY DEF Publish, redisVars
<1> HIDE DEF p
<1>3. PluginTyped' /\ SubscribersOnly' /\ UNCHANGED mode
  BY <1>2, TrafficKeepsPlugin
<1>4. handled' \in [Process -> Seq(Event \X Via)]
  <2>1. <<e, "local">> \in Event \X Via
    BY DEF Via
  <2>2. Append(handled[p], <<e, "local">>) \in Seq(Event \X Via)
    BY <1>1, <2>1 DEF Typed, TrafficTyped
  <2> QED BY <1>1, <1>2, <2>2 DEF Typed, TrafficTyped
<1>5. outbox' \in [Process -> Seq(Event)] /\ publishedBy' \in [Process -> Seq(Event)]
  BY <1>1, <1>2 DEF Typed, TrafficTyped
<1>6. /\ result' \in [Event -> Results] /\ result'[e] # "none"
      /\ \A d \in Event \ {e} : result'[d] = result[d]
  BY <1>2 DEF Typed, TrafficTyped, Results
<1>7. due' \in [Process -> SUBSET Event]
  BY <1>2 DEF Typed, TrafficTyped
<1>8. TrafficTyped'
  BY <1>2, <1>4, <1>5, <1>6, <1>7 DEF Typed, TrafficTyped
<1> QED BY <1>1, <1>2, <1>3, <1>6, <1>8 DEF Typed, p

\* The event that is published gets the last place.
LEMMA PublishPlaces ==
  ASSUME Typed, PublishedOnce, NEW e \in Event, Publish(e)
  PROVE  /\ PublishedOnce' /\ PlacesKept
         /\ \A d \in Event : Published(d) /\ Source[d] = Source[e] => place'[d] < place'[e]
<1> DEFINE p == Source[e]
<1>1. /\ p \in Process /\ Typed' /\ result[e] = "none" /\ result'[e] # "none"
      /\ \A d \in Event \ {e} : result'[d] = result[d]
  BY PublishTyped
<1>2. publishedBy' = [publishedBy EXCEPT ![p] = Append(@, e)]
  BY DEF Publish
<1> HIDE DEF p
<1>3. /\ Len(publishedBy'[p]) = Len(publishedBy[p]) + 1 /\ Len(publishedBy[p]) \in Nat
      /\ DOMAIN publishedBy[p] = 1 .. Len(publishedBy[p])
      /\ DOMAIN publishedBy'[p] = 1 .. (Len(publishedBy[p]) + 1)
      /\ \A k \in DOMAIN publishedBy[p] : publishedBy'[p][k] = publishedBy[p][k]
      /\ publishedBy'[p][Len(publishedBy[p]) + 1] = e
      /\ \A q \in Process \ {p} : publishedBy'[q] = publishedBy[q]
  <2> DEFINE s == publishedBy[p]
  <2>1. /\ s \in Seq(Event) /\ s' = Append(s, e)
        /\ \A q \in Process \ {p} : publishedBy'[q] = publishedBy[q]
    BY <1>1, <1>2 DEF Typed, TrafficTyped
  <2> HIDE DEF s
  <2>2. /\ Len(s') = Len(s) + 1 /\ Len(s) \in Nat
        /\ DOMAIN s = 1 .. Len(s) /\ DOMAIN s' = 1 .. (Len(s) + 1)
        /\ \A k \in DOMAIN s : s'[k] = s[k]
        /\ s'[Len(s) + 1] = e
    BY <2>1, AppendProperties, LenProperties
  <2> QED BY <2>1, <2>2 DEF s
<1>4. \A q \in Process : \A k \in DOMAIN publishedBy[q] :
        /\ publishedBy[q][k] \in Event /\ publishedBy[q][k] # e
        /\ Source[publishedBy[q][k]] = q /\ result[publishedBy[q][k]] # "none"
  <2>1. ASSUME NEW q \in Process, NEW k \in DOMAIN publishedBy[q]
        PROVE  /\ publishedBy[q][k] \in Event
               /\ Source[publishedBy[q][k]] = q /\ result[publishedBy[q][k]] # "none"
    BY ElementsTyped DEF Typed, PublishedOnce, Published
  <2> QED BY <1>1, <2>1
<1>5. PublishedOnce'
  <2>1. ASSUME NEW q \in Process, NEW k \in DOMAIN publishedBy'[q]
        PROVE  /\ Source[publishedBy'[q][k]] = q /\ result'[publishedBy'[q][k]] # "none"
               /\ \A l \in DOMAIN publishedBy'[q] : publishedBy'[q][k] = publishedBy'[q][l] => k = l
    <3>1. CASE q # p
      BY <1>1, <1>3, <1>4, <3>1 DEF PublishedOnce
    <3>2. CASE q = p
      <4>1. Source[e] = p
        BY DEF p
      <4>2. \A l \in DOMAIN publishedBy'[p] :
               l = Len(publishedBy[p]) + 1 \/ (l \in DOMAIN publishedBy[p] /\ publishedBy'[p][l] # e)
        BY <1>1, <1>3, <1>4
      <4>3. CASE k = Len(publishedBy[p]) + 1
        <5>1. publishedBy'[p][k] = e /\ Source[e] = p /\ result'[e] # "none"
          BY <1>1, <1>3, <4>1, <4>3
        <5>2. \A l \in DOMAIN publishedBy'[p] : publishedBy'[p][l] = e => l = k
          BY <4>2, <4>3
        <5> QED BY <3>2, <5>1, <5>2
      <4>4. CASE k \in DOMAIN publishedBy[p] /\ publishedBy'[p][k] # e
        <5>1. /\ publishedBy'[p][k] = publishedBy[p][k] /\ Source[publishedBy[p][k]] = p
              /\ result'[publishedBy[p][k]] # "none"
          BY <1>1, <1>3, <1>4, <4>4
        <5>2. ASSUME NEW l \in DOMAIN publishedBy'[p], publishedBy'[p][k] = publishedBy'[p][l]
              PROVE  k = l
          <6>1. l \in DOMAIN publishedBy[p] /\ publishedBy'[p][l] = publishedBy[p][l]
            BY <1>3, <4>2, <4>4, <5>2
          <6>2. publishedBy[p][k] = publishedBy[p][l] /\ k \in DOMAIN publishedBy[p]
            BY <4>4, <5>1, <5>2, <6>1
          <6>3. p \in Process
            BY <1>1
          <6> QED BY <6>1, <6>2, <6>3 DEF PublishedOnce
        <5> QED BY <3>2, <5>1, <5>2
      <4> QED BY <3>2, <4>2, <4>3, <4>4
    <3> QED BY <3>1, <3>2
  <2>2. ASSUME NEW d \in Event, result'[d] # "none"
        PROVE  \E k \in DOMAIN publishedBy'[Source[d]] : publishedBy'[Source[d]][k] = d
    <3>1. CASE d = e
      <4>1. Len(publishedBy[p]) + 1 \in DOMAIN publishedBy'[p]
        BY <1>3
      <4> QED BY <1>3, <3>1, <4>1 DEF p
    <3>2. CASE d # e
      <4>1. PICK k \in DOMAIN publishedBy[Source[d]] : publishedBy[Source[d]][k] = d
        BY <1>1, <2>2, <3>2 DEF PublishedOnce, Published
      <4>2. Source[d] \in Process
        BY BridgeAssumption
      <4>3. k \in DOMAIN publishedBy'[Source[d]] /\ publishedBy'[Source[d]][k] = d
        BY <1>3, <4>1, <4>2
      <4> QED BY <4>3
    <3> QED BY <3>1, <3>2
  <2> QED BY <2>1, <2>2 DEF PublishedOnce, Published
<1>6. ASSUME NEW d \in Event, Published(d)
      PROVE  /\ result'[d] # "none" /\ place'[d] = place[d]
             /\ place[d] \in DOMAIN publishedBy[Source[d]]
  <2>1. d # e /\ result'[d] # "none" /\ Source[d] \in Process
    BY <1>1, <1>6, BridgeAssumption DEF Published
  <2>2. place[d] \in DOMAIN publishedBy[Source[d]] /\ publishedBy[Source[d]][place[d]] = d
    BY <1>6, PlaceOf
  <2>3. place[d] \in DOMAIN publishedBy'[Source[d]] /\ publishedBy'[Source[d]][place[d]] = d
    BY <1>3, <2>1, <2>2
  <2>4. \A k \in DOMAIN publishedBy'[Source[d]] : publishedBy'[Source[d]][k] = d => k = place[d]
    BY <1>5, <2>1, <2>3 DEF PublishedOnce
  <2>5. place'[d] = CHOOSE k \in DOMAIN publishedBy'[Source[d]] : publishedBy'[Source[d]][k] = d
    BY DEF place
  <2> QED BY <2>1, <2>2, <2>3, <2>4, <2>5
<1>7. place'[e] = Len(publishedBy[p]) + 1
  <2> DEFINE n == Len(publishedBy[p]) + 1
  <2>1. n \in DOMAIN publishedBy'[p] /\ publishedBy'[p][n] = e
    BY <1>3
  <2>2. \A k \in DOMAIN publishedBy'[p] : publishedBy'[p][k] = e => k = n
    BY <1>1, <1>5, <2>1 DEF PublishedOnce
  <2>3. place'[e] = CHOOSE k \in DOMAIN publishedBy'[p] : publishedBy'[p][k] = e
    BY DEF place, p
  <2> HIDE DEF n
  <2>4. place'[e] = n
    BY <2>1, <2>2, <2>3
  <2> QED BY <2>4 DEF n
<1> QED BY <1>3, <1>5, <1>6, <1>7 DEF PlacesKept, p
-----------------------------------------------------------------------------

(***************************************************************************)
(* What the steps do to the events of a process that are under way.        *)
(***************************************************************************)
\* A command that is sent goes from the end of one queue to the front of the other.
LEMMA ConcatMoves ==
  ASSUME NEW S, NEW u \in Seq(S), NEW o \in Seq(S), o # <<>>
  PROVE  Append(u, Head(o)) \o Tail(o) = u \o o
<1>1. Head(o) \in S /\ Tail(o) \in Seq(S) /\ <<Head(o)>> \in Seq(S)
  BY HeadTailProperties
<1>2. Append(u, Head(o)) = u \o <<Head(o)>>
  BY <1>1, AppendIsConcat
<1>3. <<Head(o)>> \o Tail(o) = o
  <2>1. /\ <<Head(o)>> \o Tail(o) \in Seq(S)
        /\ Len(<<Head(o)>> \o Tail(o)) = Len(o)
        /\ \A i \in 1 .. Len(o) : (<<Head(o)>> \o Tail(o))[i] = o[i]
    BY <1>1
  <2> QED BY <2>1, SeqEqual
<1> QED BY <1>1, <1>2, <1>3, ConcatAssociative

LEMMA ConcatAppends ==
  ASSUME NEW S, NEW u \in Seq(S), NEW o \in Seq(S), NEW e \in S
  PROVE  u \o Append(o, e) = Append(u \o o, e)
<1>1. <<e>> \in Seq(S) /\ u \o o \in Seq(S)
  BY ConcatProperties
<1> QED BY <1>1, AppendIsConcat, ConcatAssociative

LEMMA ConcatIs ==
  ASSUME NEW S, NEW u \in Seq(S), NEW o \in Seq(S)
  PROVE  /\ u \o o \in Seq(S) /\ Len(u \o o) = Len(u) + Len(o)
         /\ Len(u) \in Nat /\ Len(o) \in Nat
         /\ \A i \in 1 .. Len(u) : (u \o o)[i] = u[i]
         /\ \A i \in 1 .. Len(o) : (u \o o)[Len(u) + i] = o[i]
<1>1. Len(u) \in Nat /\ Len(o) \in Nat
  BY LenProperties
<1>2. /\ u \o o \in Seq(S) /\ Len(u \o o) = Len(u) + Len(o)
      /\ \A i \in 1 .. (Len(u) + Len(o)) : (u \o o)[i] = IF i <= Len(u) THEN u[i] ELSE o[i - Len(u)]
  BY ConcatProperties
<1> QED BY <1>1, <1>2

\* Without its first event, the first queue leaves the rest of the line.
LEMMA ConcatDrops ==
  ASSUME NEW S, NEW u \in Seq(S), NEW o \in Seq(S), u # <<>>
  PROVE  /\ Len(Tail(u) \o o) = Len(u \o o) - 1
         /\ \A k \in 1 .. (Len(u \o o) - 1) : (Tail(u) \o o)[k] = (u \o o)[k + 1]
         /\ (u \o o)[1] = Head(u)
<1> DEFINE t == Tail(u)
           m == Len(u) - 1
           n == Len(o)
<1>1. /\ m \in Nat /\ n \in Nat /\ Len(u) = m + 1
      /\ t \in Seq(S) /\ Len(t) = m /\ Head(u) = u[1]
      /\ \A i \in 1 .. m : t[i] = u[i + 1]
  BY EmptySeq, HeadTailProperties, LenProperties
<1> HIDE DEF t, m, n
<1>2. /\ Len(u \o o) = Len(u) + Len(o)
      /\ \A i \in 1 .. Len(u) : (u \o o)[i] = u[i]
      /\ \A i \in 1 .. Len(o) : (u \o o)[Len(u) + i] = o[i]
  BY ConcatIs
<1>3. t \in Seq(S) /\ o \in Seq(S)
  BY <1>1
<1>4. m \in Nat /\ n \in Nat
  BY <1>1
<1>5. /\ Len(t \o o) = Len(t) + Len(o)
      /\ \A i \in 1 .. Len(t) : (t \o o)[i] = t[i]
      /\ \A i \in 1 .. Len(o) : (t \o o)[Len(t) + i] = o[i]
  BY <1>3, ConcatIs
<1>6. /\ Len(u \o o) = m + 1 + n
      /\ \A i \in 1 .. (m + 1) : (u \o o)[i] = u[i]
      /\ \A i \in 1 .. n : (u \o o)[m + 1 + i] = o[i]
  BY <1>1, <1>2 DEF n
<1>7. /\ Len(t \o o) = m + n
      /\ \A i \in 1 .. m : (t \o o)[i] = t[i]
      /\ \A i \in 1 .. n : (t \o o)[m + i] = o[i]
  BY <1>1, <1>5 DEF n
<1>8. ASSUME NEW k \in 1 .. (m + n)
      PROVE  (t \o o)[k] = (u \o o)[k + 1]
  <2>1. CASE k <= m
    <3>1. k \in 1 .. m /\ k + 1 \in 1 .. (m + 1)
      BY <1>1, <2>1
    <3> QED BY <1>1, <1>6, <1>7, <3>1
  <2>2. CASE k > m
    <3>1. PICK i \in 1 .. n : k = m + i /\ k + 1 = m + 1 + i
      <4>1. k - m \in 1 .. n /\ k = m + (k - m) /\ k + 1 = m + 1 + (k - m)
        BY <1>1, <2>2
      <4> QED BY <4>1
    <3> QED BY <1>6, <1>7, <3>1
  <2>3. k <= m \/ k > m
    BY <1>4
  <2> QED BY <2>1, <2>2, <2>3
<1>9. (u \o o)[1] = Head(u)
  BY <1>1, <1>6
<1>10. Len(u \o o) - 1 = m + n
  BY <1>1, <1>6
<1> QED BY <1>7, <1>8, <1>9, <1>10 DEF t

\* Commands that fail leave those not yet sent.
LEMMA ConcatRest ==
  ASSUME NEW S, NEW u \in Seq(S), NEW o \in Seq(S)
  PROVE  /\ Len(<<>> \o o) = Len(u \o o) - Len(u)
         /\ \A k \in 1 .. (Len(u \o o) - Len(u)) : (<<>> \o o)[k] = (u \o o)[k + Len(u)]
<1>1. <<>> \o o = o
  BY ConcatEmptySeq
<1>2. /\ Len(u \o o) = Len(u) + Len(o) /\ Len(u) \in Nat /\ Len(o) \in Nat
      /\ \A i \in 1 .. Len(o) : (u \o o)[Len(u) + i] = o[i]
  BY ConcatIs
<1>3. Len(u \o o) - Len(u) = Len(o)
  BY <1>2
<1>4. ASSUME NEW k \in 1 .. Len(o) PROVE o[k] = (u \o o)[k + Len(u)]
  <2>1. k + Len(u) = Len(u) + k
    BY <1>2
  <2> QED BY <1>2, <2>1
<1> QED BY <1>1, <1>3, <1>4

LEMMA LineTyped ==
  ASSUME TrafficTyped, NEW p \in Process
  PROVE  /\ line[p] = unanswered[p] \o outbox[p]
         /\ line[p] \in Seq(Event) /\ Len(line[p]) \in Nat
         /\ \A k \in 1 .. Len(line[p]) : line[p][k] \in Event
         /\ processed[p] \in Nat /\ processed[p] <= Len(line[p])
         /\ \A k \in 1 .. Len(unanswered[p]) : k \in 1 .. Len(line[p]) /\ line[p][k] = unanswered[p][k]
<1> DEFINE u == unanswered[p]
           o == outbox[p]
           x == line[p]
           n == processed[p]
<1>1. /\ u \in Seq(Event) /\ o \in Seq(Event)
      /\ n \in Nat /\ n <= Len(u)
  BY DEF TrafficTyped
<1>2. x = u \o o
  BY DEF line
<1> HIDE DEF u, o, x, n
<1>3. /\ x \in Seq(Event) /\ Len(x) = Len(u) + Len(o) /\ Len(u) \in Nat /\ Len(o) \in Nat
      /\ \A k \in 1 .. Len(u) : x[k] = u[k]
  BY <1>1, <1>2, ConcatIs
<1>4. \A k \in 1 .. Len(x) : x[k] \in Event
  BY <1>3, ElementOfSeq
<1>5. n <= Len(x) /\ Len(x) \in Nat
  BY <1>1, <1>3
<1>6. \A k \in 1 .. Len(u) : k \in 1 .. Len(x)
  BY <1>1, <1>3
<1>7. /\ x = u \o o /\ x \in Seq(Event) /\ Len(x) \in Nat
      /\ \A k \in 1 .. Len(x) : x[k] \in Event
      /\ n \in Nat /\ n <= Len(x)
      /\ \A k \in 1 .. Len(u) : k \in 1 .. Len(x) /\ x[k] = u[k]
  BY <1>1, <1>2, <1>3, <1>4, <1>5, <1>6
<1> QED BY <1>7 DEF u, o, x, n

\* The line goes on, perhaps without some events at its front.
LEMMA LineGoesOn ==
  ASSUME TrafficTyped, TrafficTyped', PlacesKept, UNCHANGED mode, NEW p \in Process, Lined(p),
         ~ pubClient'[p] => unanswered'[p] = <<>>,
         NEW h \in Nat, Len(line'[p]) = Len(line[p]) - h,
         \A k \in 1 .. (Len(line[p]) - h) : line'[p][k] = line[p][k + h]
  PROVE  /\ Lined(p)'
         /\ processed[p] <= processed'[p] + h => waiting'[p] \subseteq waiting[p]
<1>1. Len(line[p]) \in Nat /\ processed[p] \in Nat /\ processed'[p] \in Nat
  BY LineTyped DEF TrafficTyped
<1>2. \A k \in 1 .. Len(line[p]) :
        /\ line[p][k] \in Event /\ Source[line[p][k]] = p /\ result'[line[p][k]] # "none"
        /\ place'[line[p][k]] = place[line[p][k]] /\ IsPublisher(p)
  BY LineTyped DEF Lined, PlacesKept
<1>3. ASSUME NEW k \in 1 .. Len(line'[p])
      PROVE  k + h \in 1 .. Len(line[p]) /\ line'[p][k] = line[p][k + h]
  BY <1>1
<1>4. ASSUME NEW k \in 1 .. Len(line'[p])
      PROVE  Source[line'[p][k]] = p /\ result'[line'[p][k]] # "none" /\ IsPublisher(p)
  BY <1>2, <1>3
<1>5. ASSUME NEW k \in 1 .. Len(line'[p]), NEW l \in 1 .. Len(line'[p]), k < l
      PROVE  place'[line'[p][k]] < place'[line'[p][l]]
  <2>1. k + h \in 1 .. Len(line[p]) /\ l + h \in 1 .. Len(line[p]) /\ k + h < l + h
    BY <1>3, <1>5
  <2>2. place[line[p][k + h]] < place[line[p][l + h]]
    BY <2>1 DEF Lined
  <2> QED BY <1>2, <1>3, <2>1, <2>2
<1>6. Lined(p)'
  BY <1>4, <1>5 DEF Lined, Published, IsPublisher
<1>7. ASSUME processed[p] <= processed'[p] + h, NEW e \in waiting'[p]
      PROVE  e \in waiting[p]
  <2>1. PICK k \in (processed'[p] + 1) .. Len(line'[p]) : e = line'[p][k]
    BY DEF waiting
  <2>2. k + h \in (processed[p] + 1) .. Len(line[p]) /\ e = line[p][k + h]
    BY <1>1, <1>3, <1>7, <2>1
  <2> QED BY <2>2 DEF waiting
<1> QED BY <1>6, <1>7

\* The line keeps the events at the places f, in their order.
LEMMA LineSelects ==
  ASSUME TrafficTyped, TrafficTyped', PlacesKept, UNCHANGED mode, NEW p \in Process, Lined(p),
         ~ pubClient'[p] => unanswered'[p] = <<>>,
         NEW f,
         \A k \in 1 .. Len(line'[p]) : f[k] \in 1 .. Len(line[p]) /\ line'[p][k] = line[p][f[k]],
         \A k, l \in 1 .. Len(line'[p]) : k < l => f[k] < f[l],
         \A k \in (processed'[p] + 1) .. Len(line'[p]) : f[k] > processed[p]
  PROVE  Lined(p)' /\ waiting'[p] \subseteq waiting[p]
<1>1. Len(line[p]) \in Nat /\ processed[p] \in Nat /\ processed'[p] \in Nat
  BY LineTyped DEF TrafficTyped
<1>2. \A k \in 1 .. Len(line[p]) :
        /\ line[p][k] \in Event /\ Source[line[p][k]] = p /\ result'[line[p][k]] # "none"
        /\ place'[line[p][k]] = place[line[p][k]] /\ IsPublisher(p)
  BY LineTyped DEF Lined, PlacesKept
<1>3. ASSUME NEW k \in 1 .. Len(line'[p])
      PROVE  Source[line'[p][k]] = p /\ result'[line'[p][k]] # "none" /\ IsPublisher(p)
  BY <1>2
<1>4. ASSUME NEW k \in 1 .. Len(line'[p]), NEW l \in 1 .. Len(line'[p]), k < l
      PROVE  place'[line'[p][k]] < place'[line'[p][l]]
  <2>1. f[k] \in 1 .. Len(line[p]) /\ f[l] \in 1 .. Len(line[p]) /\ f[k] < f[l]
    BY <1>4
  <2>2. place[line[p][f[k]]] < place[line[p][f[l]]]
    BY <2>1 DEF Lined
  <2> QED BY <1>2, <2>1, <2>2
<1>5. Lined(p)'
  BY <1>3, <1>4 DEF Lined, Published, IsPublisher
<1>6. ASSUME NEW e \in waiting'[p] PROVE e \in waiting[p]
  <2>1. PICK k \in (processed'[p] + 1) .. Len(line'[p]) : e = line'[p][k]
    BY DEF waiting
  <2>2. k \in 1 .. Len(line'[p])
    BY <1>1, <2>1
  <2>3. f[k] \in 1 .. Len(line[p]) /\ f[k] > processed[p] /\ e = line[p][f[k]]
    BY <2>1, <2>2
  <2>4. f[k] \in (processed[p] + 1) .. Len(line[p])
    BY <1>1, <2>3
  <2> QED BY <2>3, <2>4 DEF waiting
<1> QED BY <1>5, <1>6

LEMMA LineSame ==
  ASSUME Typed, Typed', PlacesKept, UNCHANGED mode, NEW p \in Process, Lined(p),
         UNCHANGED <<pubClient[p], outbox[p], unanswered[p], processed[p]>>
  PROVE  Lined(p)' /\ waiting'[p] \subseteq waiting[p]
<1>1. line'[p] = line[p]
  BY DEF line
<1>2. Len(line[p]) \in Nat /\ processed[p] \in Nat
  BY LineTyped DEF Typed
<1>3. /\ Len(line'[p]) = Len(line[p]) - 0
      /\ \A k \in 1 .. (Len(line[p]) - 0) : line'[p][k] = line[p][k + 0]
  BY <1>1, <1>2
<1>4. ~ pubClient'[p] => unanswered'[p] = <<>>
  BY DEF Lined
<1>5. 0 \in Nat /\ processed[p] <= processed'[p] + 0
  BY <1>2
<1> HIDE DEF Lined
<1> QED BY <1>3, <1>4, <1>5, LineGoesOn DEF Typed

LEMMA WaitingOwn ==
  ASSUME TrafficTyped, NEW p \in Process, Lined(p), NEW e \in waiting[p]
  PROVE  e \in Event /\ Source[e] = p /\ Published(e) /\ IsPublisher(p)
<1>1. PICK k \in (processed[p] + 1) .. Len(line[p]) : e = line[p][k]
  BY DEF waiting
<1>2. k \in 1 .. Len(line[p])
  BY LineTyped DEF TrafficTyped
<1> QED BY <1>1, <1>2, LineTyped DEF Lined

\* What a step leaves of publishedBy and of the lines.
Kept == Typed' /\ PublishedOnce' /\ AllLined' /\ PlacesKept /\ UNCHANGED mode

LEMMA StepLines ==
  ASSUME Typed, Typed', PublishedOnce, AllLined, UNCHANGED <<mode, publishedBy>>,
         \A d \in Event : result'[d] # "none" <=> result[d] # "none",
         NEW p \in Process, ~ pubClient'[p] => unanswered'[p] = <<>>,
         \A q \in Process \ {p} : UNCHANGED <<pubClient[q], outbox[q], unanswered[q], processed[q]>>,
         NEW h \in Nat, Len(line'[p]) = Len(line[p]) - h,
         \A k \in 1 .. (Len(line[p]) - h) : line'[p][k] = line[p][k + h]
  PROVE  /\ Kept
         /\ \A q \in Process \ {p} : waiting'[q] \subseteq waiting[q]
         /\ processed[p] <= processed'[p] + h => waiting'[p] \subseteq waiting[p]
<1>1. PublishedOnce' /\ PlacesKept
  BY NothingPublished DEF Typed
<1>2. \A q \in Process \ {p} : Lined(q)' /\ waiting'[q] \subseteq waiting[q]
  BY <1>1, LineSame DEF AllLined
<1>3. Lined(p)
  BY DEF AllLined
<1>4. /\ Lined(p)'
      /\ processed[p] <= processed'[p] + h => waiting'[p] \subseteq waiting[p]
  BY <1>1, <1>3, LineGoesOn DEF Typed
<1>5. AllLined'
  BY <1>2, <1>4 DEF AllLined
<1> QED BY <1>1, <1>2, <1>4, <1>5 DEF Kept

SamePublished == \A d \in Event : result'[d] # "none" <=> result[d] # "none"

\* Steps that hand nothing to a bus and put no message on its way.
Quiet ==
  /\ Kept /\ SamePublished /\ UNCHANGED handled
  /\ \A q \in Process : inbox'[q] = inbox[q] \/ inbox'[q] = <<>>
  /\ \A q \in Process :
       \/ resets'[q] = resets[q] /\ waiting'[q] \subseteq waiting[q]
       \/ resets'[q] = resets[q] + 1

LEMMA ForwardLines ==
  ASSUME Typed, PublishedOnce, AllLined, NEW p \in Process, Forward(p)
  PROVE  Quiet
<1>1. /\ outbox[p] # <<>> /\ pubClient[p]
      /\ unanswered' = [unanswered EXCEPT ![p] = Append(@, Head(outbox[p]))]
      /\ outbox' = [outbox EXCEPT ![p] = Tail(@)]
      /\ UNCHANGED <<pluginVars, pubClient, listening, subscribed, processed, inbox, resets, drops,
                     result, publishedBy, handled, due>>
  BY DEF Forward, redisVars, historyVars
<1>2. /\ unanswered'[p] = Append(unanswered[p], Head(outbox[p])) /\ outbox'[p] = Tail(outbox[p])
      /\ unanswered[p] \in Seq(Event) /\ outbox[p] \in Seq(Event)
  BY <1>1 DEF Typed, TrafficTyped
<1>3. /\ Head(outbox[p]) \in Event /\ outbox'[p] \in Seq(Event) /\ unanswered'[p] \in Seq(Event)
      /\ Len(unanswered'[p]) = Len(unanswered[p]) + 1 /\ Len(unanswered[p]) \in Nat
  BY <1>1, <1>2, HeadTailProperties, AppendProperties, LenProperties
<1>4. \A q \in Process \ {p} : UNCHANGED <<pubClient[q], outbox[q], unanswered[q], processed[q]>>
  BY <1>1 DEF Typed, TrafficTyped
<1>5. Typed' /\ UNCHANGED mode
  <2>1. outbox' \in [Process -> Seq(Event)] /\ unanswered' \in [Process -> Seq(Event)]
    BY <1>1, <1>2, <1>3 DEF Typed, TrafficTyped
  <2>2. \A q \in Process : processed'[q] <= Len(unanswered'[q])
    BY <1>1, <1>3, <1>4 DEF Typed, TrafficTyped
  <2>3. TrafficTyped'
    BY <1>1, <2>1, <2>2 DEF Typed, TrafficTyped
  <2> QED BY <1>1, <2>3, TrafficKeepsPlugin DEF Typed
<1>6. line'[p] = line[p]
  <2>1. Append(unanswered[p], Head(outbox[p])) \o Tail(outbox[p]) = unanswered[p] \o outbox[p]
    BY <1>1, <1>2, ConcatMoves
  <2>2. line[p] = unanswered[p] \o outbox[p] /\ line'[p] = unanswered'[p] \o outbox'[p]
    BY DEF line
  <2> QED BY <1>2, <2>1, <2>2
<1>7. /\ Len(line'[p]) = Len(line[p]) - 0
      /\ \A k \in 1 .. (Len(line[p]) - 0) : line'[p][k] = line[p][k + 0]
  BY <1>6, LineTyped DEF Typed
<1>8. 0 \in Nat /\ processed[p] <= processed'[p] + 0 /\ pubClient'[p]
  BY <1>1 DEF Typed, TrafficTyped
<1>9. Kept /\ \A q \in Process : waiting'[q] \subseteq waiting[q]
  BY <1>1, <1>4, <1>5, <1>7, <1>8, StepLines
<1> QED BY <1>1, <1>9 DEF Quiet, SamePublished

LEMMA ForwardThrowsLines ==
  ASSUME Typed, PublishedOnce, AllLined, NEW p \in Process, ForwardThrows(p)
  PROVE  Quiet
<1>1. /\ outbox[p] # <<>>
      /\ result' = [result EXCEPT ![Head(outbox[p])] = "rejected"]
      /\ outbox' = [outbox EXCEPT ![p] = Tail(@)]
      /\ due' = [q \in Process |-> due[q] \ {Head(outbox[p])}]
      /\ UNCHANGED <<pluginVars, pubClient, listening, unanswered, subscribed, processed, inbox, resets,
                     drops, publishedBy, handled>>
  BY DEF ForwardThrows, redisVars
<1> DEFINE u == unanswered[p]
           o == outbox[p]
           n == processed[p]
<1>2. /\ u \in Seq(Event) /\ o \in Seq(Event) /\ o # <<>> /\ n \in Nat /\ n <= Len(u)
      /\ outbox'[p] = Tail(o) /\ unanswered'[p] = u /\ processed'[p] = n
  BY <1>1 DEF Typed, TrafficTyped
<1>3. line[p] = u \o o /\ line'[p] = u \o Tail(o)
  BY <1>1, <1>2 DEF line
<1>4. o = outbox[p] /\ n = processed[p]
  OBVIOUS
<1> HIDE DEF u, o, n
<1>5. /\ Tail(o) \in Seq(Event) /\ Head(o) \in Event /\ Head(o) = o[1]
      /\ Len(o) \in Nat \ {0} /\ Len(Tail(o)) = Len(o) - 1
      /\ \A k \in 1 .. (Len(o) - 1) : Tail(o)[k] = o[k + 1]
  BY <1>2, EmptySeq, HeadTailProperties, LenProperties
<1> DEFINE m == Len(u)
           r == Len(o)
           t == Tail(o)
           f == [k \in 1 .. (m + r - 1) |-> IF k <= m THEN k ELSE k + 1]
<1>6. /\ m \in Nat /\ Len(u \o o) = m + r
      /\ \A k \in 1 .. m : (u \o o)[k] = u[k]
      /\ \A k \in 1 .. r : (u \o o)[m + k] = o[k]
  BY <1>2, ConcatIs
<1>7. /\ Len(u \o t) = m + Len(t)
      /\ \A k \in 1 .. m : (u \o t)[k] = u[k]
      /\ \A k \in 1 .. Len(t) : (u \o t)[m + k] = t[k]
  BY <1>2, <1>5, ConcatIs
<1>8. m \in Nat /\ r \in Nat \ {0} /\ Len(t) = r - 1 /\ \A k \in 1 .. (r - 1) : t[k] = o[k + 1]
  BY <1>5, <1>6
<1> HIDE DEF m, r, t
<1>9. ASSUME NEW k \in 1 .. (m + r - 1)
      PROVE  f[k] \in 1 .. (m + r) /\ (u \o t)[k] = (u \o o)[f[k]] /\ f[k] >= k
  <2>1. CASE k <= m
    <3>1. f[k] = k /\ k \in 1 .. m /\ k \in 1 .. (m + r)
      BY <1>8, <2>1
    <3> QED BY <1>6, <1>7, <1>8, <3>1
  <2>2. CASE k > m
    <3>1. PICK i \in 1 .. (r - 1) : k = m + i /\ k + 1 = m + (i + 1) /\ i + 1 \in 1 .. r
      <4>1. k - m \in 1 .. (r - 1) /\ k = m + (k - m) /\ k + 1 = m + ((k - m) + 1) /\ (k - m) + 1 \in 1 .. r
        BY <1>8, <2>2
      <4> QED BY <4>1
    <3>2. (u \o t)[k] = t[i] /\ (u \o o)[k + 1] = o[i + 1] /\ t[i] = o[i + 1]
      BY <1>6, <1>7, <1>8, <3>1
    <3>3. f[k] = k + 1 /\ k + 1 \in 1 .. (m + r)
      BY <1>8, <2>2
    <3>4. k + 1 >= k
      BY <1>8
    <3> HIDE DEF f
    <3> QED BY <3>2, <3>3, <3>4
  <2>3. k <= m \/ k > m
    BY <1>8
  <2> HIDE DEF f
  <2> QED BY <2>1, <2>2, <2>3
<1>10. ASSUME NEW k \in 1 .. (m + r - 1), NEW l \in 1 .. (m + r - 1), k < l
       PROVE  f[k] < f[l]
  BY <1>8, <1>10
<1>11. Len(line[p]) = m + r /\ Len(line'[p]) = m + r - 1
  BY <1>3, <1>6, <1>7, <1>8 DEF r, t
<1>12. Published(Head(o))
  <2>1. m + 1 \in 1 .. Len(line[p]) /\ line[p][m + 1] = Head(o)
    BY <1>3, <1>5, <1>6, <1>8, <1>11
  <2> QED BY <2>1 DEF AllLined, Lined
<1>13. Typed' /\ UNCHANGED mode /\ SamePublished
  <2>1. outbox' \in [Process -> Seq(Event)]
    BY <1>1, <1>2, <1>5 DEF Typed, TrafficTyped
  <2>2. result' \in [Event -> Results] /\ SamePublished
    BY <1>1, <1>4, <1>5, <1>12 DEF Typed, TrafficTyped, Results, SamePublished, Published
  <2>3. due' \in [Process -> SUBSET Event]
    BY <1>1 DEF Typed, TrafficTyped
  <2>4. TrafficTyped'
    BY <1>1, <2>1, <2>2, <2>3 DEF Typed, TrafficTyped
  <2> QED BY <1>1, <2>2, <2>4, TrafficKeepsPlugin DEF Typed
<1>14. PublishedOnce' /\ PlacesKept
  BY <1>1, <1>13, NothingPublished DEF Typed, SamePublished
<1>15. Lined(p)' /\ waiting'[p] \subseteq waiting[p]
  <2>1. Lined(p) /\ (~ pubClient'[p] => unanswered'[p] = <<>>)
    BY <1>1 DEF AllLined, Lined
  <2>2. \A k \in 1 .. Len(line'[p]) : f[k] \in 1 .. Len(line[p]) /\ line'[p][k] = line[p][f[k]]
    BY <1>3, <1>9, <1>11 DEF t
  <2>3. \A k, l \in 1 .. Len(line'[p]) : k < l => f[k] < f[l]
    BY <1>10, <1>11
  <2>4. \A k \in (processed'[p] + 1) .. Len(line'[p]) : f[k] > processed[p]
    <3> SUFFICES ASSUME NEW k \in (n + 1) .. (m + r - 1) PROVE f[k] > n
      BY <1>2, <1>4, <1>11
    <3>1. k \in 1 .. (m + r - 1) /\ k > n /\ k \in Nat
      BY <1>2, <1>8
    <3>2. f[k] \in 1 .. (m + r) /\ f[k] >= k
      BY <1>9, <3>1
    <3> HIDE DEF f
    <3> QED BY <1>2, <1>8, <3>1, <3>2
  <2> HIDE DEF f
  <2> QED BY <1>13, <1>14, <2>1, <2>2, <2>3, <2>4, LineSelects DEF Typed
<1>16. ASSUME NEW q \in Process \ {p} PROVE Lined(q)' /\ waiting'[q] \subseteq waiting[q]
  <2>1. UNCHANGED <<pubClient[q], outbox[q], unanswered[q], processed[q]>>
    BY <1>1 DEF Typed, TrafficTyped
  <2> QED BY <1>13, <1>14, <2>1, LineSame DEF AllLined
<1>17. Kept /\ \A q \in Process : waiting'[q] \subseteq waiting[q]
  BY <1>13, <1>14, <1>15, <1>16 DEF Kept, AllLined
<1> QED BY <1>1, <1>13, <1>17 DEF Quiet

LEMMA RedisAnswersLines ==
  ASSUME Typed, PublishedOnce, AllLined, NEW p \in Process, RedisAnswers(p)
  PROVE  Quiet
<1>1. /\ processed[p] > 0
      /\ result' = [result EXCEPT ![Head(unanswered[p])] = "ok"]
      /\ unanswered' = [unanswered EXCEPT ![p] = Tail(@)]
      /\ processed' = [processed EXCEPT ![p] = @ - 1]
      /\ UNCHANGED <<pluginVars, pubClient, listening, outbox, subscribed, inbox, resets,
                     drops, publishedBy, handled, due>>
  BY DEF RedisAnswers, historyVars
<1> DEFINE u == unanswered[p]
           o == outbox[p]
           n == processed[p]
<1>2. /\ u \in Seq(Event) /\ o \in Seq(Event) /\ n \in Nat /\ n <= Len(u) /\ n > 0
      /\ unanswered'[p] = Tail(u) /\ outbox'[p] = o /\ processed'[p] = n - 1
  BY <1>1 DEF Typed, TrafficTyped
<1>3. line[p] = u \o o /\ line'[p] = Tail(u) \o o
  BY <1>1, <1>2 DEF line
<1>4. u = unanswered[p] /\ n = processed[p]
  OBVIOUS
<1> HIDE DEF o, u, n
<1>5. u # <<>> /\ Len(u) \in Nat
  BY <1>2, EmptySeq, LenProperties
<1>6. Tail(u) \in Seq(Event) /\ Head(u) \in Event /\ Len(Tail(u)) = Len(u) - 1
  BY <1>2, <1>5, HeadTailProperties
<1>7. /\ Len(line'[p]) = Len(line[p]) - 1
      /\ \A k \in 1 .. (Len(line[p]) - 1) : line'[p][k] = line[p][k + 1]
      /\ line[p][1] = Head(u)
  BY <1>2, <1>3, <1>5, ConcatDrops
<1>8. Published(Head(u))
  <2>1. 1 \in 1 .. Len(u)
    BY <1>2, <1>5
  <2>2. 1 \in 1 .. Len(line[p])
    BY <1>4, <2>1, LineTyped DEF Typed
  <2> QED BY <1>7, <2>2 DEF AllLined, Lined
<1>9. \A q \in Process \ {p} : UNCHANGED <<pubClient[q], outbox[q], unanswered[q], processed[q]>>
  BY <1>1 DEF Typed, TrafficTyped
<1>10. Typed' /\ UNCHANGED mode /\ SamePublished
  <2>1. unanswered' \in [Process -> Seq(Event)]
    BY <1>1, <1>2, <1>6 DEF Typed, TrafficTyped
  <2>2. result' \in [Event -> Results] /\ SamePublished
    BY <1>1, <1>4, <1>6, <1>8 DEF Typed, TrafficTyped, Results, SamePublished, Published
  <2>3. processed'[p] \in Nat /\ processed'[p] <= Len(unanswered'[p])
    BY <1>2, <1>5, <1>6
  <2>4. processed' \in [Process -> Nat] /\ \A q \in Process : processed'[q] <= Len(unanswered'[q])
    BY <1>1, <1>9, <2>3 DEF Typed, TrafficTyped
  <2>5. TrafficTyped'
    BY <1>1, <2>1, <2>2, <2>4 DEF Typed, TrafficTyped
  <2> QED BY <1>1, <2>2, <2>5, TrafficKeepsPlugin DEF Typed
<1>11. 1 \in Nat /\ processed[p] <= processed'[p] + 1
  BY <1>2, <1>4
<1>12. pubClient'[p]
  BY <1>1, <1>4, <1>5 DEF AllLined, Lined
<1>13. Kept /\ \A q \in Process : waiting'[q] \subseteq waiting[q]
  BY <1>1, <1>7, <1>9, <1>10, <1>11, <1>12, StepLines DEF SamePublished
<1> QED BY <1>1, <1>10, <1>13 DEF Quiet

LEMMA PublisherResetsLines ==
  ASSUME Typed, PublishedOnce, AllLined, NEW p \in Process, PublisherResets(p)
  PROVE  Quiet
<1>1. /\ resets[p] < MaxResets
      /\ unanswered[p] # <<>>
      /\ resets' = [resets EXCEPT ![p] = @ + 1]
      /\ processed' = [processed EXCEPT ![p] = 0]
      /\ UNCHANGED <<pluginVars, pubClient, listening, outbox, subscribed, inbox, drops,
                     publishedBy, handled>>
  BY DEF PublisherResets
<1>2. /\ \A q \in Process \ {p} : resets'[q] = resets[q] /\ processed'[q] = processed[q]
      /\ resets'[p] = resets[p] + 1 /\ processed'[p] = 0
  BY <1>1 DEF Typed, TrafficTyped
<1>3. PluginTyped' /\ SubscribersOnly' /\ UNCHANGED mode
  BY <1>1, TrafficKeepsPlugin
<1>4. pubClient'[p]
  BY <1>1 DEF AllLined, Lined
<1>5. resets' \in [Process -> Nat] /\ \A q \in Process : resets'[q] <= MaxResets
  <2>1. resets' \in [Process -> Nat]
    BY <1>1 DEF Typed, TrafficTyped
  <2>2. resets[p] + 1 <= MaxResets
    BY <1>1, BridgeAssumption DEF Typed, TrafficTyped
  <2>3. ASSUME NEW q \in Process PROVE resets'[q] <= MaxResets
    BY <1>2, <2>2 DEF Typed, TrafficTyped
  <2> QED BY <2>1, <2>3
<1>6. processed' \in [Process -> Nat]
  BY <1>1 DEF Typed, TrafficTyped
<1>7. CASE UNCHANGED <<unanswered, result, due>>
  <2>1. ASSUME NEW q \in Process PROVE processed'[q] <= Len(unanswered'[q])
    <3>1. Len(unanswered[q]) \in Nat /\ processed[q] <= Len(unanswered[q])
      BY DEF Typed, TrafficTyped
    <3>2. processed'[q] = processed[q] \/ processed'[q] = 0
      BY <1>2
    <3> QED BY <1>7, <3>1, <3>2
  <2>2. Typed'
    BY <1>1, <1>3, <1>5, <1>6, <1>7, <2>1 DEF Typed, TrafficTyped
  <2>3. line' = line
    BY <1>1, <1>7 DEF line
  <2>4. /\ Len(line'[p]) = Len(line[p]) - 0 /\ 0 \in Nat
        /\ \A k \in 1 .. (Len(line[p]) - 0) : line'[p][k] = line[p][k + 0]
    BY <2>3, LineTyped DEF Typed
  <2>5. \A q \in Process \ {p} : UNCHANGED <<pubClient[q], outbox[q], unanswered[q], processed[q]>>
    BY <1>1, <1>2, <1>7
  <2>6. Kept /\ \A q \in Process \ {p} : waiting'[q] \subseteq waiting[q]
    BY <1>1, <1>3, <1>4, <1>7, <2>2, <2>4, <2>5, StepLines
  <2> QED BY <1>1, <1>2, <1>7, <2>6 DEF Quiet, SamePublished
<1>8. CASE /\ unanswered' = [unanswered EXCEPT ![p] = <<>>]
           /\ result' = [e \in Event |-> IF Contains(unanswered[p], e) THEN "rejected" ELSE result[e]]
           /\ due' = [q \in Process |-> due[q] \ ToSet(unanswered[p])]
  <2>1. /\ \A q \in Process \ {p} : unanswered'[q] = unanswered[q]
        /\ unanswered'[p] = <<>> /\ unanswered' \in [Process -> Seq(Event)]
    BY <1>8 DEF Typed, TrafficTyped
  <2>2. ASSUME NEW q \in Process PROVE processed'[q] <= Len(unanswered'[q])
    <3>1. CASE q = p
      <4>1. Len(<<>>) = 0
        OBVIOUS
      <4> QED BY <1>2, <2>1, <3>1, <4>1
    <3>2. CASE q # p
      <4>1. processed[q] <= Len(unanswered[q])
        BY DEF Typed, TrafficTyped
      <4> QED BY <1>2, <2>1, <3>2, <4>1
    <3> QED BY <3>1, <3>2
  <2>3. ASSUME NEW e \in Event, Contains(unanswered[p], e) PROVE Published(e)
    <3>1. PICK k \in 1 .. Len(unanswered[p]) : unanswered[p][k] = e
      BY <2>3 DEF Contains
    <3>2. k \in 1 .. Len(line[p]) /\ line[p][k] = e
      BY <3>1, LineTyped DEF Typed
    <3> QED BY <3>2 DEF AllLined, Lined
  <2>4. result' \in [Event -> Results] /\ SamePublished
    BY <1>8, <2>3 DEF Typed, TrafficTyped, Results, SamePublished, Published
  <2>5. due' \in [Process -> SUBSET Event]
    BY <1>8 DEF Typed, TrafficTyped
  <2>6. Typed'
    BY <1>1, <1>3, <1>5, <1>6, <2>1, <2>2, <2>4, <2>5 DEF Typed, TrafficTyped
  <2> DEFINE u == unanswered[p]
             o == outbox[p]
  <2>7. u \in Seq(Event) /\ o \in Seq(Event) /\ line[p] = u \o o /\ line'[p] = <<>> \o o
    BY <1>1, <2>1 DEF Typed, TrafficTyped, line
  <2>8. processed[p] <= 0 + Len(u)
    BY DEF Typed, TrafficTyped
  <2> HIDE DEF u, o
  <2>9. /\ Len(u) \in Nat /\ Len(line'[p]) = Len(line[p]) - Len(u)
        /\ \A k \in 1 .. (Len(line[p]) - Len(u)) : line'[p][k] = line[p][k + Len(u)]
    BY <2>7, ConcatRest, LenProperties
  <2>10. \A q \in Process \ {p} : UNCHANGED <<pubClient[q], outbox[q], unanswered[q], processed[q]>>
    BY <1>1, <1>2, <2>1
  <2>11. Kept /\ \A q \in Process \ {p} : waiting'[q] \subseteq waiting[q]
    BY <1>1, <1>3, <1>4, <2>4, <2>6, <2>9, <2>10, StepLines DEF SamePublished
  <2> QED BY <1>1, <1>2, <2>4, <2>11 DEF Quiet
<1> QED BY <1>7, <1>8 DEF PublisherResets

\* Steps that leave the commands alone.
LEMMA LinesKept ==
  ASSUME Typed, Typed', PublishedOnce, AllLined,
         UNCHANGED <<mode, outbox, unanswered, processed, result, publishedBy>>,
         \A q \in Process : pubClient[q] => pubClient'[q]
  PROVE  Kept /\ UNCHANGED waiting
<1>1. line' = line /\ waiting' = waiting
  BY DEF line, waiting
<1>2. PublishedOnce' /\ PlacesKept
  BY NothingPublished DEF Typed
<1>3. ASSUME NEW q \in Process PROVE Lined(q)'
  <2>1. Lined(q)
    BY DEF AllLined
  <2>2. /\ Len(line'[q]) = Len(line[q]) - 0 /\ 0 \in Nat
        /\ \A k \in 1 .. (Len(line[q]) - 0) : line'[q][k] = line[q][k + 0]
    BY <1>1, LineTyped DEF Typed
  <2>3. ~ pubClient'[q] => unanswered'[q] = <<>>
    BY <2>1 DEF Lined
  <2> QED BY <1>2, <2>1, <2>2, <2>3, LineGoesOn DEF Typed
<1> QED BY <1>1, <1>2, <1>3 DEF Kept, AllLined

LEMMA LinesAlone ==
  ASSUME Typed, Typed', PublishedOnce, AllLined,
         UNCHANGED <<mode, outbox, unanswered, processed, resets, result, publishedBy, handled>>,
         \A q \in Process : pubClient[q] => pubClient'[q],
         \A q \in Process : inbox'[q] = inbox[q] \/ inbox'[q] = <<>>
  PROVE  Quiet
BY LinesKept DEF Quiet, SamePublished

LEMMA LoadLines ==
  ASSUME Typed, PublishedOnce, AllLined, NEW p \in Process,
         \/ \E t \in EventType : Subscribe(p, t)
         \/ LoadNothing(p) \/ LoadInit(p) \/ LoadFails(p) \/ RedisSubscribes(p) \/ SubscribeRejected(p) \/ Listen(p)
  PROVE  Quiet
<1>1. /\ Typed' /\ UNCHANGED mode
      /\ UNCHANGED <<outbox, unanswered, processed, inbox, resets, result, historyVars>>
  BY LoadTyped
<1>2. \A q \in Process : pubClient[q] => pubClient'[q]
  BY DEF Subscribe, LoadNothing, LoadInit, LoadFails, RedisSubscribes, SubscribeRejected, Listen, clientVars,
         Typed, PluginTyped
<1> QED BY <1>1, <1>2, LinesAlone DEF historyVars

LEMMA SubscriberLines ==
  ASSUME Typed, PublishedOnce, AllLined, NEW p \in Process, SubscriberDrops(p) \/ SubscriberReturns(p)
  PROVE  Quiet
<1>1. CASE SubscriberDrops(p)
  <2>1. /\ drops < MaxDrops /\ drops' = drops + 1
        /\ subscribed' = [subscribed EXCEPT ![p] = FALSE]
        /\ inbox' = [inbox EXCEPT ![p] = <<>>]
        /\ due' = [due EXCEPT ![p] = {}]
        /\ UNCHANGED <<pluginVars, clientVars, processed, resets, result, publishedBy, handled>>
    BY <1>1 DEF SubscriberDrops
  <2>2. PluginTyped' /\ SubscribersOnly' /\ UNCHANGED mode
    BY <2>1, TrafficKeepsPlugin DEF clientVars
  <2>3. inbox' \in [Process -> Seq(Event)] /\ \A q \in Process : inbox'[q] = inbox[q] \/ inbox'[q] = <<>>
    BY <2>1 DEF Typed, TrafficTyped
  <2>4. TrafficTyped'
    BY <2>1, <2>3, BridgeAssumption DEF Typed, TrafficTyped, clientVars
  <2> QED BY <2>1, <2>2, <2>3, <2>4, LinesAlone DEF Typed, clientVars
<1>2. CASE SubscriberReturns(p)
  <2>1. /\ IsSubscriber(p) /\ subscribed' = [subscribed EXCEPT ![p] = TRUE]
        /\ UNCHANGED <<pluginVars, clientVars, processed, inbox, resets, drops, result, historyVars>>
    BY <1>2 DEF SubscriberReturns
  <2>2. PluginTyped' /\ SubscribersOnly' /\ UNCHANGED mode
    BY <2>1, TrafficKeepsPlugin DEF clientVars
  <2>3. TrafficTyped'
    BY <2>1 DEF Typed, TrafficTyped, clientVars, historyVars
  <2> QED BY <2>1, <2>2, <2>3, LinesAlone DEF Typed, clientVars, historyVars
<1> QED BY <1>1, <1>2

\* Redis hands on the first event that waits.
LEMMA RedisPublishesLines ==
  ASSUME Typed, PublishedOnce, AllLined, NEW p \in Process, RedisPublishes(p)
  PROVE  /\ Kept /\ SamePublished /\ UNCHANGED <<handled, resets>>
         /\ \A q \in Process : waiting'[q] \subseteq waiting[q]
         /\ \E e \in waiting[p] :
              /\ \A d \in waiting'[p] : place[e] < place[d]
              /\ \A q \in Process : \/ inbox'[q] = inbox[q]
                                    \/ IsSubscriber(q) /\ inbox'[q] = Append(inbox[q], e)
<1> DEFINE n == processed[p]
           e == unanswered[p][n + 1]
<1>1. /\ n < Len(unanswered[p])
      /\ inbox' = [q \in Process |-> IF subscribed[q] THEN Append(inbox[q], e) ELSE inbox[q]]
      /\ processed' = [processed EXCEPT ![p] = @ + 1]
      /\ UNCHANGED <<pluginVars, clientVars, subscribed, resets, drops, result, historyVars>>
  BY DEF RedisPublishes
<1>2. /\ n \in Nat /\ Len(unanswered[p]) \in Nat /\ processed'[p] = n + 1
      /\ unanswered[p] \in Seq(Event)
  BY <1>1 DEF Typed, TrafficTyped
<1>3. n + 1 \in 1 .. Len(unanswered[p])
  BY <1>1, <1>2
<1>4. /\ Len(line[p]) \in Nat /\ n + 1 \in (n + 1) .. Len(line[p])
      /\ line[p][n + 1] = e /\ e \in Event
  <2>1. /\ Len(line[p]) \in Nat
        /\ \A k \in 1 .. Len(unanswered[p]) : k \in 1 .. Len(line[p]) /\ line[p][k] = unanswered[p][k]
        /\ \A k \in 1 .. Len(line[p]) : line[p][k] \in Event
    BY LineTyped DEF Typed
  <2>2. n + 1 \in 1 .. Len(line[p]) /\ line[p][n + 1] = e /\ e \in Event
    BY <1>3, <2>1
  <2> HIDE DEF e
  <2>3. n + 1 \in n + 1 .. Len(line[p])
    BY <1>2, <2>1, <2>2
  <2> QED BY <2>1, <2>2, <2>3
<1>5. e \in waiting[p]
  BY <1>4 DEF waiting
<1>6. PluginTyped' /\ SubscribersOnly' /\ UNCHANGED mode
  BY <1>1, TrafficKeepsPlugin DEF clientVars
<1>7. Typed'
  <2>1. ASSUME NEW q \in Process
        PROVE  (IF subscribed[q] THEN Append(inbox[q], e) ELSE inbox[q]) \in Seq(Event)
    BY <1>4, AppendProperties DEF Typed, TrafficTyped
  <2> HIDE DEF e
  <2>2. inbox' \in [Process -> Seq(Event)]
    BY <1>1, <2>1
  <2>3. ASSUME NEW q \in Process PROVE processed'[q] <= Len(unanswered'[q])
    <3>1. unanswered'[q] = unanswered[q] /\ Len(unanswered[q]) \in Nat
      BY <1>1 DEF Typed, TrafficTyped, clientVars
    <3>2. CASE q = p
      BY <1>1, <1>2, <3>1, <3>2
    <3>3. CASE q # p
      BY <1>1, <3>1, <3>3 DEF Typed, TrafficTyped
    <3> QED BY <3>2, <3>3
  <2>4. processed' \in [Process -> Nat]
    BY <1>1 DEF Typed, TrafficTyped
  <2>5. TrafficTyped'
    BY <1>1, <2>2, <2>3, <2>4 DEF Typed, TrafficTyped, clientVars, historyVars
  <2> QED BY <1>6, <2>5 DEF Typed
<1>8. line' = line
  BY <1>1 DEF line, clientVars
<1>9. /\ Len(line'[p]) = Len(line[p]) - 0 /\ 0 \in Nat
      /\ \A k \in 1 .. (Len(line[p]) - 0) : line'[p][k] = line[p][k + 0]
      /\ processed[p] <= processed'[p] + 0
  BY <1>2, <1>4, <1>8
<1>10. /\ \A q \in Process \ {p} : UNCHANGED <<pubClient[q], outbox[q], unanswered[q], processed[q]>>
       /\ ~ pubClient'[p] => unanswered'[p] = <<>>
  BY <1>1 DEF Typed, TrafficTyped, clientVars, AllLined, Lined
<1>11. Kept /\ \A q \in Process : waiting'[q] \subseteq waiting[q]
  BY <1>1, <1>6, <1>7, <1>9, <1>10, StepLines DEF historyVars
<1>12. ASSUME NEW d \in waiting'[p] PROVE place[e] < place[d]
  <2>1. PICK k \in (processed'[p] + 1) .. Len(line'[p]) : d = line'[p][k]
    BY DEF waiting
  <2>2. k \in 1 .. Len(line[p]) /\ n + 1 \in 1 .. Len(line[p]) /\ n + 1 < k /\ d = line[p][k]
    BY <1>2, <1>4, <1>8, <2>1
  <2> HIDE DEF e
  <2> QED BY <1>4, <2>2 DEF AllLined, Lined
<1>13. \A q \in Process : \/ inbox'[q] = inbox[q]
                          \/ IsSubscriber(q) /\ inbox'[q] = Append(inbox[q], e)
  BY <1>1 DEF Typed, SubscribersOnly
<1>14. SamePublished /\ UNCHANGED <<handled, resets>>
  BY <1>1 DEF SamePublished, historyVars
<1> HIDE DEF e
<1> QED BY <1>5, <1>11, <1>12, <1>13, <1>14

\* The message listener takes the first message.
LEMMA ReceiveLines ==
  ASSUME Typed, PublishedOnce, AllLined, NEW p \in Process, Receive(p)
  PROVE  /\ Kept /\ SamePublished /\ UNCHANGED <<resets, waiting>>
         /\ inbox[p] # <<>> /\ inbox'[p] = Tail(inbox[p])
         /\ \/ handled'[p] = handled[p]
            \/ handled'[p] = Append(handled[p], <<Head(inbox[p]), "redis">>)
         /\ \A q \in Process \ {p} : UNCHANGED <<inbox[q], handled[q]>>
<1> DEFINE e == Head(inbox[p])
<1>1. /\ inbox[p] # <<>>
      /\ inbox' = [inbox EXCEPT ![p] = Tail(@)]
      /\ \/ /\ handled' = [handled EXCEPT ![p] = Append(@, <<e, "redis">>)]
            /\ due' = [due EXCEPT ![p] = @ \ {e}]
         \/ UNCHANGED <<handled, due>>
      /\ UNCHANGED <<pluginVars, clientVars, subscribed, processed, resets, drops, result, publishedBy>>
  BY DEF Receive
<1>2. inbox[p] \in Seq(Event)
  BY DEF Typed, TrafficTyped
<1>3. e \in Event /\ Tail(inbox[p]) \in Seq(Event)
  BY <1>1, <1>2, HeadTailProperties
<1> HIDE DEF e
<1>4. PluginTyped' /\ SubscribersOnly' /\ UNCHANGED mode
  BY <1>1, TrafficKeepsPlugin DEF clientVars
<1>5. inbox' \in [Process -> Seq(Event)]
  BY <1>1, <1>3 DEF Typed, TrafficTyped
<1>6. handled' \in [Process -> Seq(Event \X Via)] /\ due' \in [Process -> SUBSET Event]
  <2>1. <<e, "redis">> \in Event \X Via
    BY <1>3 DEF Via
  <2>2. Append(handled[p], <<e, "redis">>) \in Seq(Event \X Via)
    BY <2>1 DEF Typed, TrafficTyped
  <2> QED BY <1>1, <2>2 DEF Typed, TrafficTyped
<1>7. Typed'
  <2>1. TrafficTyped'
    BY <1>1, <1>5, <1>6 DEF Typed, TrafficTyped, clientVars
  <2> QED BY <1>4, <2>1 DEF Typed
<1>8. Kept /\ UNCHANGED waiting
  BY <1>1, <1>4, <1>7, LinesKept DEF clientVars
<1>9. SamePublished
  BY <1>1 DEF SamePublished
<1>10. /\ inbox'[p] = Tail(inbox[p])
       /\ \/ handled'[p] = handled[p]
          \/ handled'[p] = Append(handled[p], <<e, "redis">>)
       /\ \A q \in Process \ {p} : UNCHANGED <<inbox[q], handled[q]>>
  BY <1>1 DEF Typed, TrafficTyped
<1> QED BY <1>1, <1>8, <1>9, <1>10 DEF e

\* Publish puts the event at the end of the line, if it is to be forwarded.
LEMMA PublishLines ==
  ASSUME Typed, PublishedOnce, AllLined, NEW e \in Event, Publish(e)
  PROVE  /\ AllLined'
         /\ waiting'[Source[e]] \subseteq waiting[Source[e]] \cup {e}
         /\ \A q \in Process \ {Source[e]} : waiting'[q] \subseteq waiting[q]
<1> DEFINE p == Source[e]
<1>1. /\ p \in Process /\ Typed' /\ UNCHANGED <<mode, unanswered, processed>> /\ result'[e] # "none"
  BY PublishTyped
<1>2. /\ outbox' = [outbox EXCEPT ![p] = IF IsPublisher(p) THEN Append(@, e) ELSE @]
      /\ UNCHANGED pubClient
  BY DEF Publish
<1>3. /\ PlacesKept
      /\ \A d \in Event : Published(d) /\ Source[d] = p => place'[d] < place'[e]
  BY PublishPlaces
<1>4. \A q \in Process \ {p} : UNCHANGED <<pubClient[q], outbox[q], unanswered[q], processed[q]>>
  BY <1>1, <1>2 DEF Typed, TrafficTyped
<1>5. Source[e] = p
  OBVIOUS
<1> HIDE DEF p
<1>6. \A q \in Process \ {p} : Lined(q)' /\ waiting'[q] \subseteq waiting[q]
  BY <1>1, <1>3, <1>4, LineSame DEF AllLined
<1>7. CASE ~ IsPublisher(p)
  <2>1. UNCHANGED <<pubClient[p], outbox[p], unanswered[p], processed[p]>>
    BY <1>1, <1>2, <1>7 DEF Typed, TrafficTyped
  <2>2. Lined(p)' /\ waiting'[p] \subseteq waiting[p]
    BY <1>1, <1>3, <2>1, LineSame DEF AllLined
  <2> QED BY <1>5, <1>6, <2>2 DEF AllLined
<1>8. CASE IsPublisher(p)
  <2> DEFINE n == Len(line[p])
  <2>1. line'[p] = Append(line[p], e) /\ line[p] \in Seq(Event)
    <3>1. unanswered[p] \in Seq(Event) /\ outbox[p] \in Seq(Event)
          /\ unanswered'[p] = unanswered[p] /\ outbox'[p] = Append(outbox[p], e)
      BY <1>1, <1>2, <1>8 DEF Typed, TrafficTyped
    <3>2. line[p] = unanswered[p] \o outbox[p] /\ line'[p] = unanswered'[p] \o outbox'[p]
      BY <1>1 DEF line
    <3>3. unanswered[p] \o Append(outbox[p], e) = Append(unanswered[p] \o outbox[p], e)
      <4> DEFINE u == unanswered[p]
                 o == outbox[p]
      <4>1. u \in Seq(Event) /\ o \in Seq(Event)
        BY <3>1
      <4> HIDE DEF u, o
      <4>2. u \o Append(o, e) = Append(u \o o, e)
        BY <4>1, ConcatAppends
      <4> QED BY <4>2 DEF u, o
    <3>4. line[p] \in Seq(Event)
      BY <1>1, LineTyped DEF Typed
    <3> QED BY <3>1, <3>2, <3>3, <3>4
  <2>2. /\ n \in Nat /\ Len(line'[p]) = n + 1 /\ line'[p][n + 1] = e
        /\ \A k \in 1 .. n : line'[p][k] = line[p][k]
    BY <2>1, AppendProperties, LenProperties
  <2> HIDE DEF n
  <2>3. Lined(p) /\ n = Len(line[p])
    BY <1>1 DEF AllLined, n
  <2>4. \A k \in 1 .. n :
          /\ line[p][k] \in Event /\ Source[line[p][k]] = p
          /\ result'[line[p][k]] # "none" /\ place'[line[p][k]] = place[line[p][k]]
          /\ place'[line[p][k]] < place'[e]
    BY <1>1, <1>3, <2>3, LineTyped DEF Typed, Lined, PlacesKept
  <2>5. Lined(p)'
    <3>1. \A k \in 1 .. (n + 1) : Source[line'[p][k]] = p /\ result'[line'[p][k]] # "none"
      BY <1>1, <1>5, <2>2, <2>4
    <3>2. \A k, l \in 1 .. (n + 1) : k < l => place'[line'[p][k]] < place'[line'[p][l]]
      <4> SUFFICES ASSUME NEW k \in 1 .. (n + 1), NEW l \in 1 .. (n + 1), k < l
                   PROVE  place'[line'[p][k]] < place'[line'[p][l]]
        OBVIOUS
      <4>1. k \in 1 .. n /\ (l \in 1 .. n \/ l = n + 1)
        BY <2>2
      <4>2. CASE l \in 1 .. n
        BY <2>2, <2>3, <2>4, <4>1, <4>2 DEF Lined
      <4>3. CASE l = n + 1
        BY <2>2, <2>4, <4>1, <4>3
      <4> QED BY <4>1, <4>2, <4>3
    <3>3. ~ pubClient'[p] => unanswered'[p] = <<>>
      BY <1>1, <1>2, <2>3 DEF Lined
    <3> QED BY <1>1, <1>8, <2>2, <3>1, <3>2, <3>3 DEF Lined, Published, IsPublisher
  <2>6. waiting'[p] \subseteq waiting[p] \cup {e}
    <3> SUFFICES ASSUME NEW d \in waiting'[p], d # e PROVE d \in waiting[p]
      OBVIOUS
    <3>1. PICK k \in (processed'[p] + 1) .. (n + 1) : d = line'[p][k]
      BY <1>1, <2>2 DEF waiting
    <3>2. processed'[p] = processed[p] /\ processed[p] \in Nat /\ n \in Nat
      BY <1>1, <2>2 DEF Typed, TrafficTyped
    <3>3. k # n + 1
      BY <2>2, <3>1
    <3>4. k \in (processed[p] + 1) .. n /\ k \in 1 .. n
      BY <3>1, <3>2, <3>3
    <3>5. d = line[p][k]
      BY <2>2, <3>1, <3>4
    <3> QED BY <1>1, <2>3, <3>4, <3>5 DEF waiting
  <2> QED BY <1>5, <1>6, <2>5, <2>6 DEF AllLined
<1> QED BY <1>7, <1>8
-----------------------------------------------------------------------------

(***************************************************************************)
(* Counting in sequences.                                                  *)
(***************************************************************************)
LEMMA CountTyped ==
  ASSUME NEW S, NEW s \in Seq(S), NEW x
  PROVE  /\ IsFiniteSet({i \in DOMAIN s : s[i] = x})
         /\ Count(s, x) \in Nat
         /\ (\A i \in DOMAIN s : s[i] # x) => Count(s, x) = 0
<1> DEFINE A == {i \in DOMAIN s : s[i] = x}
<1>1. DOMAIN s = 1 .. Len(s) /\ Len(s) \in Nat
  BY LenProperties
<1>2. IsFiniteSet(1 .. Len(s))
  BY <1>1, FS_Interval
<1>3. IsFiniteSet(A)
  BY <1>1, <1>2, FS_Subset
<1>4. Cardinality(A) \in Nat
  BY <1>3, FS_CardinalityType
<1>5. ASSUME \A i \in DOMAIN s : s[i] # x PROVE Cardinality(A) = 0
  <2>1. A = {}
    BY <1>5
  <2> QED BY <2>1, FS_EmptySet
<1> QED BY <1>3, <1>4, <1>5 DEF Count

LEMMA CountEmpty ==
  ASSUME NEW x
  PROVE  Count(<<>>, x) = 0
<1>1. {i \in DOMAIN <<>> : <<>>[i] = x} = {}
  OBVIOUS
<1> QED BY <1>1, FS_EmptySet DEF Count

LEMMA CountAppend ==
  ASSUME NEW S, NEW s \in Seq(S), NEW e \in S, NEW x
  PROVE  Count(Append(s, e), x) = Count(s, x) + IF e = x THEN 1 ELSE 0
<1> DEFINE A == {i \in DOMAIN s : s[i] = x}
           t == Append(s, e)
           B == {i \in DOMAIN t : t[i] = x}
           n == Len(s)
<1>1. /\ n \in Nat /\ DOMAIN s = 1 .. n /\ DOMAIN t = 1 .. (n + 1)
      /\ t[n + 1] = e /\ \A i \in 1 .. n : t[i] = s[i]
  BY AppendProperties, LenProperties
<1>2. IsFiniteSet(A) /\ Cardinality(A) \in Nat
  BY CountTyped DEF Count
<1>3. n + 1 \notin A
  BY <1>1
<1>4. CASE e = x
  <2>1. B = A \cup {n + 1}
    <3> HIDE DEF n, t
    <3>1. \A i : i \in B <=> i \in A \/ i = n + 1
      BY <1>1, <1>4
    <3> HIDE DEF A, B
    <3> QED BY <3>1
  <2>2. Cardinality(B) = Cardinality(A) + 1
    <3> HIDE DEF A, B, n
    <3> QED BY <1>2, <1>3, <2>1, FS_AddElement
  <2> QED BY <1>4, <2>2 DEF Count
<1>5. CASE e # x
  <2>1. B = A
    <3> HIDE DEF n, t
    <3>1. \A i : i \in B <=> i \in A
      BY <1>1, <1>5
    <3> HIDE DEF A, B
    <3> QED BY <3>1
  <2>2. Cardinality(B) = Cardinality(A) + 0
    <3> HIDE DEF A, B
    <3> QED BY <1>2, <2>1
  <2> QED BY <1>5, <2>2 DEF Count
<1> QED BY <1>4, <1>5

LEMMA CountTail ==
  ASSUME NEW S, NEW s \in Seq(S), s # <<>>, NEW x
  PROVE  Count(s, x) = Count(Tail(s), x) + IF Head(s) = x THEN 1 ELSE 0
<1> DEFINE t == Tail(s)
           A == {i \in DOMAIN t : t[i] = x}
           B == {i \in DOMAIN s : s[i] = x}
           C == B \ {1}
           n == Len(s)
<1>1. /\ n \in Nat \ {0} /\ DOMAIN s = 1 .. n /\ DOMAIN t = 1 .. (n - 1)
      /\ s[1] = Head(s) /\ \A i \in 1 .. (n - 1) : t[i] = s[i + 1]
      /\ t \in Seq(S)
  BY EmptySeq, HeadTailProperties, LenProperties
<1>2. IsFiniteSet(A) /\ Cardinality(A) \in Nat
  BY <1>1, CountTyped DEF Count
<1>3. Cardinality(C) = Cardinality(A) /\ IsFiniteSet(C)
  <2> HIDE DEF n, t
  <2>1. \A i \in A : i \in Int /\ i + 1 \in C
    BY <1>1
  <2>2. \A j \in C : j \in Int /\ j - 1 \in A
    BY <1>1
  <2> HIDE DEF A, C
  <2> DEFINE f == [i \in A |-> i + 1]
  <2>3. f \in [A -> C] /\ \A i \in A : f[i] = i + 1
    BY <2>1
  <2>4. \A i, j \in A : f[i] = f[j] => i = j
    BY <2>1, <2>3
  <2>5. \A j \in C : \E i \in A : f[i] = j
    <3> SUFFICES ASSUME NEW j \in C PROVE \E i \in A : f[i] = j
      OBVIOUS
    <3>1. j - 1 \in A /\ j \in Int /\ j - 1 + 1 = j
      BY <2>2
    <3> QED BY <2>3, <3>1
  <2> HIDE DEF f
  <2>6. f \in Bijection(A, C)
    BY <2>3, <2>4, <2>5, Fun_IsBij
  <2>7. ExistsBijection(A, C)
    BY <2>6 DEF ExistsBijection
  <2> QED BY <1>2, <2>7, FS_Bijection
<1>4. CASE Head(s) = x
  <2>1. B = C \cup {1}
    BY <1>1, <1>4
  <2>2. Cardinality(B) = Cardinality(C) + 1
    <3>1. 1 \notin C
      OBVIOUS
    <3> HIDE DEF B, C
    <3> QED BY <1>3, <2>1, <3>1, FS_AddElement
  <2> QED BY <1>3, <1>4, <2>2 DEF Count
<1>5. CASE Head(s) # x
  <2>1. B = C
    BY <1>1, <1>5
  <2>2. Cardinality(B) = Cardinality(A) + 0
    <3> HIDE DEF A, B, C
    <3> QED BY <1>2, <1>3, <2>1
  <2> QED BY <1>5, <2>2 DEF Count
<1> QED BY <1>4, <1>5
-----------------------------------------------------------------------------

(***************************************************************************)
(* The invariant, step by step.                                            *)
(***************************************************************************)
IInv == BridgeInv /\ ArrivalInv /\ CopiesInv

\* Events, and what is known of their places.
LEMMA InboxTyped ==
  ASSUME Typed, NEW q \in Process
  PROVE  /\ inbox[q] \in Seq(Event) /\ handled[q] \in Seq(Event \X Via)
         /\ \A j \in DOMAIN inbox[q] : inbox[q][j] \in Event
BY ElementsTyped DEF Typed, TrafficTyped

LEMMA PlaceNat ==
  ASSUME Typed, PublishedOnce, NEW e \in Event, Published(e)
  PROVE  place[e] \in Nat
<1>1. place[e] \in DOMAIN publishedBy[Source[e]]
  BY PlaceOf
<1>2. Source[e] \in Process
  BY BridgeAssumption
<1> QED BY <1>1, <1>2 DEF Typed, TrafficTyped

LEMMA OwedTyped == \A e : Owed(e) \in {0, 1}
BY DEF Owed

LEMMA CountsTyped ==
  ASSUME Typed, NEW q \in Process, NEW e \in Event
  PROVE  Count(handled[q], <<e, "redis">>) \in Nat /\ Count(inbox[q], e) \in Nat /\ resets[Source[e]] \in Nat
<1>1. inbox[q] \in Seq(Event) /\ handled[q] \in Seq(Event \X Via)
  BY InboxTyped
<1>2. Count(handled[q], <<e, "redis">>) \in Nat /\ Count(inbox[q], e) \in Nat
  BY <1>1, CountTyped
<1>3. Source[e] \in Process
  BY BridgeAssumption
<1> QED BY <1>2, <1>3 DEF Typed, TrafficTyped

LEMMA QuietTraffic ==
  ASSUME BridgeInv, Quiet
  PROVE  BridgeInv'
<1>1. /\ Kept /\ SamePublished /\ UNCHANGED <<mode, handled>>
      /\ \A q \in Process : inbox'[q] = inbox[q] \/ inbox'[q] = <<>>
  BY DEF Quiet, Kept
<1>2. ASSUME NEW q \in Process PROVE Crosses(q)' /\ HandledAtHome(q)'
  <2>1. Crosses(q) /\ HandledAtHome(q) /\ \A j \in DOMAIN inbox[q] : inbox[q][j] \in Event
    BY InboxTyped DEF BridgeInv
  <2>2. \A e \in Event : Published(e)' <=> Published(e)
    BY <1>1 DEF SamePublished, Published
  <2>3. ASSUME NEW j \in DOMAIN inbox'[q]
        PROVE  /\ Published(inbox[q][j])' /\ IsPublisher(Source[inbox[q][j]])' /\ IsSubscriber(q)'
               /\ inbox'[q] = inbox[q]
    <3>1. inbox'[q] = inbox[q]
      BY <1>1
    <3> QED BY <1>1, <2>1, <2>2, <3>1 DEF Crosses, IsPublisher, IsSubscriber, Published
  <2>4. ASSUME NEW e \in Event, NEW i \in DOMAIN handled[q], Redis(q, i, e)
        PROVE  Published(e)' /\ IsPublisher(Source[e])' /\ IsSubscriber(q)'
    BY <1>1, <2>1, <2>2, <2>4 DEF Crosses, IsPublisher, IsSubscriber
  <2>5. Crosses(q)'
    BY <1>1, <2>3, <2>4 DEF Crosses, Redis
  <2>6. HandledAtHome(q)'
    BY <1>1, <2>1, <2>2 DEF HandledAtHome
  <2> QED BY <2>5, <2>6
<1> QED BY <1>1, <1>2 DEF BridgeInv, Kept, AllLined

LEMMA QuietArrival ==
  ASSUME BridgeInv, ArrivalInv, Quiet
  PROVE  ArrivalInv'
<1> SUFFICES ASSUME NEW p \in Process, NEW q \in Process, resets'[p] = 0
             PROVE  Arrives(p, q)'
  BY DEF ArrivalInv
<1>1. /\ Typed /\ UNCHANGED handled
      /\ inbox'[q] = inbox[q] \/ inbox'[q] = <<>>
      /\ \A d \in Event : Published(d) => place'[d] = place[d]
  BY DEF Quiet, Kept, PlacesKept, BridgeInv
<1>2. resets[p] = 0 /\ waiting'[p] \subseteq waiting[p]
  BY <1>1 DEF Quiet, Typed, TrafficTyped
<1>3. Arrives(p, q)
  BY <1>2 DEF ArrivalInv
<1>4. \A d \in Event, i \in DOMAIN handled[q] : Redis(q, i, d) => place'[d] = place[d]
  BY <1>1 DEF BridgeInv, Crosses
<1>5. \A j \in DOMAIN inbox'[q] : /\ inbox'[q] = inbox[q] /\ j \in DOMAIN inbox[q]
                                  /\ place'[inbox[q][j]] = place[inbox[q][j]]
  <2>1. \A j \in DOMAIN inbox[q] : inbox[q][j] \in Event /\ Published(inbox[q][j])
    BY <1>1, InboxTyped DEF BridgeInv, Crosses
  <2>2. inbox'[q] = <<>> => DOMAIN inbox'[q] = {}
    OBVIOUS
  <2> QED BY <1>1, <2>1, <2>2
<1>6. \A e \in waiting'[p] : e \in waiting[p] /\ place'[e] = place[e]
  <2>1. \A e \in waiting[p] : e \in Event /\ Published(e)
    BY WaitingOwn DEF BridgeInv, AllLined, Typed
  <2> QED BY <1>1, <1>2, <2>1
<1> QED BY <1>1, <1>3, <1>4, <1>5, <1>6 DEF Arrives, Redis

LEMMA QuietCopies ==
  ASSUME BridgeInv, CopiesInv, Quiet
  PROVE  CopiesInv'
<1> SUFFICES ASSUME NEW q \in Process, NEW e \in Event
             PROVE  (Count(handled[q], <<e, "redis">>) + Count(inbox[q], e) + Owed(e) <= 1 + resets[Source[e]])'
  BY DEF CopiesInv
<1> DEFINE r == Count(handled[q], <<e, "redis">>)
           c == Count(inbox[q], e)
           n == resets[Source[e]]
<1>1. r \in Nat /\ c \in Nat /\ n \in Nat /\ r + c + Owed(e) <= 1 + n
  BY CountsTyped DEF CopiesInv, BridgeInv
<1>2. r' = r /\ (c' = c \/ c' = 0)
  BY CountEmpty DEF Quiet
<1>3. Source[e] \in Process
  BY BridgeAssumption
<1>4. (n' = n /\ Owed(e)' <= Owed(e)) \/ n' = n + 1
  <2>1. CASE resets'[Source[e]] = resets[Source[e]] /\ waiting'[Source[e]] \subseteq waiting[Source[e]]
    BY <2>1 DEF Quiet, SamePublished, Published, Owed
  <2> QED BY <1>3, <2>1 DEF Quiet
<1>5. Owed(e) \in {0, 1} /\ Owed(e)' \in {0, 1}
  BY DEF Owed
<1> HIDE DEF r, c, n
<1>6. r' + c' + Owed(e)' <= 1 + n'
  BY <1>1, <1>2, <1>4, <1>5
<1> QED BY <1>6 DEF r, c, n

LEMMA PublishTraffic ==
  ASSUME BridgeInv, NEW e \in Event, Publish(e)
  PROVE  BridgeInv'
<1>1. /\ Typed' /\ UNCHANGED <<mode, inbox>> /\ Source[e] \in Process /\ result[e] = "none" /\ result'[e] # "none"
      /\ \A d \in Event \ {e} : result'[d] = result[d]
  BY PublishTyped DEF BridgeInv
<1>2. PublishedOnce' /\ AllLined'
  BY PublishPlaces, PublishLines DEF BridgeInv
<1>3. handled' = [handled EXCEPT ![Source[e]] = IF TypeOf[e] \in wired[Source[e]] THEN Append(@, <<e, "local">>) ELSE @]
  BY DEF Publish
<1>4. \A d \in Event : Published(d) => Published(d)'
  BY <1>1 DEF Published
<1>5. ASSUME NEW q \in Process PROVE Crosses(q)' /\ HandledAtHome(q)'
  <2> DEFINE s == handled[q]
  <2>1. /\ Crosses(q) /\ HandledAtHome(q) /\ \A j \in DOMAIN inbox[q] : inbox[q][j] \in Event
        /\ s \in Seq(Event \X Via)
    BY InboxTyped DEF BridgeInv
  <2>2. s' = s \/ (s' = Append(s, <<e, "local">>) /\ q = Source[e])
    BY <1>1, <1>3 DEF BridgeInv, Typed, TrafficTyped
  <2>3. \A j \in DOMAIN inbox'[q] : Published(inbox[q][j])' /\ IsPublisher(Source[inbox[q][j]])' /\ IsSubscriber(q)'
    BY <1>1, <1>4, <2>1 DEF Crosses, IsPublisher, IsSubscriber, Published
  <2>4. \A d \in Event, i \in DOMAIN s : s[i] = <<d, "redis">> =>
          Published(d)' /\ IsPublisher(Source[d])' /\ IsSubscriber(q)'
    BY <1>1, <1>4, <2>1 DEF Crosses, IsPublisher, IsSubscriber, Redis
  <2>5. \A d \in Event : \A i \in DOMAIN s : s[i] = <<d, "local">> =>
          /\ Source[d] = q /\ Published(d)' /\ d # e
          /\ \A j \in DOMAIN s : s[j] = <<d, "local">> => i = j
    BY <1>1, <1>4, <2>1 DEF HandledAtHome, Published
  <2>6. CASE s' = s
    BY <2>3, <2>4, <2>5, <2>6 DEF Crosses, HandledAtHome, Redis
  <2>7. CASE s' = Append(s, <<e, "local">>) /\ q = Source[e]
    <3> DEFINE n == Len(s)
    <3>1. /\ n \in Nat /\ DOMAIN s = 1 .. n /\ DOMAIN s' = 1 .. (n + 1)
          /\ s'[n + 1] = <<e, "local">> /\ \A i \in 1 .. n : s'[i] = s[i]
      <4>1. <<e, "local">> \in Event \X Via
        BY DEF Via
      <4> HIDE DEF s
      <4> QED BY <2>1, <2>7, <4>1, AppendProperties, LenProperties
    <3> HIDE DEF n
    <3>2. ASSUME NEW d \in Event, NEW i \in DOMAIN s', s'[i] = <<d, "redis">>
          PROVE  Published(d)' /\ IsPublisher(Source[d])' /\ IsSubscriber(q)'
      <4>1. i \in 1 .. n
        BY <3>1, <3>2
      <4> QED BY <2>4, <3>1, <3>2, <4>1
    <3>3. ASSUME NEW d \in Event, NEW i \in DOMAIN s', s'[i] = <<d, "local">>
          PROVE  /\ Source[d] = q /\ Published(d)'
                 /\ \A j \in DOMAIN s' : s'[j] = <<d, "local">> => i = j
      <4>1. CASE i = n + 1
        <5>1. d = e /\ Published(d)'
          BY <1>1, <3>1, <3>3, <4>1 DEF Published
        <5>2. ASSUME NEW j \in DOMAIN s', s'[j] = <<d, "local">> PROVE j = n + 1
          BY <2>5, <3>1, <5>1, <5>2
        <5> QED BY <2>7, <4>1, <5>1, <5>2
      <4>2. CASE i \in 1 .. n
        <5>1. d # e /\ Source[d] = q /\ Published(d)'
          BY <2>5, <3>1, <3>3, <4>2
        <5>2. ASSUME NEW j \in DOMAIN s', s'[j] = <<d, "local">> PROVE i = j
          <6>1. j # n + 1
            BY <3>1, <5>1, <5>2
          <6>2. j \in DOMAIN s /\ s[j] = <<d, "local">>
            BY <3>1, <5>2, <6>1
          <6>3. i \in DOMAIN s /\ s[i] = <<d, "local">>
            BY <3>1, <3>3, <4>2
          <6> QED BY <2>5, <6>2, <6>3
        <5> QED BY <5>1, <5>2
      <4> QED BY <3>1, <4>1, <4>2
    <3>4. Crosses(q)'
      BY <2>3, <3>2 DEF Crosses, Redis
    <3>5. HandledAtHome(q)'
      BY <3>3 DEF HandledAtHome
    <3> QED BY <3>4, <3>5
  <2> QED BY <2>2, <2>6, <2>7
<1> QED BY <1>1, <1>2, <1>5 DEF BridgeInv

\* A local call is not one of the message listener.
LEMMA PublishHandled ==
  ASSUME BridgeInv, NEW e \in Event, Publish(e), NEW q \in Process
  PROVE  /\ \A d \in Event : Count(handled'[q], <<d, "redis">>) = Count(handled[q], <<d, "redis">>)
         /\ \A i \in DOMAIN handled'[q], d \in Event : handled'[q][i] = <<d, "redis">> =>
              i \in DOMAIN handled[q] /\ handled[q][i] = <<d, "redis">>
<1> DEFINE s == handled[q]
<1>1. s \in Seq(Event \X Via)
  BY InboxTyped DEF BridgeInv
<1>2. s' = s \/ s' = Append(s, <<e, "local">>)
  BY DEF Publish, BridgeInv, Typed, TrafficTyped
<1>3. <<e, "local">> \in Event \X Via
  BY DEF Via
<1>4. CASE s' = s
  BY <1>4
<1>5. CASE s' = Append(s, <<e, "local">>)
  <2> HIDE DEF s
  <2>1. ASSUME NEW d \in Event
        PROVE  Count(Append(s, <<e, "local">>), <<d, "redis">>) = Count(s, <<d, "redis">>)
    <3>1. <<e, "local">> # <<d, "redis">>
      OBVIOUS
    <3>2. Count(Append(s, <<e, "local">>), <<d, "redis">>) =
            Count(s, <<d, "redis">>) + IF <<e, "local">> = <<d, "redis">> THEN 1 ELSE 0
      BY <1>1, <1>3, CountAppend
    <3>3. Count(s, <<d, "redis">>) \in Nat
      BY <1>1, CountTyped
    <3> QED BY <3>1, <3>2, <3>3
  <2>2. /\ DOMAIN s' = 1 .. (Len(s) + 1) /\ DOMAIN s = 1 .. Len(s) /\ Len(s) \in Nat
        /\ s'[Len(s) + 1] = <<e, "local">> /\ \A i \in 1 .. Len(s) : s'[i] = s[i]
    BY <1>1, <1>3, <1>5, AppendProperties, LenProperties
  <2>3. ASSUME NEW i \in DOMAIN s', NEW d \in Event, s'[i] = <<d, "redis">>
        PROVE  i \in DOMAIN s /\ s[i] = <<d, "redis">>
    <3>1. i # Len(s) + 1
      BY <2>2, <2>3
    <3>2. i \in 1 .. Len(s)
      BY <2>2, <3>1
    <3> QED BY <2>2, <2>3, <3>2
  <2>4. /\ \A d \in Event : Count(s', <<d, "redis">>) = Count(s, <<d, "redis">>)
        /\ \A i \in DOMAIN s', d \in Event : s'[i] = <<d, "redis">> =>
             i \in DOMAIN s /\ s[i] = <<d, "redis">>
    BY <1>5, <2>1, <2>3
  <2> QED BY <2>4 DEF s
<1> QED BY <1>2, <1>4, <1>5

LEMMA PublishArrival ==
  ASSUME BridgeInv, ArrivalInv, NEW e \in Event, Publish(e)
  PROVE  ArrivalInv'
<1> SUFFICES ASSUME NEW p \in Process, NEW q \in Process, resets'[p] = 0
             PROVE  Arrives(p, q)'
  BY DEF ArrivalInv
<1>1. /\ Typed /\ UNCHANGED <<inbox, resets>>
      /\ \A d \in Event : Published(d) => place'[d] = place[d]
      /\ \A d \in Event : Published(d) /\ Source[d] = Source[e] => place'[d] < place'[e]
  BY PublishTyped, PublishPlaces DEF BridgeInv, PlacesKept
<1>2. Arrives(p, q)
  BY <1>1 DEF ArrivalInv
<1>3. \A d \in Event, i \in DOMAIN handled'[q] : Redis(q, i, d)' =>
        i \in DOMAIN handled[q] /\ Redis(q, i, d) /\ Published(d) /\ place'[d] = place[d]
  BY <1>1, PublishHandled DEF BridgeInv, Crosses, Redis
<1>4. \A j \in DOMAIN inbox'[q] :
        /\ j \in DOMAIN inbox[q] /\ inbox'[q] = inbox[q] /\ inbox[q][j] \in Event
        /\ Published(inbox[q][j]) /\ place'[inbox[q][j]] = place[inbox[q][j]]
  BY <1>1, InboxTyped DEF BridgeInv, Crosses
<1>5. \A d \in waiting[p] : Published(d) /\ Source[d] = p /\ d \in Event /\ place'[d] = place[d]
  BY <1>1, WaitingOwn DEF BridgeInv, AllLined, Typed
<1>6. ASSUME NEW d \in waiting'[p] PROVE d \in waiting[p] \/ (d = e /\ Source[e] = p)
  BY PublishLines DEF BridgeInv
<1>7. \A d \in Event, i, j \in DOMAIN handled'[q], c \in Event :
        Source[d] = p /\ Source[c] = p /\ Redis(q, i, d)' /\ Redis(q, j, c)' /\ i < j => place'[d] < place'[c]
  BY <1>2, <1>3 DEF Arrives
<1>8. \A d \in Event, i \in DOMAIN handled'[q], j \in DOMAIN inbox'[q] :
        Source[d] = p /\ Redis(q, i, d)' /\ Source[inbox'[q][j]] = p => place'[d] < place'[inbox'[q][j]]
  BY <1>2, <1>3, <1>4 DEF Arrives
<1>9. \A i, j \in DOMAIN inbox'[q] :
        Source[inbox'[q][i]] = p /\ Source[inbox'[q][j]] = p /\ i < j => place'[inbox'[q][i]] < place'[inbox'[q][j]]
  BY <1>2, <1>4 DEF Arrives
<1>10. \A d \in Event, i \in DOMAIN handled'[q], c \in waiting'[p] :
         Source[d] = p /\ Redis(q, i, d)' => place'[d] < place'[c]
  BY <1>1, <1>2, <1>3, <1>5, <1>6 DEF Arrives
<1>11. \A j \in DOMAIN inbox'[q], c \in waiting'[p] :
         Source[inbox'[q][j]] = p => place'[inbox'[q][j]] < place'[c]
  BY <1>1, <1>2, <1>4, <1>5, <1>6 DEF Arrives
<1> QED BY <1>7, <1>8, <1>9, <1>10, <1>11 DEF Arrives

LEMMA PublishCopies ==
  ASSUME BridgeInv, CopiesInv, NEW e \in Event, Publish(e)
  PROVE  CopiesInv'
<1> SUFFICES ASSUME NEW q \in Process, NEW d \in Event
             PROVE  (Count(handled[q], <<d, "redis">>) + Count(inbox[q], d) + Owed(d) <= 1 + resets[Source[d]])'
  BY DEF CopiesInv
<1> DEFINE r == Count(handled[q], <<d, "redis">>)
           c == Count(inbox[q], d)
           n == resets[Source[d]]
<1>1. r \in Nat /\ c \in Nat /\ n \in Nat /\ r + c + Owed(d) <= 1 + n
  BY CountsTyped DEF CopiesInv, BridgeInv
<1>2. /\ UNCHANGED <<inbox, resets>> /\ result[e] = "none"
      /\ \A x \in Event \ {e} : result'[x] = result[x]
  BY PublishTyped DEF BridgeInv
<1>3. r' = r /\ c' = c /\ n' = n
  BY <1>2, PublishHandled
<1>4. Source[d] \in Process /\ Source[e] \in Process
  BY BridgeAssumption
<1>5. Owed(d)' <= Owed(d)
  <2>1. CASE d = e
    BY <1>2, <2>1 DEF Owed, Published
  <2>2. CASE d # e
    <3>1. d \in waiting'[Source[d]] => d \in waiting[Source[d]]
      BY <1>4, <2>2, PublishLines DEF BridgeInv
    <3> QED BY <1>2, <2>2, <3>1 DEF Owed, Published
  <2> QED BY <2>1, <2>2
<1>6. Owed(d) \in {0, 1} /\ Owed(d)' \in {0, 1}
  BY DEF Owed
<1> HIDE DEF r, c, n
<1>7. r' + c' + Owed(d)' <= 1 + n'
  BY <1>1, <1>3, <1>5, <1>6
<1> QED BY <1>7 DEF r, c, n

LEMMA RedisPublishesKeeps ==
  ASSUME IInv, NEW p \in Process, RedisPublishes(p)
  PROVE  IInv'
<1>1. PICK e \in waiting[p] :
        /\ \A d \in waiting'[p] : place[e] < place[d]
        /\ \A q \in Process : \/ inbox'[q] = inbox[q]
                              \/ IsSubscriber(q) /\ inbox'[q] = Append(inbox[q], e)
  BY RedisPublishesLines DEF IInv, BridgeInv
<1>2. /\ Kept /\ SamePublished /\ UNCHANGED <<mode, handled, resets>>
      /\ \A q \in Process : waiting'[q] \subseteq waiting[q]
  BY RedisPublishesLines DEF IInv, BridgeInv, Kept
<1>3. e \in Event /\ Source[e] = p /\ Published(e) /\ IsPublisher(p)
  BY WaitingOwn DEF IInv, BridgeInv, Typed, AllLined
<1>4. \A d \in Event : /\ Published(d) => place'[d] = place[d] /\ Published(d)'
                       /\ Published(d)' => Published(d)
  BY <1>2 DEF SamePublished, Published, Kept, PlacesKept
<1>5. ASSUME NEW q \in Process
      PROVE  \A j \in DOMAIN inbox'[q] :
               \/ j \in DOMAIN inbox[q] /\ inbox'[q][j] = inbox[q][j]
               \/ /\ inbox'[q][j] = e /\ IsSubscriber(q)
                  /\ \A i \in DOMAIN inbox'[q] : i # j => i < j /\ i \in DOMAIN inbox[q] /\ inbox'[q][i] = inbox[q][i]
  <2> DEFINE s == inbox[q]
  <2>1. s \in Seq(Event)
    BY InboxTyped DEF IInv, BridgeInv
  <2>2. CASE s' = s
    BY <2>2
  <2>3. CASE IsSubscriber(q) /\ s' = Append(s, e)
    <3> HIDE DEF s
    <3>1. /\ DOMAIN s' = 1 .. (Len(s) + 1) /\ DOMAIN s = 1 .. Len(s) /\ Len(s) \in Nat
          /\ s'[Len(s) + 1] = e /\ \A i \in 1 .. Len(s) : s'[i] = s[i]
      BY <1>3, <2>1, <2>3, AppendProperties, LenProperties
    <3>2. \A j \in DOMAIN s' :
            \/ j \in DOMAIN s /\ s'[j] = s[j]
            \/ /\ s'[j] = e /\ IsSubscriber(q)
               /\ \A i \in DOMAIN s' : i # j => i < j /\ i \in DOMAIN s /\ s'[i] = s[i]
      BY <2>3, <3>1
    <3> QED BY <3>2 DEF s
  <2> QED BY <1>1, <2>2, <2>3
<1>6. \A q \in Process : \A j \in DOMAIN inbox[q] :
        inbox[q][j] \in Event /\ Published(inbox[q][j]) /\ place'[inbox[q][j]] = place[inbox[q][j]]
  BY <1>4, InboxTyped DEF IInv, BridgeInv, Crosses
<1>7. ASSUME NEW q \in Process PROVE Crosses(q)' /\ HandledAtHome(q)'
  <2>1. Crosses(q) /\ HandledAtHome(q)
    BY DEF IInv, BridgeInv
  <2>2. \A j \in DOMAIN inbox'[q] :
          result'[inbox'[q][j]] # "none" /\ mode'[Source[inbox'[q][j]]] \in {"publisher", "both"}
          /\ IsSubscriber(q)'
    BY <1>2, <1>3, <1>4, <1>5, <1>6, <2>1 DEF Crosses, Published, IsPublisher, IsSubscriber
  <2>3. \A d \in Event, i \in DOMAIN handled[q] : Redis(q, i, d) =>
          Published(d)' /\ IsPublisher(Source[d])' /\ IsSubscriber(q)'
    BY <1>2, <1>4, <2>1 DEF Crosses, IsPublisher, IsSubscriber
  <2>4. Crosses(q)'
    BY <1>2, <2>2, <2>3 DEF Crosses, Redis, Published, IsPublisher
  <2>5. HandledAtHome(q)'
    BY <1>2, <1>4, <2>1 DEF HandledAtHome
  <2> QED BY <2>4, <2>5
<1>8. BridgeInv'
  BY <1>2, <1>7 DEF BridgeInv, Kept
<1>9. ASSUME NEW r \in Process, NEW q \in Process, resets'[r] = 0
      PROVE  Arrives(r, q)'
  <2>1. Arrives(r, q)
    BY <1>2, <1>9 DEF IInv, ArrivalInv
  <2>2. \A d \in Event, i \in DOMAIN handled[q] : Redis(q, i, d) => Published(d) /\ place'[d] = place[d]
    BY <1>4 DEF IInv, BridgeInv, Crosses
  <2>3. \A d \in waiting'[r] : d \in waiting[r] /\ place'[d] = place[d]
    <3>1. \A d \in waiting[r] : d \in Event /\ Published(d)
      BY WaitingOwn DEF IInv, BridgeInv, AllLined, Typed
    <3> QED BY <1>2, <1>4, <3>1
  <2>4. place'[e] = place[e]
    BY <1>3, <1>4
  <2>5. \A d \in Event, i, j \in DOMAIN handled'[q], c \in Event :
          Source[d] = r /\ Source[c] = r /\ Redis(q, i, d)' /\ Redis(q, j, c)' /\ i < j => place'[d] < place'[c]
    BY <1>2, <2>1, <2>2 DEF Arrives, Redis
  <2>6. \A d \in Event, i \in DOMAIN handled'[q], j \in DOMAIN inbox'[q] :
          Source[d] = r /\ Redis(q, i, d)' /\ Source[inbox'[q][j]] = r => place'[d] < place'[inbox'[q][j]]
    <3> SUFFICES ASSUME NEW d \in Event, NEW i \in DOMAIN handled'[q], NEW j \in DOMAIN inbox'[q],
                        Source[d] = r, Redis(q, i, d)', Source[inbox'[q][j]] = r
                 PROVE  place'[d] < place'[inbox'[q][j]]
      OBVIOUS
    <3>1. i \in DOMAIN handled[q] /\ Redis(q, i, d) /\ place'[d] = place[d]
      BY <1>2, <2>2 DEF Redis
    <3>2. CASE j \in DOMAIN inbox[q] /\ inbox'[q][j] = inbox[q][j]
      BY <1>6, <2>1, <3>1, <3>2 DEF Arrives
    <3>3. CASE inbox'[q][j] = e
      BY <1>1, <1>3, <2>1, <2>4, <3>1, <3>3 DEF Arrives
    <3> QED BY <1>5, <3>2, <3>3
  <2>7. \A i, j \in DOMAIN inbox'[q] :
          Source[inbox'[q][i]] = r /\ Source[inbox'[q][j]] = r /\ i < j => place'[inbox'[q][i]] < place'[inbox'[q][j]]
    <3> SUFFICES ASSUME NEW i \in DOMAIN inbox'[q], NEW j \in DOMAIN inbox'[q],
                        Source[inbox'[q][i]] = r, Source[inbox'[q][j]] = r, i < j
                 PROVE  place'[inbox'[q][i]] < place'[inbox'[q][j]]
      OBVIOUS
    <3>1. i \in Int /\ j \in Int
      <4>1. inbox'[q] \in Seq(Event)
        BY <1>2 DEF Kept, Typed, TrafficTyped
      <4> QED BY <4>1, LenProperties
    <3>2. i \in DOMAIN inbox[q] /\ inbox'[q][i] = inbox[q][i]
      BY <1>5, <3>1
    <3>3. CASE j \in DOMAIN inbox[q] /\ inbox'[q][j] = inbox[q][j]
      BY <1>6, <2>1, <3>2, <3>3 DEF Arrives
    <3>4. CASE inbox'[q][j] = e
      BY <1>1, <1>3, <1>6, <2>1, <2>4, <3>2, <3>4 DEF Arrives
    <3> QED BY <1>5, <3>3, <3>4
  <2>8. \A d \in Event, i \in DOMAIN handled'[q], c \in waiting'[r] :
          Source[d] = r /\ Redis(q, i, d)' => place'[d] < place'[c]
    BY <1>2, <2>1, <2>2, <2>3 DEF Arrives, Redis
  <2>9. \A j \in DOMAIN inbox'[q], c \in waiting'[r] :
          Source[inbox'[q][j]] = r => place'[inbox'[q][j]] < place'[c]
    <3> SUFFICES ASSUME NEW j \in DOMAIN inbox'[q], NEW c \in waiting'[r], Source[inbox'[q][j]] = r
                 PROVE  place'[inbox'[q][j]] < place'[c]
      OBVIOUS
    <3>1. CASE j \in DOMAIN inbox[q] /\ inbox'[q][j] = inbox[q][j]
      BY <1>6, <2>1, <2>3, <3>1 DEF Arrives
    <3>2. CASE inbox'[q][j] = e
      BY <1>1, <1>3, <2>3, <2>4, <3>2
    <3> QED BY <1>5, <3>1, <3>2
  <2> QED BY <2>5, <2>6, <2>7, <2>8, <2>9 DEF Arrives
<1>10. ASSUME NEW q \in Process, NEW d \in Event
       PROVE  (Count(handled[q], <<d, "redis">>) + Count(inbox[q], d) + Owed(d) <= 1 + resets[Source[d]])'
  <2> DEFINE r == Count(handled[q], <<d, "redis">>)
             c == Count(inbox[q], d)
             n == resets[Source[d]]
  <2>1. r \in Nat /\ c \in Nat /\ n \in Nat /\ r + c + Owed(d) <= 1 + n
    BY CountsTyped DEF IInv, CopiesInv, BridgeInv
  <2>2. r' = r /\ n' = n
    BY <1>2
  <2>3. Source[d] \in Process
    BY BridgeAssumption
  <2>4. Owed(d)' <= Owed(d) /\ Owed(d) \in {0, 1} /\ Owed(d)' \in {0, 1}
    BY <1>2, <1>4, <2>3 DEF Owed
  <2>5. CASE inbox'[q] = inbox[q]
    <3>1. c' = c
      BY <2>5
    <3> HIDE DEF r, c, n
    <3>2. r' + c' + Owed(d)' <= 1 + n'
      BY <2>1, <2>2, <2>4, <3>1
    <3> QED BY <3>2 DEF r, c, n
  <2>6. CASE inbox'[q] = Append(inbox[q], e)
    <3>1. c' = c + IF e = d THEN 1 ELSE 0
      <4>1. inbox[q] \in Seq(Event)
        BY InboxTyped DEF IInv, BridgeInv
      <4> QED BY <1>3, <2>6, <4>1, CountAppend
    <3>2. d = e => Owed(d) = 1 /\ Owed(d)' = 0
      <4> SUFFICES ASSUME d = e PROVE Owed(d) = 1 /\ Owed(d)' = 0
        OBVIOUS
      <4>1. e \notin waiting'[p]
        <5>1. place[e] \in Nat
          BY <1>3, PlaceNat DEF IInv, BridgeInv
        <5> QED BY <1>1, <5>1
      <4> QED BY <1>1, <1>3, <1>4, <4>1 DEF Owed
    <3> HIDE DEF r, c, n
    <3>3. r' + c' + Owed(d)' <= 1 + n'
      BY <2>1, <2>2, <2>4, <3>1, <3>2
    <3> QED BY <3>3 DEF r, c, n
  <2> QED BY <1>1, <2>5, <2>6
<1> QED BY <1>8, <1>9, <1>10 DEF IInv, ArrivalInv, CopiesInv

LEMMA ReceiveKeeps ==
  ASSUME IInv, NEW p \in Process, Receive(p)
  PROVE  IInv'
<1> DEFINE e == Head(inbox[p])
<1>1. /\ Kept /\ SamePublished /\ UNCHANGED <<mode, resets, waiting>>
      /\ inbox[p] # <<>> /\ inbox'[p] = Tail(inbox[p])
      /\ \/ handled'[p] = handled[p]
         \/ handled'[p] = Append(handled[p], <<e, "redis">>)
      /\ \A q \in Process \ {p} : UNCHANGED <<inbox[q], handled[q]>>
  BY ReceiveLines DEF IInv, BridgeInv, Kept
<1>2. \A d \in Event : /\ Published(d) => place'[d] = place[d] /\ Published(d)'
                       /\ Published(d)' => Published(d)
  BY <1>1 DEF SamePublished, Published, Kept, PlacesKept
<1>3. inbox[p] \in Seq(Event) /\ handled[p] \in Seq(Event \X Via)
  BY InboxTyped DEF IInv, BridgeInv
<1>4. /\ 1 \in DOMAIN inbox[p] /\ inbox[p][1] = e /\ e \in Event
      /\ \A j \in DOMAIN inbox'[p] : j \in Int /\ j + 1 \in DOMAIN inbox[p] /\ inbox'[p][j] = inbox[p][j + 1]
  <2> DEFINE s == inbox[p]
             t == Tail(s)
  <2>1. s \in Seq(Event) /\ s # <<>> /\ e = Head(s)
    BY <1>1, <1>3
  <2> HIDE DEF s, e
  <2>2. /\ Len(s) \in Nat \ {0} /\ DOMAIN s = 1 .. Len(s) /\ DOMAIN t = 1 .. (Len(s) - 1)
        /\ s[1] = Head(s) /\ Head(s) \in Event
        /\ \A j \in 1 .. (Len(s) - 1) : t[j] = s[j + 1]
    BY <2>1, EmptySeq, HeadTailProperties, LenProperties
  <2> HIDE DEF t
  <2>3. /\ 1 \in DOMAIN s /\ s[1] = e /\ e \in Event
        /\ \A j \in DOMAIN t : j \in Int /\ j + 1 \in DOMAIN s /\ t[j] = s[j + 1]
    BY <2>1, <2>2
  <2> QED BY <1>1, <2>3 DEF s, t
<1> HIDE DEF e
<1>5. Published(e) /\ IsPublisher(Source[e]) /\ IsSubscriber(p)
  BY <1>4 DEF IInv, BridgeInv, Crosses
<1>6. \A i \in DOMAIN handled'[p] :
        \/ i \in DOMAIN handled[p] /\ handled'[p][i] = handled[p][i]
        \/ /\ handled'[p][i] = <<e, "redis">>
           /\ \A j \in DOMAIN handled'[p] :
                j # i => j < i /\ j \in DOMAIN handled[p] /\ handled'[p][j] = handled[p][j]
  <2> DEFINE s == handled[p]
  <2>1. CASE s' = s
    BY <2>1
  <2>2. CASE s' = Append(s, <<e, "redis">>)
    <3>1. <<e, "redis">> \in Event \X Via /\ s \in Seq(Event \X Via)
      BY <1>3, <1>4 DEF Via
    <3> HIDE DEF s
    <3>2. /\ DOMAIN s' = 1 .. (Len(s) + 1) /\ DOMAIN s = 1 .. Len(s) /\ Len(s) \in Nat
          /\ s'[Len(s) + 1] = <<e, "redis">> /\ \A i \in 1 .. Len(s) : s'[i] = s[i]
      BY <2>2, <3>1, AppendProperties, LenProperties
    <3>3. \A i \in DOMAIN s' :
            \/ i \in DOMAIN s /\ s'[i] = s[i]
            \/ /\ s'[i] = <<e, "redis">>
               /\ \A j \in DOMAIN s' : j # i => j < i /\ j \in DOMAIN s /\ s'[j] = s[j]
      BY <3>2
    <3> QED BY <3>3 DEF s
  <2> QED BY <1>1, <2>1, <2>2
<1>7. \A d \in Event, i \in DOMAIN handled'[p] : Redis(p, i, d)' =>
        \/ i \in DOMAIN handled[p] /\ Redis(p, i, d)
        \/ d = e /\ \A j \in DOMAIN handled'[p] : j # i => j < i /\ j \in DOMAIN handled[p] /\ handled'[p][j] = handled[p][j]
  BY <1>6 DEF Redis
<1>8. \A j \in DOMAIN inbox[p] :
        inbox[p][j] \in Event /\ Published(inbox[p][j]) /\ place'[inbox[p][j]] = place[inbox[p][j]]
  BY <1>2, InboxTyped DEF IInv, BridgeInv, Crosses
<1>9. \A d \in Event, i \in DOMAIN handled[p] : Redis(p, i, d) =>
        Published(d) /\ place'[d] = place[d] /\ IsPublisher(Source[d]) /\ IsSubscriber(p)
  BY <1>2 DEF IInv, BridgeInv, Crosses
<1>10. Crosses(p)' /\ HandledAtHome(p)'
  <2>1. Crosses(p) /\ HandledAtHome(p)
    BY DEF IInv, BridgeInv
  <2>2. \A j \in DOMAIN inbox'[p] :
          result'[inbox'[p][j]] # "none" /\ mode'[Source[inbox'[p][j]]] \in {"publisher", "both"}
          /\ IsSubscriber(p)'
    BY <1>1, <1>2, <1>4, <1>8, <2>1 DEF Crosses, Published, IsPublisher, IsSubscriber
  <2>3. \A d \in Event, i \in DOMAIN handled'[p] : Redis(p, i, d)' =>
          Published(d)' /\ IsPublisher(Source[d])' /\ IsSubscriber(p)'
    BY <1>1, <1>2, <1>5, <1>7, <1>9 DEF IsPublisher, IsSubscriber
  <2>4. Crosses(p)'
    BY <2>2, <2>3 DEF Crosses, Published, IsPublisher
  <2>5. \A d \in Event : \A i \in DOMAIN handled'[p] : handled'[p][i] = <<d, "local">> =>
          i \in DOMAIN handled[p] /\ handled[p][i] = <<d, "local">>
    BY <1>6
  <2>6. HandledAtHome(p)'
    BY <1>2, <2>1, <2>5 DEF HandledAtHome
  <2> QED BY <2>4, <2>6
<1>11. ASSUME NEW q \in Process, q # p PROVE Crosses(q)' /\ HandledAtHome(q)'
  <2>1. Crosses(q) /\ HandledAtHome(q) /\ inbox'[q] = inbox[q] /\ handled'[q] = handled[q]
    BY <1>1, <1>11 DEF IInv, BridgeInv
  <2>2. \A j \in DOMAIN inbox[q] : inbox[q][j] \in Event
    BY InboxTyped DEF IInv, BridgeInv
  <2>3. Crosses(q)'
    BY <1>1, <1>2, <2>1, <2>2 DEF Crosses, Redis, Published, IsPublisher, IsSubscriber
  <2>4. HandledAtHome(q)'
    BY <1>2, <2>1 DEF HandledAtHome
  <2> QED BY <2>3, <2>4
<1>12. BridgeInv'
  BY <1>1, <1>10, <1>11 DEF BridgeInv, Kept
<1>13. ASSUME NEW r \in Process, resets'[r] = 0 PROVE Arrives(r, p)'
  <2>1. Arrives(r, p)
    BY <1>1, <1>13 DEF IInv, ArrivalInv
  <2>2. \A d \in waiting[r] : waiting'[r] = waiting[r] /\ place'[d] = place[d]
    <3>1. \A d \in waiting[r] : d \in Event /\ Published(d)
      BY WaitingOwn DEF IInv, BridgeInv, AllLined, Typed
    <3> QED BY <1>1, <1>2, <3>1
  <2>3. place'[e] = place[e]
    BY <1>4, <1>8
  <2>4. ASSUME NEW d \in Event, NEW i \in DOMAIN handled'[p], NEW c \in Event, NEW j \in DOMAIN handled'[p],
               Source[d] = r, Source[c] = r, Redis(p, i, d)', Redis(p, j, c)', i < j
        PROVE  place'[d] < place'[c]
    <3>1. i \in Int /\ j \in Int
      <4>1. handled'[p] \in Seq(Event \X Via)
        BY <1>1 DEF Kept, Typed, TrafficTyped
      <4> QED BY <4>1, LenProperties
    <3>2. Redis(p, i, d) /\ i \in DOMAIN handled[p]
      <4>1. CASE d = e /\ \A k \in DOMAIN handled'[p] : k # i => k < i
        BY <2>4, <3>1, <4>1
      <4> QED BY <1>7, <2>4, <4>1
    <3>3. CASE Redis(p, j, c) /\ j \in DOMAIN handled[p]
      BY <1>9, <2>1, <2>4, <3>2, <3>3 DEF Arrives
    <3>4. CASE c = e
      BY <1>4, <1>9, <2>1, <2>3, <2>4, <3>2, <3>4 DEF Arrives
    <3> QED BY <1>7, <2>4, <3>3, <3>4
  <2>5. ASSUME NEW d \in Event, NEW i \in DOMAIN handled'[p], NEW j \in DOMAIN inbox'[p],
               Source[d] = r, Redis(p, i, d)', Source[inbox'[p][j]] = r
        PROVE  place'[d] < place'[inbox'[p][j]]
    <3>1. /\ j + 1 \in DOMAIN inbox[p] /\ inbox'[p][j] = inbox[p][j + 1] /\ 1 < j + 1
          /\ place'[inbox[p][j + 1]] = place[inbox[p][j + 1]]
      <4>1. 1 < j + 1
        <5>1. inbox'[p] \in Seq(Event)
          BY <1>1 DEF Kept, Typed, TrafficTyped
        <5>2. j \in 1 .. Len(inbox'[p])
          BY <5>1, LenProperties
        <5> QED BY <5>2
      <4> QED BY <1>4, <1>8, <4>1
    <3>2. CASE Redis(p, i, d) /\ i \in DOMAIN handled[p]
      BY <1>9, <2>1, <2>5, <3>1, <3>2 DEF Arrives
    <3>3. CASE d = e
      BY <1>4, <2>1, <2>3, <2>5, <3>1, <3>3 DEF Arrives
    <3> QED BY <1>7, <2>5, <3>2, <3>3
  <2>6. ASSUME NEW i \in DOMAIN inbox'[p], NEW j \in DOMAIN inbox'[p],
               Source[inbox'[p][i]] = r, Source[inbox'[p][j]] = r, i < j
        PROVE  place'[inbox'[p][i]] < place'[inbox'[p][j]]
    <3>1. /\ i + 1 \in DOMAIN inbox[p] /\ inbox'[p][i] = inbox[p][i + 1]
          /\ j + 1 \in DOMAIN inbox[p] /\ inbox'[p][j] = inbox[p][j + 1] /\ i + 1 < j + 1
      BY <1>4, <2>6
    <3> QED BY <1>8, <2>1, <2>6, <3>1 DEF Arrives
  <2>7. ASSUME NEW d \in Event, NEW i \in DOMAIN handled'[p], NEW c \in waiting'[r],
               Source[d] = r, Redis(p, i, d)'
        PROVE  place'[d] < place'[c]
    <3>1. c \in waiting[r] /\ place'[c] = place[c]
      BY <1>1, <2>2
    <3>2. CASE Redis(p, i, d) /\ i \in DOMAIN handled[p]
      BY <1>9, <2>1, <2>7, <3>1, <3>2 DEF Arrives
    <3>3. CASE d = e
      BY <1>4, <2>1, <2>3, <2>7, <3>1, <3>3 DEF Arrives
    <3> QED BY <1>7, <2>7, <3>2, <3>3
  <2>8. ASSUME NEW j \in DOMAIN inbox'[p], NEW c \in waiting'[r], Source[inbox'[p][j]] = r
        PROVE  place'[inbox'[p][j]] < place'[c]
    <3>1. c \in waiting[r] /\ place'[c] = place[c]
      BY <1>1, <2>2
    <3> QED BY <1>4, <1>8, <2>1, <2>8, <3>1 DEF Arrives
  <2> QED BY <2>4, <2>5, <2>6, <2>7, <2>8 DEF Arrives
<1>14. ASSUME NEW r \in Process, NEW q \in Process, q # p, resets'[r] = 0 PROVE Arrives(r, q)'
  <2>1. /\ Arrives(r, q) /\ inbox'[q] = inbox[q] /\ handled'[q] = handled[q] /\ waiting'[r] = waiting[r]
    BY <1>1, <1>14 DEF IInv, ArrivalInv
  <2>2. \A d \in Event, i \in DOMAIN handled[q] : Redis(q, i, d) => place'[d] = place[d]
    BY <1>2 DEF IInv, BridgeInv, Crosses
  <2>3. \A j \in DOMAIN inbox[q] : place'[inbox[q][j]] = place[inbox[q][j]]
    BY <1>2, InboxTyped DEF IInv, BridgeInv, Crosses
  <2>4. \A d \in waiting[r] : place'[d] = place[d]
    <3>1. \A d \in waiting[r] : d \in Event /\ Published(d)
      BY WaitingOwn DEF IInv, BridgeInv, AllLined, Typed
    <3> QED BY <1>2, <3>1
  <2> QED BY <2>1, <2>2, <2>3, <2>4 DEF Arrives, Redis
<1>15. ASSUME NEW q \in Process, NEW d \in Event
       PROVE  (Count(handled[q], <<d, "redis">>) + Count(inbox[q], d) + Owed(d) <= 1 + resets[Source[d]])'
  <2> DEFINE r == Count(handled[q], <<d, "redis">>)
             c == Count(inbox[q], d)
             n == resets[Source[d]]
  <2>1. r \in Nat /\ c \in Nat /\ n \in Nat /\ r + c + Owed(d) <= 1 + n
    BY CountsTyped DEF IInv, CopiesInv, BridgeInv
  <2>2. n' = n /\ Owed(d)' <= Owed(d) /\ Owed(d) \in {0, 1} /\ Owed(d)' \in {0, 1}
    BY <1>1, <1>2 DEF Owed
  <2>3. CASE q # p
    <3>1. r' = r /\ c' = c
      BY <1>1, <2>3
    <3> HIDE DEF r, c, n
    <3>2. r' + c' + Owed(d)' <= 1 + n'
      BY <2>1, <2>2, <3>1
    <3> QED BY <3>2 DEF r, c, n
  <2>4. CASE q = p
    <3> DEFINE one == IF e = d THEN 1 ELSE 0
    <3>1. c = c' + one
      BY <1>1, <1>3, <2>4, CountTail DEF e
    <3>2. r' = r \/ r' = r + one
      <4>1. CASE handled'[p] = handled[p]
        BY <2>4, <4>1
      <4>2. CASE handled'[p] = Append(handled[p], <<e, "redis">>)
        <5>1. <<e, "redis">> \in Event \X Via
          BY <1>4 DEF Via
        <5>2. Count(Append(handled[p], <<e, "redis">>), <<d, "redis">>) =
                Count(handled[p], <<d, "redis">>) + IF <<e, "redis">> = <<d, "redis">> THEN 1 ELSE 0
          BY <1>3, <5>1, CountAppend
        <5>3. <<e, "redis">> = <<d, "redis">> <=> e = d
          OBVIOUS
        <5> QED BY <2>4, <4>2, <5>2, <5>3
      <4> QED BY <1>1, <4>1, <4>2
    <3>3. c' \in Nat
      <4>1. inbox'[p] \in Seq(Event)
        BY <1>1 DEF Kept, Typed, TrafficTyped
      <4> QED BY <2>4, <4>1, CountTyped
    <3>4. one \in Nat
      OBVIOUS
    <3> HIDE DEF r, c, n, one
    <3>5. r' + c' + Owed(d)' <= 1 + n'
      BY <2>1, <2>2, <3>1, <3>2, <3>3, <3>4
    <3> QED BY <3>5 DEF r, c, n
  <2> QED BY <2>3, <2>4
<1>16. ArrivalInv' /\ CopiesInv'
  BY <1>13, <1>14, <1>15 DEF ArrivalInv, CopiesInv
<1> QED BY <1>12, <1>16 DEF IInv

LEMMA InitInvariant ==
  ASSUME Init
  PROVE  IInv
<1>1. Typed
  BY InitTyped
<1>2. /\ \A p \in Process : /\ outbox[p] = <<>> /\ unanswered[p] = <<>> /\ processed[p] = 0 /\ inbox[p] = <<>>
                            /\ publishedBy[p] = <<>> /\ handled[p] = <<>> /\ resets[p] = 0
      /\ \A e \in Event : ~ Published(e)
  BY DEF Init, Published
<1>3. \A p \in Process : line[p] = <<>> /\ Len(line[p]) = 0 /\ waiting[p] = {}
  <2> SUFFICES ASSUME NEW p \in Process PROVE line[p] = <<>> /\ Len(line[p]) = 0 /\ waiting[p] = {}
    OBVIOUS
  <2>1. <<>> \in Seq(Event)
    OBVIOUS
  <2>2. <<>> \o <<>> = <<>>
    BY <2>1, ConcatEmptySeq
  <2>3. line[p] = <<>>
    BY <1>2, <2>2 DEF line
  <2>4. Len(line[p]) = 0
    BY <2>3
  <2>5. waiting[p] = {line[p][k] : k \in 1 .. 0}
    BY <1>2, <2>4 DEF waiting
  <2> QED BY <2>3, <2>4, <2>5
<1>4. PublishedOnce
  BY <1>2 DEF PublishedOnce
<1>5. AllLined
  BY <1>2, <1>3 DEF AllLined, Lined
<1>6. \A q \in Process : Crosses(q) /\ HandledAtHome(q)
  BY <1>2 DEF Crosses, HandledAtHome, Redis
<1>7. BridgeInv
  BY <1>1, <1>4, <1>5, <1>6 DEF BridgeInv
<1>8. ArrivalInv
  BY <1>2, <1>3 DEF ArrivalInv, Arrives, Redis
<1>9. ASSUME NEW q \in Process, NEW e \in Event
      PROVE  Count(handled[q], <<e, "redis">>) + Count(inbox[q], e) + Owed(e) <= 1 + resets[Source[e]]
  <2>1. Count(handled[q], <<e, "redis">>) = 0 /\ Count(inbox[q], e) = 0 /\ Owed(e) = 1
    BY <1>2, CountEmpty DEF Owed
  <2>2. resets[Source[e]] = 0
    BY <1>2, BridgeAssumption
  <2> QED BY <2>1, <2>2
<1> QED BY <1>7, <1>8, <1>9 DEF IInv, CopiesInv

LEMMA StepInvariant ==
  ASSUME IInv, [Next]_vars
  PROVE  IInv'
<1>1. CASE Quiet
  BY <1>1, QuietTraffic, QuietArrival, QuietCopies DEF IInv
<1>2. Typed /\ PublishedOnce /\ AllLined
  BY DEF IInv, BridgeInv
<1>3. ASSUME NEW p \in Process, NEW t \in EventType, Subscribe(p, t) PROVE Quiet
  BY <1>2, <1>3, LoadLines
<1>4. ASSUME NEW p \in Process,
             LoadNothing(p) \/ LoadInit(p) \/ LoadFails(p) \/ RedisSubscribes(p) \/ SubscribeRejected(p) \/ Listen(p)
      PROVE  Quiet
  BY <1>2, <1>4, LoadLines
<1>5. ASSUME NEW p \in Process,
             \/ Forward(p) \/ ForwardThrows(p) \/ RedisAnswers(p) \/ PublisherResets(p)
             \/ SubscriberDrops(p) \/ SubscriberReturns(p)
      PROVE  Quiet
  BY <1>2, <1>5, ForwardLines, ForwardThrowsLines, RedisAnswersLines, PublisherResetsLines, SubscriberLines
<1>6. ASSUME NEW e \in Event, Publish(e) PROVE IInv'
  BY <1>6, PublishTraffic, PublishArrival, PublishCopies DEF IInv
<1>7. ASSUME NEW p \in Process, RedisPublishes(p) \/ Receive(p) PROVE IInv'
  BY <1>7, RedisPublishesKeeps, ReceiveKeeps
<1>8. CASE UNCHANGED vars
  <2>1. Typed'
    BY <1>2, <1>8 DEF vars, pluginVars, clientVars, redisVars, historyVars, Typed, PluginTyped, TrafficTyped,
                      SubscribersOnly, IsSubscriber
  <2> QED BY <1>1, <1>2, <1>8, <2>1, LinesAlone DEF vars, pluginVars, clientVars, redisVars, historyVars
<1> QED BY <1>1, <1>3, <1>4, <1>5, <1>6, <1>7, <1>8 DEF Next

(***************************************************************************)
(* The bridge invariant: what is under way, where it is and how often.     *)
(***************************************************************************)
THEOREM Invariance == Spec => []IInv
<1>1. Init => IInv
  BY InitInvariant
<1>2. IInv /\ [Next]_vars => IInv'
  BY StepInvariant
<1> QED BY <1>1, <1>2, PTL DEF Spec

(***************************************************************************)
(* Types; Redis never has executed more commands than it was sent.         *)
(***************************************************************************)
THEOREM TypeCorrect == Spec => []TypeOK
<1>1. ASSUME IInv PROVE TypeOK
  <2>1. Typed
    BY <1>1 DEF IInv, BridgeInv
  <2>2. ASSUME NEW p \in Process PROVE processed[p] \in 0 .. Len(unanswered[p])
    <3>1. processed[p] \in Nat /\ processed[p] <= Len(unanswered[p]) /\ Len(unanswered[p]) \in Nat
      BY <2>1 DEF Typed, TrafficTyped
    <3> QED BY <3>1
  <2>3. resets \in [Process -> 0 .. MaxResets]
    <3>1. \A p \in Process : resets[p] \in 0 .. MaxResets
      BY <2>1, BridgeAssumption DEF Typed, TrafficTyped
    <3> QED BY <2>1, <3>1 DEF Typed, TrafficTyped
  <2>4. drops \in 0 .. MaxDrops
    BY <2>1, BridgeAssumption DEF Typed, TrafficTyped
  <2> QED BY <2>1, <2>2, <2>3, <2>4 DEF TypeOK, Typed, PluginTyped, TrafficTyped, Loads, Results
<1> QED BY <1>1, Invariance, PTL

(***************************************************************************)
(* An event is handled once at most in its own process through the local   *)
(* publisher; it crosses only from a publishing bridge to a subscribing    *)
(* one, and once more only for each time the client sent it again.         *)
(***************************************************************************)
THEOREM CopiesAreBounded == Spec => []CopiesBounded
<1>1. ASSUME IInv, NEW p \in Process, NEW e \in Event
      PROVE  /\ Copies(p, e, "local") <= IF Source[e] = p THEN 1 ELSE 0
             /\ Copies(p, e, "redis") <=
                  IF IsPublisher(Source[e]) /\ IsSubscriber(p) THEN 1 + resets[Source[e]] ELSE 0
  <2> DEFINE s == handled[p]
             A == {i \in DOMAIN s : s[i] = <<e, "local">>}
  <2>1. s \in Seq(Event \X Via) /\ HandledAtHome(p) /\ Crosses(p)
    BY <1>1, InboxTyped DEF IInv, BridgeInv
  <2>2. \A via : Copies(p, e, via) = Count(s, <<e, via>>)
    BY DEF Copies, Count
  <2>3. Count(s, <<e, "local">>) <= IF Source[e] = p THEN 1 ELSE 0
    <3>1. CASE A = {}
      <4>1. Count(s, <<e, "local">>) = 0
        <5> HIDE DEF s
        <5>1. \A i \in DOMAIN s : s[i] # <<e, "local">>
          BY <3>1
        <5> QED BY <2>1, <5>1, CountTyped
      <4> QED BY <4>1
    <3>2. CASE A # {}
      <4>1. PICK i \in DOMAIN s : s[i] = <<e, "local">>
        BY <3>2
      <4>2. Source[e] = p /\ A = {i}
        BY <2>1, <4>1 DEF HandledAtHome
      <4>3. Cardinality(A) = 1
        <5> HIDE DEF A
        <5> QED BY <4>2, FS_Singleton
      <4> QED BY <4>2, <4>3 DEF Count
    <3> QED BY <3>1, <3>2
  <2>4. Count(s, <<e, "redis">>) <=
          IF IsPublisher(Source[e]) /\ IsSubscriber(p) THEN 1 + resets[Source[e]] ELSE 0
    <3>1. CASE IsPublisher(Source[e]) /\ IsSubscriber(p)
      <4>1. /\ Count(s, <<e, "redis">>) \in Nat /\ Count(inbox[p], e) \in Nat /\ resets[Source[e]] \in Nat
            /\ Count(s, <<e, "redis">>) + Count(inbox[p], e) + Owed(e) <= 1 + resets[Source[e]]
        BY <1>1, CountsTyped DEF IInv, BridgeInv, CopiesInv
      <4>2. Owed(e) \in Nat
        BY DEF Owed
      <4>3. Count(s, <<e, "redis">>) <= 1 + resets[Source[e]]
        BY <4>1, <4>2
      <4> QED BY <3>1, <4>3
    <3>2. CASE ~ (IsPublisher(Source[e]) /\ IsSubscriber(p))
      <4>1. \A i \in DOMAIN s : s[i] # <<e, "redis">>
        BY <2>1, <3>2 DEF Crosses, Redis
      <4>2. Count(s, <<e, "redis">>) = 0
        <5> HIDE DEF s
        <5> QED BY <2>1, <4>1, CountTyped
      <4> QED BY <3>2, <4>2
    <3> QED BY <3>1, <3>2
  <2> QED BY <2>2, <2>3, <2>4
<1>2. IInv => CopiesBounded
  BY <1>1 DEF CopiesBounded
<1> QED BY <1>2, Invariance, PTL

(***************************************************************************)
(* Events of one process are handled elsewhere in the order in which they  *)
(* were published, losses aside, as long as its client did not reconnect.  *)
(***************************************************************************)
THEOREM StaysInOrder == Spec => []InOrder
<1>1. ASSUME IInv, NEW p \in Process, NEW q \in Process, resets[p] = 0,
             NEW i \in DOMAIN handled[q], NEW j \in DOMAIN handled[q],
             NEW k \in DOMAIN publishedBy[p], NEW l \in DOMAIN publishedBy[p],
             handled[q][i] = <<publishedBy[p][k], "redis">>,
             handled[q][j] = <<publishedBy[p][l], "redis">>,
             i < j
      PROVE  k < l
  <2>1. /\ Arrives(p, q) /\ PublishedOnce
        /\ publishedBy[p][k] \in Event /\ publishedBy[p][l] \in Event
    BY <1>1, ElementsTyped DEF IInv, ArrivalInv, BridgeInv, Typed
  <2>2. place[publishedBy[p][k]] = k /\ place[publishedBy[p][l]] = l
    BY <2>1, PlaceIs
  <2>3. Source[publishedBy[p][k]] = p /\ Source[publishedBy[p][l]] = p
    BY <2>1 DEF PublishedOnce
  <2>4. place[publishedBy[p][k]] < place[publishedBy[p][l]]
    BY <1>1, <2>1, <2>3 DEF Arrives, Redis
  <2> QED BY <2>2, <2>4
<1>2. IInv => InOrder
  BY <1>1 DEF InOrder
<1> QED BY <1>2, Invariance, PTL
=============================================================================
