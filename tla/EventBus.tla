------------------------------ MODULE EventBus ------------------------------
(***************************************************************************)
(* The event bus of one process with its default publisher: EventBus keeps *)
(* one list of handlers per event type, sorted by priority, and one        *)
(* subscription per type at the InMemoryEventPublisher, which calls        *)
(* handleEvent() and does not await it.                                    *)
(*                                                                         *)
(* handleEvent() runs the middlewares around the handlers, one await after *)
(* the other.  The loop over the handlers reads the live list by index, so *)
(* a handler registered while another is awaited moves the rest along.     *)
(*                                                                         *)
(* An execution is one call of handleEvent().  An event is published once. *)
(***************************************************************************)
EXTENDS Integers, Sequences, FiniteSets, SequencesExt

CONSTANTS
  Handler,          \* handler objects
  Event,            \* event objects
  EventType,        \* names of event classes
  TypeOf,           \* the type of an event, and the one a handler handles
  Priority,         \* the priority a handler is registered with
  Execution,        \* bound: calls of handleEvent()
  MaxMiddlewares    \* bound: calls of use()

ASSUME BusAssumption ==
  /\ TypeOf \in [Handler \cup Event -> EventType]
  /\ Priority \in [Handler -> Int]
  /\ MaxMiddlewares \in Nat
  /\ Event # {}
  /\ IsFiniteSet(Execution)

VARIABLES
  isDevelopment,
  handlers,         \* handlers[t]: the sorted list of t, <<>> without entry
  subscriptions,    \* subscriptions[t]: callbacks the publisher has for t
  middlewares,      \* how many middlewares are in use
  execution,        \* the calls of handleEvent()
  published,        \* events published so far
  runs,             \* history: the handlers called for an event, in order
  before,           \* history: the list of its type when it was published
  arrivals,         \* history: registrations for it while it was handled
  stopped           \* history: Len(runs[e]) when a handler first threw, or 0

historyVars == <<runs, before, arrivals, stopped>>
vars == <<isDevelopment, handlers, subscriptions, middlewares, execution,
          published, historyVars>>

Stages == {"free", "entering", "handling", "leaving", "resolved", "rejected"}

Free == [stage |-> "free", event |-> CHOOSE e \in Event : TRUE, chain |-> 0, depth |-> 0,
         index |-> 0, failed |-> FALSE]

Over(x) == execution[x].stage \in {"resolved", "rejected"}

Executions(e) == {x \in Execution : execution[x].stage # "free" /\ execution[x].event = e}

InProgress(e) == \E x \in Executions(e) : ~ Over(x)
-----------------------------------------------------------------------------

\* Mutant: the list is not sorted again.
Insert_AtEnd(list, h) == Append(list, h)

\* push() and the stable sort, of a list that was sorted before: h comes
\* after the handlers of its priority.
Insert(list, h) ==
  LET place == CHOOSE k \in 1 .. Len(list) + 1 :
                 /\ \A i \in 1 .. k - 1 : Priority[list[i]] <= Priority[h]
                 /\ \A i \in k .. Len(list) : Priority[list[i]] > Priority[h]
  IN  InsertAt(list, place, h)

\* Bound: a handler object is registered once.
MayRegister(h) == ~ Contains(handlers[TypeOf[h]], h)

\* Mutant: every registration subscribes again.
Register_SubscribesAgain(h) ==
  /\ MayRegister(h)
  /\ subscriptions' = [subscriptions EXCEPT ![TypeOf[h]] = @ + 1]
  /\ handlers' = [handlers EXCEPT ![TypeOf[h]] = Insert(@, h)]
  /\ arrivals' = [e \in Event |->
                    IF TypeOf[e] = TypeOf[h] /\ InProgress(e) THEN arrivals[e] + 1 ELSE arrivals[e]]
  /\ UNCHANGED <<isDevelopment, middlewares, execution, published, runs, before, stopped>>

\* register(), which subscribe() calls.
Register(h) ==
  /\ MayRegister(h)
  /\ subscriptions' = [subscriptions EXCEPT ![TypeOf[h]] = IF handlers[TypeOf[h]] = <<>> THEN @ + 1 ELSE @]
  /\ handlers' = [handlers EXCEPT ![TypeOf[h]] = Insert(@, h)]
  /\ arrivals' = [e \in Event |->
                    IF TypeOf[e] = TypeOf[h] /\ InProgress(e) THEN arrivals[e] + 1 ELSE arrivals[e]]
  /\ UNCHANGED <<isDevelopment, middlewares, execution, published, runs, before, stopped>>

Use ==
  /\ middlewares < MaxMiddlewares
  /\ middlewares' = middlewares + 1
  /\ UNCHANGED <<isDevelopment, handlers, subscriptions, execution, published, historyVars>>
-----------------------------------------------------------------------------

(***************************************************************************)
(* publish(): the publisher calls every callback of the type.  Each call   *)
(* runs to its first await, inside the outermost middleware or, without    *)
(* middlewares, inside the first handler.                                  *)
(***************************************************************************)
Begun(e) ==
  [Free EXCEPT !.event = e, !.chain = middlewares,
               !.stage = IF middlewares > 0 THEN "entering" ELSE "handling",
               !.depth = IF middlewares > 0 THEN 1 ELSE 0,
               !.index = IF middlewares > 0 THEN 0 ELSE 1]

Publish(e) ==
  /\ e \notin published
  /\ published' = published \cup {e}
  /\ before' = [before EXCEPT ![e] = handlers[TypeOf[e]]]
  /\ \E X \in SUBSET {x \in Execution : execution[x].stage = "free"} :
       /\ Cardinality(X) = subscriptions[TypeOf[e]]
       /\ execution' = [x \in Execution |-> IF x \in X THEN Begun(e) ELSE execution[x]]
       /\ runs' = [runs EXCEPT ![e] = IF middlewares > 0 THEN <<>>
                                        ELSE [i \in 1 .. Cardinality(X) |-> handlers[TypeOf[e]][1]]]
  /\ UNCHANGED <<isDevelopment, handlers, subscriptions, middlewares, arrivals, stopped>>

Put(x, c) == execution' = [execution EXCEPT ![x] = c]

\* What the call in c is when the level below `depth` has settled: the call
\* ends, or the middleware that awaits next() goes on.
Settled(c, fails) ==
  IF c.depth = 0
    THEN [c EXCEPT !.stage = IF fails THEN "rejected" ELSE "resolved"]
    ELSE [c EXCEPT !.stage = "leaving", !.failed = fails]

\* Mutant: the loop stops one handler early.
CallFrom_ShortOfLast(x, i) ==
  LET c == execution[x]
      list == handlers[TypeOf[c.event]]
  IN  IF i < Len(list)
        THEN /\ Put(x, [c EXCEPT !.stage = "handling", !.index = i])
             /\ runs' = [runs EXCEPT ![c.event] = Append(@, list[i])]
        ELSE /\ Put(x, Settled(c, FALSE))
             /\ UNCHANGED runs

\* executeHandlers(), from index i of the live list to its next await.
CallFrom(x, i) ==
  LET c == execution[x]
      list == handlers[TypeOf[c.event]]
  IN  IF i <= Len(list)
        THEN /\ Put(x, [c EXCEPT !.stage = "handling", !.index = i])
             /\ runs' = [runs EXCEPT ![c.event] = Append(@, list[i])]
        ELSE /\ Put(x, Settled(c, FALSE))
             /\ UNCHANGED runs

HandlerReturns(x) ==
  /\ execution[x].stage = "handling"
  /\ CallFrom(x, execution[x].index + 1)
  /\ UNCHANGED <<isDevelopment, handlers, subscriptions, middlewares, published,
                 before, arrivals, stopped>>

\* Mutant: a failure in production is swallowed like one in development.
HandlerThrows_Swallowed(x) ==
  /\ execution[x].stage = "handling"
  /\ LET e == execution[x].event
     IN  stopped' = [stopped EXCEPT ![e] = IF @ = 0 THEN Len(runs[e]) ELSE @]
  /\ CallFrom(x, execution[x].index + 1)
  /\ UNCHANGED <<isDevelopment, handlers, subscriptions, middlewares, published,
                 before, arrivals>>

\* In development the error is logged and the loop goes on.
HandlerThrows(x) ==
  /\ execution[x].stage = "handling"
  /\ LET e == execution[x].event
     IN  stopped' = [stopped EXCEPT ![e] = IF @ = 0 THEN Len(runs[e]) ELSE @]
  /\ IF isDevelopment
       THEN CallFrom(x, execution[x].index + 1)
       ELSE Put(x, Settled(execution[x], TRUE)) /\ UNCHANGED runs
  /\ UNCHANGED <<isDevelopment, handlers, subscriptions, middlewares, published,
                 before, arrivals>>
-----------------------------------------------------------------------------

(***************************************************************************)
(* The middlewares of composeMiddlewareChain().  A middleware calls next() *)
(* once and awaits it, or returns or throws without calling it; it does    *)
(* not catch what next() throws.  The composed function logs what a        *)
(* middleware throws and rethrows it outside development.                  *)
(***************************************************************************)
MiddlewareCallsNext(x) ==
  /\ execution[x].stage = "entering"
  /\ IF execution[x].depth < execution[x].chain
       THEN Put(x, [execution[x] EXCEPT !.depth = @ + 1]) /\ UNCHANGED runs
       ELSE CallFrom(x, 1)
  /\ UNCHANGED <<isDevelopment, handlers, subscriptions, middlewares, published,
                 before, arrivals, stopped>>

\* The middleware that runs settles: the one around it goes on.
MiddlewareSettles(x, fails) ==
  /\ Put(x, Settled([execution[x] EXCEPT !.depth = @ - 1], fails /\ ~ isDevelopment))
  /\ UNCHANGED <<isDevelopment, handlers, subscriptions, middlewares, published, historyVars>>

MiddlewareStops(x) ==
  /\ execution[x].stage = "entering"
  /\ \E fails \in BOOLEAN : MiddlewareSettles(x, fails)

\* Mutant: a middleware that awaits next() is never resumed.
MiddlewareResumes_OnFailure(x) ==
  /\ execution[x].stage = "leaving"
  /\ execution[x].failed
  /\ MiddlewareSettles(x, TRUE)

MiddlewareResumes(x) ==
  /\ execution[x].stage = "leaving"
  /\ \E fails \in BOOLEAN :
       /\ execution[x].failed => fails
       /\ MiddlewareSettles(x, fails)
-----------------------------------------------------------------------------

Init ==
  /\ isDevelopment \in BOOLEAN
  /\ handlers = [t \in EventType |-> <<>>]
  /\ subscriptions = [t \in EventType |-> 0]
  /\ middlewares = 0
  /\ execution = [x \in Execution |-> Free]
  /\ published = {}
  /\ runs = [e \in Event |-> <<>>]
  /\ before = [e \in Event |-> <<>>]
  /\ arrivals = [e \in Event |-> 0]
  /\ stopped = [e \in Event |-> 0]

Continue(x) ==
  \/ HandlerReturns(x) \/ HandlerThrows(x)
  \/ MiddlewareCallsNext(x) \/ MiddlewareStops(x) \/ MiddlewareResumes(x)

Next ==
  \/ \E h \in Handler : Register(h)
  \/ Use
  \/ \E e \in Event : Publish(e)
  \/ \E x \in Execution : HandlerReturns(x)
  \/ \E x \in Execution : HandlerThrows(x)
  \/ \E x \in Execution : MiddlewareCallsNext(x)
  \/ \E x \in Execution : MiddlewareStops(x)
  \/ \E x \in Execution : MiddlewareResumes(x)

(***************************************************************************)
(* Fairness: the promises of handlers and middlewares settle, and the      *)
(* event loop resumes who awaits them.                                     *)
(***************************************************************************)
Spec == Init /\ [][Next]_vars /\ \A x \in Execution : WF_vars(Continue(x))
-----------------------------------------------------------------------------

(***************************************************************************)
(* Types.  A type has a subscription at the publisher exactly if it has    *)
(* handlers.                                                               *)
(***************************************************************************)
TypeOK ==
  /\ isDevelopment \in BOOLEAN
  /\ handlers \in [EventType -> Seq(Handler)]
  /\ subscriptions \in [EventType -> Nat]
  /\ \A t \in EventType : subscriptions[t] = IF handlers[t] = <<>> THEN 0 ELSE 1
  /\ middlewares \in 0 .. MaxMiddlewares
  /\ execution \in [Execution -> [stage : Stages, event : Event, chain : 0 .. MaxMiddlewares,
                                  depth : 0 .. MaxMiddlewares, index : Nat, failed : BOOLEAN]]
  /\ published \in SUBSET Event
  /\ runs \in [Event -> Seq(Handler)]
  /\ before \in [Event -> Seq(Handler)]
  /\ arrivals \in [Event -> Nat]
  /\ stopped \in [Event -> Nat]

(***************************************************************************)
(* The handlers of an event are called in the order of their priority,     *)
(* unless one is registered while others are awaited.                      *)
(***************************************************************************)
PriorityOrder ==
  \A e \in Event : arrivals[e] = 0 =>
    \A i, j \in DOMAIN runs[e] : i < j => Priority[runs[e][i]] <= Priority[runs[e][j]]

(***************************************************************************)
(* Every handler that was registered when the event was published is       *)
(* called, unless a middleware keeps the event from the handlers or an     *)
(* error in production stops them: registering another one, which moves    *)
(* the list under the loop, never makes the loop skip one.                 *)
(***************************************************************************)
NoneSkipped ==
  \A e \in Event :
    runs[e] # <<>> /\ ~ InProgress(e)
      => Range(before[e]) \subseteq Range(runs[e]) \/ (~ isDevelopment /\ stopped[e] > 0)

(***************************************************************************)
(* An event is handled once by each handler.  Only a registration that     *)
(* moves the list under the loop makes it call one again, and each such    *)
(* registration costs at most one call.                                    *)
(***************************************************************************)
CallsBounded == \A e \in Event : Len(runs[e]) <= Len(before[e]) + arrivals[e]

(***************************************************************************)
(* In production the first handler that throws is the last one called for  *)
(* the event, whatever is registered meanwhile, and its error passes every *)
(* middleware around it: the call of handleEvent() is rejected.            *)
(***************************************************************************)
Rejecting(x) ==
  \/ execution[x].stage = "leaving" /\ execution[x].failed
  \/ execution[x].stage = "rejected"

FirstFailureStops ==
  \A e \in Event : ~ isDevelopment /\ stopped[e] > 0 =>
    /\ Len(runs[e]) = stopped[e]
    /\ \A x \in Executions(e) : Rejecting(x)

(***************************************************************************)
(* "When a handler throws, the error SHALL propagate"; "both surface the   *)
(* failure identically (no environment hides it)" (openspec/specs/         *)
(* event-handler-error-propagation/spec.md:8,21): the call that is over    *)
(* was rejected if a handler threw.  Violated: executeHandlers() logs and  *)
(* swallows the error unless NODE_ENV is production.                       *)
(***************************************************************************)
FailureSurfaces ==
  \A x \in Execution :
    Over(x) /\ stopped[execution[x].event] > 0 => execution[x].stage = "rejected"

(***************************************************************************)
(* Every call of handleEvent() ends.  It rests on there being finitely     *)
(* many handlers: one that registers another each time it is called would  *)
(* keep the loop going.                                                    *)
(***************************************************************************)
HandlingEnds == \A x \in Execution : execution[x].stage # "free" ~> Over(x)
-----------------------------------------------------------------------------

\* How far the bus is with an event, for those who published it.
Progress(e) ==
  LET stages == {execution[x].stage : x \in Executions(e)} IN
  IF e \notin published THEN "new"
  ELSE IF "entering" \in stages THEN "held"
  ELSE IF "handling" \in stages THEN "calling"
  ELSE IF stages = {} \/ (runs[e] # <<>> /\ (isDevelopment \/ stopped[e] = 0)) THEN "done"
  ELSE "dropped"

Subscribers == [t \in EventType |-> Range(handlers[t])]
EventProgress == [e \in Event |-> Progress(e)]
StillOwed == [e \in Event |-> Range(before[e]) \ Range(runs[e])]

Dispatcher ==
  INSTANCE Dispatch WITH lenient <- isDevelopment, subscribed <- Subscribers,
                         progress <- EventProgress, owed <- StillOwed

(***************************************************************************)
(* The bus implements Dispatch: whatever is registered while handlers are  *)
(* awaited, and wherever the list moves under the loop, the loop ends only *)
(* when every handler there was at the publishing has been called.  An     *)
(* event is dropped by a middleware before the first handler or, in        *)
(* production, by a handler that throws, and never taken up again.         *)
(***************************************************************************)
DeliversToAll == Dispatcher!Spec
=============================================================================
