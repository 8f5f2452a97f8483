--------------------------- MODULE EventBusProofs ----------------------------
(***************************************************************************)
(* The event bus for any handlers, priorities, events and calls: types,    *)
(* the order of the calls, that no handler is skipped or called too often, *)
(* and where a failure goes.  The lists of handlers stay sorted; a call    *)
(* of handleEvent() has called as many handlers as its index says, and     *)
(* those it has not called yet lie ahead of it, also when a registration   *)
(* has moved them.                                                         *)
(***************************************************************************)
EXTENDS EventBus, SequenceTheorems, FiniteSetTheorems, WellFoundedInduction, TLAPS

Sorted(list) ==
  \A i, j \in DOMAIN list : i < j => Priority[list[i]] <= Priority[list[j]]

Live(c) == c.stage \in {"entering", "handling", "leaving"}

\* A handler of the list before the event has been called, or is ahead.
CalledOrAhead(e, list) ==
  \A i \in DOMAIN before[e] :
    \/ \E j \in DOMAIN runs[e] : runs[e][j] = before[e][i]
    \/ \E j \in Len(runs[e]) + 1 .. Len(list) : list[j] = before[e][i]

CalledAll(e) ==
  \A i \in DOMAIN before[e] : \E j \in DOMAIN runs[e] : runs[e][j] = before[e][i]

Failed(e) == ~ isDevelopment /\ stopped[e] > 0

\* What a call of handleEvent() knows of its event.
CallOK(c) ==
  LET e == c.event
      list == handlers[TypeOf[e]]
  IN  /\ c.stage = "entering" => runs[e] = <<>>
      /\ c.stage = "handling" => c.index = Len(runs[e]) /\ c.index \in 1 .. Len(list)
      /\ c.stage \in {"entering", "leaving"} => c.depth >= 1
      /\ Live(c) => /\ Len(list) = Len(before[e]) + arrivals[e]
                    /\ arrivals[e] = 0 => list = before[e]
      /\ c.stage \in {"entering", "handling"} => CalledOrAhead(e, list)
      /\ c.stage \in {"leaving", "resolved", "rejected"}
           => runs[e] = <<>> \/ CalledAll(e) \/ Failed(e)

\* What is so of every event; the handlers it has been given to were those
\* of the list before it, unless one arrived.
EventOK(e) ==
  /\ e \notin published =>
       /\ runs[e] = <<>> /\ before[e] = <<>> /\ arrivals[e] = 0 /\ stopped[e] = 0
       /\ Executions(e) = {}
  /\ runs[e] # <<>> => Executions(e) # {}
  /\ Sorted(before[e])
  /\ Len(runs[e]) <= Len(before[e]) + arrivals[e]
  /\ arrivals[e] = 0 => \A i \in DOMAIN runs[e] : runs[e][i] = before[e][i]

OneCall ==
  \A x, y \in Execution :
    execution[x].stage # "free" /\ execution[y].stage # "free"
      /\ execution[x].event = execution[y].event => x = y

\* Where the calls of an event are once a handler has thrown.
FailureOK ==
  IF isDevelopment
    THEN \A x \in Execution : execution[x].stage # "rejected" /\ ~ execution[x].failed
    ELSE \A e \in Event : stopped[e] > 0 =>
           /\ Len(runs[e]) = stopped[e]
           /\ \A x \in Execution :
                execution[x].stage # "free" /\ execution[x].event = e
                  => \/ execution[x].stage = "leaving" /\ execution[x].failed
                     \/ execution[x].stage = "rejected"

IInv ==
  /\ TypeOK
  /\ \A t \in EventType : Sorted(handlers[t])
  /\ \A x \in Execution : execution[x].stage # "free" => CallOK(execution[x])
  /\ \A e \in Event : EventOK(e)
  /\ OneCall
  /\ FailureOK
-----------------------------------------------------------------------------

LEMMA LeastNumber ==
  ASSUME NEW T \in SUBSET Nat, T # {}
  PROVE  \E m \in T : \A k \in T : m <= k
<1> DEFINE R == OpToRel(<, Nat)
<1>1. \A y, x \in Nat : y < x => <<y, x>> \in R
  BY DEF OpToRel
<1>2. \E m \in T : \A k \in T : ~ (<<k, m>> \in R)
  <2>1. IsWellFoundedOn(R, Nat)
    BY NatLessThanWellFounded
  <2> HIDE DEF R
  <2> QED BY <2>1, WFMin
<1> HIDE DEF R
<1>3. PICK m \in T : \A k \in T : ~ (<<k, m>> \in R)
  BY <1>2
<1>4. \A k \in T : ~ (k < m)
  BY <1>1, <1>3
<1>5. \A k \in T : m <= k
  BY <1>4
<1> QED BY <1>5

\* What inserting at a place does to the list.
LEMMA InsertedAt ==
  ASSUME NEW S, NEW list \in Seq(S), NEW h \in S, NEW k \in 1 .. Len(list) + 1
  PROVE  LET next == InsertAt(list, k, h) IN
         /\ next \in Seq(S) /\ Len(next) = Len(list) + 1
         /\ \A i \in 1 .. k - 1 : next[i] = list[i]
         /\ next[k] = h
         /\ \A i \in k .. Len(list) : next[i + 1] = list[i]
<1> DEFINE n == Len(list)
           a == SubSeq(list, 1, k - 1)
           b == SubSeq(list, k, n)
           c == a \o <<h>>
           next == c \o b
<1>1. n \in Nat /\ k \in Nat /\ k >= 1 /\ k <= n + 1
  OBVIOUS
<1>2. a \in Seq(S) /\ Len(a) = k - 1 /\ \A i \in 1 .. k - 1 : a[i] = list[i]
  <2>1. \A i \in 1 .. k - 1 : list[i] \in S
    BY <1>1
  <2>2. k - 1 \in Int /\ 1 \in Int
    BY <1>1
  <2>3. /\ a \in Seq(S)
        /\ Len(a) = IF 1 <= k - 1 THEN k - 1 - 1 + 1 ELSE 0
        /\ \A i \in 1 .. k - 1 - 1 + 1 : a[i] = list[1 + i - 1]
    BY <2>1, <2>2, SubSeqProperties
  <2> HIDE DEF a
  <2> QED BY <1>1, <2>3
<1>3. b \in Seq(S) /\ Len(b) = n - k + 1 /\ \A i \in 1 .. n - k + 1 : b[i] = list[k + i - 1]
  <2>1. \A i \in k .. n : list[i] \in S
    BY <1>1
  <2>2. /\ b \in Seq(S)
        /\ Len(b) = IF k <= n THEN n - k + 1 ELSE 0
        /\ \A i \in 1 .. n - k + 1 : b[i] = list[k + i - 1]
    BY <1>1, <2>1, SubSeqProperties
  <2> HIDE DEF b
  <2> QED BY <1>1, <2>2
<1>4. <<h>> \in Seq(S) /\ Len(<<h>>) = 1 /\ <<h>>[1] = h
  OBVIOUS
<1> HIDE DEF a, b, n
<1>5. /\ c \in Seq(S) /\ Len(c) = k
      /\ \A i \in 1 .. k - 1 : c[i] = list[i]
      /\ c[k] = h
  <2>1. /\ c \in Seq(S) /\ Len(c) = Len(a) + Len(<<h>>)
        /\ \A i \in 1 .. Len(a) + Len(<<h>>) : c[i] = IF i <= Len(a) THEN a[i] ELSE <<h>>[i - Len(a)]
    BY <1>2, <1>4, ConcatProperties
  <2> HIDE DEF c
  <2>2. Len(c) = k /\ \A i \in 1 .. k : c[i] = IF i <= k - 1 THEN a[i] ELSE <<h>>[i - (k - 1)]
    BY <1>1, <1>2, <1>4, <2>1
  <2>3. \A i \in 1 .. k - 1 : c[i] = list[i]
    BY <1>1, <1>2, <2>2
  <2>4. c[k] = h
    <3>1. k \in 1 .. k /\ ~ (k <= k - 1) /\ k - (k - 1) = 1
      BY <1>1
    <3> QED BY <1>4, <2>2, <3>1
  <2> QED BY <2>1, <2>2, <2>3, <2>4
<1> HIDE DEF c
<1>6. /\ next \in Seq(S) /\ Len(next) = n + 1
      /\ \A i \in 1 .. k : next[i] = c[i]
      /\ \A i \in k .. n : next[i + 1] = list[i]
  <2>1. /\ next \in Seq(S) /\ Len(next) = Len(c) + Len(b)
        /\ \A i \in 1 .. Len(c) + Len(b) : next[i] = IF i <= Len(c) THEN c[i] ELSE b[i - Len(c)]
    BY <1>3, <1>5, ConcatProperties
  <2> HIDE DEF next
  <2>2. Len(next) = n + 1 /\ \A i \in 1 .. n + 1 : next[i] = IF i <= k THEN c[i] ELSE b[i - k]
    BY <1>1, <1>3, <1>5, <2>1
  <2>3. \A i \in 1 .. k : next[i] = c[i]
    BY <1>1, <2>2
  <2>4. ASSUME NEW i \in k .. n PROVE next[i + 1] = list[i]
    <3>1. i + 1 \in 1 .. n + 1 /\ ~ (i + 1 <= k) /\ i + 1 - k \in 1 .. n - k + 1
          /\ k + (i + 1 - k) - 1 = i
      BY <1>1
    <3> QED BY <1>3, <2>2, <3>1
  <2> QED BY <2>1, <2>2, <2>3, <2>4
<1>7. next = InsertAt(list, k, h)
  BY DEF InsertAt, n, a, b, c
<1>8. /\ \A i \in 1 .. k - 1 : next[i] = list[i]
      /\ next[k] = h
  BY <1>1, <1>5, <1>6
<1> HIDE DEF next
<1> QED BY <1>6, <1>7, <1>8 DEF n

\* register() keeps a sorted list sorted and moves handlers by one place at
\* most, away from the start.
LEMMA InsertKeepsSorted ==
  ASSUME NEW list \in Seq(Handler), NEW h \in Handler, Sorted(list)
  PROVE  LET next == Insert(list, h) IN
         /\ next \in Seq(Handler) /\ Len(next) = Len(list) + 1
         /\ Sorted(next)
         /\ \A i \in 1 .. Len(list) : next[i] = list[i] \/ next[i + 1] = list[i]
         /\ Range(next) = Range(list) \cup {h}
<1> DEFINE n == Len(list)
           Place(k) == /\ \A i \in 1 .. k - 1 : Priority[list[i]] <= Priority[h]
                       /\ \A i \in k .. n : Priority[list[i]] > Priority[h]
           Above == {i \in 1 .. n : Priority[list[i]] > Priority[h]}
<1>1. /\ n \in Nat /\ DOMAIN list = 1 .. n
      /\ \A i \in 1 .. n : list[i] \in Handler /\ Priority[list[i]] \in Int
      /\ Priority[h] \in Int
  BY BusAssumption
<1> HIDE DEF n
<1>2. \E k \in 1 .. n + 1 : Place(k)
  <2>1. CASE Above = {}
    <3>1. Place(n + 1) /\ n + 1 \in 1 .. n + 1
      BY <1>1, <2>1
    <3> QED BY <3>1
  <2>2. CASE Above # {}
    <3>1. Above \in SUBSET Nat
      BY <1>1
    <3> HIDE DEF Above
    <3>2. PICK k \in Above : \A i \in Above : k <= i
      BY <2>2, <3>1, LeastNumber
    <3> USE DEF Above
    <3>3. k \in 1 .. n + 1
      BY <1>1
    <3>4. \A i \in 1 .. k - 1 : Priority[list[i]] <= Priority[h]
      BY <1>1, <3>2
    <3>5. \A i \in k .. n : Priority[list[i]] > Priority[h]
      BY <1>1, <3>2 DEF Sorted
    <3>6. Place(k)
      BY <3>4, <3>5
    <3> HIDE DEF Above, Place
    <3> QED BY <3>3, <3>6
  <2> QED BY <2>1, <2>2
<1> DEFINE k == CHOOSE j \in 1 .. n + 1 : Place(j)
           next == InsertAt(list, k, h)
<1>3. k \in 1 .. n + 1 /\ Place(k)
  BY <1>2
<1>4. next = Insert(list, h)
  BY DEF Insert, n
<1> HIDE DEF k
<1>5. /\ next \in Seq(Handler) /\ Len(next) = n + 1
      /\ \A i \in 1 .. k - 1 : next[i] = list[i]
      /\ next[k] = h
      /\ \A i \in k .. n : next[i + 1] = list[i]
  BY <1>3, InsertedAt DEF n
<1> HIDE DEF next
<1>6. Sorted(next)
  <2> SUFFICES ASSUME NEW i \in 1 .. n + 1, NEW j \in 1 .. n + 1, i < j
               PROVE  Priority[next[i]] <= Priority[next[j]]
    BY <1>5 DEF Sorted
  <2>1. CASE j < k
    <3>1. i \in 1 .. k - 1 /\ j \in 1 .. k - 1 /\ i \in 1 .. n /\ j \in 1 .. n
      BY <1>1, <1>3, <2>1
    <3>2. next[i] = list[i] /\ next[j] = list[j]
      BY <1>5, <3>1
    <3> QED BY <1>1, <3>1, <3>2 DEF Sorted
  <2>2. CASE j = k
    <3>1. i \in 1 .. k - 1
      BY <1>3, <2>2
    <3> QED BY <1>3, <1>5, <2>2, <3>1
  <2>3. CASE j > k
    <3>1. j - 1 \in k .. n /\ j - 1 + 1 = j /\ j - 1 \in 1 .. n
      BY <1>1, <1>3, <2>3
    <3>2. next[j] = list[j - 1] /\ Priority[list[j - 1]] > Priority[h]
      BY <1>3, <1>5, <3>1
    <3>3. CASE i = k
      BY <1>1, <1>5, <3>1, <3>2, <3>3
    <3>4. CASE i < k
      <4>1. i \in 1 .. k - 1 /\ i \in 1 .. n /\ i < j - 1
        BY <1>1, <1>3, <2>3, <3>4
      <4>2. next[i] = list[i]
        BY <1>5, <4>1
      <4> QED BY <1>1, <3>1, <3>2, <4>1, <4>2 DEF Sorted
    <3>5. CASE i > k
      <4>1. i - 1 \in k .. n /\ i - 1 + 1 = i /\ i - 1 \in 1 .. n /\ i - 1 < j - 1
        BY <1>1, <1>3, <3>5
      <4>2. next[i] = list[i - 1]
        BY <1>5, <4>1
      <4> QED BY <1>1, <3>1, <3>2, <4>1, <4>2 DEF Sorted
    <3> QED BY <1>3, <3>3, <3>4, <3>5
  <2> QED BY <1>3, <2>1, <2>2, <2>3
<1>7. ASSUME NEW i \in 1 .. n PROVE next[i] = list[i] \/ next[i + 1] = list[i]
  BY <1>1, <1>3, <1>5
<1>8. Range(next) = Range(list) \cup {h}
  <2>1. DOMAIN next = 1 .. n + 1
    BY <1>1, <1>5
  <2>2. ASSUME NEW i \in 1 .. n PROVE \E j \in 1 .. n + 1 : next[j] = list[i]
    <3>1. i \in 1 .. n + 1 /\ i + 1 \in 1 .. n + 1
      BY <1>1
    <3> QED BY <1>7, <3>1
  <2>3. ASSUME NEW j \in 1 .. n + 1 PROVE next[j] = h \/ \E i \in 1 .. n : next[j] = list[i]
    <3>1. CASE j < k
      <4>1. j \in 1 .. k - 1 /\ j \in 1 .. n
        BY <1>1, <1>3, <3>1
      <4> QED BY <1>5, <4>1
    <3>2. CASE j = k
      BY <1>5, <3>2
    <3>3. CASE j > k
      <4>1. j - 1 \in k .. n /\ j - 1 + 1 = j /\ j - 1 \in 1 .. n
        BY <1>1, <1>3, <3>3
      <4> QED BY <1>5, <4>1
    <3> QED BY <1>3, <3>1, <3>2, <3>3
  <2>4. k \in 1 .. n + 1 /\ next[k] = h
    BY <1>3, <1>5
  <2>5. Range(next) = {next[j] : j \in 1 .. n + 1} /\ Range(list) = {list[i] : i \in 1 .. n}
    BY <1>1, <2>1 DEF Range
  <2> QED BY <2>2, <2>3, <2>4, <2>5
<1> QED BY <1>4, <1>5, <1>6, <1>7, <1>8 DEF n
-----------------------------------------------------------------------------

LEMMA InitIsGood == Init => IInv
<1> SUFFICES ASSUME Init PROVE IInv
  OBVIOUS
<1>1. Free.event \in Event /\ Free.stage = "free" /\ ~ Free.failed
  BY BusAssumption DEF Free
<1>2. TypeOK
  BY BusAssumption, <1>1 DEF Init, TypeOK, Free, Stages
<1>3. \A t \in EventType : Sorted(handlers[t])
  BY DEF Init, Sorted
<1>4. \A e \in Event : EventOK(e)
  BY <1>1 DEF Init, EventOK, Executions, Sorted
<1>5. OneCall /\ FailureOK /\ \A x \in Execution : execution[x].stage = "free"
  BY <1>1 DEF Init, OneCall, FailureOK
<1> QED BY <1>2, <1>3, <1>4, <1>5 DEF IInv

\* The types of a call, one by one.
LEMMA CallTyped ==
  ASSUME TypeOK, NEW x \in Execution
  PROVE  /\ execution[x].event \in Event /\ TypeOf[execution[x].event] \in EventType
         /\ execution[x].stage \in Stages
         /\ execution[x].depth \in 0 .. MaxMiddlewares
         /\ execution[x].chain \in 0 .. MaxMiddlewares
         /\ execution[x].index \in Nat
         /\ execution[x].failed \in BOOLEAN
BY BusAssumption DEF TypeOK

LEMMA ListTyped ==
  ASSUME TypeOK, NEW t \in EventType
  PROVE  /\ handlers[t] \in Seq(Handler) /\ Len(handlers[t]) \in Nat
         /\ DOMAIN handlers[t] = 1 .. Len(handlers[t])
BY LenProperties DEF TypeOK

LEMMA EventTyped ==
  ASSUME TypeOK, NEW e \in Event
  PROVE  /\ runs[e] \in Seq(Handler) /\ Len(runs[e]) \in Nat
         /\ DOMAIN runs[e] = 1 .. Len(runs[e])
         /\ before[e] \in Seq(Handler) /\ Len(before[e]) \in Nat
         /\ DOMAIN before[e] = 1 .. Len(before[e])
         /\ arrivals[e] \in Nat /\ stopped[e] \in Nat
         /\ TypeOf[e] \in EventType
BY BusAssumption, LenProperties DEF TypeOK

\* A registration makes the lists of the calls in progress longer, counts
\* as an arrival, and leaves what is ahead of them ahead.
LEMMA RegisterIsGood == ASSUME IInv, NEW h \in Handler, Register(h) PROVE IInv'
<1> DEFINE t == TypeOf[h]
           list == handlers[t]
           next == Insert(list, h)
<1>1. /\ UNCHANGED <<isDevelopment, middlewares, execution, published, runs, before, stopped>>
      /\ handlers' = [handlers EXCEPT ![t] = next]
      /\ subscriptions' = [subscriptions EXCEPT ![t] = IF list = <<>> THEN @ + 1 ELSE @]
      /\ arrivals' = [e \in Event |-> IF TypeOf[e] = t /\ InProgress(e) THEN arrivals[e] + 1
                                                                     ELSE arrivals[e]]
  BY DEF Register
<1>2. h \in Handler /\ t \in EventType /\ list \in Seq(Handler) /\ Len(list) \in Nat /\ Sorted(list)
  BY BusAssumption, ListTyped DEF IInv
<1> HIDE DEF t, list, next
<1>3. /\ next \in Seq(Handler) /\ Len(next) = Len(list) + 1 /\ Sorted(next)
      /\ \A i \in 1 .. Len(list) : next[i] = list[i] \/ next[i + 1] = list[i]
  BY <1>2, InsertKeepsSorted DEF next
<1>4. \A u \in EventType : handlers'[u] = IF u = t THEN next ELSE handlers[u]
  BY <1>1 DEF IInv, TypeOK
<1>5. \A e \in Event : arrivals'[e] \in {arrivals[e], arrivals[e] + 1} /\ arrivals[e] \in Nat
  BY <1>1 DEF IInv, TypeOK
<1>6. TypeOK'
  <2>1. handlers' \in [EventType -> Seq(Handler)]
    BY <1>1, <1>2, <1>3 DEF IInv, TypeOK
  <2>2. arrivals' \in [Event -> Nat]
    BY <1>1, <1>5 DEF IInv, TypeOK
  <2>3. subscriptions' \in [EventType -> Nat]
    <3>1. subscriptions \in [EventType -> Nat] /\ subscriptions[t] \in Nat
      BY <1>2 DEF IInv, TypeOK
    <3>2. (IF list = <<>> THEN subscriptions[t] + 1 ELSE subscriptions[t]) \in Nat
      BY <3>1
    <3> QED BY <1>1, <3>1, <3>2
  <2>4. next # <<>>
    BY <1>2, <1>3
  <2>5. ASSUME NEW u \in EventType
        PROVE  subscriptions'[u] = IF handlers'[u] = <<>> THEN 0 ELSE 1
    <3>1. subscriptions[u] = IF handlers[u] = <<>> THEN 0 ELSE 1
      BY DEF IInv, TypeOK
    <3>2. CASE u = t
      BY <1>1, <1>4, <2>4, <3>1, <3>2 DEF IInv, TypeOK, list
    <3>3. CASE u # t
      BY <1>1, <1>4, <3>1, <3>3 DEF IInv, TypeOK
    <3> QED BY <3>2, <3>3
  <2> QED BY <1>1, <2>1, <2>2, <2>3, <2>5 DEF IInv, TypeOK
<1>7. \A u \in EventType : Sorted(handlers'[u])
  BY <1>3, <1>4 DEF IInv
<1>8. \A e \in Event : EventOK(e)'
  <2> SUFFICES ASSUME NEW e \in Event PROVE EventOK(e)'
    OBVIOUS
  <2>1. EventOK(e)
    BY DEF IInv
  <2>2. Executions(e)' = Executions(e) /\ InProgress(e)' = InProgress(e)
    BY <1>1 DEF Executions, InProgress, Over
  <2>3. e \notin published => arrivals'[e] = 0
    BY <1>1, <2>1 DEF EventOK, InProgress
  <2>4. Len(runs[e]) <= Len(before[e]) + arrivals'[e]
    BY <1>5, <2>1, EventTyped DEF EventOK, IInv
  <2>5. arrivals'[e] = 0 => arrivals[e] = 0
    BY <1>5
  <2> QED BY <1>1, <2>1, <2>2, <2>3, <2>4, <2>5 DEF EventOK
<1>9. ASSUME NEW x \in Execution, execution'[x].stage # "free"
      PROVE  CallOK(execution[x])'
  <2> DEFINE c == execution[x]
             e == c.event
             l == handlers[TypeOf[e]]
             m == handlers'[TypeOf[e]]
  <2>1. CallOK(c) /\ c.stage # "free"
    BY <1>1, <1>9 DEF IInv
  <2>2. e \in Event /\ TypeOf[e] \in EventType
    BY CallTyped DEF IInv
  <2>3. Live(c) => InProgress(e)
    BY <2>1 DEF Live, InProgress, Executions, Over
  <2>4. CASE TypeOf[e] # t
    <3>1. m = l
      BY <1>4, <2>2, <2>4
    <3>2. arrivals'[e] = arrivals[e]
      BY <1>1, <2>2, <2>4
    <3>3. c.stage \in {"entering", "handling"} => CalledOrAhead(e, handlers[TypeOf[e]])'
      <4>1. c.stage \in {"entering", "handling"} => CalledOrAhead(e, l)
        BY <2>1 DEF CallOK
      <4> QED BY <1>1, <3>1, <4>1 DEF CalledOrAhead
    <3>4. c.stage \in {"leaving", "resolved", "rejected"}
            => runs'[e] = <<>> \/ CalledAll(e)' \/ Failed(e)'
      BY <1>1, <2>1 DEF CallOK, CalledAll, Failed
    <3> QED BY <1>1, <2>1, <3>1, <3>2, <3>3, <3>4 DEF CallOK
  <2>5. CASE TypeOf[e] = t
    <3>1. l = list /\ m = next
      BY <1>4, <2>2, <2>5 DEF list
    <3>2. Live(c) => /\ Len(m) = Len(before[e]) + arrivals'[e]
                     /\ arrivals'[e] # 0
      <4> SUFFICES ASSUME Live(c)
                   PROVE  Len(m) = Len(before[e]) + arrivals'[e] /\ arrivals'[e] # 0
        OBVIOUS
      <4>1. Len(l) = Len(before[e]) + arrivals[e]
        BY <2>1 DEF CallOK
      <4>2. arrivals'[e] = arrivals[e] + 1
        BY <1>1, <2>2, <2>3, <2>5
      <4>3. Len(next) = Len(list) + 1
        BY <1>3
      <4> HIDE DEF c, l, m
      <4>4. arrivals[e] \in Nat /\ Len(before[e]) \in Nat
        BY <2>2, EventTyped DEF IInv
      <4> QED BY <1>2, <3>1, <4>1, <4>2, <4>3, <4>4
    <3>3. c.stage = "handling" => c.index \in 1 .. Len(m)
      <4>1. c.stage = "handling" => c.index \in 1 .. Len(l)
        BY <2>1 DEF CallOK
      <4> HIDE DEF c, l, m
      <4> QED BY <1>2, <1>3, <3>1, <4>1
    <3>4. c.stage \in {"entering", "handling"} => CalledOrAhead(e, m)
      <4> SUFFICES ASSUME CalledOrAhead(e, l) PROVE CalledOrAhead(e, m)
        BY <2>1 DEF CallOK
      <4> HIDE DEF c, l, m
      <4>1. ASSUME NEW i \in DOMAIN before[e],
                   NEW j \in Len(runs[e]) + 1 .. Len(l), l[j] = before[e][i]
            PROVE  \E k \in Len(runs[e]) + 1 .. Len(m) : m[k] = before[e][i]
        <5>1. Len(runs[e]) \in Nat
          BY <2>2, EventTyped DEF IInv
        <5>2. /\ j \in Len(runs[e]) + 1 .. Len(m) /\ j + 1 \in Len(runs[e]) + 1 .. Len(m)
              /\ j \in 1 .. Len(list)
          BY <1>2, <1>3, <3>1, <4>1, <5>1
        <5> QED BY <1>3, <3>1, <4>1, <5>2
      <4> QED BY <4>1 DEF CalledOrAhead
    <3>5. c.stage \in {"leaving", "resolved", "rejected"}
            => runs'[e] = <<>> \/ CalledAll(e)' \/ Failed(e)'
      BY <1>1, <2>1 DEF CallOK, CalledAll, Failed
    <3>6. c.stage \in {"entering", "handling"} => CalledOrAhead(e, handlers[TypeOf[e]])'
      BY <1>1, <3>4 DEF CalledOrAhead
    <3>7. /\ c.stage = "entering" => runs'[e] = <<>>
          /\ c.stage = "handling" => c.index = Len(runs'[e])
          /\ c.stage \in {"entering", "leaving"} => c.depth >= 1
      BY <1>1, <2>1 DEF CallOK
    <3> QED BY <1>1, <3>2, <3>3, <3>5, <3>6, <3>7 DEF CallOK
  <2> QED BY <2>4, <2>5
<1>10. OneCall' /\ FailureOK'
  BY <1>1 DEF IInv, OneCall, FailureOK
<1> QED BY <1>6, <1>7, <1>8, <1>9, <1>10 DEF IInv
-----------------------------------------------------------------------------

Call == [stage : Stages, event : Event, chain : 0 .. MaxMiddlewares,
         depth : 0 .. MaxMiddlewares, index : Nat, failed : BOOLEAN]

\* A step of the call x concerns its event alone.
StepOf(x) ==
  LET e == execution[x].event IN
  /\ UNCHANGED <<isDevelopment, handlers, subscriptions, middlewares, published, before, arrivals>>
  /\ \E c : Put(x, c) /\ c.stage # "free" /\ c.event = e
  /\ runs' \in [Event -> Seq(Handler)] /\ stopped' \in [Event -> Nat]
  /\ \A d \in Event \ {e} : runs'[d] = runs[d] /\ stopped'[d] = stopped[d]

LEMMA StepLeavesOthers ==
  ASSUME IInv, NEW x \in Execution, execution[x].stage # "free", StepOf(x),
         NEW e \in Event, execution[x].event = e
  PROVE  /\ \A y \in Execution : execution'[y].stage # "free" /\ y # x => CallOK(execution[y])'
         /\ \A d \in Event : d # e => EventOK(d)'
         /\ e \in published /\ x \in Executions(e)'
         /\ OneCall'
         /\ \A t \in EventType : Sorted(handlers'[t])
<1>1. PICK c : Put(x, c) /\ c.stage # "free" /\ c.event = e
  BY DEF StepOf
<1>2. /\ execution'[x] = c
      /\ \A y \in Execution : y # x => execution'[y] = execution[y]
  BY <1>1 DEF IInv, TypeOK, Put
<1>4. /\ UNCHANGED <<isDevelopment, handlers, published, before, arrivals>>
      /\ \A d \in Event \ {e} : runs'[d] = runs[d] /\ stopped'[d] = stopped[d]
  BY DEF StepOf
<1>5. ASSUME NEW y \in Execution, execution'[y].stage # "free", y # x
      PROVE  CallOK(execution[y])'
  <2>1. CallOK(execution[y]) /\ execution'[y] = execution[y] /\ execution[y].event # e
    BY <1>2, <1>5 DEF IInv, OneCall
  <2>2. execution[y].event \in Event \ {e}
    BY <2>1, CallTyped DEF IInv
  <2>3. /\ runs'[execution[y].event] = runs[execution[y].event]
        /\ stopped'[execution[y].event] = stopped[execution[y].event]
    BY <1>4, <2>2
  <2> QED BY <1>4, <2>1, <2>3 DEF CallOK, Live, CalledOrAhead, CalledAll, Failed
<1>6. ASSUME NEW d \in Event, d # e PROVE EventOK(d)'
  <2>1. EventOK(d)
    BY DEF IInv
  <2>2. Executions(d)' = Executions(d)
    BY <1>1, <1>2, <1>6 DEF Executions
  <2> QED BY <1>4, <1>6, <2>1, <2>2 DEF EventOK
<1>7. e \in published
  BY DEF IInv, EventOK, Executions
<1>8. x \in {y \in Execution : execution'[y].stage # "free" /\ execution'[y].event = e}
  BY <1>1, <1>2
<1>9. OneCall'
  BY <1>1, <1>2 DEF IInv, OneCall
<1> QED BY <1>4, <1>5, <1>6, <1>7, <1>8, <1>9 DEF IInv, Executions

LEMMA SettledCall ==
  ASSUME NEW c \in Call, NEW fails \in BOOLEAN
  PROVE  LET s == Settled(c, fails) IN
         /\ s \in Call /\ s.event = c.event
         /\ s.stage \in {"leaving", "resolved", "rejected"}
         /\ s.stage = "leaving" => s.depth >= 1 /\ (s.failed <=> fails)
         /\ s.stage = "resolved" => ~ fails
         /\ s.stage = "rejected" => fails
         /\ ~ fails /\ ~ c.failed => ~ s.failed
<1>1. CASE c.depth = 0
  BY <1>1 DEF Settled, Call, Stages
<1>2. CASE c.depth # 0
  <2> DEFINE s == [c EXCEPT !.stage = "leaving", !.failed = fails]
  <2>1. Settled(c, fails) = s
    BY <1>2 DEF Settled
  <2>2. s \in Call
    BY DEF Call, Stages
  <2>3. s.stage = "leaving" /\ s.event = c.event /\ s.depth = c.depth /\ s.failed = fails
    BY DEF Call
  <2>4. c.depth >= 1
    BY <1>2, BusAssumption DEF Call
  <2> HIDE DEF s
  <2> QED BY <2>1, <2>2, <2>3, <2>4
<1> QED BY <1>1, <1>2

\* The level below the call's depth settles.
LEMMA SettleIsGood ==
  ASSUME IInv, NEW x \in Execution, NEW e \in Event, execution[x].event = e,
         Live(execution[x]), NEW fails \in BOOLEAN, NEW c \in Call, c.event = e,
         c.failed = execution[x].failed,
         StepOf(x), Put(x, Settled(c, fails)), runs' = runs,
         fails => ~ isDevelopment,
         runs[e] = <<>> \/ CalledAll(e) \/ (~ isDevelopment /\ stopped'[e] > 0),
         ~ isDevelopment /\ stopped'[e] > 0 => fails /\ Len(runs[e]) = stopped'[e]
  PROVE  IInv'
<1> DEFINE s == Settled(c, fails)
<1>1. TypeOf[e] \in EventType /\ execution[x].stage # "free"
  BY BusAssumption DEF Live
<1>3. /\ s \in Call /\ s.event = e
      /\ s.stage \in {"leaving", "resolved", "rejected"}
      /\ s.stage = "leaving" => s.depth >= 1 /\ (s.failed <=> fails)
      /\ s.stage = "resolved" => ~ fails
      /\ s.stage = "rejected" => fails
      /\ ~ fails /\ ~ execution[x].failed => ~ s.failed
  BY SettledCall
<1> HIDE DEF s
<1>4. /\ execution' = [execution EXCEPT ![x] = s] /\ execution'[x] = s
      /\ \A y \in Execution : y # x => execution'[y] = execution[y]
  BY DEF IInv, TypeOK, Put, s
<1>5. /\ UNCHANGED <<isDevelopment, handlers, subscriptions, middlewares, published, before, arrivals>>
      /\ stopped' \in [Event -> Nat]
      /\ \A d \in Event \ {e} : stopped'[d] = stopped[d]
  BY DEF StepOf
<1>6. TypeOK'
  <2>1. execution' \in [Execution -> Call]
    BY <1>3, <1>4 DEF IInv, TypeOK, Call
  <2> QED BY <1>5, <2>1 DEF IInv, TypeOK, Call
<1>7. CallOK(execution[x])'
  <2>1. CallOK(execution[x])
    BY <1>1 DEF IInv
  <2>2. Len(handlers[TypeOf[e]]) = Len(before[e]) + arrivals[e]
        /\ (arrivals[e] = 0 => handlers[TypeOf[e]] = before[e])
    BY <2>1 DEF CallOK
  <2>3. runs[e] = <<>> \/ CalledAll(e)' \/ Failed(e)'
    BY <1>5 DEF Failed, CalledAll
  <2> QED BY <1>3, <1>4, <1>5, <2>2, <2>3 DEF CallOK, Live
<1>8. EventOK(e)'
  <2>1. EventOK(e)
    BY DEF IInv
  <2>2. e \in published /\ Executions(e)' # {}
    BY <1>1, StepLeavesOthers
  <2> QED BY <1>5, <2>1, <2>2 DEF EventOK
<1>9. FailureOK'
  <2>1. CASE isDevelopment
    <3>1. ~ fails /\ s.stage # "rejected" /\ ~ s.failed
      BY <1>3, <2>1 DEF IInv, FailureOK
    <3>2. ASSUME NEW y \in Execution
          PROVE  execution'[y].stage # "rejected" /\ ~ execution'[y].failed
      <4>1. execution[y].stage # "rejected" /\ ~ execution[y].failed
        BY <2>1 DEF IInv, FailureOK
      <4> QED BY <1>4, <3>1, <4>1
    <3> QED BY <1>5, <2>1, <3>2 DEF FailureOK
  <2>2. CASE ~ isDevelopment
    <3> SUFFICES ASSUME NEW d \in Event, stopped'[d] > 0
                 PROVE  /\ Len(runs[d]) = stopped'[d]
                        /\ \A y \in Execution :
                             execution'[y].stage # "free" /\ execution'[y].event = d
                               => \/ execution'[y].stage = "leaving" /\ execution'[y].failed
                                  \/ execution'[y].stage = "rejected"
      BY <1>5, <2>2 DEF FailureOK
    <3>1. CASE d = e
      <4>1. fails /\ Len(runs[e]) = stopped'[e]
        BY <2>2, <3>1
      <4>2. \A y \in Execution : execution[y].stage # "free" /\ execution[y].event = e => y = x
        BY <1>1 DEF IInv, OneCall
      <4>3. \A y \in Execution : execution'[y].stage # "free" /\ execution'[y].event = e => y = x
        BY <1>4, <4>2
      <4>4. (s.stage = "leaving" /\ s.failed) \/ s.stage = "rejected"
        BY <1>3, <4>1
      <4> QED BY <1>4, <3>1, <4>1, <4>3, <4>4
    <3>2. CASE d # e
      <4>1. stopped'[d] = stopped[d]
        BY <1>5, <3>2
      <4>2. \A y \in Execution :
              execution'[y].stage # "free" /\ execution'[y].event = d => y # x
        BY <1>3, <1>4, <3>2
      <4> QED BY <1>4, <2>2, <4>1, <4>2 DEF IInv, FailureOK
    <3> QED BY <3>1, <3>2
  <2> QED BY <2>1, <2>2
<1>10. /\ \A y \in Execution : execution'[y].stage # "free" => CallOK(execution[y])'
       /\ \A d \in Event : EventOK(d)'
       /\ OneCall' /\ \A t \in EventType : Sorted(handlers'[t])
  BY <1>1, <1>7, <1>8, StepLeavesOthers
<1> QED BY <1>6, <1>9, <1>10 DEF IInv

\* The loop over the handlers goes on: the next one of the live list is
\* called, or all have been.
LEMMA CallFromIsGood ==
  ASSUME IInv, NEW x \in Execution, NEW e \in Event, execution[x].event = e,
         execution[x].stage \in {"entering", "handling"},
         NEW i, i = Len(runs[e]) + 1, CallFrom(x, i),
         UNCHANGED <<isDevelopment, handlers, subscriptions, middlewares, published, before, arrivals>>,
         stopped' \in [Event -> Nat],
         \A d \in Event \ {e} : stopped'[d] = stopped[d],
         isDevelopment \/ stopped' = stopped
  PROVE  IInv'
<1> DEFINE c == execution[x]
           list == handlers[TypeOf[e]]
<1>1. /\ TypeOf[e] \in EventType /\ c.stage # "free" /\ Live(c)
      /\ c \in Call
  BY BusAssumption DEF Live, Call, IInv, TypeOK
<1>2. /\ list \in Seq(Handler) /\ Len(list) \in Nat
      /\ runs[e] \in Seq(Handler) /\ Len(runs[e]) \in Nat /\ DOMAIN runs[e] = 1 .. Len(runs[e])
      /\ Len(before[e]) \in Nat /\ DOMAIN before[e] = 1 .. Len(before[e]) /\ arrivals[e] \in Nat
  BY <1>1, ListTyped, EventTyped DEF IInv
<1>3. CallOK(c)
  BY <1>1 DEF IInv
<1>4. /\ Len(list) = Len(before[e]) + arrivals[e]
      /\ arrivals[e] = 0 => list = before[e]
      /\ CalledOrAhead(e, list)
  BY <1>1, <1>3 DEF CallOK
<1>5. ~ isDevelopment => stopped[e] = 0
  <2> SUFFICES ASSUME ~ isDevelopment PROVE ~ (stopped[e] > 0)
    BY EventTyped DEF IInv
  <2>1. ~ (execution[x].stage = "leaving") /\ ~ (execution[x].stage = "rejected")
    OBVIOUS
  <2> QED BY <1>1, <2>1 DEF IInv, FailureOK
<1>6. CASE i <= Len(list)
  <2> DEFINE s == [c EXCEPT !.stage = "handling", !.index = i]
             r == Append(runs[e], list[i])
  <2>1. i \in Nat \ {0} /\ i \in 1 .. Len(list) /\ list[i] \in Handler
    BY <1>2, <1>6
  <2>2. /\ s \in Call /\ s.stage = "handling" /\ s.index = i /\ s.event = e
        /\ s.failed = c.failed
    BY <1>1, <2>1 DEF Call, Stages
  <2>3. /\ r \in Seq(Handler) /\ Len(r) = i /\ DOMAIN r = 1 .. i
        /\ \A j \in 1 .. i - 1 : r[j] = runs[e][j]
        /\ r[i] = list[i]
    BY <1>2, <2>1, AppendProperties, LenProperties
  <2>4. Put(x, s) /\ runs' = [runs EXCEPT ![e] = r]
    BY <1>6 DEF CallFrom
  <2> HIDE DEF s, r
  <2>5. /\ execution' = [execution EXCEPT ![x] = s] /\ execution'[x] = s
        /\ \A y \in Execution : y # x => execution'[y] = execution[y]
        /\ runs'[e] = r /\ \A d \in Event \ {e} : runs'[d] = runs[d]
        /\ runs' \in [Event -> Seq(Handler)]
    BY <2>3, <2>4 DEF IInv, TypeOK, Put
  <2>6. StepOf(x)
    BY <2>2, <2>4, <2>5 DEF StepOf
  <2>7. TypeOK'
    <3>1. execution' \in [Execution -> Call]
      BY <2>2, <2>5 DEF IInv, TypeOK, Call
    <3> QED BY <2>5, <3>1 DEF IInv, TypeOK, Call
  <2>8. CalledOrAhead(e, list)'
    <3> SUFFICES ASSUME NEW k \in DOMAIN before[e]
                 PROVE  \/ \E j \in 1 .. i : r[j] = before[e][k]
                        \/ \E j \in i + 1 .. Len(list) : list[j] = before[e][k]
      BY <2>3, <2>5 DEF CalledOrAhead
    <3>1. CASE \E j \in DOMAIN runs[e] : runs[e][j] = before[e][k]
      <4>1. PICK j \in DOMAIN runs[e] : runs[e][j] = before[e][k]
        BY <3>1
      <4>2. j \in 1 .. i - 1 /\ j \in 1 .. i
        BY <1>2, <4>1
      <4> QED BY <2>3, <4>1, <4>2
    <3>2. CASE \E j \in Len(runs[e]) + 1 .. Len(list) : list[j] = before[e][k]
      <4>1. PICK j \in i .. Len(list) : list[j] = before[e][k]
        BY <3>2
      <4>2. j = i \/ j \in i + 1 .. Len(list)
        BY <1>2, <2>1
      <4>3. i \in 1 .. i
        BY <2>1
      <4> QED BY <2>3, <4>1, <4>2, <4>3
    <3> QED BY <1>4, <3>1, <3>2 DEF CalledOrAhead
  <2>9. CallOK(execution[x])'
    <3>1. runs'[e] = r /\ Len(r) = i /\ i \in 1 .. Len(list)
      BY <2>1, <2>3, <2>5
    <3> QED BY <1>4, <2>2, <2>5, <2>8, <3>1 DEF CallOK, Live
  <2>10. EventOK(e)'
    <3>1. EventOK(e)
      BY DEF IInv
    <3>2. e \in published /\ Executions(e)' # {}
      BY <1>1, <2>6, StepLeavesOthers
    <3>3. Len(r) <= Len(before[e]) + arrivals[e]
      BY <1>4, <1>6, <2>3
    <3>4. ASSUME arrivals[e] = 0, NEW j \in 1 .. i PROVE r[j] = before[e][j]
      <4>1. CASE j = i
        BY <1>4, <2>3, <3>4, <4>1
      <4>2. CASE j # i
        <5>1. j \in 1 .. i - 1 /\ j \in DOMAIN runs[e]
          BY <1>2, <2>1, <4>2
        <5> QED BY <2>3, <3>1, <3>4, <5>1 DEF EventOK
      <4> QED BY <4>1, <4>2
    <3> QED BY <2>3, <2>5, <3>1, <3>2, <3>3, <3>4 DEF EventOK
  <2>11. FailureOK'
    <3>1. CASE isDevelopment
      <4>1. ASSUME NEW y \in Execution
            PROVE  execution'[y].stage # "rejected" /\ ~ execution'[y].failed
        <5>1. execution[y].stage # "rejected" /\ ~ execution[y].failed /\ ~ c.failed
          BY <3>1 DEF IInv, FailureOK
        <5> QED BY <2>2, <2>5, <5>1
      <4> QED BY <3>1, <4>1 DEF FailureOK
    <3>2. CASE ~ isDevelopment
      <4>1. ASSUME NEW d \in Event, stopped'[d] > 0
            PROVE  /\ Len(runs'[d]) = stopped'[d]
                   /\ \A y \in Execution :
                        execution'[y].stage # "free" /\ execution'[y].event = d
                          => \/ execution'[y].stage = "leaving" /\ execution'[y].failed
                             \/ execution'[y].stage = "rejected"
        <5>1. stopped'[d] = stopped[d] /\ d # e
          BY <1>5, <3>2, <4>1
        <5>2. runs'[d] = runs[d]
          BY <2>5, <5>1
        <5>3. \A y \in Execution : execution'[y].stage # "free" /\ execution'[y].event = d => y # x
          BY <2>2, <2>5, <5>1
        <5> QED BY <2>5, <3>2, <4>1, <5>1, <5>2, <5>3 DEF IInv, FailureOK
      <4> QED BY <3>2, <4>1 DEF FailureOK
    <3> QED BY <3>1, <3>2
  <2>12. /\ \A y \in Execution : execution'[y].stage # "free" => CallOK(execution[y])'
         /\ \A d \in Event : EventOK(d)'
         /\ OneCall' /\ \A t \in EventType : Sorted(handlers'[t])
    BY <1>1, <2>6, <2>9, <2>10, StepLeavesOthers
  <2> QED BY <2>7, <2>11, <2>12 DEF IInv
<1>7. CASE ~ (i <= Len(list))
  <2>1. Put(x, Settled(c, FALSE)) /\ runs' = runs
    BY <1>7 DEF CallFrom
  <2>2. CalledAll(e)
    <3>1. Len(runs[e]) + 1 .. Len(list) = {}
      BY <1>2, <1>7
    <3> QED BY <1>4, <3>1 DEF CalledOrAhead, CalledAll
  <2>3. Settled(c, FALSE).stage # "free" /\ Settled(c, FALSE).event = e
    BY <1>1, SettledCall
  <2>4. runs' \in [Event -> Seq(Handler)]
    BY <2>1 DEF IInv, TypeOK
  <2>5. StepOf(x)
    BY <2>1, <2>3, <2>4 DEF StepOf
  <2>6. ~ (~ isDevelopment /\ stopped'[e] > 0)
    BY <1>5
  <2> HIDE DEF list
  <2> QED BY <1>1, <2>1, <2>2, <2>5, <2>6, SettleIsGood
<1> QED BY <1>6, <1>7
-----------------------------------------------------------------------------

LEMMA HandlerReturnsIsGood ==
  ASSUME IInv, NEW x \in Execution, HandlerReturns(x)
  PROVE  IInv'
<1>1. PICK e \in Event : execution[x].event = e
  BY CallTyped DEF IInv
<1>2. execution[x].index = Len(runs[e])
  BY <1>1 DEF HandlerReturns, IInv, CallOK
<1>3. stopped' = stopped /\ stopped \in [Event -> Nat]
  BY DEF HandlerReturns, IInv, TypeOK
<1> QED BY <1>1, <1>2, <1>3, CallFromIsGood DEF HandlerReturns

LEMMA HandlerThrowsIsGood ==
  ASSUME IInv, NEW x \in Execution, HandlerThrows(x)
  PROVE  IInv'
<1>1. PICK e \in Event : execution[x].event = e
  BY CallTyped DEF IInv
<1>2. execution[x].index = Len(runs[e]) /\ execution[x].index >= 1 /\ Len(runs[e]) \in Nat
  BY <1>1, EventTyped DEF HandlerThrows, IInv, CallOK
<1>3. /\ stopped' \in [Event -> Nat]
      /\ \A d \in Event \ {e} : stopped'[d] = stopped[d]
      /\ stopped'[e] = IF stopped[e] = 0 THEN Len(runs[e]) ELSE stopped[e]
  BY <1>1, <1>2 DEF HandlerThrows, IInv, TypeOK
<1>4. CASE isDevelopment
  BY <1>1, <1>2, <1>3, <1>4, CallFromIsGood DEF HandlerThrows
<1>5. CASE ~ isDevelopment
  <2> DEFINE c == execution[x]
  <2>1. c.stage = "handling" /\ c \in Call /\ Live(c)
    BY DEF HandlerThrows, IInv, TypeOK, Call, Live
  <2>2. Put(x, Settled(c, TRUE)) /\ runs' = runs
    BY <1>5 DEF HandlerThrows
  <2>3. Settled(c, TRUE).stage # "free" /\ Settled(c, TRUE).event = e
    BY <1>1, <2>1, SettledCall
  <2>4. StepOf(x)
    <3>1. runs' \in [Event -> Seq(Handler)]
      BY <2>2 DEF IInv, TypeOK
    <3> QED BY <1>1, <1>3, <2>2, <2>3, <3>1 DEF StepOf, HandlerThrows
  <2>5. stopped[e] = 0
    BY <1>1, <1>5, <2>1, EventTyped DEF IInv, FailureOK
  <2>6. stopped'[e] = Len(runs[e]) /\ stopped'[e] > 0
    BY <1>2, <1>3, <2>5
  <2> QED BY <1>1, <1>5, <2>1, <2>2, <2>4, <2>6, SettleIsGood
<1> QED BY <1>4, <1>5

\* One more middleware is entered, or the first handler is called.
LEMMA CallsNextIsGood ==
  ASSUME IInv, NEW x \in Execution, MiddlewareCallsNext(x)
  PROVE  IInv'
<1>1. PICK e \in Event : execution[x].event = e
  BY CallTyped DEF IInv
<1>2. execution[x].stage = "entering" /\ CallOK(execution[x]) /\ runs[e] = <<>>
  BY <1>1 DEF MiddlewareCallsNext, IInv, CallOK
<1>3. stopped' = stopped /\ stopped \in [Event -> Nat]
  BY DEF MiddlewareCallsNext, IInv, TypeOK
<1>4. CASE execution[x].depth < execution[x].chain
  <2> DEFINE c == execution[x]
             s == [c EXCEPT !.depth = @ + 1]
  <2>1. c \in Call /\ c.depth + 1 \in 0 .. MaxMiddlewares /\ c.depth + 1 >= 1
    <3>1. c \in Call /\ c.depth \in 0 .. MaxMiddlewares /\ c.chain \in 0 .. MaxMiddlewares
      BY CallTyped DEF IInv, TypeOK, Call
    <3> HIDE DEF c
    <3>2. c.depth < c.chain
      BY <1>4 DEF c
    <3>3. c.depth + 1 \in 0 .. MaxMiddlewares /\ c.depth + 1 >= 1
      BY <3>1, <3>2, BusAssumption
    <3> QED BY <3>1, <3>3
  <2>2. /\ s \in Call /\ s.stage = "entering" /\ s.event = e /\ s.failed = c.failed
        /\ s.depth = c.depth + 1
    BY <1>1, <1>2, <2>1 DEF Call
  <2>3. Put(x, s) /\ runs' = runs
    BY <1>4 DEF MiddlewareCallsNext
  <2> HIDE DEF s
  <2>4. /\ execution' = [execution EXCEPT ![x] = s] /\ execution'[x] = s
        /\ \A y \in Execution : y # x => execution'[y] = execution[y]
    BY <2>3 DEF IInv, TypeOK, Put
  <2>5. StepOf(x)
    <3>1. runs' \in [Event -> Seq(Handler)]
      BY <2>3 DEF IInv, TypeOK
    <3> QED BY <1>1, <1>3, <2>2, <2>3, <3>1 DEF StepOf, MiddlewareCallsNext
  <2>6. /\ UNCHANGED <<isDevelopment, handlers, subscriptions, middlewares, published, before, arrivals>>
    BY DEF MiddlewareCallsNext
  <2>7. TypeOK'
    <3>1. execution' \in [Execution -> Call]
      BY <2>2, <2>4 DEF IInv, TypeOK, Call
    <3> QED BY <1>3, <2>3, <2>6, <3>1 DEF IInv, TypeOK, Call
  <2>8. CallOK(execution[x])'
    BY <1>1, <1>2, <2>1, <2>2, <2>3, <2>4, <2>6 DEF CallOK, Live, CalledOrAhead
  <2>9. EventOK(e)'
    <3>1. EventOK(e) /\ e \in published /\ Executions(e)' # {}
      BY <1>1, <1>2, <2>5, StepLeavesOthers DEF IInv
    <3> QED BY <1>3, <2>3, <2>6, <3>1 DEF EventOK
  <2>10. FailureOK'
    <3>1. ~ isDevelopment => stopped[e] = 0
      BY <1>1, <1>2, EventTyped DEF IInv, FailureOK
    <3>2. isDevelopment => ~ c.failed
      BY DEF IInv, FailureOK
    <3> QED BY <1>3, <2>2, <2>3, <2>4, <2>6, <3>1, <3>2 DEF IInv, FailureOK
  <2>11. /\ \A y \in Execution : execution'[y].stage # "free" => CallOK(execution[y])'
         /\ \A d \in Event : EventOK(d)'
         /\ OneCall' /\ \A t \in EventType : Sorted(handlers'[t])
    BY <1>1, <1>2, <2>5, <2>8, <2>9, StepLeavesOthers
  <2> QED BY <2>7, <2>10, <2>11 DEF IInv
<1>5. CASE ~ (execution[x].depth < execution[x].chain)
  <2>1. CallFrom(x, 1) /\ 1 = Len(runs[e]) + 1
    BY <1>2, <1>5 DEF MiddlewareCallsNext
  <2> QED BY <1>1, <1>2, <1>3, <2>1, CallFromIsGood DEF MiddlewareCallsNext
<1> QED BY <1>4, <1>5

\* The middleware that runs returns or throws.
LEMMA MiddlewareSettlesIsGood ==
  ASSUME IInv, NEW x \in Execution, NEW fails \in BOOLEAN, MiddlewareSettles(x, fails),
         \/ execution[x].stage = "entering"
         \/ execution[x].stage = "leaving" /\ (execution[x].failed => fails)
  PROVE  IInv'
<1> DEFINE c == [execution[x] EXCEPT !.depth = @ - 1]
<1>1. PICK e \in Event : execution[x].event = e
  BY CallTyped DEF IInv
<1>2. CallOK(execution[x]) /\ Live(execution[x])
  BY DEF IInv, Live
<1>3. c \in Call /\ c.event = e /\ c.failed = execution[x].failed
  <2>1. execution[x] \in Call /\ execution[x].depth >= 1
    BY <1>2 DEF IInv, TypeOK, Call, CallOK
  <2>2. execution[x].depth - 1 \in 0 .. MaxMiddlewares
    BY <2>1, BusAssumption DEF Call
  <2> QED BY <1>1, <2>1, <2>2 DEF Call
<1> HIDE DEF c
<1>4. PICK f \in BOOLEAN : f = (fails /\ ~ isDevelopment)
  OBVIOUS
<1>5. Put(x, Settled(c, f)) /\ UNCHANGED <<isDevelopment, handlers, subscriptions, middlewares,
                                         published, runs, before, arrivals, stopped>>
  BY <1>4 DEF MiddlewareSettles, historyVars, c
<1>6. StepOf(x)
  <2>1. Settled(c, f).stage # "free" /\ Settled(c, f).event = e
    BY <1>3, SettledCall
  <2>2. runs' \in [Event -> Seq(Handler)] /\ stopped' \in [Event -> Nat]
    BY <1>5 DEF IInv, TypeOK
  <2> QED BY <1>1, <1>5, <2>1, <2>2 DEF StepOf
<1>7. runs[e] = <<>> \/ CalledAll(e) \/ (~ isDevelopment /\ stopped'[e] > 0)
  BY <1>1, <1>2, <1>5 DEF CallOK, Failed
<1>8. ~ isDevelopment /\ stopped'[e] > 0 => f /\ Len(runs[e]) = stopped'[e]
  BY <1>1, <1>4, <1>5 DEF IInv, FailureOK
<1> QED BY <1>1, <1>2, <1>3, <1>4, <1>5, <1>6, <1>7, <1>8, SettleIsGood

\* The publisher has no callback for a type without handlers, else one.
LEMMA PublishCalls ==
  ASSUME IInv, NEW e \in Event, Publish(e)
  PROVE  LET list == handlers[TypeOf[e]] IN
         \/ list = <<>> /\ execution' = execution /\ runs' = [runs EXCEPT ![e] = <<>>]
         \/ /\ list # <<>>
            /\ \E x \in Execution :
                 /\ execution[x].stage = "free"
                 /\ execution' = [execution EXCEPT ![x] = Begun(e)]
                 /\ runs' = [runs EXCEPT ![e] = IF middlewares > 0 THEN <<>> ELSE <<list[1]>>]
<1> DEFINE list == handlers[TypeOf[e]]
<1>1. TypeOf[e] \in EventType
  BY BusAssumption
<1>2. PICK X \in SUBSET {x \in Execution : execution[x].stage = "free"} :
        /\ Cardinality(X) = subscriptions[TypeOf[e]]
        /\ execution' = [x \in Execution |-> IF x \in X THEN Begun(e) ELSE execution[x]]
        /\ runs' = [runs EXCEPT ![e] = IF middlewares > 0 THEN <<>>
                                         ELSE [i \in 1 .. Cardinality(X) |-> list[1]]]
  BY DEF Publish
<1>3. IsFiniteSet(X)
  BY BusAssumption, FS_Subset
<1>4. Cardinality(X) = IF list = <<>> THEN 0 ELSE 1
  BY <1>1, <1>2 DEF IInv, TypeOK
<1>5. execution = [x \in Execution |-> execution[x]]
  BY DEF IInv, TypeOK
<1> HIDE DEF list
<1>6. CASE list = <<>>
  <2>1. X = {} /\ Cardinality(X) = 0
    BY <1>3, <1>4, <1>6, FS_EmptySet
  <2>2. [i \in 1 .. Cardinality(X) |-> list[1]] = <<>>
    BY <2>1
  <2>3. execution' = execution
    BY <1>2, <1>5, <2>1
  <2> QED BY <1>2, <1>6, <2>2, <2>3 DEF list
<1>7. CASE list # <<>>
  <2>1. Cardinality(X) = 1
    BY <1>4, <1>7
  <2>2. PICK x : X = {x}
    BY <1>3, <2>1, FS_Singleton
  <2>3. [i \in 1 .. Cardinality(X) |-> list[1]] = <<list[1]>>
    BY <2>1
  <2>4. x \in Execution /\ execution[x].stage = "free"
    BY <1>2, <2>2
  <2>5. execution' = [execution EXCEPT ![x] = Begun(e)]
    BY <1>2, <1>5, <2>2, <2>4
  <2> QED BY <1>2, <1>7, <2>3, <2>4, <2>5 DEF list
<1> QED BY <1>6, <1>7

LEMMA BegunCall ==
  ASSUME TypeOK, NEW e \in Event
  PROVE  /\ Begun(e) \in Call /\ Begun(e).event = e /\ ~ Begun(e).failed
         /\ middlewares > 0 => Begun(e).stage = "entering" /\ Begun(e).depth = 1
         /\ ~ (middlewares > 0) => Begun(e).stage = "handling" /\ Begun(e).index = 1
<1>1. Free \in Call /\ ~ Free.failed
  BY BusAssumption DEF Free, Call, Stages
<1>2. middlewares \in 0 .. MaxMiddlewares /\ (middlewares > 0 => 1 \in 0 .. MaxMiddlewares)
  BY BusAssumption DEF TypeOK
<1>3. CASE middlewares > 0
  <2> DEFINE s == [Free EXCEPT !.event = e, !.chain = middlewares, !.stage = "entering",
                               !.depth = 1, !.index = 0]
  <2>1. Begun(e) = s
    BY <1>3 DEF Begun
  <2>2. "entering" \in Stages /\ 1 \in 0 .. MaxMiddlewares /\ 0 \in Nat
    BY <1>2, <1>3 DEF Stages
  <2>3. s \in Call
    BY <1>1, <1>2, <2>2 DEF Call
  <2>4. s.event = e /\ ~ s.failed /\ s.stage = "entering" /\ s.depth = 1
    BY <1>1 DEF Call
  <2> HIDE DEF s
  <2> QED BY <1>3, <2>1, <2>3, <2>4
<1>4. CASE ~ (middlewares > 0)
  <2> DEFINE s == [Free EXCEPT !.event = e, !.chain = middlewares, !.stage = "handling",
                               !.depth = 0, !.index = 1]
  <2>1. Begun(e) = s
    BY <1>4 DEF Begun
  <2>2. "handling" \in Stages /\ 0 \in 0 .. MaxMiddlewares /\ 1 \in Nat
    BY BusAssumption DEF Stages
  <2>3. s \in Call
    BY <1>1, <1>2, <2>2 DEF Call
  <2>4. s.event = e /\ ~ s.failed /\ s.stage = "handling" /\ s.index = 1
    BY <1>1 DEF Call
  <2> HIDE DEF s
  <2> QED BY <1>4, <2>1, <2>3, <2>4
<1> QED BY <1>3, <1>4

LEMMA PublishIsGood == ASSUME IInv, NEW e \in Event, Publish(e) PROVE IInv'
<1> DEFINE list == handlers[TypeOf[e]]
<1>1. /\ TypeOf[e] \in EventType /\ list \in Seq(Handler) /\ Len(list) \in Nat
      /\ DOMAIN list = 1 .. Len(list) /\ Sorted(list)
      /\ list # <<>> => Len(list) >= 1 /\ list[1] \in Handler
  <2>1. /\ TypeOf[e] \in EventType /\ list \in Seq(Handler) /\ Len(list) \in Nat
        /\ DOMAIN list = 1 .. Len(list) /\ Sorted(list)
    BY BusAssumption, ListTyped DEF IInv
  <2>2. list # <<>> => Len(list) >= 1
    BY <2>1, EmptySeq
  <2>3. list # <<>> => list[1] \in Handler
    BY <2>1, <2>2, ElementOfSeq
  <2> QED BY <2>1, <2>2, <2>3
<1>2. /\ UNCHANGED <<isDevelopment, handlers, subscriptions, middlewares, arrivals, stopped>>
      /\ published' = published \cup {e} /\ before' = [before EXCEPT ![e] = list]
      /\ e \notin published
  BY DEF Publish
<1>3. EventOK(e) /\ Executions(e) = {} /\ runs[e] = <<>> /\ arrivals[e] = 0 /\ stopped[e] = 0
  BY <1>2 DEF IInv, EventOK
<1>4. /\ before'[e] = list /\ before' \in [Event -> Seq(Handler)]
      /\ \A d \in Event \ {e} : before'[d] = before[d]
  BY <1>1, <1>2 DEF IInv, TypeOK
<1>5. \A t \in EventType : Sorted(handlers'[t])
  BY <1>2 DEF IInv
<1> HIDE DEF list
<1>6. CASE list = <<>>
  <2>1. execution' = execution /\ runs' = runs
    BY <1>3, <1>6, PublishCalls DEF list, IInv, TypeOK
  <2>2. TypeOK'
    BY <1>2, <1>4, <2>1 DEF IInv, TypeOK
  <2>3. ASSUME NEW d \in Event PROVE EventOK(d)'
    <3>1. EventOK(d) /\ Executions(d)' = Executions(d)
      BY <2>1 DEF IInv, Executions
    <3>2. CASE d = e
      <4>1. Sorted(before'[e]) /\ Len(runs'[e]) <= Len(before'[e]) + arrivals'[e]
        BY <1>1, <1>2, <1>3, <1>4, <1>6, <2>1 DEF Sorted
      <4> QED BY <1>2, <1>3, <2>1, <3>1, <3>2, <4>1 DEF EventOK
    <3>3. CASE d # e
      BY <1>2, <1>4, <2>1, <3>1, <3>3 DEF EventOK
    <3> QED BY <3>2, <3>3
  <2>4. ASSUME NEW x \in Execution, execution'[x].stage # "free" PROVE CallOK(execution[x])'
    <3>1. CallOK(execution[x]) /\ execution[x].event # e /\ execution[x].event \in Event
      BY <1>3, <2>1, <2>4, CallTyped DEF IInv, Executions
    <3>2. before'[execution[x].event] = before[execution[x].event]
      BY <1>4, <3>1
    <3> QED BY <1>2, <2>1, <3>1, <3>2 DEF CallOK, Live, CalledOrAhead, CalledAll, Failed
  <2>5. OneCall' /\ FailureOK'
    BY <1>2, <2>1 DEF IInv, OneCall, FailureOK
  <2> QED BY <1>5, <2>2, <2>3, <2>4, <2>5 DEF IInv
<1>7. CASE list # <<>>
  <2> DEFINE r == IF middlewares > 0 THEN <<>> ELSE <<list[1]>>
             s == Begun(e)
  <2>1. PICK x \in Execution :
          /\ execution[x].stage = "free"
          /\ execution' = [execution EXCEPT ![x] = s]
          /\ runs' = [runs EXCEPT ![e] = r]
    BY <1>7, PublishCalls DEF list
  <2>2. /\ s \in Call /\ s.event = e /\ ~ s.failed
        /\ middlewares > 0 => s.stage = "entering" /\ s.depth = 1
        /\ ~ (middlewares > 0) => s.stage = "handling" /\ s.index = 1
    BY BegunCall DEF IInv
  <2>3. /\ r \in Seq(Handler)
        /\ middlewares > 0 => r = <<>> /\ Len(r) = 0 /\ DOMAIN r = {}
        /\ ~ (middlewares > 0) => Len(r) = 1 /\ DOMAIN r = {1} /\ r[1] = list[1]
    BY <1>1, <1>7
  <2> HIDE DEF r, s
  <2>4. /\ execution'[x] = s /\ \A y \in Execution : y # x => execution'[y] = execution[y]
        /\ execution' \in [Execution -> Call]
        /\ runs'[e] = r /\ \A d \in Event \ {e} : runs'[d] = runs[d]
        /\ runs' \in [Event -> Seq(Handler)]
    BY <2>1, <2>2, <2>3 DEF IInv, TypeOK, Call
  <2>5. \A y \in Execution : execution[y].stage # "free" => execution[y].event # e /\ y # x
    BY <1>3, <2>1 DEF Executions
  <2>6. TypeOK'
    BY <1>2, <1>4, <2>4 DEF IInv, TypeOK, Call
  <2>7. CallOK(execution[x])'
    <3>1. ASSUME NEW k \in DOMAIN list
          PROVE  \/ \E j \in DOMAIN r : r[j] = list[k]
                 \/ \E j \in Len(r) + 1 .. Len(list) : list[j] = list[k]
      <4>1. k \in 1 .. Len(list)
        BY <1>1
      <4>2. CASE middlewares > 0
        <5>1. k \in Len(r) + 1 .. Len(list)
          BY <2>3, <4>1, <4>2
        <5> QED BY <5>1
      <4>3. CASE ~ (middlewares > 0) /\ k = 1
        BY <2>3, <4>3
      <4>4. CASE ~ (middlewares > 0) /\ k # 1
        <5>1. Len(r) = 1 /\ 1 + 1 = 2
          BY <2>3, <4>4
        <5>2. k \in 2 .. Len(list)
          BY <1>1, <4>1, <4>4
        <5> QED BY <5>1, <5>2
      <4> QED BY <4>2, <4>3, <4>4
    <3>2. handlers'[TypeOf[e]] = list /\ Len(list) = Len(before'[e]) + arrivals'[e]
      BY <1>1, <1>2, <1>3, <1>4 DEF list
    <3>3. 1 \in 1 .. Len(list)
      BY <1>1, <1>7
    <3>4. CalledOrAhead(e, handlers[TypeOf[e]])'
      BY <1>4, <2>4, <3>1, <3>2 DEF CalledOrAhead
    <3>5. CASE middlewares > 0
      <4>1. s.stage = "entering" /\ s.depth >= 1 /\ runs'[e] = <<>>
        BY <2>2, <2>3, <2>4, <3>5
      <4> QED BY <1>4, <2>2, <2>4, <3>2, <3>4, <4>1 DEF CallOK, Live
    <3>6. CASE ~ (middlewares > 0)
      BY <1>4, <2>2, <2>3, <2>4, <3>2, <3>3, <3>4, <3>6 DEF CallOK, Live
    <3> QED BY <3>5, <3>6
  <2>8. ASSUME NEW y \in Execution, execution'[y].stage # "free", y # x
        PROVE  CallOK(execution[y])'
    <3>1. /\ execution'[y] = execution[y] /\ CallOK(execution[y])
          /\ execution[y].event # e /\ execution[y].event \in Event
      BY <2>4, <2>5, <2>8, CallTyped DEF IInv
    <3>2. /\ before'[execution[y].event] = before[execution[y].event]
          /\ runs'[execution[y].event] = runs[execution[y].event]
      BY <1>4, <2>4, <3>1
    <3>3. /\ CalledAll(execution[y].event) => CalledAll(execution[y].event)'
          /\ Failed(execution[y].event) => Failed(execution[y].event)'
      BY <1>2, <3>1, <3>2 DEF CalledAll, Failed
    <3>4. CalledOrAhead(execution[y].event, handlers[TypeOf[execution[y].event]])
            => CalledOrAhead(execution[y].event, handlers[TypeOf[execution[y].event]])'
      BY <1>2, <3>1, <3>2 DEF CalledOrAhead
    <3> QED BY <1>2, <3>1, <3>2, <3>3, <3>4 DEF CallOK, Live
  <2>9. ASSUME NEW d \in Event PROVE EventOK(d)'
    <3>1. CASE d = e
      <4>1. x \in Executions(e)'
        BY <2>2, <2>4 DEF Executions
      <4>2. Sorted(before'[e])
        BY <1>1, <1>4 DEF Sorted
      <4>3. Len(runs'[e]) <= Len(before'[e]) + arrivals'[e]
        BY <1>1, <1>2, <1>3, <1>4, <1>7, <2>3, <2>4
      <4>4. \A i \in DOMAIN runs'[e] : runs'[e][i] = before'[e][i]
        BY <1>4, <2>3, <2>4
      <4> QED BY <1>2, <3>1, <4>1, <4>2, <4>3, <4>4 DEF EventOK
    <3>2. CASE d # e
      <4>1. EventOK(d) /\ Executions(d)' = Executions(d)
        BY <2>1, <2>2, <2>4, <3>2 DEF IInv, Executions
      <4> QED BY <1>2, <1>4, <2>4, <3>2, <4>1 DEF EventOK
    <3> QED BY <3>1, <3>2
  <2>10. OneCall'
    BY <2>2, <2>4, <2>5 DEF IInv, OneCall
  <2>11. FailureOK'
    <3>1. CASE isDevelopment
      BY <1>2, <2>2, <2>4, <3>1 DEF IInv, FailureOK
    <3>2. CASE ~ isDevelopment
      <4>1. ASSUME NEW d \in Event, stopped'[d] > 0
            PROVE  /\ Len(runs'[d]) = stopped'[d]
                   /\ \A y \in Execution :
                        execution'[y].stage # "free" /\ execution'[y].event = d
                          => \/ execution'[y].stage = "leaving" /\ execution'[y].failed
                             \/ execution'[y].stage = "rejected"
        <5>1. d # e /\ stopped'[d] = stopped[d]
          BY <1>2, <1>3, <4>1
        <5>2. runs'[d] = runs[d]
          BY <2>4, <5>1
        <5>3. \A y \in Execution : execution'[y].event = d => y # x
          BY <2>2, <2>4, <5>1
        <5>4. /\ Len(runs[d]) = stopped[d]
              /\ \A y \in Execution :
                   execution[y].stage # "free" /\ execution[y].event = d
                     => \/ execution[y].stage = "leaving" /\ execution[y].failed
                        \/ execution[y].stage = "rejected"
          BY <3>2, <4>1, <5>1 DEF IInv, FailureOK
        <5> QED BY <2>4, <5>1, <5>2, <5>3, <5>4
      <4> QED BY <1>2, <3>2, <4>1 DEF FailureOK
    <3> QED BY <3>1, <3>2
  <2> QED BY <1>5, <2>6, <2>7, <2>8, <2>9, <2>10, <2>11 DEF IInv
<1> QED BY <1>6, <1>7

\* use() and a stutter leave lists, calls and events alone.
LEMMA RestIsGood ==
  ASSUME IInv, Use \/ UNCHANGED vars
  PROVE  IInv'
<1>1. UNCHANGED <<isDevelopment, handlers, subscriptions, execution, published,
                  runs, before, arrivals, stopped>>
  BY DEF Use, vars, historyVars
<1>2. middlewares' \in 0 .. MaxMiddlewares
  BY BusAssumption DEF Use, vars, IInv, TypeOK
<1>3. TypeOK'
  BY <1>1, <1>2 DEF IInv, TypeOK
<1>4. ASSUME NEW x \in Execution, execution'[x].stage # "free" PROVE CallOK(execution[x])'
  BY <1>1, <1>4 DEF IInv, CallOK, Live, CalledOrAhead, CalledAll, Failed
<1>5. ASSUME NEW e \in Event PROVE EventOK(e)'
  BY <1>1 DEF IInv, EventOK, Executions
<1>6. OneCall' /\ FailureOK' /\ \A t \in EventType : Sorted(handlers'[t])
  BY <1>1 DEF IInv, OneCall, FailureOK
<1> QED BY <1>3, <1>4, <1>5, <1>6 DEF IInv

LEMMA StepIsGood == IInv /\ [Next]_vars => IInv'
<1> SUFFICES ASSUME IInv, [Next]_vars PROVE IInv'
  OBVIOUS
<1>1. CASE \E h \in Handler : Register(h)
  BY <1>1, RegisterIsGood
<1>2. CASE Use \/ UNCHANGED vars
  BY <1>2, RestIsGood
<1>3. CASE \E e \in Event : Publish(e)
  BY <1>3, PublishIsGood
<1>4. CASE \E x \in Execution : HandlerReturns(x)
  BY <1>4, HandlerReturnsIsGood
<1>5. CASE \E x \in Execution : HandlerThrows(x)
  BY <1>5, HandlerThrowsIsGood
<1>6. CASE \E x \in Execution : MiddlewareCallsNext(x)
  BY <1>6, CallsNextIsGood
<1>7. CASE \E x \in Execution : MiddlewareStops(x)
  BY <1>7, MiddlewareSettlesIsGood DEF MiddlewareStops
<1>8. CASE \E x \in Execution : MiddlewareResumes(x)
  BY <1>8, MiddlewareSettlesIsGood DEF MiddlewareResumes
<1> QED BY <1>1, <1>2, <1>3, <1>4, <1>5, <1>6, <1>7, <1>8 DEF Next

LEMMA Invariance == Spec => []IInv
<1>1. Init => IInv
  BY InitIsGood
<1>2. IInv /\ [Next]_vars => IInv'
  BY StepIsGood
<1> QED BY <1>1, <1>2, PTL DEF Spec
-----------------------------------------------------------------------------

(***************************************************************************)
(* For any number of handlers, events and calls: a type has one callback   *)
(* at the publisher if it has handlers, else none.                         *)
(***************************************************************************)
THEOREM TypeCorrect == Spec => []TypeOK
<1>1. IInv => TypeOK
  BY DEF IInv
<1> QED BY <1>1, Invariance, PTL

(***************************************************************************)
(* Whatever the priorities: unless a handler is registered while others    *)
(* are awaited, the handlers of an event are called in their order.        *)
(***************************************************************************)
THEOREM CalledInOrder == Spec => []PriorityOrder
<1>1. IInv => PriorityOrder
  <2> SUFFICES ASSUME IInv, NEW e \in Event, arrivals[e] = 0,
                      NEW i \in DOMAIN runs[e], NEW j \in DOMAIN runs[e], i < j
               PROVE  Priority[runs[e][i]] <= Priority[runs[e][j]]
    BY DEF PriorityOrder
  <2>1. EventOK(e)
    BY DEF IInv
  <2>2. runs[e][i] = before[e][i] /\ runs[e][j] = before[e][j]
    BY <2>1 DEF EventOK
  <2>3. i \in DOMAIN before[e] /\ j \in DOMAIN before[e]
    BY <2>1, EventTyped DEF EventOK, IInv
  <2> QED BY <2>1, <2>2, <2>3 DEF EventOK, Sorted
<1> QED BY <1>1, Invariance, PTL

(***************************************************************************)
(* The loop over the live list skips no handler that was there when the    *)
(* event was published, wherever others are inserted meanwhile.            *)
(***************************************************************************)
THEOREM NoHandlerIsSkipped == Spec => []NoneSkipped
<1>1. IInv => NoneSkipped
  <2> SUFFICES ASSUME IInv, NEW e \in Event, runs[e] # <<>>, ~ InProgress(e)
               PROVE  Range(before[e]) \subseteq Range(runs[e]) \/ (~ isDevelopment /\ stopped[e] > 0)
    BY DEF NoneSkipped
  <2>1. PICK x \in Execution : execution[x].stage # "free" /\ execution[x].event = e
    BY DEF IInv, EventOK, Executions
  <2>2. execution[x].stage \in {"resolved", "rejected"}
    BY <2>1 DEF InProgress, Executions, Over
  <2>3. CalledAll(e) \/ Failed(e)
    BY <2>1, <2>2 DEF IInv, CallOK
  <2> QED BY <2>3 DEF CalledAll, Failed, Range
<1> QED BY <1>1, Invariance, PTL

(***************************************************************************)
(* A handler is called again for an event only at the price of a           *)
(* registration made while the event was handled.                          *)
(***************************************************************************)
THEOREM CallsAreBounded == Spec => []CallsBounded
<1>1. IInv => CallsBounded
  BY DEF IInv, EventOK, CallsBounded
<1> QED BY <1>1, Invariance, PTL

(***************************************************************************)
(* In production the first handler that throws is the last thing that      *)
(* happens to the event, and handleEvent() is rejected.                    *)
(***************************************************************************)
THEOREM FirstFailureIsLast == Spec => []FirstFailureStops
<1>1. IInv => FirstFailureStops
  BY DEF IInv, FailureOK, FirstFailureStops, Executions, Rejecting
<1> QED BY <1>1, Invariance, PTL
-----------------------------------------------------------------------------

\* Once one call of handleEvent() is known, it alone says how far the event is.
CallTellsProgress ==
  \A x \in Execution : \A e \in Event :
    execution[x].stage # "free" /\ execution[x].event = e =>
      Progress(e) = IF execution[x].stage = "entering" THEN "held"
                    ELSE IF execution[x].stage = "handling" THEN "calling"
                    ELSE IF runs[e] # <<>> /\ ~ Failed(e) THEN "done"
                    ELSE "dropped"

LEMMA OneCallTells == IInv => CallTellsProgress
<1> SUFFICES ASSUME IInv, NEW x \in Execution, NEW e \in Event,
                    execution[x].stage # "free", execution[x].event = e
             PROVE  Progress(e) = IF execution[x].stage = "entering" THEN "held"
                                  ELSE IF execution[x].stage = "handling" THEN "calling"
                                  ELSE IF runs[e] # <<>> /\ ~ Failed(e) THEN "done"
                                  ELSE "dropped"
  BY DEF CallTellsProgress
<1>1. Executions(e) = {x}
  BY DEF IInv, OneCall, Executions
<1>2. e \in published
  BY <1>1 DEF IInv, EventOK
<1>3. {execution[y].stage : y \in Executions(e)} = {execution[x].stage}
  BY <1>1
<1>4. isDevelopment \/ stopped[e] = 0 <=> ~ Failed(e)
  BY EventTyped DEF IInv, Failed
<1> QED BY <1>2, <1>3, <1>4 DEF Progress

LEMMA OneCallTellsNext == IInv' => CallTellsProgress'
BY OneCallTells, PTL

\* What a step of a call comes to: the next handler is called, the next
\* middleware is entered, or no handler is called any more.
LEMMA CallFromOutcome ==
  ASSUME IInv, NEW x \in Execution, NEW e \in Event, execution[x].event = e, NEW i \in Nat \ {0},
         execution[x].stage # "free", CallFrom(x, i)
  PROVE  /\ execution'[x].event = e
         /\ \A y \in Execution : y # x => execution'[y] = execution[y]
         /\ \A d \in Event \ {e} : runs'[d] = runs[d]
         /\ \/ /\ execution'[x].stage = "handling"
               /\ \E h \in Range(handlers[TypeOf[e]]) : runs'[e] = Append(runs[e], h)
            \/ execution'[x].stage \in {"leaving", "resolved", "rejected"} /\ runs' = runs
<1> DEFINE c == execution[x]
           list == handlers[TypeOf[e]]
<1>1. c \in Call /\ TypeOf[e] \in EventType /\ DOMAIN list = 1 .. Len(list) /\ Len(list) \in Nat
  BY BusAssumption, ListTyped DEF IInv, TypeOK, Call
<1>2. CASE i <= Len(list)
  <2> DEFINE s == [c EXCEPT !.stage = "handling", !.index = i]
  <2>1. Put(x, s) /\ runs' = [runs EXCEPT ![e] = Append(@, list[i])]
    BY <1>2 DEF CallFrom
  <2>2. s.stage = "handling" /\ s.event = e
    BY <1>1 DEF Call
  <2> HIDE DEF s
  <2>3. list[i] \in Range(list)
    <3>1. i \in DOMAIN list
      BY <1>1, <1>2
    <3> QED BY <3>1 DEF Range
  <2>4. execution'[x] = s /\ \A y \in Execution : y # x => execution'[y] = execution[y]
    BY <2>1 DEF Put, IInv, TypeOK
  <2>5. runs'[e] = Append(runs[e], list[i]) /\ \A d \in Event \ {e} : runs'[d] = runs[d]
    BY <2>1 DEF IInv, TypeOK
  <2> QED BY <2>2, <2>3, <2>4, <2>5
<1>3. CASE ~ (i <= Len(list))
  <2> DEFINE s == Settled(c, FALSE)
  <2>1. Put(x, s) /\ runs' = runs
    BY <1>3 DEF CallFrom
  <2>2. s.stage \in {"leaving", "resolved", "rejected"} /\ s.event = e
    BY <1>1, SettledCall
  <2> HIDE DEF s
  <2>3. execution'[x] = s /\ \A y \in Execution : y # x => execution'[y] = execution[y]
    BY <2>1 DEF Put, IInv, TypeOK
  <2> QED BY <2>1, <2>2, <2>3
<1> QED BY <1>2, <1>3

\* A step of the call of e, seen from outside.
Turn(x, e) ==
  /\ execution[x].stage \in {"entering", "handling", "leaving"}
  /\ UNCHANGED <<isDevelopment, handlers, published, before>>
  /\ execution'[x].event = e
  /\ \A y \in Execution : y # x => execution'[y] = execution[y]
  /\ \A d \in Event \ {e} : runs'[d] = runs[d] /\ stopped'[d] = stopped[d]
  /\ \/ /\ execution[x].stage \in {"entering", "handling"}
        /\ execution'[x].stage = "handling"
        /\ \E h \in Range(handlers[TypeOf[e]]) : runs'[e] = Append(runs[e], h)
     \/ /\ execution[x].stage = "entering" /\ execution'[x].stage = "entering"
        /\ runs' = runs
     \/ /\ execution'[x].stage \in {"leaving", "resolved", "rejected"}
        /\ runs' = runs
        /\ execution[x].stage = "leaving" => stopped' = stopped

LEMMA SettlingIsTurn ==
  ASSUME IInv, NEW x \in Execution, NEW e \in Event, execution[x].event = e,
         NEW fails \in BOOLEAN, MiddlewareSettles(x, fails),
         execution[x].stage \in {"entering", "leaving"}
  PROVE  Turn(x, e)
<1> DEFINE c == [execution[x] EXCEPT !.depth = @ - 1]
<1>1. CallOK(execution[x])
  BY DEF IInv
<1>2. c \in Call /\ c.event = e
  <2>1. execution[x] \in Call /\ execution[x].depth >= 1
    BY <1>1 DEF IInv, TypeOK, Call, CallOK
  <2>2. execution[x].depth - 1 \in 0 .. MaxMiddlewares
    BY <2>1, BusAssumption DEF Call
  <2> QED BY <2>1, <2>2 DEF Call
<1> HIDE DEF c
<1>3. PICK f \in BOOLEAN : f = (fails /\ ~ isDevelopment)
  OBVIOUS
<1>4. Put(x, Settled(c, f)) /\ UNCHANGED <<isDevelopment, handlers, published, runs, before, stopped>>
  BY <1>3 DEF MiddlewareSettles, historyVars, c
<1>5. Settled(c, f).event = e /\ Settled(c, f).stage \in {"leaving", "resolved", "rejected"}
  BY <1>2, SettledCall
<1>6. execution'[x] = Settled(c, f) /\ \A y \in Execution : y # x => execution'[y] = execution[y]
  BY <1>4 DEF Put, IInv, TypeOK
<1> QED BY <1>4, <1>5, <1>6 DEF Turn

LEMMA ContinueIsTurn ==
  ASSUME IInv, NEW x \in Execution, NEW e \in Event, execution[x].event = e, Continue(x)
  PROVE  Turn(x, e)
<1>1. CASE HandlerReturns(x)
  <2>1. execution[x].stage = "handling" /\ CallOK(execution[x]) /\ execution[x].index + 1 \in Nat \ {0}
    BY <1>1, CallTyped DEF HandlerReturns, IInv
  <2> QED BY <1>1, <2>1, CallFromOutcome DEF HandlerReturns, Turn
<1>2. CASE HandlerThrows(x)
  <2>1. execution[x].stage = "handling" /\ execution[x].index + 1 \in Nat \ {0} /\ execution[x] \in Call
    BY <1>2, CallTyped DEF HandlerThrows, IInv, TypeOK, Call
  <2>2. /\ \A d \in Event \ {e} : stopped'[d] = stopped[d]
        /\ UNCHANGED <<isDevelopment, handlers, published, before>>
    BY <1>2 DEF HandlerThrows, IInv, TypeOK
  <2>3. CASE isDevelopment
    <3>1. CallFrom(x, execution[x].index + 1)
      BY <1>2, <2>3 DEF HandlerThrows
    <3>2. /\ execution'[x].event = e
          /\ \A y \in Execution : y # x => execution'[y] = execution[y]
          /\ \A d \in Event \ {e} : runs'[d] = runs[d]
          /\ \/ /\ execution'[x].stage = "handling"
                /\ \E h \in Range(handlers[TypeOf[e]]) : runs'[e] = Append(runs[e], h)
             \/ execution'[x].stage \in {"leaving", "resolved", "rejected"} /\ runs' = runs
      BY <2>1, <3>1, CallFromOutcome
    <3> QED BY <2>1, <2>2, <3>2 DEF Turn
  <2>4. CASE ~ isDevelopment
    <3>1. Put(x, Settled(execution[x], TRUE)) /\ runs' = runs
      BY <1>2, <2>4 DEF HandlerThrows
    <3>2. /\ Settled(execution[x], TRUE).event = e
          /\ Settled(execution[x], TRUE).stage \in {"leaving", "resolved", "rejected"}
      BY <2>1, SettledCall
    <3>3. /\ execution'[x] = Settled(execution[x], TRUE)
          /\ \A y \in Execution : y # x => execution'[y] = execution[y]
      BY <3>1 DEF Put, IInv, TypeOK
    <3> QED BY <2>1, <2>2, <3>1, <3>2, <3>3 DEF Turn
  <2> QED BY <2>3, <2>4
<1>3. CASE MiddlewareCallsNext(x)
  <2>1. /\ execution[x].stage = "entering" /\ execution[x] \in Call /\ 1 \in Nat \ {0}
        /\ UNCHANGED <<isDevelopment, handlers, published, before, stopped>>
    BY <1>3 DEF MiddlewareCallsNext, IInv, TypeOK, Call
  <2>2. CASE execution[x].depth < execution[x].chain
    <3> DEFINE s == [execution[x] EXCEPT !.depth = @ + 1]
    <3>1. Put(x, s) /\ runs' = runs
      BY <1>3, <2>2 DEF MiddlewareCallsNext
    <3>2. s.stage = "entering" /\ s.event = e
      BY <2>1 DEF Call
    <3> HIDE DEF s
    <3>3. execution'[x] = s /\ \A y \in Execution : y # x => execution'[y] = execution[y]
      BY <3>1 DEF Put, IInv, TypeOK
    <3> QED BY <2>1, <3>1, <3>2, <3>3 DEF Turn
  <2>3. CASE ~ (execution[x].depth < execution[x].chain)
    <3>1. CallFrom(x, 1)
      BY <1>3, <2>3 DEF MiddlewareCallsNext
    <3> QED BY <2>1, <3>1, CallFromOutcome DEF Turn
  <2> QED BY <2>2, <2>3
<1>4. CASE MiddlewareStops(x)
  BY <1>4, SettlingIsTurn DEF MiddlewareStops
<1>5. CASE MiddlewareResumes(x)
  BY <1>5, SettlingIsTurn DEF MiddlewareResumes
<1> QED BY <1>1, <1>2, <1>3, <1>4, <1>5 DEF Continue
-----------------------------------------------------------------------------

\* Another event is where it was.
LEMMA TurnLeavesOthers ==
  ASSUME IInv, NEW x \in Execution, NEW e \in Event, execution[x].event = e, Turn(x, e),
         execution'[x].stage # "free", NEW d \in Event, d # e
  PROVE  Progress(d)' = Progress(d) /\ Range(runs'[d]) = Range(runs[d])
<1>1. Executions(d)' = Executions(d) /\ x \notin Executions(d)
  BY DEF Turn, Executions
<1>2. {execution'[y].stage : y \in Executions(d)'} = {execution[y].stage : y \in Executions(d)}
  <2>1. \A y \in Executions(d) : execution'[y] = execution[y]
    BY <1>1 DEF Turn, Executions
  <2> QED BY <1>1, <2>1
<1>3. runs'[d] = runs[d] /\ stopped'[d] = stopped[d]
  BY DEF Turn
<1> QED BY <1>2, <1>3 DEF Turn, Progress

LEMMA AppendAdds ==
  ASSUME NEW S, NEW s \in Seq(S), NEW h \in S
  PROVE  Range(Append(s, h)) = Range(s) \cup {h} /\ Append(s, h) # <<>>
<1>1. Len(s) \in Nat /\ DOMAIN s = 1 .. Len(s)
  BY LenProperties
<1>2. /\ Append(s, h) \in Seq(S) /\ Len(Append(s, h)) = Len(s) + 1
      /\ \A i \in 1 .. Len(s) : Append(s, h)[i] = s[i]
      /\ Append(s, h)[Len(s) + 1] = h
  BY AppendProperties
<1>3. DOMAIN Append(s, h) = 1 .. Len(s) + 1
  BY <1>2, LenProperties
<1>4. 1 .. Len(s) + 1 = (1 .. Len(s)) \cup {Len(s) + 1}
  BY <1>1
<1> DEFINE a == Append(s, h)
<1>5. DOMAIN a = DOMAIN s \cup {Len(s) + 1} /\ a[Len(s) + 1] = h /\ \A i \in DOMAIN s : a[i] = s[i]
  BY <1>1, <1>2, <1>3, <1>4
<1>6. a # <<>>
  BY <1>2, <1>1, EmptySeq
<1> HIDE DEF a
<1>7. Range(a) = Range(s) \cup {h}
  BY <1>5 DEF Range
<1> QED BY <1>6, <1>7 DEF a

\* What a step that concerns e alone makes of the abstract state.
LEMMA OneEventMoves ==
  ASSUME IInv, NEW e \in Event, UNCHANGED <<isDevelopment, handlers>>,
         \A d \in Event \ {e} : Progress(d)' = Progress(d)
         /\ Range(before'[d]) \ Range(runs'[d]) = Range(before[d]) \ Range(runs[d]),
         NEW to, NEW rest, Progress(e)' = to, Range(before'[e]) \ Range(runs'[e]) = rest
  PROVE  Dispatcher!Moves(e, to, rest)
<1>1. EventProgress' = [EventProgress EXCEPT ![e] = to]
  BY DEF EventProgress
<1>2. StillOwed' = [StillOwed EXCEPT ![e] = rest]
  BY DEF StillOwed
<1>3. Subscribers' = Subscribers
  BY DEF Subscribers
<1> QED BY <1>1, <1>2, <1>3 DEF Dispatcher!Moves

LEMMA AbstractState ==
  ASSUME NEW e \in Event, TypeOf[e] \in EventType
  PROVE  /\ EventProgress[e] = Progress(e)
         /\ StillOwed[e] = Range(before[e]) \ Range(runs[e])
         /\ Subscribers[TypeOf[e]] = Range(handlers[TypeOf[e]])
BY DEF EventProgress, StillOwed, Subscribers
-----------------------------------------------------------------------------

LEMMA RangeOfFew ==
  /\ Range(<<>>) = {}
  /\ \A h : Range(<<h>>) = {h}
<1>1. Range(<<>>) = {}
  BY DEF Range
<1>2. ASSUME NEW h PROVE Range(<<h>>) = {h}
  <2>1. DOMAIN <<h>> = {1} /\ <<h>>[1] = h
    OBVIOUS
  <2> QED BY <2>1 DEF Range
<1> QED BY <1>1, <1>2

LEMMA InitDispatches == Init => Dispatcher!Init
<1> SUFFICES ASSUME Init PROVE Dispatcher!Init
  OBVIOUS
<1>1. Subscribers = [t \in EventType |-> {}]
  BY RangeOfFew DEF Init, Subscribers
<1>2. EventProgress = [e \in Event |-> "new"]
  BY DEF Init, EventProgress, Progress
<1>3. StillOwed = [e \in Event |-> {}]
  BY RangeOfFew DEF Init, StillOwed
<1> QED BY <1>1, <1>2, <1>3 DEF Dispatcher!Init, Init

LEMMA RegisterDispatches == ASSUME IInv, NEW h \in Handler, Register(h) PROVE Dispatcher!Subscribe(h)
<1> DEFINE t == TypeOf[h]
<1>1. t \in EventType /\ handlers[t] \in Seq(Handler) /\ Sorted(handlers[t])
  BY BusAssumption, ListTyped DEF IInv
<1>2. handlers' = [handlers EXCEPT ![t] = Insert(handlers[t], h)]
  BY DEF Register
<1>3. Range(Insert(handlers[t], h)) = Range(handlers[t]) \cup {h}
  BY <1>1, InsertKeepsSorted
<1>4. \A u \in EventType : handlers'[u] = IF u = t THEN Insert(handlers[t], h) ELSE handlers[u]
  BY <1>1, <1>2 DEF IInv, TypeOK
<1>5. Subscribers' = [Subscribers EXCEPT ![t] = @ \cup {h}]
  <2> DEFINE s == [Subscribers EXCEPT ![t] = @ \cup {h}]
  <2>1. s = [u \in EventType |-> IF u = t THEN Range(handlers[t]) \cup {h} ELSE Range(handlers[u])]
    BY <1>1 DEF Subscribers
  <2>2. \A u \in EventType :
          Range(handlers'[u]) = IF u = t THEN Range(handlers[t]) \cup {h} ELSE Range(handlers[u])
    BY <1>3, <1>4
  <2> QED BY <2>1, <2>2 DEF Subscribers
<1>6. UNCHANGED <<isDevelopment, execution, published, runs, before, stopped>>
  BY DEF Register
<1>7. EventProgress' = EventProgress
  BY <1>6 DEF EventProgress, Progress, Executions
<1>8. StillOwed' = StillOwed
  BY <1>6 DEF StillOwed
<1> QED BY <1>5, <1>6, <1>7, <1>8 DEF Dispatcher!Subscribe

LEMMA PublishDispatches == ASSUME IInv, IInv', NEW e \in Event, Publish(e) PROVE Dispatcher!Publish(e)
<1> DEFINE list == handlers[TypeOf[e]]
<1>1. TypeOf[e] \in EventType /\ list \in Seq(Handler) /\ Subscribers[TypeOf[e]] = Range(list)
  BY BusAssumption, ListTyped, AbstractState DEF IInv
<1>2. /\ UNCHANGED <<isDevelopment, handlers, stopped, middlewares>>
      /\ published' = published \cup {e} /\ before' = [before EXCEPT ![e] = list]
      /\ e \notin published
  BY DEF Publish
<1>3. Executions(e) = {} /\ runs[e] = <<>>
  BY <1>2 DEF IInv, EventOK
<1>4. before'[e] = list /\ \A d \in Event \ {e} : before'[d] = before[d]
  BY <1>2 DEF IInv, TypeOK
<1>5. EventProgress[e] = "new"
  BY <1>1, <1>2, AbstractState DEF Progress
<1> HIDE DEF list
<1>6. ASSUME NEW d \in Event \ {e}, runs'[d] = runs[d],
             Executions(d)' = Executions(d), \A y \in Executions(d) : execution'[y] = execution[y]
      PROVE  /\ Progress(d)' = Progress(d)
             /\ Range(before'[d]) \ Range(runs'[d]) = Range(before[d]) \ Range(runs[d])
  <2>1. {execution'[y].stage : y \in Executions(d)'} = {execution[y].stage : y \in Executions(d)}
    BY <1>6
  <2>2. Progress(d)' = Progress(d)
    BY <1>2, <1>6, <2>1 DEF Progress
  <2> QED BY <1>4, <1>6, <2>2
<1>7. CASE list = <<>>
  <2>1. execution' = execution /\ runs' = runs
    <3>1. execution' = execution /\ runs' = [runs EXCEPT ![e] = <<>>]
      BY <1>7, PublishCalls DEF list
    <3>2. runs = [d \in Event |-> runs[d]]
      BY DEF IInv, TypeOK
    <3> QED BY <1>3, <3>1, <3>2
  <2>2. Executions(e)' = {} /\ \A d \in Event : Executions(d)' = Executions(d)
    BY <1>3, <2>1 DEF Executions
  <2>3. Progress(e)' = "done"
    BY <1>2, <2>2 DEF Progress
  <2>4. Range(before'[e]) \ Range(runs'[e]) = {}
    BY <1>4, <1>7, RangeOfFew
  <2>5. \A d \in Event \ {e} :
          /\ Progress(d)' = Progress(d)
          /\ Range(before'[d]) \ Range(runs'[d]) = Range(before[d]) \ Range(runs[d])
    BY <1>6, <2>1, <2>2
  <2>6. Dispatcher!Moves(e, "done", {})
    BY <1>2, <2>3, <2>4, <2>5, OneEventMoves
  <2>7. Subscribers[TypeOf[e]] = {}
    BY <1>1, <1>7, RangeOfFew
  <2> QED BY <1>5, <2>6, <2>7 DEF Dispatcher!Publish
<1>8. CASE list # <<>>
  <2> DEFINE r == IF middlewares > 0 THEN <<>> ELSE <<list[1]>>
  <2>1. PICK x \in Execution :
          /\ execution[x].stage = "free"
          /\ execution' = [execution EXCEPT ![x] = Begun(e)]
          /\ runs' = [runs EXCEPT ![e] = r]
    BY <1>8, PublishCalls DEF list
  <2>2. /\ Begun(e).event = e
        /\ middlewares > 0 => Begun(e).stage = "entering"
        /\ ~ (middlewares > 0) => Begun(e).stage = "handling"
    BY BegunCall DEF IInv
  <2> HIDE DEF r
  <2>3. /\ execution'[x] = Begun(e) /\ \A y \in Execution : y # x => execution'[y] = execution[y]
        /\ runs'[e] = r /\ \A d \in Event \ {e} : runs'[d] = runs[d]
    BY <2>1 DEF IInv, TypeOK
  <2>4. ASSUME NEW d \in Event \ {e}
        PROVE  Executions(d)' = Executions(d) /\ \A y \in Executions(d) : execution'[y] = execution[y]
    BY <2>1, <2>2, <2>3 DEF Executions
  <2>5. \A d \in Event \ {e} :
          /\ Progress(d)' = Progress(d)
          /\ Range(before'[d]) \ Range(runs'[d]) = Range(before[d]) \ Range(runs[d])
    BY <1>6, <2>3, <2>4
  <2>6. list[1] \in Range(list)
    <3>1. 1 \in DOMAIN list
      BY <1>1, <1>8, EmptySeq, LenProperties
    <3> QED BY <3>1 DEF Range
  <2>7. CASE middlewares > 0
    <3>1. Progress(e)' = "held"
      BY <2>2, <2>3, <2>7, OneCallTellsNext DEF CallTellsProgress
    <3>2. Range(before'[e]) \ Range(runs'[e]) = Range(list)
      BY <1>4, <2>3, <2>7, RangeOfFew DEF r
    <3>3. Dispatcher!Moves(e, "held", Range(list))
      BY <1>2, <2>5, <3>1, <3>2, OneEventMoves
    <3> QED BY <1>1, <1>5, <2>6, <3>3 DEF Dispatcher!Publish
  <2>8. CASE ~ (middlewares > 0)
    <3>1. Progress(e)' = "calling"
      BY <2>2, <2>3, <2>8, OneCallTellsNext DEF CallTellsProgress
    <3>2. Range(before'[e]) \ Range(runs'[e]) = Range(list) \ {list[1]}
      BY <1>4, <2>3, <2>8, RangeOfFew DEF r
    <3>3. Dispatcher!Moves(e, "calling", Range(list) \ {list[1]})
      BY <1>2, <2>5, <3>1, <3>2, OneEventMoves
    <3> QED BY <1>1, <1>5, <2>6, <3>3 DEF Dispatcher!Publish
  <2> QED BY <2>7, <2>8
<1> QED BY <1>7, <1>8

\* A turn of the loop is a call, the end of the event, or its being dropped;
\* what the middlewares do besides is not seen.
LEMMA TurnDispatches ==
  ASSUME IInv, IInv', NEW x \in Execution, NEW e \in Event, execution[x].event = e, Turn(x, e)
  PROVE  Dispatcher!Next \/ UNCHANGED Dispatcher!vars
<1>1. TypeOf[e] \in EventType /\ runs[e] \in Seq(Handler) /\ before'[e] = before[e]
  BY EventTyped DEF IInv, Turn
<1>2. execution[x].stage # "free" /\ execution'[x].stage # "free" /\ execution'[x].event = e
  BY DEF Turn
<1>3. \A d \in Event \ {e} :
        /\ Progress(d)' = Progress(d)
        /\ Range(before'[d]) \ Range(runs'[d]) = Range(before[d]) \ Range(runs[d])
  BY <1>2, TurnLeavesOthers DEF Turn
<1>4. UNCHANGED <<isDevelopment, handlers>>
  BY DEF Turn
<1>5. /\ EventProgress[e] = Progress(e)
      /\ StillOwed[e] = Range(before[e]) \ Range(runs[e])
      /\ Subscribers[TypeOf[e]] = Range(handlers[TypeOf[e]])
  BY <1>1, AbstractState
<1>6. Progress(e) = IF execution[x].stage = "entering" THEN "held"
                    ELSE IF execution[x].stage = "handling" THEN "calling"
                    ELSE IF runs[e] # <<>> /\ ~ Failed(e) THEN "done"
                    ELSE "dropped"
  BY <1>2, OneCallTells DEF CallTellsProgress
<1>7. Progress(e)' = IF execution'[x].stage = "entering" THEN "held"
                     ELSE IF execution'[x].stage = "handling" THEN "calling"
                     ELSE IF runs'[e] # <<>> /\ ~ Failed(e)' THEN "done"
                     ELSE "dropped"
  BY <1>2, OneCallTellsNext DEF CallTellsProgress
<1>8. CASE /\ execution[x].stage \in {"entering", "handling"}
           /\ execution'[x].stage = "handling"
           /\ \E h \in Range(handlers[TypeOf[e]]) : runs'[e] = Append(runs[e], h)
  <2>1. PICK h \in Range(handlers[TypeOf[e]]) : runs'[e] = Append(runs[e], h)
    BY <1>8
  <2>2. h \in Handler
    BY <1>1, <2>1, ListTyped DEF IInv, Range
  <2>3. Range(runs'[e]) = Range(runs[e]) \cup {h}
    BY <1>1, <2>1, <2>2, AppendAdds
  <2>4. Range(before'[e]) \ Range(runs'[e]) = StillOwed[e] \ {h}
    BY <1>1, <1>5, <2>3
  <2>5. Progress(e) \in {"held", "calling"} /\ Progress(e)' = "calling"
    BY <1>6, <1>7, <1>8
  <2>6. Dispatcher!Moves(e, "calling", StillOwed[e] \ {h})
    BY <1>3, <1>4, <2>4, <2>5, OneEventMoves
  <2>7. Dispatcher!Call(e, h)
    BY <1>5, <2>1, <2>5, <2>6 DEF Dispatcher!Call
  <2> QED BY <2>2, <2>7 DEF Dispatcher!Next
<1>9. ASSUME runs' = runs, Progress(e)' = Progress(e) PROVE UNCHANGED Dispatcher!vars
  <2>1. \A d \in Event : /\ Progress(d)' = Progress(d)
                         /\ Range(before'[d]) \ Range(runs'[d]) = Range(before[d]) \ Range(runs[d])
    BY <1>1, <1>3, <1>9
  <2>2. EventProgress' = EventProgress /\ StillOwed' = StillOwed /\ Subscribers' = Subscribers
    BY <1>4, <2>1 DEF EventProgress, StillOwed, Subscribers
  <2> QED BY <1>4, <2>2 DEF Dispatcher!vars
<1>10. CASE execution[x].stage = "entering" /\ execution'[x].stage = "entering" /\ runs' = runs
  BY <1>6, <1>7, <1>9, <1>10
<1>11. CASE /\ execution'[x].stage \in {"leaving", "resolved", "rejected"}
            /\ runs' = runs
            /\ execution[x].stage = "leaving" => stopped' = stopped
  <2>1. Range(before'[e]) \ Range(runs'[e]) = StillOwed[e]
    BY <1>1, <1>5, <1>11
  <2>2. Progress(e)' = IF runs[e] # <<>> /\ ~ Failed(e)' THEN "done" ELSE "dropped"
    BY <1>7, <1>11
  <2>3. CASE execution[x].stage = "leaving"
    <3>1. Failed(e)' <=> Failed(e)
      BY <1>4, <1>11, <2>3 DEF Failed
    <3>2. Progress(e)' = Progress(e)
      BY <1>6, <2>2, <2>3, <3>1
    <3> QED BY <1>9, <1>11, <3>2
  <2>4. CASE execution[x].stage = "entering"
    <3>1. runs[e] = <<>> /\ Progress(e) = "held"
      BY <1>2, <1>6, <2>4 DEF IInv, CallOK
    <3>2. Progress(e)' = "dropped"
      BY <2>2, <3>1
    <3>3. Dispatcher!Moves(e, "dropped", StillOwed[e])
      BY <1>3, <1>4, <2>1, <3>2, OneEventMoves
    <3>4. Dispatcher!Drop(e)
      BY <1>5, <3>1, <3>3 DEF Dispatcher!Drop
    <3> QED BY <3>4 DEF Dispatcher!Next
  <2>5. CASE execution[x].stage = "handling"
    <3>1. Progress(e) = "calling" /\ runs[e] # <<>>
      <4>1. execution[x].index = Len(runs[e]) /\ execution[x].index \in 1 .. Len(handlers[TypeOf[e]])
        BY <2>5 DEF IInv, CallOK
      <4>2. Len(runs[e]) # 0
        BY <1>1, <4>1, ListTyped DEF IInv
      <4> QED BY <1>6, <2>5, <4>2
    <3>2. CASE Failed(e)'
      <4>1. Progress(e)' = "dropped" /\ ~ isDevelopment
        BY <1>4, <2>2, <3>2 DEF Failed
      <4>2. Dispatcher!Moves(e, "dropped", StillOwed[e])
        BY <1>3, <1>4, <2>1, <4>1, OneEventMoves
      <4>3. Dispatcher!Drop(e)
        BY <1>5, <3>1, <4>1, <4>2 DEF Dispatcher!Drop
      <4> QED BY <4>3 DEF Dispatcher!Next
    <3>3. CASE ~ Failed(e)'
      <4>1. Progress(e)' = "done"
        BY <2>2, <3>1, <3>3
      <4>2. CalledAll(e)'
        <5>1. CallOK(execution[x])'
          BY <1>2 DEF IInv
        <5> QED BY <1>2, <1>11, <3>1, <3>3, <5>1 DEF CallOK
      <4>3. StillOwed[e] = {}
        BY <1>1, <1>5, <1>11, <4>2 DEF CalledAll, Range
      <4>4. Dispatcher!Moves(e, "done", {})
        BY <1>3, <1>4, <2>1, <4>1, <4>3, OneEventMoves
      <4>5. Dispatcher!Finish(e)
        BY <1>5, <3>1, <4>3, <4>4 DEF Dispatcher!Finish
      <4> QED BY <4>5 DEF Dispatcher!Next
    <3> QED BY <3>2, <3>3
  <2> QED BY <2>3, <2>4, <2>5 DEF Turn
<1> QED BY <1>8, <1>10, <1>11 DEF Turn

\* use() is not seen by those who publish.
LEMMA RestDispatches == ASSUME Use \/ UNCHANGED vars PROVE UNCHANGED Dispatcher!vars
<1>1. UNCHANGED <<isDevelopment, handlers, execution, published, runs, before, stopped>>
  BY DEF Use, vars, historyVars
<1>2. EventProgress' = EventProgress
  BY <1>1 DEF EventProgress, Progress, Executions
<1>3. StillOwed' = StillOwed /\ Subscribers' = Subscribers
  BY <1>1 DEF StillOwed, Subscribers
<1> QED BY <1>1, <1>2, <1>3 DEF Dispatcher!vars

LEMMA StepDispatches == IInv /\ IInv' /\ [Next]_vars => [Dispatcher!Next]_(Dispatcher!vars)
<1> SUFFICES ASSUME IInv, IInv', [Next]_vars PROVE Dispatcher!Next \/ UNCHANGED Dispatcher!vars
  OBVIOUS
<1>1. CASE \E h \in Handler : Register(h)
  BY <1>1, RegisterDispatches DEF Dispatcher!Next
<1>2. CASE \E e \in Event : Publish(e)
  BY <1>2, PublishDispatches DEF Dispatcher!Next
<1>3. CASE \E x \in Execution : Continue(x)
  <2>1. PICK x \in Execution : Continue(x)
    BY <1>3
  <2>2. PICK e \in Event : execution[x].event = e
    BY CallTyped DEF IInv
  <2> QED BY <2>1, <2>2, ContinueIsTurn, TurnDispatches
<1>4. CASE Use \/ UNCHANGED vars
  BY <1>4, RestDispatches
<1> QED BY <1>1, <1>2, <1>3, <1>4 DEF Next, Continue

(***************************************************************************)
(* The bus keeps the promise of Dispatch, for any handlers, priorities,    *)
(* middlewares and overlapping events: what was subscribed at a publishing *)
(* is called, unless the event is dropped where it may be.                 *)
(***************************************************************************)
THEOREM BusImplementsDispatch == Spec => DeliversToAll
<1>1. Init => Dispatcher!Init
  BY InitDispatches
<1>2. IInv /\ IInv' /\ [Next]_vars => [Dispatcher!Next]_(Dispatcher!vars)
  BY StepDispatches
<1> QED BY <1>1, <1>2, Invariance, PTL DEF Spec, DeliversToAll, Dispatcher!Spec
=============================================================================
