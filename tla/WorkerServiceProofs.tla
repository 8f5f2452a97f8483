------------------------ MODULE WorkerServiceProofs ------------------------
(***************************************************************************)
(* Proofs about the job workers, for every set of queues, every number of  *)
(* overlapping stopAll() calls and every number of restarts.               *)
(***************************************************************************)
EXTENDS WorkerService, TLAPS

(***************************************************************************)
(* The inductive invariant.                                                *)
(*                                                                         *)
(* Numbered: the workers of a queue are built one after the other.         *)
(***************************************************************************)
Numbered ==
  \A q \in Queue, g \in 1 .. MaxGeneration :
    status[<<q, g>>] = "none" <=> g > generation[q]

\* A worker that has not closed is in the map: one that takes jobs, one that
\* finishes its last job and one whose close() was rejected.
LiveIsActive ==
  \A w \in Worker : status[w] \in {"open", "closing", "broken"} => w \in ActiveEntries

\* stopAll() awaits the last entry it visited, the earlier ones have closed.
VisitedClosed ==
  \A s \in Stopper : \A w \in visited[s] : w = closing[s] \/ status[w] = "closed"

\* The iteration is a local variable of the call.
IdleHasVisitedNone ==
  \A s \in Stopper : closing[s] = NoWorker => visited[s] = {}

RunningIsComplete == isRunning => sound \subseteq activeWorkers

StoppedIsSilent == ~ isRunning => Open = {}

\* An entry is only closed on behalf of a stopAll() that is still in progress
\* or has thrown.
ClosedByStopper ==
  \/ \A q \in activeWorkers :
       status[Entry(q)] = "open" \/ \E s \in Stopper : Entry(q) \in visited[s]
  \/ \E q \in activeWorkers : status[Entry(q)] = "broken"

IInv ==
  /\ TypeOK
  /\ Numbered
  /\ LiveIsActive
  /\ VisitedClosed
  /\ IdleHasVisitedNone
  /\ RunningIsComplete
  /\ StoppedIsSilent
  /\ ClosedByStopper
  /\ StoppedIsClosed
-----------------------------------------------------------------------------

(***************************************************************************)
(* NoWorker, the value of closing[s] outside stopAll(), is not a worker.   *)
(***************************************************************************)
LEMMA NoWorkerIsNone == NoWorker \notin Worker
BY DEF NoWorker, Worker

(***************************************************************************)
(* The map holds workers that were built, one for each of its queues.      *)
(***************************************************************************)
LEMMA EntriesAreWorkers ==
  ASSUME TypeOK, Numbered, NEW q \in activeWorkers
  PROVE  q \in Queue /\ Entry(q) \in Worker /\ status[Entry(q)] # "none"
<1>1. q \in Queue /\ generation[q] \in 1 .. MaxGeneration
  BY WorkerAssumption DEF TypeOK
<1>2. QED
  BY <1>1 DEF Entry, Worker, Numbered

(***************************************************************************)
(* Nothing has been started.                                               *)
(***************************************************************************)
LEMMA InitIInv == Init => IInv
<1> SUFFICES ASSUME Init
             PROVE  IInv
  OBVIOUS
<1>1. TypeOK
  <2>1. 0 \in 0 .. MaxGeneration
    BY WorkerAssumption
  <2>2. generation \in [Queue -> 0 .. MaxGeneration]
    BY <2>1 DEF Init
  <2>3. status \in [Worker -> {"none", "open", "closing", "closed", "broken"}]
    BY DEF Init
  <2>4. closing \in [Stopper -> Worker \cup {NoWorker}] /\ visited \in [Stopper -> SUBSET Worker]
    BY DEF Init
  <2>5. QED
    BY <2>2, <2>3, <2>4 DEF Init, TypeOK
<1>2. Numbered
  BY DEF Init, Numbered, Worker
<1>3. LiveIsActive /\ StoppedIsSilent /\ StoppedIsClosed
  BY DEF Init, LiveIsActive, StoppedIsSilent, StoppedIsClosed, Open
<1>4. VisitedClosed /\ IdleHasVisitedNone /\ RunningIsComplete /\ ClosedByStopper
  BY DEF Init, VisitedClosed, IdleHasVisitedNone, RunningIsComplete, ClosedByStopper
<1>5. QED
  BY <1>1, <1>2, <1>3, <1>4 DEF IInv
-----------------------------------------------------------------------------

(***************************************************************************)
(* What startWorker() does for the queues of S: a queue without an entry   *)
(* gets a worker that was not built before, nothing else changes.          *)
(***************************************************************************)
LEMMA StartEffect ==
  ASSUME IInv, NEW S \in SUBSET Queue, StartWorkers(S)
  PROVE  /\ activeWorkers' = activeWorkers \cup S
         /\ generation' \in [Queue -> 0 .. MaxGeneration]
         /\ status' \in [Worker -> {"none", "open", "closing", "closed", "broken"}]
         /\ \A q \in activeWorkers : generation'[q] = generation[q]
         /\ \A q \in S \ activeWorkers : /\ generation'[q] = generation[q] + 1
                                         /\ generation'[q] > 0
                                         /\ status'[<<q, generation'[q]>>] = "open"
         /\ \A w \in Worker :
              \/ status'[w] = status[w]
              \/ /\ w[1] \in S \ activeWorkers
                 /\ w[2] = generation'[w[1]]
                 /\ status[w] = "none"
                 /\ status'[w] = "open"
         /\ Numbered'
<1> DEFINE fresh == S \ activeWorkers
<1>1. /\ generation \in [Queue -> 0 .. MaxGeneration]
      /\ activeWorkers \in SUBSET Queue
      /\ status \in [Worker -> {"none", "open", "closing", "closed", "broken"}]
      /\ MaxGeneration \in Nat
  BY WorkerAssumption DEF IInv, TypeOK
<1>2. /\ \A q \in fresh : generation[q] < MaxGeneration
      /\ generation' = [q \in Queue |-> IF q \in fresh THEN generation[q] + 1 ELSE generation[q]]
      /\ status' = [w \in Worker |-> IF w[1] \in fresh /\ w[2] = generation'[w[1]]
                                       THEN "open" ELSE status[w]]
      /\ activeWorkers' = activeWorkers \cup S
  BY DEF StartWorkers
<1> HIDE DEF fresh
<1>3. generation' \in [Queue -> 0 .. MaxGeneration]
  BY <1>1, <1>2
<1>4. status' \in [Worker -> {"none", "open", "closing", "closed", "broken"}]
  BY <1>1, <1>2
<1>5. \A q \in activeWorkers : generation'[q] = generation[q]
  BY <1>1, <1>2 DEF fresh
<1>6. \A q \in Queue, g \in 1 .. MaxGeneration :
        /\ <<q, g>> \in Worker
        /\ status'[<<q, g>>] = IF q \in fresh /\ g = generation'[q]
                                 THEN "open" ELSE status[<<q, g>>]
  BY <1>2 DEF Worker
<1>7. \A q \in Queue, g \in 1 .. MaxGeneration : status[<<q, g>>] = "none" <=> g > generation[q]
  BY DEF IInv, Numbered
<1>8. \A q \in fresh : /\ generation'[q] = generation[q] + 1
                       /\ generation'[q] \in 1 .. MaxGeneration
                       /\ status'[<<q, generation'[q]>>] = "open"
                       /\ status[<<q, generation'[q]>>] = "none"
  <2>1. SUFFICES ASSUME NEW q \in fresh
                 PROVE  /\ generation'[q] = generation[q] + 1
                        /\ generation'[q] \in 1 .. MaxGeneration
                        /\ status'[<<q, generation'[q]>>] = "open"
                        /\ status[<<q, generation'[q]>>] = "none"
    OBVIOUS
  <2>2. q \in Queue
    BY DEF fresh
  <2>3. generation'[q] = generation[q] + 1 /\ generation'[q] \in 1 .. MaxGeneration
    BY <1>1, <1>2, <2>2
  <2>4. QED
    BY <1>1, <1>6, <1>7, <2>2, <2>3
<1>9. \A q \in Queue : generation[q] \in Nat /\ generation[q] \in Int
  BY <1>1
<1>10. 1 .. MaxGeneration \subseteq Nat /\ fresh \subseteq Queue
  BY <1>1 DEF fresh
<1>11. Numbered'
  <2>1. SUFFICES ASSUME NEW q \in Queue, NEW g \in 1 .. MaxGeneration
                 PROVE  status'[<<q, g>>] = "none" <=> g > generation'[q]
    BY DEF Numbered
  <2>2. CASE q \in fresh
    <3>1. g \in Nat /\ generation[q] \in Nat /\ generation'[q] = generation[q] + 1
      BY <1>8, <1>9, <1>10, <2>2
    <3>2. status[<<q, g>>] = "none" <=> g > generation[q]
      BY <1>7
    <3>3. status'[<<q, g>>] = IF g = generation'[q] THEN "open" ELSE status[<<q, g>>]
      BY <1>6, <2>2
    <3>4. QED
      BY <3>1, <3>2, <3>3
  <2>3. CASE q \notin fresh
    <3>1. generation'[q] = generation[q]
      BY <1>2, <2>3
    <3>2. status'[<<q, g>>] = status[<<q, g>>]
      BY <1>6, <2>3
    <3>3. QED
      BY <1>7, <3>1, <3>2
  <2>4. QED
    BY <2>2, <2>3
<1>12. ASSUME NEW w \in Worker, status'[w] # status[w]
       PROVE  /\ w[1] \in fresh
              /\ w[2] = generation'[w[1]]
              /\ status[w] = "none"
              /\ status'[w] = "open"
  <2>1. w[1] \in fresh /\ w[2] = generation'[w[1]] /\ status'[w] = "open"
    BY <1>2, <1>12
  <2>2. w = <<w[1], w[2]>>
    BY DEF Worker
  <2>3. QED
    BY <1>8, <2>1, <2>2
<1>13. ASSUME NEW q \in fresh
       PROVE  generation'[q] > 0
  <2>1. generation[q] \in Nat /\ generation'[q] = generation[q] + 1
    BY <1>8, <1>9, <1>10
  <2>2. QED
    BY <2>1
<1>14. QED
  BY <1>2, <1>3, <1>4, <1>5, <1>8, <1>11, <1>12, <1>13 DEF fresh

(***************************************************************************)
(* registerWorker(), startAll() and the plugin's load() preserve the       *)
(* invariant, thrown or not: they add definitions, and start workers for   *)
(* all the sound ones if the service is running afterwards.                *)
(***************************************************************************)
LEMMA StartIInv ==
  ASSUME IInv, NEW S \in SUBSET definitions', StartWorkers(S),
         definitions \subseteq definitions', definitions' \subseteq Queue,
         isRunning' \in BOOLEAN, isRunning => isRunning',
         sound' \subseteq definitions',
         isRunning' => sound' \subseteq activeWorkers \cup S,
         ~ isRunning' => S = {},
         pluginLoad' \in {"pending", "done", "failed"},
         UNCHANGED <<closing, visited, announced>>
  PROVE  IInv'
<1>1. S \in SUBSET Queue
  OBVIOUS
<1>2. /\ activeWorkers' = activeWorkers \cup S
      /\ generation' \in [Queue -> 0 .. MaxGeneration]
      /\ status' \in [Worker -> {"none", "open", "closing", "closed", "broken"}]
      /\ \A q \in activeWorkers : generation'[q] = generation[q]
      /\ \A q \in S \ activeWorkers : /\ generation'[q] > 0
                                      /\ status'[<<q, generation'[q]>>] = "open"
      /\ \A w \in Worker : \/ status'[w] = status[w]
                            \/ /\ w[1] \in S \ activeWorkers
                               /\ w[2] = generation'[w[1]]
                               /\ status[w] = "none"
                               /\ status'[w] = "open"
      /\ Numbered'
  BY <1>1, StartEffect
<1>3. \A q \in activeWorkers : Entry(q)' = Entry(q)
  BY <1>2 DEF Entry
<1>4. \A q \in activeWorkers : Entry(q) \in Worker /\ status[Entry(q)] # "none"
  BY EntriesAreWorkers DEF IInv
<1>5. \A q \in activeWorkers : status'[Entry(q)] = status[Entry(q)]
  BY <1>2, <1>4
<1>6. TypeOK'
  <2>1. activeWorkers' \subseteq definitions'
    BY <1>2 DEF IInv, TypeOK
  <2>2. \A q \in activeWorkers' : generation'[q] > 0
    BY <1>2 DEF IInv, TypeOK
  <2>3. QED
    BY <1>2, <2>1, <2>2 DEF IInv, TypeOK
<1>7. LiveIsActive'
  <2>1. SUFFICES ASSUME NEW w \in Worker, status'[w] \in {"open", "closing", "broken"}
                 PROVE  \E q \in activeWorkers' : w = Entry(q)'
    BY DEF LiveIsActive, ActiveEntries
  <2>2. CASE status'[w] = status[w]
    <3>1. PICK q \in activeWorkers : w = Entry(q)
      BY <2>1, <2>2 DEF IInv, LiveIsActive, ActiveEntries
    <3>2. QED
      BY <1>2, <1>3, <3>1
  <2>3. CASE w[1] \in S \ activeWorkers /\ w[2] = generation'[w[1]]
    <3>1. w = <<w[1], w[2]>>
      BY DEF Worker
    <3>2. QED
      BY <1>2, <2>3, <3>1 DEF Entry
  <2>4. QED
    BY <1>2, <2>2, <2>3
<1>8. VisitedClosed' /\ StoppedIsClosed'
  <2>1. \A w \in Worker : status[w] = "closed" => status'[w] = "closed"
    BY <1>2
  <2>2. \A s \in Stopper : visited[s] \subseteq Worker
    BY DEF IInv, TypeOK
  <2>3. QED
    BY <2>1, <2>2 DEF IInv, TypeOK, VisitedClosed, StoppedIsClosed
<1>9. IdleHasVisitedNone'
  BY DEF IInv, IdleHasVisitedNone
<1>10. RunningIsComplete'
  BY <1>2 DEF RunningIsComplete
<1>11. StoppedIsSilent'
  BY <1>2 DEF IInv, StoppedIsSilent, Open
<1>12. ClosedByStopper'
  <2>1. CASE \E q \in activeWorkers : status[Entry(q)] = "broken"
    <3>1. PICK q \in activeWorkers : status[Entry(q)] = "broken"
      BY <2>1
    <3>2. q \in activeWorkers' /\ status'[Entry(q)'] = "broken"
      BY <1>2, <1>3, <1>5, <3>1
    <3>3. QED
      BY <3>2 DEF ClosedByStopper
  <2>2. CASE \A q \in activeWorkers :
               status[Entry(q)] = "open" \/ \E s \in Stopper : Entry(q) \in visited[s]
    <3>1. \A q \in activeWorkers : \/ status'[Entry(q)'] = "open"
                                   \/ \E s \in Stopper : Entry(q)' \in visited'[s]
      BY <1>3, <1>5, <2>2
    <3>2. \A q \in S \ activeWorkers : status'[Entry(q)'] = "open"
      BY <1>2 DEF Entry
    <3>3. QED
      BY <1>2, <3>1, <3>2 DEF ClosedByStopper
  <2>3. QED
    BY <2>1, <2>2 DEF IInv, ClosedByStopper
<1>13. QED
  BY <1>2, <1>6, <1>7, <1>8, <1>9, <1>10, <1>11, <1>12 DEF IInv
-----------------------------------------------------------------------------

(***************************************************************************)
(* When an iteration has seen every entry and all it has seen are closed,  *)
(* no worker is live any more, so clear() loses none.                      *)
(***************************************************************************)
LEMMA NothingLeft ==
  ASSUME IInv, NEW seen, \A w \in seen : status[w] = "closed", ActiveEntries \subseteq seen
  PROVE  \A w \in Worker : status[w] \notin {"open", "closing", "broken"}
BY DEF IInv, LiveIsActive

(***************************************************************************)
(* One turn of the loop of stopAll() preserves the invariant, if what it   *)
(* has visited before is closed.                                           *)
(***************************************************************************)
LEMMA IterateIInv ==
  ASSUME IInv, NEW s \in Stopper, NEW seen \in SUBSET Worker,
         visited[s] \subseteq seen, \A w \in seen : status[w] = "closed",
         Iterate(s, seen),
         announced' \in SUBSET Worker, \A w \in announced' : status[w] = "closed",
         UNCHANGED <<definitions, sound, generation, pluginLoad>>
  PROVE  IInv'
<1>1. CASE \E w \in Unvisited(s, seen) :
             /\ closing' = [closing EXCEPT ![s] = w]
             /\ visited' = [visited EXCEPT ![s] = seen \cup {w}]
             /\ status' = [status EXCEPT ![w] = IF @ = "open" THEN "closing" ELSE @]
             /\ UNCHANGED <<activeWorkers, isRunning>>
  <2>1. PICK v \in Unvisited(s, seen) :
          /\ closing' = [closing EXCEPT ![s] = v]
          /\ visited' = [visited EXCEPT ![s] = seen \cup {v}]
          /\ status' = [status EXCEPT ![v] = IF status[v] = "open" THEN "closing" ELSE status[v]]
          /\ UNCHANGED <<activeWorkers, isRunning>>
    BY <1>1
  <2>2. v \in ActiveEntries /\ v \in Worker /\ status[v] # "none" /\ v # NoWorker
    BY EntriesAreWorkers, NoWorkerIsNone DEF IInv, Unvisited, ActiveEntries
  <2>3. ActiveEntries' = ActiveEntries /\ \A q : Entry(q)' = Entry(q)
    BY <2>1 DEF ActiveEntries, Entry
  <2>4. /\ status' \in [Worker -> {"none", "open", "closing", "closed", "broken"}]
        /\ \A w \in Worker \ {v} : status'[w] = status[w]
        /\ status'[v] = IF status[v] = "open" THEN "closing" ELSE status[v]
    BY <2>1, <2>2 DEF IInv, TypeOK
  <2>5. /\ closing' \in [Stopper -> Worker \cup {NoWorker}]
        /\ visited' \in [Stopper -> SUBSET Worker]
        /\ closing'[s] = v /\ visited'[s] = seen \cup {v}
        /\ \A r \in Stopper \ {s} : closing'[r] = closing[r] /\ visited'[r] = visited[r]
    BY <2>1, <2>2 DEF IInv, TypeOK
  <2>6. TypeOK'
    BY <2>1, <2>4, <2>5 DEF IInv, TypeOK
  <2>7. Numbered'
    <3>1. \A w \in Worker : status'[w] = "none" <=> status[w] = "none"
      BY <2>2, <2>4
    <3>2. \A q \in Queue, g \in 1 .. MaxGeneration : <<q, g>> \in Worker
      BY DEF Worker
    <3>3. QED
      BY <3>1, <3>2 DEF IInv, Numbered
  <2>8. LiveIsActive'
    BY <2>2, <2>3, <2>4 DEF IInv, LiveIsActive
  <2>9. \A w \in Worker : status[w] = "closed" => status'[w] = "closed"
    BY <2>2, <2>4
  <2>10. VisitedClosed'
    BY <2>5, <2>9 DEF IInv, TypeOK, VisitedClosed
  <2>11. IdleHasVisitedNone'
    BY <2>2, <2>5 DEF IInv, IdleHasVisitedNone
  <2>12. RunningIsComplete'
    BY <2>1 DEF IInv, RunningIsComplete
  <2>13. StoppedIsSilent'
    BY <2>1, <2>2, <2>4 DEF IInv, StoppedIsSilent, Open
  <2>14. ClosedByStopper'
    <3>1. CASE \E q \in activeWorkers : status[Entry(q)] = "broken"
      BY <2>1, <2>2, <2>3, <2>4, <3>1, EntriesAreWorkers DEF IInv, ClosedByStopper
    <3>2. CASE \A q \in activeWorkers :
                 status[Entry(q)] = "open" \/ \E r \in Stopper : Entry(q) \in visited[r]
      <4>1. ASSUME NEW q \in activeWorkers
            PROVE  status'[Entry(q)] = "open" \/ \E r \in Stopper : Entry(q) \in visited'[r]
        <5>1. CASE Entry(q) = v
          BY <2>5, <5>1
        <5>2. CASE Entry(q) # v
          BY <2>4, <2>5, <3>2, <5>2, EntriesAreWorkers DEF IInv
        <5>3. QED
          BY <5>1, <5>2
      <4>2. QED
        BY <2>1, <2>3, <4>1 DEF ClosedByStopper
    <3>3. QED
      BY <3>1, <3>2 DEF IInv, ClosedByStopper
  <2>15. StoppedIsClosed'
    BY <2>9 DEF StoppedIsClosed
  <2>16. QED
    BY <2>6, <2>7, <2>8, <2>10, <2>11, <2>12, <2>13, <2>14, <2>15 DEF IInv
<1>2. CASE /\ Unvisited(s, seen) = {}
           /\ closing' = [closing EXCEPT ![s] = NoWorker]
           /\ visited' = [visited EXCEPT ![s] = {}]
           /\ activeWorkers' = {}
           /\ isRunning' = FALSE
           /\ UNCHANGED status
  <2>1. \A w \in Worker : status[w] \notin {"open", "closing", "broken"}
    BY <1>2, NothingLeft DEF Unvisited
  <2>2. /\ closing' \in [Stopper -> Worker \cup {NoWorker}]
        /\ visited' \in [Stopper -> SUBSET Worker]
        /\ closing'[s] = NoWorker /\ visited'[s] = {}
        /\ \A r \in Stopper \ {s} : closing'[r] = closing[r] /\ visited'[r] = visited[r]
    BY <1>2 DEF IInv, TypeOK
  <2>3. TypeOK'
    BY <1>2, <2>2 DEF IInv, TypeOK
  <2>4. Numbered' /\ LiveIsActive'
    BY <1>2, <2>1 DEF IInv, Numbered, LiveIsActive
  <2>5. VisitedClosed' /\ IdleHasVisitedNone'
    BY <1>2, <2>2 DEF IInv, VisitedClosed, IdleHasVisitedNone
  <2>6. RunningIsComplete' /\ StoppedIsSilent'
    BY <1>2, <2>1 DEF RunningIsComplete, StoppedIsSilent, Open
  <2>7. ClosedByStopper'
    BY <1>2 DEF ClosedByStopper
  <2>8. StoppedIsClosed'
    BY <1>2 DEF StoppedIsClosed
  <2>9. QED
    BY <2>3, <2>4, <2>5, <2>6, <2>7, <2>8 DEF IInv
<1>3. QED
  BY <1>1, <1>2 DEF Iterate

(***************************************************************************)
(* stopAll() throws: the worker that failed to close stays in the map, and *)
(* so does every entry the call had closed before.                         *)
(***************************************************************************)
LEMMA CloseRejectedIInv ==
  ASSUME IInv, NEW s \in Stopper, CloseRejected(s)
  PROVE  IInv'
<1>1. /\ closing' \in [Stopper -> Worker \cup {NoWorker}]
      /\ visited' \in [Stopper -> SUBSET Worker]
      /\ closing'[s] = NoWorker /\ visited'[s] = {}
      /\ \A r \in Stopper \ {s} : closing'[r] = closing[r] /\ visited'[r] = visited[r]
  BY DEF IInv, TypeOK, CloseRejected
<1>2. UNCHANGED <<definitions, sound, activeWorkers, generation, status, isRunning,
                  pluginLoad, announced>>
  BY DEF CloseRejected
<1>3. \E q \in activeWorkers : status[Entry(q)] = "broken"
  <2>1. closing[s] \in Worker /\ status[closing[s]] = "broken"
    BY DEF IInv, TypeOK, CloseRejected
  <2>2. QED
    BY <2>1 DEF IInv, LiveIsActive, ActiveEntries
<1>4. TypeOK' /\ Numbered' /\ RunningIsComplete' /\ StoppedIsClosed'
  BY <1>1, <1>2 DEF IInv, TypeOK, Numbered, RunningIsComplete, StoppedIsClosed
<1>5. LiveIsActive' /\ StoppedIsSilent'
  BY <1>2 DEF IInv, LiveIsActive, ActiveEntries, Entry, StoppedIsSilent, Open
<1>6. VisitedClosed' /\ IdleHasVisitedNone'
  BY <1>1, <1>2 DEF IInv, VisitedClosed, IdleHasVisitedNone
<1>7. ClosedByStopper'
  BY <1>2, <1>3 DEF ClosedByStopper, Entry
<1>8. QED
  BY <1>4, <1>5, <1>6, <1>7 DEF IInv

(***************************************************************************)
(* A worker that was closing has closed, or has failed to.                 *)
(***************************************************************************)
LEMMA WorkerClosesIInv ==
  ASSUME IInv, NEW w \in Worker, WorkerCloses(w)
  PROVE  IInv'
<1>1. PICK outcome \in {"closed", "broken"} : status' = [status EXCEPT ![w] = outcome]
  BY DEF WorkerCloses
<1>2. /\ status[w] = "closing"
      /\ UNCHANGED <<definitions, sound, activeWorkers, generation, isRunning, pluginLoad,
                     closing, visited, announced>>
  BY DEF WorkerCloses
<1>3. /\ status' \in [Worker -> {"none", "open", "closing", "closed", "broken"}]
      /\ \A v \in Worker \ {w} : status'[v] = status[v]
      /\ status'[w] = outcome
  BY <1>1 DEF IInv, TypeOK
<1>4. TypeOK'
  BY <1>2, <1>3 DEF IInv, TypeOK
<1>5. Numbered'
  <2>1. \A v \in Worker : status'[v] = "none" <=> status[v] = "none"
    BY <1>2, <1>3
  <2>2. \A q \in Queue, g \in 1 .. MaxGeneration : <<q, g>> \in Worker
    BY DEF Worker
  <2>3. QED
    BY <1>2, <2>1, <2>2 DEF IInv, Numbered
<1>6. ActiveEntries' = ActiveEntries /\ \A q : Entry(q)' = Entry(q)
  BY <1>2 DEF ActiveEntries, Entry
<1>7. LiveIsActive'
  BY <1>2, <1>3, <1>6 DEF IInv, LiveIsActive
<1>8. \A v \in Worker : status[v] = "closed" => status'[v] = "closed"
  BY <1>2, <1>3
<1>9. VisitedClosed' /\ StoppedIsClosed'
  BY <1>2, <1>8 DEF IInv, TypeOK, VisitedClosed, StoppedIsClosed
<1>10. IdleHasVisitedNone' /\ RunningIsComplete'
  BY <1>2 DEF IInv, IdleHasVisitedNone, RunningIsComplete
<1>11. StoppedIsSilent'
  BY <1>2, <1>3 DEF IInv, StoppedIsSilent, Open
<1>12. ClosedByStopper'
  <2>1. \A q \in activeWorkers : \/ Entry(q) = w
                                \/ status'[Entry(q)] = status[Entry(q)]
    BY <1>3, EntriesAreWorkers DEF IInv
  <2>2. QED
    BY <1>2, <1>6, <2>1 DEF IInv, ClosedByStopper
<1>13. QED
  BY <1>4, <1>5, <1>7, <1>9, <1>10, <1>11, <1>12 DEF IInv
-----------------------------------------------------------------------------

(***************************************************************************)
(* Not starting any worker is starting the workers of no queue.            *)
(***************************************************************************)
LEMMA StartNone ==
  ASSUME IInv
  PROVE  StartWorkers({}) <=> UNCHANGED <<activeWorkers, generation, status>>
<1>1. generation = [q \in Queue |-> generation[q]] /\ status = [w \in Worker |-> status[w]]
  BY DEF IInv, TypeOK
<1>2. QED
  BY <1>1 DEF StartWorkers

(***************************************************************************)
(* What load() leaves behind when it has registered n handlers: only those *)
(* that are not refused extend the definitions startAll() gets through.    *)
(***************************************************************************)
LEMMA RegisterEffect ==
  ASSUME IInv, NEW n \in 0 .. Len(Handlers), NEW refused \in SUBSET Queue,
         RegisterHandlers(n, refused)
  PROVE  /\ definitions' = definitions \cup Registered(n)
         /\ definitions' \subseteq Queue
         /\ sound' \subseteq definitions'
         /\ sound' \subseteq sound \cup (Registered(n) \ refused)
<1> DEFINE added == {Handlers[i] : i \in {k \in 1 .. n : Registered(k) \cap refused = {}}}
<1>1. definitions \in SUBSET Queue /\ sound \in SUBSET definitions
  BY DEF IInv, TypeOK
<1>2. Registered(n) \subseteq Queue
  BY WorkerAssumption DEF Registered
<1>3. added \subseteq Registered(n) \ refused
  BY WorkerAssumption DEF Registered
<1>4. ExtendSound(added) /\ definitions' = definitions \cup Registered(n)
  BY DEF RegisterHandlers
<1> HIDE DEF added
<1>5. sound' \subseteq sound \cup added
  BY <1>4 DEF ExtendSound
<1>6. QED
  BY <1>1, <1>2, <1>3, <1>4, <1>5

(***************************************************************************)
(* Every step of the program, of stopAll() and of BullMQ preserves the     *)
(* invariant.                                                              *)
(***************************************************************************)
LEMMA NextIInv == IInv /\ [Next]_vars => IInv'
<1> SUFFICES ASSUME IInv, [Next]_vars
             PROVE  IInv'
  OBVIOUS
<1> USE DEF IInv
<1>0. /\ TypeOK /\ RunningIsComplete
      /\ definitions \in SUBSET Queue /\ sound \in SUBSET definitions /\ isRunning \in BOOLEAN
      /\ pluginLoad \in {"pending", "done", "failed"}
      /\ \A i \in DOMAIN Handlers : Handlers[i] \in Queue
  BY WorkerAssumption DEF TypeOK
<1> HIDE DEF IInv
<1>1. ASSUME NEW q \in Queue, RegisterWorker(q)
      PROVE  IInv'
  <2>1. PICK accepted \in SUBSET {q} :
          ExtendSound(accepted) /\ StartWorkers(IF isRunning THEN accepted ELSE {})
    BY <1>1 DEF RegisterWorker
  <2> DEFINE S == IF isRunning THEN accepted ELSE {}
  <2>2. definitions' = definitions \cup {q} /\ UNCHANGED <<isRunning, pluginLoad, closing, visited, announced>>
    BY <1>1 DEF RegisterWorker
  <2>3. sound' \subseteq sound \cup accepted
    BY <2>1 DEF ExtendSound
  <2>4. StartWorkers(S) /\ (isRunning => S = accepted) /\ (~ isRunning => S = {})
    BY <2>1
  <2>5. S \in SUBSET definitions'
    BY <2>2
  <2> HIDE DEF S
  <2>6. isRunning' => sound' \subseteq activeWorkers \cup S
    BY <1>0, <2>2, <2>3, <2>4 DEF RunningIsComplete
  <2>7. QED
    BY <1>0, <2>2, <2>3, <2>4, <2>5, <2>6, StartIInv
<1>2. ASSUME StartAll
      PROVE  IInv'
  <2>1. /\ isRunning' = TRUE
        /\ StartWorkers(sound)
        /\ UNCHANGED <<definitions, sound, pluginLoad, closing, visited, announced>>
    BY <1>2 DEF StartAll
  <2>2. QED
    BY <1>0, <2>1, StartIInv
<1>3. ASSUME LoadHandlers
      PROVE  IInv'
  <2> DEFINE n == Len(Handlers)
  <2>1. PICK refused \in SUBSET Queue :
          /\ RegisterHandlers(n, refused)
          /\ pluginLoad' = IF sound' = definitions' \/ Handlers = <<>> THEN "done" ELSE "failed"
          /\ IF Handlers = <<>>
               THEN UNCHANGED <<activeWorkers, generation, status, isRunning>>
               ELSE /\ isRunning' = TRUE
                    /\ StartWorkers(sound' \cup IF isRunning THEN Registered(n) ELSE {})
    BY <1>3 DEF LoadHandlers
  <2>2. n \in 0 .. Len(Handlers)
    BY WorkerAssumption
  <2>3. UNCHANGED <<closing, visited, announced>> /\ pluginLoad' \in {"done", "failed"}
    BY <1>3, <2>1 DEF LoadHandlers
  <2> HIDE DEF n
  <2>4. /\ definitions' = definitions \cup Registered(n)
        /\ definitions' \subseteq Queue
        /\ sound' \subseteq definitions'
        /\ sound' \subseteq sound \cup Registered(n)
    BY RegisterEffect, <2>1, <2>2
  <2>5. CASE Handlers = <<>>
    <3>1. Registered(n) = {}
      BY <2>5, WorkerAssumption DEF n, Registered
    <3>2. UNCHANGED <<activeWorkers, generation, status, isRunning>>
      BY <2>1, <2>5
    <3>3. StartWorkers({})
      BY <3>2, StartNone
    <3>4. isRunning' => sound' \subseteq activeWorkers \cup {}
      BY <1>0, <2>4, <3>1, <3>2 DEF RunningIsComplete
    <3>5. QED
      BY <1>0, <2>3, <2>4, <3>2, <3>3, <3>4, StartIInv
  <2>6. CASE Handlers # <<>>
    <3> DEFINE S == sound' \cup IF isRunning THEN Registered(n) ELSE {}
    <3>1. isRunning' = TRUE /\ StartWorkers(S)
      BY <2>1, <2>6
    <3>2. S \in SUBSET definitions' /\ sound' \subseteq S
      BY <2>4
    <3> HIDE DEF S
    <3>3. QED
      BY <1>0, <2>3, <2>4, <3>1, <3>2, StartIInv
  <2>7. QED
    BY <2>5, <2>6
<1>4. ASSUME LoadThrows
      PROVE  IInv'
  <2>1. PICK n \in 0 .. Len(Handlers), refused \in SUBSET Queue :
          /\ RegisterHandlers(n, refused)
          /\ StartWorkers(IF isRunning THEN Registered(n) \ refused ELSE {})
    BY <1>4 DEF LoadThrows
  <2> DEFINE S == IF isRunning THEN Registered(n) \ refused ELSE {}
  <2>2. /\ definitions' = definitions \cup Registered(n)
        /\ definitions' \subseteq Queue
        /\ sound' \subseteq definitions'
        /\ sound' \subseteq sound \cup (Registered(n) \ refused)
    BY RegisterEffect, <2>1
  <2>3. pluginLoad' = "failed" /\ UNCHANGED <<isRunning, closing, visited, announced>>
    BY <1>4 DEF LoadThrows
  <2>4. /\ StartWorkers(S) /\ S \in SUBSET definitions'
        /\ isRunning => S = Registered(n) \ refused
        /\ ~ isRunning => S = {}
    BY <2>1, <2>2
  <2> HIDE DEF S
  <2>5. isRunning' => sound' \subseteq activeWorkers \cup S
    BY <1>0, <2>2, <2>3, <2>4 DEF RunningIsComplete
  <2>6. QED
    BY <1>0, <2>2, <2>3, <2>4, <2>5, StartIInv
<1>5. ASSUME NEW s \in Stopper, StopAll(s)
      PROVE  IInv'
  <2>1. /\ visited[s] = {}
        /\ announced \in SUBSET Worker /\ \A w \in announced : status[w] = "closed"
    BY <1>5 DEF StopAll, IInv, IdleHasVisitedNone, TypeOK, StoppedIsClosed
  <2>2. Iterate(s, {}) /\ UNCHANGED <<definitions, sound, generation, pluginLoad, announced>>
    BY <1>5 DEF StopAll
  <2>3. QED
    BY <2>1, <2>2, IterateIInv
<1>6. ASSUME NEW s \in Stopper, CloseResolved(s)
      PROVE  IInv'
  <2>1. /\ closing[s] \in Worker /\ status[closing[s]] = "closed"
        /\ visited[s] \in SUBSET Worker
        /\ announced \in SUBSET Worker /\ \A w \in announced : status[w] = "closed"
        /\ \A w \in visited[s] : status[w] = "closed"
    BY <1>6 DEF CloseResolved, IInv, TypeOK, StoppedIsClosed, VisitedClosed
  <2>2. /\ announced' = announced \cup {closing[s]}
        /\ Iterate(s, visited[s])
        /\ UNCHANGED <<definitions, sound, generation, pluginLoad>>
    BY <1>6 DEF CloseResolved
  <2>3. QED
    BY <2>1, <2>2, IterateIInv
<1>7. ASSUME UNCHANGED vars
      PROVE  IInv'
  <2>1. TypeOK'
    BY <1>7 DEF vars, IInv, TypeOK
  <2>2. Numbered'
    BY <1>7 DEF vars, IInv, Numbered, Entry
  <2>3. LiveIsActive'
    BY <1>7 DEF vars, IInv, LiveIsActive, Open, Entry, ActiveEntries
  <2>4. VisitedClosed'
    BY <1>7 DEF vars, IInv, VisitedClosed
  <2>5. IdleHasVisitedNone'
    BY <1>7 DEF vars, IInv, IdleHasVisitedNone
  <2>6. RunningIsComplete'
    BY <1>7 DEF vars, IInv, RunningIsComplete
  <2>7. StoppedIsSilent'
    BY <1>7 DEF vars, IInv, StoppedIsSilent, Open
  <2>8. ClosedByStopper'
    BY <1>7 DEF vars, IInv, ClosedByStopper, Entry
  <2>9. StoppedIsClosed'
    BY <1>7 DEF vars, IInv, StoppedIsClosed
  <2>10. QED
    BY <2>1, <2>2, <2>3, <2>4, <2>5, <2>6, <2>7, <2>8, <2>9 DEF IInv
<1>8. QED
  BY <1>1, <1>2, <1>3, <1>4, <1>5, <1>6, <1>7, CloseRejectedIInv, WorkerClosesIInv DEF Next

(***************************************************************************)
(* The invariant holds in every reachable state of the worker service.     *)
(***************************************************************************)
THEOREM Invariance == Spec => []IInv
BY InitIInv, NextIInv, PTL DEF Spec

(***************************************************************************)
(* Type correctness; in particular the map holds only defined queues.      *)
(***************************************************************************)
THEOREM TypeCorrect == Spec => []TypeOK
<1>1. IInv => TypeOK
  BY DEF IInv
<1>2. QED
  BY <1>1, Invariance, PTL

(***************************************************************************)
(* However starts, stops and registrations interleave, a worker that takes *)
(* jobs is in activeWorkers.                                               *)
(***************************************************************************)
THEOREM NoWorkerIsOrphaned == Spec => []NoOrphan
<1>1. IInv => NoOrphan
  BY DEF IInv, LiveIsActive, NoOrphan, Open
<1>2. QED
  BY <1>1, Invariance, PTL

(***************************************************************************)
(* "does not start the same worker twice": no two workers take jobs from   *)
(* one queue at the same time.                                             *)
(***************************************************************************)
OnePerQueue == \A v, w \in Open : v[1] = w[1] => v = w

(***************************************************************************)
(* No two workers take jobs from one queue at the same time.               *)
(***************************************************************************)
THEOREM OneWorkerPerQueue == Spec => []OnePerQueue
<1>1. IInv => OnePerQueue
  BY DEF IInv, LiveIsActive, OnePerQueue, Open, ActiveEntries, Entry
<1>2. QED
  BY <1>1, Invariance, PTL

(***************************************************************************)
(* WorkerStopped is published only for workers that have closed.           *)
(***************************************************************************)
THEOREM AnnouncedIsClosed == Spec => []StoppedIsClosed
<1>1. IInv => StoppedIsClosed
  BY DEF IInv
<1>2. QED
  BY <1>1, Invariance, PTL

(***************************************************************************)
(* Between two stops the service runs every queue defined before the first *)
(* one BullMQ refuses, or none at all, unless a worker failed to close.    *)
(***************************************************************************)
THEOREM RunsAllOrNone == Spec => []AllOnOrAllOff
<1>1. IInv => AllOnOrAllOff
  <2> SUFFICES ASSUME IInv, Quiescent
               PROVE  IF isRunning
                        THEN \/ \A q \in sound :
                                  q \in activeWorkers /\ status[Entry(q)] = "open"
                             \/ \E q \in activeWorkers : status[Entry(q)] = "broken"
                        ELSE Open = {}
    BY DEF AllOnOrAllOff
  <2>1. \A s \in Stopper : visited[s] = {}
    BY DEF IInv, IdleHasVisitedNone, Quiescent
  <2>2. CASE isRunning
    BY <2>1, <2>2 DEF IInv, RunningIsComplete, ClosedByStopper
  <2>3. CASE ~ isRunning
    BY <2>3 DEF IInv, StoppedIsSilent
  <2>4. QED
    BY <2>2, <2>3
<1>2. QED
  BY <1>1, Invariance, PTL
=============================================================================
