--------------------------- MODULE WorkerService ---------------------------
(***************************************************************************)
(* The job workers of a process: WorkerService keeps one definition and at *)
(* most one BullMQ Worker per queue; JobsPlugin.load() fills it and starts *)
(* it.  All its methods are synchronous but stopAll(), which awaits the    *)
(* close() of one worker after the other while it iterates over the live   *)
(* map activeWorkers.  Between two of its awaits the program may register  *)
(* queues, start, and stop again.                                          *)
(*                                                                         *)
(* BullMQ may refuse a definition: new Worker() then throws (an illegal    *)
(* name or concurrency), out of registerWorker() with the definition set   *)
(* already, or out of startAll() with isRunning set already and the queues *)
(* before it started.  The map workerDefinitions is iterated in insertion  *)
(* order and never loses a key, so startAll() always gets as far as the    *)
(* first definition that is refused: `sound' are those in front of it.     *)
(*                                                                         *)
(* A worker is <<q, g>>, the g-th Worker built for queue q.  An entry of   *)
(* activeWorkers is only added while its queue has none, so the entry of q *)
(* is always the last worker built for q, and the map is its set of keys.  *)
(* The iteration order of the map is left open.                            *)
(***************************************************************************)
EXTENDS Integers, Sequences

CONSTANTS
  Queue,           \* queue names
  Stopper,         \* calls of stopAll() that may be in progress together
  Handlers,        \* queue names of the @WorkerJob methods, as decorated
  MaxGeneration    \* bound: workers ever built for one queue

ASSUME WorkerAssumption ==
  /\ Handlers \in Seq(Queue)
  /\ MaxGeneration \in Nat

VARIABLES
  definitions,     \* keys of workerDefinitions
  sound,           \* those registered before the first one BullMQ refuses
  activeWorkers,   \* keys of activeWorkers
  generation,      \* workers built for q so far
  status,          \* the BullMQ side of each worker
  isRunning,
  pluginLoad,      \* JobsPlugin.load(): "pending", "done" or "failed"
  closing,         \* closing[s]: the worker whose close() s awaits, or NoWorker
  visited,         \* visited[s]: entries the iteration of s has passed
  announced        \* history: workers a WorkerStoppedEvent was published for

vars == <<definitions, sound, activeWorkers, generation, status, isRunning, pluginLoad,
          closing, visited, announced>>

Worker == Queue \X (1 .. MaxGeneration)
NoWorker == <<>>

\* The worker the entry of q holds.
Entry(q) == <<q, generation[q]>>

ActiveEntries == {Entry(q) : q \in activeWorkers}

Open == {w \in Worker : status[w] = "open"}
-----------------------------------------------------------------------------

\* startWorker() for each queue of S: nothing where activeWorkers has one.
StartWorkers(S) ==
  LET fresh == S \ activeWorkers
  IN  /\ \A q \in fresh : generation[q] < MaxGeneration
      /\ generation' = [q \in Queue |-> IF q \in fresh THEN generation[q] + 1 ELSE generation[q]]
      /\ status' = [w \in Worker |-> IF w[1] \in fresh /\ w[2] = generation'[w[1]]
                                       THEN "open" ELSE status[w]]
      /\ activeWorkers' = activeWorkers \cup S

\* The queues added, in order, to the definitions startAll() gets through.
ExtendSound(added) == sound' = IF sound = definitions THEN sound \cup added ELSE sound

\* Mutant: a queue registered late waits for the next startAll().
RegisterWorker_NoAutostart(q) ==
  /\ q \notin definitions
  /\ definitions' = definitions \cup {q}
  /\ ExtendSound({q})
  /\ UNCHANGED <<activeWorkers, generation, status, isRunning, pluginLoad, closing,
                 visited, announced>>

\* registerWorker(); a queue that is defined already throws and changes nothing,
\* one that is refused throws if it is started here, and stays defined.
RegisterWorker(q) ==
  /\ q \notin definitions
  /\ definitions' = definitions \cup {q}
  /\ \E accepted \in SUBSET {q} :
       /\ ExtendSound(accepted)
       /\ StartWorkers(IF isRunning THEN accepted ELSE {})
  /\ UNCHANGED <<isRunning, pluginLoad, closing, visited, announced>>

\* startAll(); it throws if a definition is refused, and returns otherwise.
StartAll ==
  /\ isRunning' = TRUE
  /\ StartWorkers(sound)
  /\ UNCHANGED <<definitions, sound, pluginLoad, closing, visited, announced>>

(***************************************************************************)
(* JobsPlugin.load(): looks up and registers one handler after the other,  *)
(* then starts all.  It throws half way at a queue that is defined already *)
(* and at a handler the container cannot build; with workers running also  *)
(* at a queue that is refused, without at the first one in startAll().     *)
(***************************************************************************)
Registered(n) == {Handlers[i] : i \in 1 .. n}

\* registerWorker() of the first n handlers, of which it throws at none but
\* the n-th.
RegisterHandlers(n, refused) ==
  /\ \A i \in 1 .. n : Handlers[i] \notin definitions \cup Registered(i - 1)
  /\ isRunning => Registered(n - 1) \cap refused = {}
  /\ definitions' = definitions \cup Registered(n)
  /\ ExtendSound({Handlers[i] : i \in {k \in 1 .. n : Registered(k) \cap refused = {}}})

LoadHandlers ==
  /\ pluginLoad = "pending"
  /\ \E refused \in SUBSET Queue :
       /\ RegisterHandlers(Len(Handlers), refused)
       /\ isRunning => Registered(Len(Handlers)) \cap refused = {}
       /\ pluginLoad' = IF sound' = definitions' \/ Handlers = <<>> THEN "done" ELSE "failed"
       /\ IF Handlers = <<>>
            THEN UNCHANGED <<activeWorkers, generation, status, isRunning>>
            ELSE /\ isRunning' = TRUE
                 /\ StartWorkers(sound' \cup IF isRunning THEN Registered(Len(Handlers)) ELSE {})
  /\ UNCHANGED <<closing, visited, announced>>

LoadThrows ==
  /\ pluginLoad = "pending"
  /\ \E n \in 0 .. Len(Handlers), refused \in SUBSET Queue :
       /\ RegisterHandlers(n, refused)
       /\ n = Len(Handlers) => n > 0 /\ isRunning /\ Handlers[n] \in refused
       /\ StartWorkers(IF isRunning THEN Registered(n) \ refused ELSE {})
  /\ pluginLoad' = "failed"
  /\ UNCHANGED <<isRunning, closing, visited, announced>>
-----------------------------------------------------------------------------

(***************************************************************************)
(* One turn of the loop of stopAll(): close the next entry and await it,   *)
(* or, past the last entry, clear the map and return.  A worker that is    *)
(* closing already keeps its one closing promise (BullMQ).                 *)
(***************************************************************************)
Unvisited(s, seen) == ActiveEntries \ seen

\* Mutant: the map is cleared before its workers have closed.
Iterate_ClearFirst(s, seen) ==
  \/ \E w \in Unvisited(s, seen) :
       /\ closing' = [closing EXCEPT ![s] = w]
       /\ visited' = [visited EXCEPT ![s] = seen \cup {w}]
       /\ status' = [status EXCEPT ![w] = IF @ = "open" THEN "closing" ELSE @]
       /\ activeWorkers' = {}
       /\ isRunning' = FALSE
  \/ /\ Unvisited(s, seen) = {}
     /\ closing' = [closing EXCEPT ![s] = NoWorker]
     /\ visited' = [visited EXCEPT ![s] = {}]
     /\ activeWorkers' = {}
     /\ isRunning' = FALSE
     /\ UNCHANGED status

\* Mutant: stopAll() forgets to reset isRunning.
Iterate_StaysRunning(s, seen) ==
  \/ \E w \in Unvisited(s, seen) :
       /\ closing' = [closing EXCEPT ![s] = w]
       /\ visited' = [visited EXCEPT ![s] = seen \cup {w}]
       /\ status' = [status EXCEPT ![w] = IF @ = "open" THEN "closing" ELSE @]
       /\ UNCHANGED <<activeWorkers, isRunning>>
  \/ /\ Unvisited(s, seen) = {}
     /\ closing' = [closing EXCEPT ![s] = NoWorker]
     /\ visited' = [visited EXCEPT ![s] = {}]
     /\ activeWorkers' = {}
     /\ UNCHANGED <<status, isRunning>>

Iterate(s, seen) ==
  \/ \E w \in Unvisited(s, seen) :
       /\ closing' = [closing EXCEPT ![s] = w]
       /\ visited' = [visited EXCEPT ![s] = seen \cup {w}]
       /\ status' = [status EXCEPT ![w] = IF @ = "open" THEN "closing" ELSE @]
       /\ UNCHANGED <<activeWorkers, isRunning>>
  \/ /\ Unvisited(s, seen) = {}
     /\ closing' = [closing EXCEPT ![s] = NoWorker]
     /\ visited' = [visited EXCEPT ![s] = {}]
     /\ activeWorkers' = {}
     /\ isRunning' = FALSE
     /\ UNCHANGED status

\* Mutant: stopAll() drops the definitions, not only the workers.
StopAll_Forgets(s) ==
  /\ closing[s] = NoWorker
  /\ Iterate(s, {})
  /\ definitions' = {}
  /\ UNCHANGED <<sound, generation, pluginLoad, announced>>

StopAll(s) ==
  /\ closing[s] = NoWorker
  /\ Iterate(s, {})
  /\ UNCHANGED <<definitions, sound, generation, pluginLoad, announced>>

\* Mutant: the loop starts over after every close().
CloseResolved_FromTheTop(s) ==
  /\ closing[s] # NoWorker
  /\ status[closing[s]] = "closed"
  /\ announced' = announced \cup {closing[s]}
  /\ Iterate(s, {})
  /\ UNCHANGED <<definitions, sound, generation, pluginLoad>>

\* The awaited close() has resolved: publish WorkerStopped, then iterate on.
CloseResolved(s) ==
  /\ closing[s] # NoWorker
  /\ status[closing[s]] = "closed"
  /\ announced' = announced \cup {closing[s]}
  /\ Iterate(s, visited[s])
  /\ UNCHANGED <<definitions, sound, generation, pluginLoad>>

\* It has rejected: stopAll() throws, the map and isRunning stay as they are.
CloseRejected(s) ==
  /\ closing[s] # NoWorker
  /\ status[closing[s]] = "broken"
  /\ closing' = [closing EXCEPT ![s] = NoWorker]
  /\ visited' = [visited EXCEPT ![s] = {}]
  /\ UNCHANGED <<definitions, sound, activeWorkers, generation, status, isRunning,
                 pluginLoad, announced>>

\* BullMQ: a closing worker finishes its jobs and closes, or fails to.
WorkerCloses(w) ==
  /\ status[w] = "closing"
  /\ \E outcome \in {"closed", "broken"} : status' = [status EXCEPT ![w] = outcome]
  /\ UNCHANGED <<definitions, sound, activeWorkers, generation, isRunning, pluginLoad,
                 closing, visited, announced>>
-----------------------------------------------------------------------------

Init ==
  /\ definitions = {}
  /\ sound = {}
  /\ activeWorkers = {}
  /\ generation = [q \in Queue |-> 0]
  /\ status = [w \in Worker |-> "none"]
  /\ isRunning = FALSE
  /\ pluginLoad = "pending"
  /\ closing = [s \in Stopper |-> NoWorker]
  /\ visited = [s \in Stopper |-> {}]
  /\ announced = {}

Resume(s) == CloseResolved(s) \/ CloseRejected(s)

Next ==
  \/ \E q \in Queue : RegisterWorker(q)
  \/ StartAll \/ LoadHandlers \/ LoadThrows
  \/ \E s \in Stopper : StopAll(s) \/ CloseResolved(s) \/ CloseRejected(s)
  \/ \E w \in Worker : WorkerCloses(w)

(***************************************************************************)
(* Fairness: the event loop resumes a stopAll() whose await has settled,   *)
(* and BullMQ settles every close().  Nobody has to call anything.         *)
(***************************************************************************)
Fairness ==
  /\ \A s \in Stopper : WF_vars(Resume(s))
  /\ \A w \in Worker : WF_vars(WorkerCloses(w))

Spec == Init /\ [][Next]_vars /\ Fairness
-----------------------------------------------------------------------------

TypeOK ==
  /\ definitions \in SUBSET Queue
  /\ sound \in SUBSET definitions
  /\ activeWorkers \in SUBSET definitions
  /\ generation \in [Queue -> 0 .. MaxGeneration]
  /\ \A q \in activeWorkers : generation[q] > 0
  /\ status \in [Worker -> {"none", "open", "closing", "closed", "broken"}]
  /\ isRunning \in BOOLEAN
  /\ pluginLoad \in {"pending", "done", "failed"}
  /\ closing \in [Stopper -> Worker \cup {NoWorker}]
  /\ visited \in [Stopper -> SUBSET Worker]
  /\ announced \in SUBSET Worker

(***************************************************************************)
(* A worker that takes jobs is always in activeWorkers, however starts,    *)
(* stops and registrations interleave: clear() never drops a live worker,  *)
(* which no later stopAll() could close.                                   *)
(***************************************************************************)
NoOrphan == Open \subseteq ActiveEntries

(***************************************************************************)
(* Once no stopAll() is in progress the service is all on or all off:      *)
(* running means that every defined queue has its worker, stopped means    *)
(* that no worker takes jobs.  Two exceptions: a close() that rejects      *)
(* leaves its worker in the map; and past a definition that BullMQ refuses *)
(* startAll() starts nothing but leaves isRunning set, so `on' is only     *)
(* promised of the queues defined before the first refused one.            *)
(***************************************************************************)
Quiescent == \A s \in Stopper : closing[s] = NoWorker

AllOnOrAllOff ==
  Quiescent =>
    IF isRunning
      THEN \/ \A q \in sound : q \in activeWorkers /\ status[Entry(q)] = "open"
           \/ \E q \in activeWorkers : status[Entry(q)] = "broken"
      ELSE Open = {}

(***************************************************************************)
(* WorkerStopped is published for a worker only after it has closed.       *)
(***************************************************************************)
StoppedIsClosed == \A w \in announced : status[w] = "closed"

(***************************************************************************)
(* stopAll() returns, although workers may be added while it iterates: it  *)
(* visits an entry once.  It rests on the bound MaxGeneration, a program   *)
(* that restarts a queue without end could keep an iteration going.        *)
(***************************************************************************)
StopEnds == \A s \in Stopper : closing[s] # NoWorker ~> closing[s] = NoWorker
=============================================================================
