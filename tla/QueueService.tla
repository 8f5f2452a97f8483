---------------------------- MODULE QueueService ----------------------------
(***************************************************************************)
(* The service through which a process puts jobs into BullMQ queues.  It   *)
(* keeps, per queue name, a Queue to send commands with and a QueueEvents  *)
(* that listens.  Its methods are asynchronous: what a method does after   *)
(* an await meets maps that other calls may have changed.                  *)
(*                                                                         *)
(* getQueue() builds a Queue and a QueueEvents together, so the n-th of    *)
(* both are called n.  The jobs are in Redis; other processes take them,   *)
(* and keep them when they are finished.                                   *)
(***************************************************************************)
EXTENDS Functions, Naturals, Sequences

CONSTANTS
  Names,         \* queue names
  Callers,       \* the calls, each made once
  Contents,      \* jobs to add: [name, data]; data maps keys to values
  OwnIds,        \* values of options.jobId, and ids given to addUnique()
  None,          \* no option, no answer
  MaxBuilt,      \* bound: Queues ever built
  MaxStored      \* bound: jobs ever stored

ASSUME BoundsAssumption == MaxBuilt \in Nat /\ MaxStored \in Nat

VARIABLES
  queues,        \* queues[q]: the Queue in the map, 0 for no entry
  queueEvents,   \* queueEvents[q]: the QueueEvents in the map, 0 for no entry
  built,         \* built[n]: the name n was built for, and (history) whether
                 \*   a call was closing or obliterating that queue meanwhile
  queueStatus,   \* queueStatus[n]: BullMQ's side of Queue n
  eventsStatus,  \* eventsStatus[n]: BullMQ's side of QueueEvents n
  frame,         \* frame[c]: the method call c awaits in, with its variables
  answer,        \* history: what addUniqueByData() has returned to c
  obliterated,   \* history: Queues whose obliterateQueue() has returned
  jobs,          \* Redis: jobs[q] is the jobs of queue q by id
  stored         \* history: jobs ever stored, they are numbered

mapVars == <<queues, queueEvents, built>>
statusVars == <<queueStatus, eventsStatus>>
redisVars == <<jobs, stored>>
vars == <<mapVars, statusVars, frame, answer, obliterated, redisVars>>

Built == 1 .. Len(built)

\* add: for the methods that add a job what they add, else None.
Frame(at, q, n, add) == [at |-> at, queue |-> q, on |-> n, add |-> add]
Expected == Frame("expected", None, 0, None)
Returned == Frame("returned", None, 0, None)
-----------------------------------------------------------------------------

(***************************************************************************)
(* JSON.stringify(data, list) leaves out of every object in data the keys  *)
(* that are not listed, and the list is the keys of data itself.  A value  *)
(* of data is an object or not; no object in it holds another one.  The    *)
(* hash is taken to be injective, so the id is what is hashed.             *)
(***************************************************************************)
Stringify(value, list) ==
  IF value.object THEN Restrict(value.is, list \intersect DOMAIN value.is) ELSE value.is

GenerateJobId(job) ==
  <<job.name, [key \in DOMAIN job.data |-> Stringify(job.data[key], DOMAIN job.data)]>>
-----------------------------------------------------------------------------

\* Calls under way that may still take q out of a map.
Ending(q) == {c \in Callers :
  /\ frame[c].at \in {"obliterating", "obliterated", "closingQueue", "closingEvents"}
  /\ frame[c].queue = q}

\* Mutant: events that are there are kept.
GetQueue_KeepsEvents(q, n) ==
  \/ queues[q] = n /\ n # 0 /\ UNCHANGED mapVars
  \/ /\ queues[q] = 0
     /\ n = Len(built) + 1 /\ n <= MaxBuilt
     /\ queues' = [queues EXCEPT ![q] = n]
     /\ queueEvents' = [queueEvents EXCEPT ![q] = IF @ = 0 THEN n ELSE @]
     /\ built' = Append(built, [queue |-> q, meanwhile |-> Ending(q) # {}])

\* getQueue() returns n: the entry, or a new Queue with its QueueEvents.
GetQueue(q, n) ==
  \/ queues[q] = n /\ n # 0 /\ UNCHANGED mapVars
  \/ /\ queues[q] = 0
     /\ n = Len(built) + 1 /\ n <= MaxBuilt
     /\ queues' = [queues EXCEPT ![q] = n]
     /\ queueEvents' = [queueEvents EXCEPT ![q] = n]
     /\ built' = Append(built, [queue |-> q, meanwhile |-> Ending(q) # {}])

Go(c, next) == frame' = [frame EXCEPT ![c] = next]

\* A method gets its queue and sends it a command, which it awaits.
Send(c, q, at, add) ==
  \E n \in 1 .. MaxBuilt :
    /\ frame[c] = Expected
    /\ GetQueue(q, n)
    /\ Go(c, Frame(at, q, n, add))
    /\ UNCHANGED <<statusVars, obliterated, redisVars>>

\* The command of c resolves; it leaves the maps alone.
Replies(c, at) ==
  /\ frame[c].at = at
  /\ UNCHANGED <<mapVars, statusVars, obliterated>>

\* Any command may reject, on a queue that is being closed or otherwise.
Rejected(c) ==
  /\ frame[c].at \in {"commanding", "looking", "adding", "cleaning", "draining", "obliterating"}
  /\ Go(c, Returned)
  /\ UNCHANGED <<mapVars, statusVars, answer, obliterated, redisVars>>
-----------------------------------------------------------------------------

\* add() under an id of BullMQ's, pauseQueue(), resumeQueue(),
\* getQueueMetrics() and getJobs(): what they do in Redis is not told apart.
Command(c, q) ==
  /\ Send(c, q, "commanding", None)
  /\ UNCHANGED answer

CommandReplies(c) ==
  /\ Replies(c, "commanding")
  /\ Go(c, Returned)
  /\ UNCHANGED <<answer, redisVars>>

AddUnique(c, q, job, id) ==
  /\ Send(c, q, "adding",
          [job |-> job, id |-> id, byData |-> FALSE, began |-> stored])
  /\ UNCHANGED answer

\* id: options.jobId or None; takes the place of the id made from the data.
AddUniqueByData(c, q, job, id) ==
  /\ Send(c, q, "looking",
          [job |-> job, id |-> id, byData |-> TRUE, began |-> stored])
  /\ UNCHANGED answer

Return(c, skipped, job) ==
  answer' = [answer EXCEPT ![c] =
    [skipped |-> skipped, asked |-> frame[c].add.job, id |-> frame[c].add.id,
     began |-> frame[c].add.began, got |-> job]]

\* Mutant: the job found is not looked at.
Looks_Unread(c) ==
  /\ Replies(c, "looking")
  /\ Go(c, [frame[c] EXCEPT !.at = "adding"])
  /\ UNCHANGED <<answer, redisVars>>

\* getJob() resolves.
Looks(c) ==
  LET q == frame[c].queue
      id == GenerateJobId(frame[c].add.job)
  IN  /\ Replies(c, "looking")
      /\ IF id \in DOMAIN jobs[q]
           THEN Return(c, TRUE, jobs[q][id]) /\ Go(c, Returned)
           ELSE UNCHANGED answer /\ Go(c, [frame[c] EXCEPT !.at = "adding"])
      /\ UNCHANGED redisVars

\* queue.add() resolves: Redis has kept the job it had under that id.
Adds(c) ==
  LET q == frame[c].queue
      add == frame[c].add
      id == IF add.id = None THEN GenerateJobId(add.job) ELSE add.id
  IN  /\ Replies(c, "adding")
      /\ IF id \in DOMAIN jobs[q]
           THEN UNCHANGED redisVars
           ELSE /\ stored < MaxStored
                /\ stored' = stored + 1
                /\ jobs' = [jobs EXCEPT ![q] = [i \in DOMAIN @ \cup {id} |->
                     IF i = id THEN [number |-> stored + 1, job |-> add.job, status |-> "waiting"]
                               ELSE jobs[q][i]]]
      /\ IF add.byData THEN Return(c, FALSE, jobs'[q][id]) ELSE UNCHANGED answer
      /\ Go(c, Returned)
-----------------------------------------------------------------------------

CleanQueue(c, q) ==
  /\ Send(c, q, "cleaning", None)
  /\ UNCHANGED answer

DrainQueue(c, q) ==
  /\ Send(c, q, "draining", None)
  /\ UNCHANGED answer

ObliterateQueue(c, q) ==
  /\ Send(c, q, "obliterating", None)
  /\ UNCHANGED answer

Ids(q, status) == {id \in DOMAIN jobs[q] : jobs[q][id].status = status}

Removes(q, ids) ==
  /\ jobs' = [jobs EXCEPT ![q] = Restrict(@, DOMAIN @ \ ids)]
  /\ UNCHANGED <<answer, stored>>

\* Finished jobs, but those of the grace time and those above the limit.
Cleans(c) ==
  /\ Replies(c, "cleaning")
  /\ \E ids \in SUBSET Ids(frame[c].queue, "finished") : Removes(frame[c].queue, ids)
  /\ Go(c, Returned)

Drains(c) ==
  /\ Replies(c, "draining")
  /\ Removes(frame[c].queue, Ids(frame[c].queue, "waiting"))
  /\ Go(c, Returned)

Obliterates(c) ==
  /\ Replies(c, "obliterating")
  /\ Removes(frame[c].queue, DOMAIN jobs[frame[c].queue])
  /\ Go(c, [frame[c] EXCEPT !.at = "obliterated"])

\* After its await obliterateQueue() forgets the Queue of that name, whichever
\* it is by now; it closes neither that one nor its events.
Forgets(c) ==
  /\ frame[c].at = "obliterated"
  /\ queues' = [queues EXCEPT ![frame[c].queue] = 0]
  /\ obliterated' = obliterated \cup {frame[c].on}
  /\ Go(c, Returned)
  /\ UNCHANGED <<queueEvents, built, statusVars, answer, redisVars>>
-----------------------------------------------------------------------------

(***************************************************************************)
(* closeQueue().  close() of BullMQ makes one promise, which all who call  *)
(* it again get too.                                                       *)
(***************************************************************************)
Closing(status, n) == [status EXCEPT ![n] = IF @ = "open" THEN "closing" ELSE @]

\* The second half: the events of that name, if there are any now.
CloseEvents(c, q) ==
  IF queueEvents[q] # 0
    THEN /\ eventsStatus' = Closing(eventsStatus, queueEvents[q])
         /\ Go(c, Frame("closingEvents", q, queueEvents[q], None))
    ELSE /\ Go(c, Returned)
         /\ UNCHANGED eventsStatus

CloseQueue(c, q) ==
  /\ frame[c] = Expected
  /\ IF queues[q] # 0
       THEN /\ queueStatus' = Closing(queueStatus, queues[q])
            /\ Go(c, Frame("closingQueue", q, queues[q], None))
            /\ UNCHANGED eventsStatus
       ELSE /\ CloseEvents(c, q)
            /\ UNCHANGED queueStatus
  /\ UNCHANGED <<mapVars, answer, obliterated, redisVars>>

\* Mutant: a method that has closed the Queue leaves the events alone.
QueueClosed_Returns(c) ==
  /\ frame[c].at = "closingQueue"
  /\ queueStatus[frame[c].on] # "broken"
  /\ queueStatus' = [queueStatus EXCEPT ![frame[c].on] = "closed"]
  /\ queues' = [queues EXCEPT ![frame[c].queue] = 0]
  /\ Go(c, Returned)
  /\ UNCHANGED <<queueEvents, built, eventsStatus, answer, obliterated, redisVars>>

QueueClosed(c) ==
  /\ frame[c].at = "closingQueue"
  /\ queueStatus[frame[c].on] # "broken"
  /\ queueStatus' = [queueStatus EXCEPT ![frame[c].on] = "closed"]
  /\ queues' = [queues EXCEPT ![frame[c].queue] = 0]
  /\ CloseEvents(c, frame[c].queue)
  /\ UNCHANGED <<queueEvents, built, answer, obliterated, redisVars>>

EventsClosed(c) ==
  /\ frame[c].at = "closingEvents"
  /\ eventsStatus[frame[c].on] # "broken"
  /\ eventsStatus' = [eventsStatus EXCEPT ![frame[c].on] = "closed"]
  /\ queueEvents' = [queueEvents EXCEPT ![frame[c].queue] = 0]
  /\ Go(c, Returned)
  /\ UNCHANGED <<queues, built, queueStatus, answer, obliterated, redisVars>>

\* A close() that rejects makes closeQueue() throw; the maps stay.
CloseRejected(c) ==
  /\ \/ /\ frame[c].at = "closingQueue"
        /\ queueStatus[frame[c].on] # "closed"
        /\ queueStatus' = [queueStatus EXCEPT ![frame[c].on] = "broken"]
        /\ UNCHANGED eventsStatus
     \/ /\ frame[c].at = "closingEvents"
        /\ eventsStatus[frame[c].on] # "closed"
        /\ eventsStatus' = [eventsStatus EXCEPT ![frame[c].on] = "broken"]
        /\ UNCHANGED queueStatus
  /\ Go(c, Returned)
  /\ UNCHANGED <<mapVars, answer, obliterated, redisVars>>
-----------------------------------------------------------------------------

\* A worker, of any process, takes a job or is done with it.
Works(q, id) ==
  /\ jobs[q][id].status # "finished"
  /\ jobs' = [jobs EXCEPT ![q][id].status = IF @ = "waiting" THEN "active" ELSE "finished"]
  /\ UNCHANGED <<mapVars, statusVars, frame, answer, obliterated, stored>>

Init ==
  /\ queues = [q \in Names |-> 0]
  /\ queueEvents = [q \in Names |-> 0]
  /\ built = <<>>
  /\ queueStatus = [n \in 1 .. MaxBuilt |-> "open"]
  /\ eventsStatus = [n \in 1 .. MaxBuilt |-> "open"]
  /\ frame = [c \in Callers |-> Expected]
  /\ answer = [c \in Callers |-> None]
  /\ obliterated = {}
  /\ jobs = [q \in Names |-> <<>>]
  /\ stored = 0

Next ==
  \/ \E c \in Callers, q \in Names :
       \/ Command(c, q)
       \/ \E job \in Contents : \/ \E id \in OwnIds : AddUnique(c, q, job, id)
                                \/ \E id \in OwnIds \cup {None} : AddUniqueByData(c, q, job, id)
       \/ CleanQueue(c, q)
       \/ DrainQueue(c, q)
       \/ ObliterateQueue(c, q)
       \/ CloseQueue(c, q)
  \/ \E c \in Callers :
       \/ CommandReplies(c)
       \/ Rejected(c)
       \/ Looks(c)
       \/ Adds(c)
       \/ Cleans(c)
       \/ Drains(c)
       \/ Obliterates(c)
       \/ Forgets(c)
       \/ QueueClosed(c)
       \/ EventsClosed(c)
       \/ CloseRejected(c)
  \/ \E q \in Names : \E id \in DOMAIN jobs[q] : Works(q, id)

Spec == Init /\ [][Next]_vars
-----------------------------------------------------------------------------

(***************************************************************************)
(* Types.  An entry was built for its name, and while the map of queues    *)
(* has one, the map of events has the one built with it or none.           *)
(***************************************************************************)
TypeOK ==
  /\ queues \in [Names -> 0 .. Len(built)]
  /\ queueEvents \in [Names -> 0 .. Len(built)]
  /\ \A q \in Names : queues[q] # 0 => /\ built[queues[q]].queue = q
                                       /\ queueEvents[q] \in {0, queues[q]}
  /\ \A n \in 1 .. MaxBuilt : /\ {queueStatus[n], eventsStatus[n]} \subseteq {"open", "closing", "closed", "broken"}
                              /\ n > Len(built) => queueStatus[n] = "open" /\ eventsStatus[n] = "open"
  /\ \A c \in Callers : frame[c] \notin {Expected, Returned} => built[frame[c].on].queue = frame[c].queue
  /\ \A q \in Names : \A id, other \in DOMAIN jobs[q] :
       jobs[q][id].number = jobs[q][other].number => id = other

Stray(n) ==
  \/ queueStatus[n] = "open" /\ queues[built[n].queue] # n
  \/ eventsStatus[n] = "open" /\ queueEvents[built[n].queue] # n

(***************************************************************************)
(* A Queue or QueueEvents that is open and that closeQueue() cannot reach  *)
(* any more was obliterated, or was built while a closeQueue() or          *)
(* obliterateQueue() of its name was awaited.  Calls that overlap in no    *)
(* other way leave nothing open behind.                                    *)
(***************************************************************************)
StraysExplained ==
  \A n \in Built : Stray(n) => built[n].meanwhile \/ n \in obliterated

(***************************************************************************)
(* addUniqueByData() returns a job, and not null, only if that job was     *)
(* stored while it ran; two calls get the same job only if they overlap.   *)
(* (With a jobId among the options nothing is looked up under that id.)    *)
(***************************************************************************)
AddedOnce ==
  \A c \in Callers :
    answer[c] # None /\ ~ answer[c].skipped /\ answer[c].id = None
      => answer[c].got.number > answer[c].began

(***************************************************************************)
(* addUniqueByData() skips a job only if one of the same content is there: *)
(* the id is derived "del contenido del job" (queue.service.ts:70).        *)
(* Violated: the id does not tell apart what is inside nested objects.     *)
(***************************************************************************)
SkippedIsDuplicate ==
  \A c \in Callers :
    answer[c] # None /\ answer[c].skipped => answer[c].got.job = answer[c].asked
=============================================================================
