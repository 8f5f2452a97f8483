------------------------- MODULE QueueServiceProofs -------------------------
(***************************************************************************)
(* The invariants of QueueService, for every set of names, calls, jobs and *)
(* ids, and any bounds.                                                    *)
(***************************************************************************)
EXTENDS QueueService, SequenceTheorems, TLAPS

Statuses == {"open", "closing", "closed", "broken"}
Awaiting == {"commanding", "looking", "adding", "cleaning", "draining",
             "obliterating", "obliterated", "closingQueue", "closingEvents"}
EndingStages == {"obliterating", "obliterated", "closingQueue", "closingEvents"}
Additions == [job : Contents, id : OwnIds \cup {None}, byData : BOOLEAN, began : Nat]
Frames == [at : Awaiting, queue : Names, on : Nat, add : Additions \cup {None}]
             \cup {Expected, Returned}
-----------------------------------------------------------------------------

MapsTyped ==
  /\ queues \in [Names -> Nat]
  /\ queueEvents \in [Names -> Nat]
  /\ built \in Seq([queue : Names, meanwhile : BOOLEAN])
  /\ Len(built) <= MaxBuilt
  /\ queueStatus \in [1 .. MaxBuilt -> Statuses]
  /\ eventsStatus \in [1 .. MaxBuilt -> Statuses]

CallsTyped ==
  /\ frame \in [Callers -> Frames]
  /\ DOMAIN answer = Callers
  /\ \A c \in Callers : frame[c].at \in {"looking", "adding"} => frame[c].add \in Additions

JobsTyped ==
  /\ stored \in Nat
  /\ DOMAIN jobs = Names

\* What was built for a name is found under that name only.
MapsFit ==
  /\ \A q \in Names : queues[q] # 0 => /\ queues[q] \in Built
                                       /\ built[queues[q]].queue = q
                                       /\ queueEvents[q] \in {0, queues[q]}
  /\ \A q \in Names : queueEvents[q] # 0 => /\ queueEvents[q] \in Built
                                            /\ built[queueEvents[q]].queue = q
  /\ \A n \in 1 .. MaxBuilt :
       n \notin Built => queueStatus[n] = "open" /\ eventsStatus[n] = "open"

\* A call awaits something that was built for the name it was given.
FramesFit ==
  \A c \in Callers : frame[c].at \in Awaiting =>
    /\ frame[c].on \in Built
    /\ built[frame[c].on].queue = frame[c].queue

\* What a call that ends a queue will take out of the maps is what it awaits,
\* or was built meanwhile.
EndsItsOwn ==
  \A c \in Callers : frame[c].at \in EndingStages =>
    \A n \in {queues[frame[c].queue], queueEvents[frame[c].queue]} :
      n \in {0, frame[c].on} \/ built[n].meanwhile

\* A call that awaits close() has made it close.
HasClosed ==
  \A c \in Callers :
    /\ frame[c].at = "closingQueue" => queueStatus[frame[c].on] # "open"
    /\ frame[c].at = "closingEvents" => eventsStatus[frame[c].on] # "open"

Excused(n) == built[n].meanwhile \/ n \in obliterated

\* Events left in their map without a Queue: getQueue() will replace them.
EventsAlone ==
  \A q \in Names : queues[q] = 0 /\ queueEvents[q] # 0 =>
    eventsStatus[queueEvents[q]] # "open" \/ Excused(queueEvents[q])

\* Jobs are numbered as they are stored.
Numbered ==
  \A q \in Names : \A id \in DOMAIN jobs[q] :
    /\ jobs[q][id].number \in 1 .. stored
    /\ \A other \in DOMAIN jobs[q] : jobs[q][id].number = jobs[q][other].number => id = other

\* What a call has looked up and not found was stored since.
NotFoundThen ==
  \A c \in Callers :
    /\ frame[c].at \in {"looking", "adding"} => frame[c].add.began <= stored
    /\ frame[c].at = "adding" /\ frame[c].add.byData /\ frame[c].add.id = None =>
         LET id == GenerateJobId(frame[c].add.job)
         IN  id \in DOMAIN jobs[frame[c].queue] =>
               jobs[frame[c].queue][id].number > frame[c].add.began

MapsInv == MapsTyped /\ CallsTyped /\ MapsFit /\ FramesFit
StraysInv == MapsInv /\ EndsItsOwn /\ HasClosed /\ EventsAlone /\ StraysExplained
JobsInv == MapsInv /\ JobsTyped /\ Numbered /\ NotFoundThen /\ AddedOnce
-----------------------------------------------------------------------------

(***************************************************************************)
(* What the steps have in common.  Six methods begin by sending a command  *)
(* to the Queue of their name.                                             *)
(***************************************************************************)
SendStages == {"commanding", "looking", "adding", "cleaning", "draining", "obliterating"}

Sends ==
  \E c \in Callers, q \in Names, at \in SendStages, add \in Additions \cup {None} :
    /\ Send(c, q, at, add) /\ UNCHANGED answer
    /\ at \in {"looking", "adding"} => add \in Additions /\ add.began = stored
    /\ at = "adding" => ~ add.byData

\* The steps, those that begin with a command taken together.
LEMMA NextSplit ==
  ASSUME stored \in Nat, Next
  PROVE  \/ Sends
         \/ \E c \in Callers, q \in Names : CloseQueue(c, q)
         \/ \E c \in Callers : \/ CommandReplies(c) \/ Rejected(c) \/ Looks(c) \/ Adds(c)
                                \/ Cleans(c) \/ Drains(c) \/ Obliterates(c) \/ Forgets(c)
                                \/ QueueClosed(c) \/ EventsClosed(c) \/ CloseRejected(c)
         \/ \E q \in Names : \E id \in DOMAIN jobs[q] : Works(q, id)
<1>1. ASSUME NEW c \in Callers, NEW q \in Names,
             Command(c, q) \/ CleanQueue(c, q) \/ DrainQueue(c, q) \/ ObliterateQueue(c, q)
      PROVE  Sends
  <2>1. PICK at \in {"commanding", "cleaning", "draining", "obliterating"} :
          Send(c, q, at, None) /\ UNCHANGED answer
    BY <1>1 DEF Command, CleanQueue, DrainQueue, ObliterateQueue
  <2> QED BY <2>1 DEF Sends, SendStages
<1>2. ASSUME NEW c \in Callers, NEW q \in Names, NEW job \in Contents, NEW id \in OwnIds,
             AddUnique(c, q, job, id)
      PROVE  Sends
  <2> DEFINE add == [job |-> job, id |-> id, byData |-> FALSE, began |-> stored]
  <2>1. Send(c, q, "adding", add) /\ UNCHANGED answer
    BY <1>2 DEF AddUnique
  <2>2. add \in Additions /\ add.began = stored /\ ~ add.byData
    BY DEF Additions
  <2> HIDE DEF add
  <2> QED BY <2>1, <2>2 DEF Sends, SendStages
<1>3. ASSUME NEW c \in Callers, NEW q \in Names, NEW job \in Contents, NEW id \in OwnIds \cup {None},
             AddUniqueByData(c, q, job, id)
      PROVE  Sends
  <2> DEFINE add == [job |-> job, id |-> id, byData |-> TRUE, began |-> stored]
  <2>1. Send(c, q, "looking", add) /\ UNCHANGED answer
    BY <1>3 DEF AddUniqueByData
  <2>2. add \in Additions /\ add.began = stored
    BY DEF Additions
  <2> HIDE DEF add
  <2> QED BY <2>1, <2>2 DEF Sends, SendStages
<1> QED BY <1>1, <1>2, <1>3 DEF Next

LEMMA BuiltBounded ==
  ASSUME MapsTyped
  PROVE  Built \subseteq 1 .. MaxBuilt
BY BoundsAssumption DEF MapsTyped, Built

\* What getQueue() returns was built for its name, and nothing built is lost.
LEMMA GetQueueFits ==
  ASSUME MapsTyped, MapsFit, NEW q \in Names, NEW n \in 1 .. MaxBuilt,
         GetQueue(q, n), UNCHANGED statusVars
  PROVE  /\ MapsTyped' /\ MapsFit'
         /\ n \in Built' /\ built'[n].queue = q
         /\ queues'[q] = n /\ queueEvents'[q] \in {0, n}
         /\ Built \subseteq Built' /\ \A m \in Built : built'[m] = built[m]
<1>1. CASE queues[q] = n /\ UNCHANGED mapVars
  BY <1>1 DEF MapsTyped, MapsFit, mapVars, statusVars, Built
<1>2. CASE /\ queues[q] = 0 /\ n = Len(built) + 1
           /\ queues' = [queues EXCEPT ![q] = n]
           /\ queueEvents' = [queueEvents EXCEPT ![q] = n]
           /\ built' = Append(built, [queue |-> q, meanwhile |-> Ending(q) # {}])
  <2> DEFINE new == [queue |-> q, meanwhile |-> Ending(q) # {}]
  <2>1. new \in [queue : Names, meanwhile : BOOLEAN] /\ new.queue = q
    OBVIOUS
  <2> HIDE DEF new
  <2>2. /\ built' = Append(built, new) /\ Len(built') = Len(built) + 1
        /\ built' \in Seq([queue : Names, meanwhile : BOOLEAN])
        /\ \A m \in 1 .. Len(built) : built'[m] = built[m]
        /\ built'[n] = new
    BY <1>2, <2>1 DEF MapsTyped, new
  <2>3. MapsTyped'
    BY <1>2, <2>2, BoundsAssumption DEF MapsTyped, statusVars
  <2>4. MapsFit'
    BY <1>2, <2>1, <2>2 DEF MapsTyped, MapsFit, statusVars, Built
  <2> QED BY <1>2, <2>1, <2>2, <2>3, <2>4 DEF MapsTyped, Built
<1> QED BY <1>1, <1>2 DEF GetQueue

\* Steps that leave both maps and BullMQ's side of things alone.
Quiet ==
  /\ UNCHANGED <<mapVars, statusVars>>
  /\ \/ UNCHANGED frame
     \/ \E c \in Callers :
          \/ frame[c].at \in Awaiting /\ Go(c, Returned)
          \/ frame[c].at = "looking" /\ Go(c, [frame[c] EXCEPT !.at = "adding"])
          \/ frame[c].at = "obliterating" /\ Go(c, [frame[c] EXCEPT !.at = "obliterated"])

LEMMA ReplyIsQuiet ==
  ASSUME NEW c \in Callers,
         \/ CommandReplies(c) \/ Rejected(c) \/ Looks(c) \/ Adds(c)
         \/ Cleans(c) \/ Drains(c) \/ Obliterates(c)
  PROVE  Quiet /\ UNCHANGED obliterated /\ DOMAIN answer' = DOMAIN answer
<1>1. CASE CommandReplies(c) \/ Rejected(c)
  BY <1>1 DEF CommandReplies, Rejected, Replies, Quiet, Awaiting
<1>2. CASE Looks(c)
  BY <1>2 DEF Looks, Replies, Return, Quiet, Awaiting
<1>3. CASE Adds(c)
  <2>1. frame[c].at \in Awaiting /\ Go(c, Returned) /\ UNCHANGED <<mapVars, statusVars, obliterated>>
    BY <1>3 DEF Adds, Replies, Awaiting
  <2>2. DOMAIN answer' = DOMAIN answer
    BY <1>3 DEF Adds, Return
  <2> QED BY <2>1, <2>2 DEF Quiet
<1>4. CASE Cleans(c) \/ Drains(c)
  BY <1>4 DEF Cleans, Drains, Removes, Replies, Quiet, Awaiting
<1>5. CASE Obliterates(c)
  BY <1>5 DEF Obliterates, Removes, Replies, Quiet, Awaiting
<1> QED BY <1>1, <1>2, <1>3, <1>4, <1>5

LEMMA WorksIsQuiet ==
  ASSUME NEW q \in Names, NEW id \in DOMAIN jobs[q], Works(q, id)
  PROVE  Quiet /\ UNCHANGED <<obliterated, answer>>
BY DEF Works, Quiet

\* The frames of the calls stay what they should be when one of them moves.
LEMMA FrameMoves ==
  ASSUME CallsTyped, FramesFit, NEW c \in Callers, NEW next \in Frames, Go(c, next),
         DOMAIN answer' = Callers,
         next.at \in {"looking", "adding"} => next.add \in Additions,
         Built \subseteq Built', \A m \in Built : built'[m] = built[m],
         next.at \in Awaiting => next.on \in Built' /\ built'[next.on].queue = next.queue
  PROVE  CallsTyped' /\ FramesFit'
BY DEF CallsTyped, FramesFit, Go

LEMMA FrameShape ==
  ASSUME CallsTyped, NEW c \in Callers
  PROVE  /\ frame[c].at \in Awaiting => /\ frame[c].queue \in Names /\ frame[c].on \in Nat
                                        /\ frame[c].add \in Additions \cup {None}
                                        /\ frame[c] \in [at : Awaiting, queue : Names, on : Nat,
                                                         add : Additions \cup {None}]
         /\ frame[c].at \notin Awaiting => frame[c] \in {Expected, Returned}
<1>1. frame[c] \in Frames
  BY DEF CallsTyped
<1>2. Expected.at \notin Awaiting /\ Returned.at \notin Awaiting
  BY DEF Expected, Returned, Frame, Awaiting
<1> QED BY <1>1, <1>2 DEF Frames

LEMMA AtEnds ==
  /\ Expected \in Frames /\ Returned \in Frames
  /\ Expected.at \notin Awaiting /\ Returned.at \notin Awaiting
  /\ Expected.at \notin {"looking", "adding"} /\ Returned.at \notin {"looking", "adding"}
BY DEF Expected, Returned, Frame, Frames, Awaiting

LEMMA FrameTyped ==
  ASSUME NEW at \in Awaiting, NEW q \in Names, NEW n \in Nat, NEW add \in Additions \cup {None}
  PROVE  /\ Frame(at, q, n, add) \in Frames
         /\ Frame(at, q, n, add).at = at /\ Frame(at, q, n, add).queue = q
         /\ Frame(at, q, n, add).on = n /\ Frame(at, q, n, add).add = add
BY DEF Frame, Frames

LEMMA QuietMaps ==
  ASSUME MapsInv, Quiet, DOMAIN answer' = Callers
  PROVE  MapsInv'
<1>1. MapsTyped' /\ MapsFit'
  BY DEF MapsInv, MapsTyped, MapsFit, Quiet, mapVars, statusVars, Built
<1>2. Built' = Built /\ built' = built
  BY DEF Quiet, mapVars, Built
<1>3. CASE UNCHANGED frame
  BY <1>1, <1>2, <1>3 DEF MapsInv, CallsTyped, FramesFit
<1>4. ASSUME NEW c \in Callers, Go(c, Returned)
      PROVE  CallsTyped' /\ FramesFit'
  BY <1>2, <1>4, AtEnds, FrameMoves DEF MapsInv
<1>5. ASSUME NEW c \in Callers, NEW at \in {"adding", "obliterated"},
             frame[c].at \in Awaiting, at = "adding" => frame[c].at = "looking",
             Go(c, [frame[c] EXCEPT !.at = at])
      PROVE  CallsTyped' /\ FramesFit'
  <2> DEFINE next == [frame[c] EXCEPT !.at = at]
  <2>1. /\ next \in Frames /\ next.at = at /\ next.queue = frame[c].queue
        /\ next.on = frame[c].on /\ next.add = frame[c].add
    BY <1>5, FrameShape DEF MapsInv, Frames, Awaiting
  <2>2. /\ at = "adding" => frame[c].add \in Additions
        /\ frame[c].on \in Built /\ built[frame[c].on].queue = frame[c].queue
    BY <1>5 DEF MapsInv, CallsTyped, FramesFit
  <2>3. Go(c, next)
    BY <1>5
  <2> HIDE DEF next
  <2> QED BY <1>2, <2>1, <2>2, <2>3, FrameMoves DEF MapsInv
<1>6. CallsTyped' /\ FramesFit'
  <2>1. ASSUME NEW c \in Callers, frame[c].at = "looking", Go(c, [frame[c] EXCEPT !.at = "adding"])
        PROVE  CallsTyped' /\ FramesFit'
    BY <1>5, <2>1 DEF Awaiting
  <2>2. ASSUME NEW c \in Callers, frame[c].at = "obliterating",
               Go(c, [frame[c] EXCEPT !.at = "obliterated"])
        PROVE  CallsTyped' /\ FramesFit'
    BY <1>5, <2>2 DEF Awaiting
  <2> QED BY <1>3, <1>4, <2>1, <2>2, <1>1 DEF Quiet, MapsInv
<1> QED BY <1>1, <1>6 DEF MapsInv

LEMMA SendMaps ==
  ASSUME MapsInv, NEW c \in Callers, NEW q \in Names, NEW at \in SendStages,
         NEW add \in Additions \cup {None}, NEW n \in 1 .. MaxBuilt,
         GetQueue(q, n), Go(c, Frame(at, q, n, add)), UNCHANGED statusVars, DOMAIN answer' = Callers,
         at \in {"looking", "adding"} => add \in Additions
  PROVE  MapsInv'
<1>1. /\ MapsTyped' /\ MapsFit'
      /\ n \in Built' /\ built'[n].queue = q
      /\ Built \subseteq Built' /\ \A m \in Built : built'[m] = built[m]
  BY GetQueueFits DEF MapsInv
<1> DEFINE next == Frame(at, q, n, add)
<1>2. next \in Frames /\ next.at = at /\ next.queue = q /\ next.on = n /\ next.add = add
  BY FrameTyped, BoundsAssumption DEF SendStages, Awaiting
<1> HIDE DEF next
<1>3. Go(c, next)
  BY DEF next
<1> QED BY <1>1, <1>2, <1>3, FrameMoves DEF MapsInv

\* The second half of closeQueue(): the other half may have changed the maps.
LEMMA CloseEventsMaps ==
  ASSUME MapsInv, NEW c \in Callers, NEW q \in Names, CloseEvents(c, q),
         UNCHANGED <<queueEvents, built, answer>>
  PROVE  /\ eventsStatus' \in [1 .. MaxBuilt -> Statuses]
         /\ \A n \in 1 .. MaxBuilt : n \notin Built => eventsStatus'[n] = eventsStatus[n]
         /\ CallsTyped' /\ FramesFit'
<1>1. Built' = Built /\ built' = built /\ DOMAIN answer' = Callers
  BY DEF MapsInv, CallsTyped, Built
<1>2. CASE queueEvents[q] = 0
  <2>1. Go(c, Returned) /\ UNCHANGED eventsStatus
    BY <1>2 DEF CloseEvents
  <2> QED BY <1>1, <2>1, AtEnds, FrameMoves DEF MapsInv, MapsTyped
<1>3. CASE queueEvents[q] # 0
  <2> DEFINE n == queueEvents[q]
             next == Frame("closingEvents", q, n, None)
  <2>1. n \in Built /\ built[n].queue = q /\ n \in Nat
    BY <1>3 DEF MapsInv, MapsFit, MapsTyped
  <2>2. Go(c, next) /\ eventsStatus' = Closing(eventsStatus, n)
    BY <1>3 DEF CloseEvents
  <2>3. /\ next \in Frames /\ next.at = "closingEvents" /\ next.on = n /\ next.queue = q
    BY <2>1, FrameTyped DEF Awaiting
  <2> HIDE DEF n, next
  <2>4. CallsTyped' /\ FramesFit'
    BY <1>1, <2>1, <2>2, <2>3, FrameMoves DEF MapsInv
  <2> QED BY <2>1, <2>2, <2>4 DEF Closing, MapsInv, MapsTyped, Statuses
<1> QED BY <1>2, <1>3

LEMMA CloseQueueMaps ==
  ASSUME MapsInv, NEW c \in Callers, NEW q \in Names, CloseQueue(c, q)
  PROVE  MapsInv'
<1>1. UNCHANGED mapVars /\ UNCHANGED answer /\ Built' = Built /\ built' = built
      /\ DOMAIN answer' = Callers
  BY DEF CloseQueue, mapVars, MapsInv, CallsTyped, Built
<1>2. CASE queues[q] # 0
  <2> DEFINE n == queues[q]
             next == Frame("closingQueue", q, n, None)
  <2>1. n \in Built /\ built[n].queue = q /\ n \in Nat
    BY <1>2 DEF MapsInv, MapsFit, MapsTyped
  <2>2. Go(c, next) /\ queueStatus' = Closing(queueStatus, n) /\ UNCHANGED eventsStatus
    BY <1>2 DEF CloseQueue
  <2>3. /\ next \in Frames /\ next.at = "closingQueue" /\ next.on = n /\ next.queue = q
    BY <2>1, FrameTyped DEF Awaiting
  <2> HIDE DEF n, next
  <2>4. CallsTyped' /\ FramesFit'
    BY <1>1, <2>1, <2>2, <2>3, FrameMoves DEF MapsInv
  <2>5. /\ queueStatus' \in [1 .. MaxBuilt -> Statuses]
        /\ \A m \in 1 .. MaxBuilt : m \notin Built => queueStatus'[m] = queueStatus[m]
    BY <2>1, <2>2 DEF Closing, MapsInv, MapsTyped, Statuses
  <2> QED BY <1>1, <2>2, <2>4, <2>5 DEF MapsInv, MapsTyped, MapsFit, mapVars, Built
<1>3. CASE queues[q] = 0
  <2>1. CloseEvents(c, q) /\ UNCHANGED queueStatus
    BY <1>3 DEF CloseQueue
  <2>2. /\ eventsStatus' \in [1 .. MaxBuilt -> Statuses]
        /\ \A n \in 1 .. MaxBuilt : n \notin Built => eventsStatus'[n] = eventsStatus[n]
        /\ CallsTyped' /\ FramesFit'
    BY <1>1, <2>1, CloseEventsMaps DEF mapVars
  <2> QED BY <1>1, <2>1, <2>2 DEF MapsInv, MapsTyped, MapsFit, mapVars, Built
<1> QED BY <1>2, <1>3

LEMMA ForgetsMaps ==
  ASSUME MapsInv, NEW c \in Callers, Forgets(c)
  PROVE  MapsInv'
<1>1. /\ queues' = [queues EXCEPT ![frame[c].queue] = 0] /\ Go(c, Returned)
      /\ UNCHANGED <<queueEvents, built, statusVars>> /\ Built' = Built
      /\ DOMAIN answer' = Callers
  BY DEF Forgets, MapsInv, CallsTyped, Built
<1>2. MapsTyped' /\ MapsFit'
  BY <1>1 DEF MapsInv, MapsTyped, MapsFit, statusVars, Built
<1> QED BY <1>1, <1>2, AtEnds, FrameMoves DEF MapsInv

LEMMA QueueClosedMaps ==
  ASSUME MapsInv, NEW c \in Callers, QueueClosed(c)
  PROVE  MapsInv'
<1>1. /\ frame[c].queue \in Names /\ frame[c].on \in Built
  BY FrameShape DEF QueueClosed, MapsInv, FramesFit, Awaiting
<1>2. /\ queues' = [queues EXCEPT ![frame[c].queue] = 0]
      /\ queueStatus' = [queueStatus EXCEPT ![frame[c].on] = "closed"]
      /\ CloseEvents(c, frame[c].queue)
      /\ UNCHANGED <<queueEvents, built, answer>> /\ Built' = Built
  BY DEF QueueClosed, Built
<1>3. /\ eventsStatus' \in [1 .. MaxBuilt -> Statuses]
      /\ \A n \in 1 .. MaxBuilt : n \notin Built => eventsStatus'[n] = eventsStatus[n]
      /\ CallsTyped' /\ FramesFit'
  BY <1>1, <1>2, CloseEventsMaps
<1>4. /\ queueStatus' \in [1 .. MaxBuilt -> Statuses]
      /\ \A m \in 1 .. MaxBuilt : m \notin Built => queueStatus'[m] = queueStatus[m]
  BY <1>1, <1>2 DEF MapsInv, MapsTyped, Statuses
<1> QED BY <1>1, <1>2, <1>3, <1>4 DEF MapsInv, MapsTyped, MapsFit, Built

LEMMA EventsClosedMaps ==
  ASSUME MapsInv, NEW c \in Callers, EventsClosed(c)
  PROVE  MapsInv'
<1>1. /\ frame[c].queue \in Names /\ frame[c].on \in Built
  BY FrameShape DEF EventsClosed, MapsInv, FramesFit, Awaiting
<1>2. /\ queueEvents' = [queueEvents EXCEPT ![frame[c].queue] = 0]
      /\ eventsStatus' = [eventsStatus EXCEPT ![frame[c].on] = "closed"]
      /\ Go(c, Returned)
      /\ UNCHANGED <<queues, built, queueStatus>> /\ Built' = Built
      /\ DOMAIN answer' = Callers
  BY DEF EventsClosed, MapsInv, CallsTyped, Built
<1>3. MapsTyped'
  BY <1>1, <1>2 DEF MapsInv, MapsTyped, Statuses
<1>4. \A m \in 1 .. MaxBuilt : m \notin Built => eventsStatus'[m] = eventsStatus[m]
  BY <1>1, <1>2 DEF MapsInv, MapsTyped
<1>5. MapsFit'
  BY <1>1, <1>2, <1>4 DEF MapsInv, MapsTyped, MapsFit
<1> QED BY <1>2, <1>3, <1>5, AtEnds, FrameMoves DEF MapsInv

LEMMA CloseRejectedMaps ==
  ASSUME MapsInv, NEW c \in Callers, CloseRejected(c)
  PROVE  MapsInv'
<1>1. frame[c].on \in Built
  BY DEF CloseRejected, MapsInv, FramesFit, Awaiting
<1>2. /\ UNCHANGED mapVars /\ Go(c, Returned) /\ Built' = Built /\ built' = built
      /\ DOMAIN answer' = Callers
      /\ queueStatus' \in {queueStatus, [queueStatus EXCEPT ![frame[c].on] = "broken"]}
      /\ eventsStatus' \in {eventsStatus, [eventsStatus EXCEPT ![frame[c].on] = "broken"]}
  BY DEF CloseRejected, mapVars, MapsInv, CallsTyped, Built
<1>3. MapsTyped'
  BY <1>1, <1>2 DEF MapsInv, MapsTyped, Statuses, mapVars
<1>4. \A m \in 1 .. MaxBuilt :
        m \notin Built => queueStatus'[m] = queueStatus[m] /\ eventsStatus'[m] = eventsStatus[m]
  BY <1>1, <1>2 DEF MapsInv, MapsTyped
<1>5. MapsFit'
  BY <1>2, <1>4 DEF MapsInv, MapsFit, mapVars
<1> QED BY <1>2, <1>3, <1>5, AtEnds, FrameMoves DEF MapsInv

LEMMA MapsStep ==
  ASSUME MapsInv, stored \in Nat, [Next]_vars
  PROVE  MapsInv'
<1>1. DOMAIN answer = Callers
  BY DEF MapsInv, CallsTyped
<1>2. CASE Sends
  <2>1. PICK c \in Callers, q \in Names, at \in SendStages, add \in Additions \cup {None} :
          /\ Send(c, q, at, add) /\ UNCHANGED answer
          /\ at \in {"looking", "adding"} => add \in Additions
    BY <1>2 DEF Sends
  <2>2. PICK n \in 1 .. MaxBuilt :
          GetQueue(q, n) /\ Go(c, Frame(at, q, n, add)) /\ UNCHANGED statusVars
    BY <2>1 DEF Send
  <2> QED BY <1>1, <2>1, <2>2, SendMaps
<1>3. CASE Quiet /\ DOMAIN answer' = DOMAIN answer
  BY <1>1, <1>3, QuietMaps
<1>4. CASE UNCHANGED vars
  BY <1>1, <1>4, QuietMaps DEF vars, Quiet
<1> QED BY <1>2, <1>3, <1>4, NextSplit, ReplyIsQuiet, WorksIsQuiet, CloseQueueMaps, ForgetsMaps,
           QueueClosedMaps, EventsClosedMaps, CloseRejectedMaps
-----------------------------------------------------------------------------

(***************************************************************************)
(* Nothing open is lost but for a reason.                                  *)
(***************************************************************************)
Kept == EndsItsOwn /\ HasClosed /\ EventsAlone /\ StraysExplained

LEMMA SendKeeps ==
  ASSUME MapsInv, Kept, NEW c \in Callers, NEW q \in Names, NEW at \in SendStages,
         NEW add \in Additions \cup {None}, Send(c, q, at, add)
  PROVE  Kept'
<1>1. PICK n \in 1 .. MaxBuilt :
        /\ GetQueue(q, n) /\ Go(c, Frame(at, q, n, add))
        /\ UNCHANGED <<statusVars, obliterated>>
  BY DEF Send
<1>2. /\ n \in Built' /\ built'[n].queue = q
      /\ queues'[q] = n /\ queueEvents'[q] \in {0, n}
      /\ Built \subseteq Built' /\ \A m \in Built : built'[m] = built[m]
  BY <1>1, GetQueueFits DEF MapsInv
<1> DEFINE next == Frame(at, q, n, add)
<1>3. next.at = at /\ next.queue = q /\ next.on = n
  BY FrameTyped, BoundsAssumption DEF SendStages, Awaiting
<1>4. frame'[c] = next /\ \A d \in Callers \ {c} : frame'[d] = frame[d]
  BY <1>1 DEF Go, MapsInv, CallsTyped
<1> HIDE DEF next
<1>5. HasClosed'
  BY <1>1, <1>3, <1>4 DEF Kept, HasClosed, statusVars, SendStages
<1>6. CASE UNCHANGED mapVars
  <2>1. EndsItsOwn'
    BY <1>2, <1>3, <1>4, <1>6 DEF Kept, EndsItsOwn, mapVars
  <2>2. EventsAlone' /\ StraysExplained'
    BY <1>1, <1>6 DEF Kept, EventsAlone, StraysExplained, Stray, Excused, mapVars, statusVars, Built
  <2> QED BY <1>5, <2>1, <2>2 DEF Kept
<1>7. CASE /\ queues[q] = 0 /\ n = Len(built) + 1
           /\ queues' = [queues EXCEPT ![q] = n]
           /\ queueEvents' = [queueEvents EXCEPT ![q] = n]
           /\ built' = Append(built, [queue |-> q, meanwhile |-> Ending(q) # {}])
  <2>1. /\ queues'[q] = n /\ queueEvents'[q] = n
        /\ \A other \in Names \ {q} : /\ queues'[other] = queues[other]
                                      /\ queueEvents'[other] = queueEvents[other]
    BY <1>7 DEF MapsInv, MapsTyped
  <2>2. built'[n].meanwhile = (Ending(q) # {}) /\ n \notin Built /\ Built' = Built \cup {n}
    BY <1>7 DEF MapsInv, MapsTyped, Built
  <2>3. EndsItsOwn'
    <3> SUFFICES ASSUME NEW d \in Callers, frame'[d].at \in EndingStages
                 PROVE  \A m \in {queues'[frame'[d].queue], queueEvents'[frame'[d].queue]} :
                          m \in {0, frame'[d].on} \/ built'[m].meanwhile
      BY DEF EndsItsOwn
    <3>1. CASE d = c
      BY <1>3, <1>4, <2>1, <3>1
    <3>2. CASE d # c
      <4>1. frame'[d] = frame[d] /\ frame[d].queue \in Names
        BY <1>4, <3>2, FrameShape DEF MapsInv, EndingStages, Awaiting
      <4>2. CASE frame[d].queue = q
        <5>1. d \in Ending(q)
          BY <4>1, <4>2 DEF Ending, EndingStages
        <5>2. built'[n].meanwhile
          BY <2>2, <5>1
        <5> QED BY <2>1, <4>1, <4>2, <5>2
      <4>3. CASE frame[d].queue # q
        <5>1. \A m \in {queues[frame[d].queue], queueEvents[frame[d].queue]} :
                /\ m \in {0, frame[d].on} \/ built[m].meanwhile
                /\ m # 0 => m \in Built
          BY <4>1 DEF Kept, EndsItsOwn, MapsInv, MapsFit
        <5>2. /\ queues'[frame'[d].queue] = queues[frame[d].queue]
              /\ queueEvents'[frame'[d].queue] = queueEvents[frame[d].queue]
              /\ frame'[d].on = frame[d].on
          BY <2>1, <4>1, <4>3
        <5>3. ASSUME NEW m, m \in {0, frame[d].on} \/ built[m].meanwhile, m # 0 => m \in Built
              PROVE  m \in {0, frame[d].on} \/ built'[m].meanwhile
          BY <1>2, <5>3
        <5> QED BY <5>1, <5>2, <5>3
      <4> QED BY <4>2, <4>3
    <3> QED BY <3>1, <3>2
  <2>4. EventsAlone'
    <3> SUFFICES ASSUME NEW other \in Names, queues'[other] = 0, queueEvents'[other] # 0
                 PROVE  \/ eventsStatus'[queueEvents'[other]] # "open"
                        \/ built'[queueEvents'[other]].meanwhile
                        \/ queueEvents'[other] \in obliterated'
      BY DEF EventsAlone, Excused
    <3>1. other # q /\ queues[other] = 0 /\ queueEvents'[other] = queueEvents[other]
          /\ queueEvents[other] \in Built
      BY <2>1 DEF MapsInv, MapsFit
    <3> QED BY <1>1, <1>2, <3>1 DEF Kept, EventsAlone, Excused, statusVars
  <2>5. StraysExplained'
    <3> SUFFICES ASSUME NEW m \in Built',
                        \/ queueStatus'[m] = "open" /\ queues'[built'[m].queue] # m
                        \/ eventsStatus'[m] = "open" /\ queueEvents'[built'[m].queue] # m
                 PROVE  built'[m].meanwhile \/ m \in obliterated'
      BY DEF StraysExplained, Stray
    <3>1. m # n /\ m \in Built
      BY <1>2, <2>1, <2>2
    <3>2. built'[m] = built[m] /\ built[m].queue \in Names
      <4>1. built[m] \in [queue : Names, meanwhile : BOOLEAN]
        BY <3>1, ElementOfSeq DEF MapsInv, MapsTyped, Built
      <4> QED BY <1>2, <3>1, <4>1
    <3>3. CASE Stray(m)
      BY <1>1, <3>1, <3>2, <3>3 DEF Kept, StraysExplained
    <3>4. CASE ~ Stray(m)
      <4>1. built[m].queue = q /\ queueEvents[q] = m /\ eventsStatus[m] = "open"
        BY <1>1, <1>7, <2>1, <3>1, <3>2, <3>4 DEF Stray, statusVars, Built
      <4>2. m # 0
        BY <3>1 DEF MapsInv, MapsTyped, Built
      <4> QED BY <1>1, <1>7, <3>2, <4>1, <4>2 DEF Kept, EventsAlone, Excused
    <3> QED BY <3>3, <3>4
  <2> QED BY <1>5, <2>3, <2>4, <2>5 DEF Kept
<1> QED BY <1>1, <1>6, <1>7 DEF GetQueue

LEMMA QuietKeeps ==
  ASSUME MapsInv, Kept, Quiet, UNCHANGED obliterated
  PROVE  Kept'
<1>1. EventsAlone' /\ StraysExplained'
  BY DEF Quiet, mapVars, statusVars, Kept, EventsAlone, StraysExplained, Stray, Excused, Built
<1>2. ASSUME NEW d \in Callers
      PROVE  \/ frame'[d] = frame[d]
             \/ frame'[d].at \notin EndingStages
             \/ /\ frame[d].at = "obliterating" /\ frame'[d].at = "obliterated"
                /\ frame'[d].queue = frame[d].queue /\ frame'[d].on = frame[d].on
  <2>1. ASSUME NEW c \in Callers, Go(c, Returned)
        PROVE  frame'[d] = frame[d] \/ frame'[d].at \notin EndingStages
    BY <2>1 DEF Go, MapsInv, CallsTyped, Returned, Frame, EndingStages
  <2>2. ASSUME NEW c \in Callers, frame[c].at = "looking", Go(c, [frame[c] EXCEPT !.at = "adding"])
        PROVE  frame'[d] = frame[d] \/ frame'[d].at \notin EndingStages
    <3>1. frame[c] \in [at : Awaiting, queue : Names, on : Nat, add : Additions \cup {None}]
      BY <2>2, FrameShape DEF MapsInv, Awaiting
    <3>2. [frame[c] EXCEPT !.at = "adding"].at = "adding"
      BY <3>1
    <3> QED BY <2>2, <3>2 DEF Go, MapsInv, CallsTyped, EndingStages
  <2>3. ASSUME NEW c \in Callers, frame[c].at = "obliterating",
               Go(c, [frame[c] EXCEPT !.at = "obliterated"])
        PROVE  \/ frame'[d] = frame[d]
               \/ /\ frame[d].at = "obliterating" /\ frame'[d].at = "obliterated"
                  /\ frame'[d].queue = frame[d].queue /\ frame'[d].on = frame[d].on
    <3>1. frame[c] \in [at : Awaiting, queue : Names, on : Nat, add : Additions \cup {None}]
      BY <2>3, FrameShape DEF MapsInv, Awaiting
    <3> DEFINE next == [frame[c] EXCEPT !.at = "obliterated"]
    <3>2. next.at = "obliterated" /\ next.queue = frame[c].queue /\ next.on = frame[c].on
      BY <3>1
    <3> HIDE DEF next
    <3>3. Go(c, next)
      BY <2>3 DEF next
    <3> QED BY <2>3, <3>2, <3>3 DEF Go, MapsInv, CallsTyped
  <2> QED BY <2>1, <2>2, <2>3 DEF Quiet
<1>3. EndsItsOwn'
  BY <1>2 DEF Kept, EndsItsOwn, Quiet, mapVars, EndingStages
<1>4. HasClosed'
  BY <1>2 DEF Kept, HasClosed, Quiet, statusVars, EndingStages
<1> QED BY <1>1, <1>3, <1>4 DEF Kept

\* closeQueue(), all but the Queue: what happens to the events of the name.
LEMMA CloseEventsKeeps ==
  ASSUME MapsInv, NEW c \in Callers, NEW q \in Names, CloseEvents(c, q),
         UNCHANGED <<queueEvents, built>>
  PROVE  /\ \A n \in 1 .. MaxBuilt : eventsStatus'[n] = "open" => eventsStatus[n] = "open"
         /\ queueEvents[q] # 0 => eventsStatus'[queueEvents[q]] # "open"
         /\ \A d \in Callers \ {c} : frame'[d] = frame[d]
         /\ \/ frame'[c].at \notin EndingStages
            \/ /\ frame'[c].at = "closingEvents" /\ frame'[c].queue = q
               /\ frame'[c].on = queueEvents[q] /\ queueEvents[q] # 0
<1>1. \A d \in Callers \ {c} : frame'[d] = frame[d]
  BY DEF CloseEvents, Go, MapsInv, CallsTyped
<1>2. CASE queueEvents[q] = 0
  <2>1. frame'[c] = Returned /\ UNCHANGED eventsStatus
    BY <1>2 DEF CloseEvents, Go, MapsInv, CallsTyped
  <2> QED BY <1>1, <1>2, <2>1 DEF Returned, Frame, EndingStages
<1>3. CASE queueEvents[q] # 0
  <2>1. /\ frame'[c] = Frame("closingEvents", q, queueEvents[q], None)
        /\ eventsStatus' = Closing(eventsStatus, queueEvents[q])
    BY <1>3 DEF CloseEvents, Go, MapsInv, CallsTyped
  <2>2. queueEvents[q] \in 1 .. MaxBuilt /\ eventsStatus \in [1 .. MaxBuilt -> Statuses]
    BY <1>3, BuiltBounded DEF MapsInv, MapsFit, MapsTyped
  <2>3. /\ \A n \in 1 .. MaxBuilt : eventsStatus'[n] = "open" => eventsStatus[n] = "open"
        /\ eventsStatus'[queueEvents[q]] # "open"
    BY <2>1, <2>2 DEF Closing
  <2> QED BY <1>1, <1>3, <2>1, <2>3 DEF Frame
<1> QED BY <1>2, <1>3

LEMMA CloseQueueKeeps ==
  ASSUME MapsInv, Kept, NEW c \in Callers, NEW q \in Names, CloseQueue(c, q)
  PROVE  Kept'
<1>1. UNCHANGED <<queues, queueEvents, built, obliterated>> /\ Built' = Built
  BY DEF CloseQueue, mapVars, Built
<1>2. CASE queues[q] # 0
  <2>1. /\ frame'[c] = Frame("closingQueue", q, queues[q], None)
        /\ \A d \in Callers \ {c} : frame'[d] = frame[d]
        /\ queueStatus' = Closing(queueStatus, queues[q]) /\ UNCHANGED eventsStatus
    BY <1>2 DEF CloseQueue, Go, MapsInv, CallsTyped
  <2>2. /\ queues[q] \in 1 .. MaxBuilt /\ queueStatus \in [1 .. MaxBuilt -> Statuses]
        /\ queueEvents[q] \in {0, queues[q]}
    BY <1>2, BuiltBounded DEF MapsInv, MapsFit, MapsTyped
  <2>3. /\ \A n \in 1 .. MaxBuilt : queueStatus'[n] = "open" => queueStatus[n] = "open"
        /\ queueStatus'[queues[q]] # "open"
    BY <2>1, <2>2 DEF Closing
  <2>4. /\ frame'[c].at = "closingQueue" /\ frame'[c].queue = q /\ frame'[c].on = queues[q]
    BY <2>1 DEF Frame
  <2>5. EndsItsOwn'
    BY <1>1, <2>1, <2>2, <2>4 DEF Kept, EndsItsOwn
  <2>6. HasClosed'
    <3> SUFFICES ASSUME NEW d \in Callers
                 PROVE  /\ frame'[d].at = "closingQueue" => queueStatus'[frame'[d].on] # "open"
                        /\ frame'[d].at = "closingEvents" => eventsStatus'[frame'[d].on] # "open"
      BY DEF HasClosed
    <3>1. CASE d = c
      BY <2>3, <2>4, <3>1
    <3>2. CASE d # c /\ frame[d].at = "closingQueue"
      <4>1. frame[d].on \in 1 .. MaxBuilt
        BY <3>2, BuiltBounded DEF MapsInv, FramesFit, Awaiting
      <4> QED BY <2>1, <2>3, <3>2, <4>1 DEF Kept, HasClosed
    <3>3. CASE d # c /\ frame[d].at # "closingQueue"
      BY <2>1, <3>3 DEF Kept, HasClosed
    <3> QED BY <3>1, <3>2, <3>3
  <2>7. EventsAlone'
    BY <1>1, <2>1 DEF Kept, EventsAlone, Excused
  <2>8. StraysExplained'
    BY <1>1, <2>1, <2>3, BuiltBounded DEF Kept, StraysExplained, Stray, MapsInv
  <2> QED BY <2>5, <2>6, <2>7, <2>8 DEF Kept
<1>3. CASE queues[q] = 0
  <2>1. CloseEvents(c, q) /\ UNCHANGED queueStatus
    BY <1>3 DEF CloseQueue
  <2>2. /\ \A n \in 1 .. MaxBuilt : eventsStatus'[n] = "open" => eventsStatus[n] = "open"
        /\ queueEvents[q] # 0 => eventsStatus'[queueEvents[q]] # "open"
        /\ \A d \in Callers \ {c} : frame'[d] = frame[d]
        /\ \/ frame'[c].at \notin EndingStages
           \/ /\ frame'[c].at = "closingEvents" /\ frame'[c].queue = q
              /\ frame'[c].on = queueEvents[q] /\ queueEvents[q] # 0
    BY <1>1, <1>3, <2>1, CloseEventsKeeps
  <2>3. EndsItsOwn'
    BY <1>1, <1>3, <2>2 DEF Kept, EndsItsOwn
  <2>4. HasClosed'
    <3> SUFFICES ASSUME NEW d \in Callers
                 PROVE  /\ frame'[d].at = "closingQueue" => queueStatus'[frame'[d].on] # "open"
                        /\ frame'[d].at = "closingEvents" => eventsStatus'[frame'[d].on] # "open"
      BY DEF HasClosed
    <3>1. CASE d = c
      BY <2>2, <3>1 DEF EndingStages
    <3>2. CASE d # c /\ frame[d].at = "closingEvents"
      <4>1. frame[d].on \in 1 .. MaxBuilt
        BY <3>2, BuiltBounded DEF MapsInv, FramesFit, Awaiting
      <4> QED BY <2>1, <2>2, <3>2, <4>1 DEF Kept, HasClosed
    <3>3. CASE d # c /\ frame[d].at # "closingEvents"
      BY <2>1, <2>2, <3>3 DEF Kept, HasClosed
    <3> QED BY <3>1, <3>2, <3>3
  <2>5. EventsAlone'
    <3>1. \A other \in Names : queueEvents[other] # 0 => queueEvents[other] \in 1 .. MaxBuilt
      BY BuiltBounded DEF MapsInv, MapsFit
    <3> QED BY <1>1, <2>2, <3>1 DEF Kept, EventsAlone, Excused
  <2>6. StraysExplained'
    BY <1>1, <2>1, <2>2, BuiltBounded DEF Kept, StraysExplained, Stray, MapsInv
  <2> QED BY <2>3, <2>4, <2>5, <2>6 DEF Kept
<1> QED BY <1>2, <1>3

LEMMA ForgetsKeeps ==
  ASSUME MapsInv, Kept, NEW c \in Callers, Forgets(c)
  PROVE  Kept'
<1> DEFINE q == frame[c].queue
<1>1. /\ q \in Names /\ frame[c].on \in Built /\ frame[c].at = "obliterated"
  BY FrameShape DEF Forgets, MapsInv, FramesFit, Awaiting
<1>2. /\ queues' = [queues EXCEPT ![q] = 0] /\ obliterated' = obliterated \cup {frame[c].on}
      /\ UNCHANGED <<queueEvents, built, queueStatus, eventsStatus>> /\ Built' = Built
      /\ frame'[c] = Returned /\ \A d \in Callers \ {c} : frame'[d] = frame[d]
  BY DEF Forgets, statusVars, Go, MapsInv, CallsTyped, Built
<1>3. \A n \in {queues[q], queueEvents[q]} : n \in {0, frame[c].on} \/ built[n].meanwhile
  BY <1>1 DEF Kept, EndsItsOwn, EndingStages
<1> HIDE DEF q
<1>4. Returned.at \notin EndingStages
  BY DEF Returned, Frame, EndingStages
<1>5. queues'[q] = 0 /\ \A other \in Names \ {q} : queues'[other] = queues[other]
  BY <1>1, <1>2 DEF MapsInv, MapsTyped
<1>6. EndsItsOwn'
  <2> SUFFICES ASSUME NEW d \in Callers, frame'[d].at \in EndingStages
               PROVE  \A n \in {queues'[frame'[d].queue], queueEvents'[frame'[d].queue]} :
                        n \in {0, frame'[d].on} \/ built'[n].meanwhile
    BY DEF EndsItsOwn
  <2>1. frame'[d] = frame[d] /\ frame[d].queue \in Names
    BY <1>2, <1>4, FrameShape DEF MapsInv, EndingStages, Awaiting
  <2>2. \A n \in {queues[frame[d].queue], queueEvents[frame[d].queue]} :
           n \in {0, frame[d].on} \/ built[n].meanwhile
    BY <2>1 DEF Kept, EndsItsOwn
  <2> QED BY <1>2, <1>5, <2>1, <2>2
<1>7. HasClosed'
  BY <1>2, <1>4 DEF Kept, HasClosed, EndingStages
<1>8. EventsAlone'
  <2> SUFFICES ASSUME NEW other \in Names, queues'[other] = 0, queueEvents[other] # 0
               PROVE  \/ eventsStatus[queueEvents[other]] # "open"
                      \/ built[queueEvents[other]].meanwhile
                      \/ queueEvents[other] \in obliterated'
    BY <1>2 DEF EventsAlone, Excused
  <2>1. CASE other = q
    BY <1>2, <1>3, <2>1
  <2>2. CASE other # q
    BY <1>2, <1>5, <2>2 DEF Kept, EventsAlone, Excused
  <2> QED BY <2>1, <2>2
<1>9. StraysExplained'
  <2> SUFFICES ASSUME NEW m \in Built,
                      \/ queueStatus[m] = "open" /\ queues'[built[m].queue] # m
                      \/ eventsStatus[m] = "open" /\ queueEvents[built[m].queue] # m
               PROVE  built[m].meanwhile \/ m \in obliterated'
    BY <1>2 DEF StraysExplained, Stray
  <2>1. built[m].queue \in Names /\ m # 0
    <3>1. built[m] \in [queue : Names, meanwhile : BOOLEAN]
      BY ElementOfSeq DEF MapsInv, MapsTyped, Built
    <3> QED BY <3>1 DEF MapsInv, MapsTyped, Built
  <2>2. CASE Stray(m)
    BY <1>2, <2>2 DEF Kept, StraysExplained
  <2>3. CASE ~ Stray(m)
    <3>1. built[m].queue = q /\ queues[q] = m
      BY <1>5, <2>1, <2>3 DEF Stray
    <3> QED BY <1>2, <1>3, <2>1, <3>1
  <2> QED BY <2>2, <2>3
<1> QED BY <1>6, <1>7, <1>8, <1>9 DEF Kept

LEMMA QueueClosedKeeps ==
  ASSUME MapsInv, Kept, NEW c \in Callers, QueueClosed(c)
  PROVE  Kept'
<1> DEFINE q == frame[c].queue
           on == frame[c].on
<1>1. /\ q \in Names /\ on \in Built /\ frame[c].at = "closingQueue"
  BY FrameShape DEF QueueClosed, MapsInv, FramesFit, Awaiting
<1>2. /\ queues' = [queues EXCEPT ![q] = 0]
      /\ queueStatus' = [queueStatus EXCEPT ![on] = "closed"]
      /\ CloseEvents(c, q)
      /\ UNCHANGED <<queueEvents, built, obliterated>> /\ Built' = Built
  BY DEF QueueClosed, Built
<1>3. \A n \in {queues[q], queueEvents[q]} : n \in {0, on} \/ built[n].meanwhile
  BY <1>1 DEF Kept, EndsItsOwn, EndingStages
<1>4. on \in 1 .. MaxBuilt
  BY <1>1, BuiltBounded DEF MapsInv
<1> HIDE DEF q, on
<1>5. /\ queueStatus'[on] = "closed"
      /\ \A n \in 1 .. MaxBuilt : queueStatus'[n] = "open" => queueStatus[n] = "open"
  BY <1>2, <1>4 DEF MapsInv, MapsTyped
<1>6. queues'[q] = 0 /\ \A other \in Names \ {q} : queues'[other] = queues[other]
  BY <1>1, <1>2 DEF MapsInv, MapsTyped
<1>7. /\ \A n \in 1 .. MaxBuilt : eventsStatus'[n] = "open" => eventsStatus[n] = "open"
      /\ queueEvents[q] # 0 => eventsStatus'[queueEvents[q]] # "open"
      /\ \A d \in Callers \ {c} : frame'[d] = frame[d]
      /\ \/ frame'[c].at \notin EndingStages
         \/ /\ frame'[c].at = "closingEvents" /\ frame'[c].queue = q
            /\ frame'[c].on = queueEvents[q] /\ queueEvents[q] # 0
  BY <1>1, <1>2, CloseEventsKeeps
<1>8. EndsItsOwn'
  <2> SUFFICES ASSUME NEW d \in Callers, frame'[d].at \in EndingStages
               PROVE  \A n \in {queues'[frame'[d].queue], queueEvents[frame'[d].queue]} :
                        n \in {0, frame'[d].on} \/ built[n].meanwhile
    BY <1>2 DEF EndsItsOwn
  <2>1. CASE d = c
    BY <1>6, <1>7, <2>1
  <2>2. CASE d # c
    <3>1. frame'[d] = frame[d] /\ frame[d].queue \in Names
      BY <1>7, <2>2, FrameShape DEF MapsInv, EndingStages, Awaiting
    <3>2. \A n \in {queues[frame[d].queue], queueEvents[frame[d].queue]} :
             n \in {0, frame[d].on} \/ built[n].meanwhile
      BY <3>1 DEF Kept, EndsItsOwn
    <3> QED BY <1>6, <3>1, <3>2
  <2> QED BY <2>1, <2>2
<1>9. HasClosed'
  <2> SUFFICES ASSUME NEW d \in Callers
               PROVE  /\ frame'[d].at = "closingQueue" => queueStatus'[frame'[d].on] # "open"
                      /\ frame'[d].at = "closingEvents" => eventsStatus'[frame'[d].on] # "open"
    BY DEF HasClosed
  <2>1. CASE d = c
    BY <1>7, <2>1 DEF EndingStages
  <2>2. CASE d # c /\ frame[d].at \in {"closingQueue", "closingEvents"}
    <3>1. frame[d].on \in 1 .. MaxBuilt
      BY <2>2, BuiltBounded DEF MapsInv, FramesFit, Awaiting
    <3> QED BY <1>5, <1>7, <2>2, <3>1 DEF Kept, HasClosed
  <2>3. CASE d # c /\ frame[d].at \notin {"closingQueue", "closingEvents"}
    BY <1>7, <2>3
  <2> QED BY <2>1, <2>2, <2>3
<1>10. EventsAlone'
  <2> SUFFICES ASSUME NEW other \in Names, queues'[other] = 0, queueEvents[other] # 0
               PROVE  eventsStatus'[queueEvents[other]] # "open" \/ Excused(queueEvents[other])
    BY <1>2 DEF EventsAlone, Excused
  <2>1. queueEvents[other] \in 1 .. MaxBuilt
    BY BuiltBounded DEF MapsInv, MapsFit
  <2> QED BY <1>6, <1>7, <2>1 DEF Kept, EventsAlone
<1>11. StraysExplained'
  <2> SUFFICES ASSUME NEW m \in Built,
                      \/ queueStatus'[m] = "open" /\ queues'[built[m].queue] # m
                      \/ eventsStatus'[m] = "open" /\ queueEvents[built[m].queue] # m
               PROVE  built[m].meanwhile \/ m \in obliterated
    BY <1>2 DEF StraysExplained, Stray
  <2>1. built[m].queue \in Names /\ m \in 1 .. MaxBuilt /\ m # 0
    <3>1. built[m] \in [queue : Names, meanwhile : BOOLEAN]
      BY ElementOfSeq DEF MapsInv, MapsTyped, Built
    <3> QED BY <3>1, BuiltBounded DEF MapsInv
  <2>2. CASE Stray(m)
    BY <2>2 DEF Kept, StraysExplained
  <2>3. CASE ~ Stray(m)
    <3>1. queueStatus'[m] = "open" /\ built[m].queue = q /\ queues[q] = m
      BY <1>5, <1>6, <1>7, <2>1, <2>3 DEF Stray
    <3> QED BY <1>3, <1>5, <2>1, <3>1
  <2> QED BY <2>2, <2>3
<1> QED BY <1>8, <1>9, <1>10, <1>11 DEF Kept

LEMMA EventsClosedKeeps ==
  ASSUME MapsInv, Kept, NEW c \in Callers, EventsClosed(c)
  PROVE  Kept'
<1> DEFINE q == frame[c].queue
           on == frame[c].on
<1>1. /\ q \in Names /\ on \in Built /\ frame[c].at = "closingEvents"
  BY FrameShape DEF EventsClosed, MapsInv, FramesFit, Awaiting
<1>2. /\ queueEvents' = [queueEvents EXCEPT ![q] = 0]
      /\ eventsStatus' = [eventsStatus EXCEPT ![on] = "closed"]
      /\ UNCHANGED <<queues, built, queueStatus, obliterated>> /\ Built' = Built
      /\ frame'[c] = Returned /\ \A d \in Callers \ {c} : frame'[d] = frame[d]
  BY DEF EventsClosed, Go, MapsInv, CallsTyped, Built
<1>3. \A n \in {queues[q], queueEvents[q]} : n \in {0, on} \/ built[n].meanwhile
  BY <1>1 DEF Kept, EndsItsOwn, EndingStages
<1>4. on \in 1 .. MaxBuilt
  BY <1>1, BuiltBounded DEF MapsInv
<1> HIDE DEF q, on
<1>5. /\ eventsStatus'[on] = "closed"
      /\ \A n \in 1 .. MaxBuilt : eventsStatus'[n] = "open" => eventsStatus[n] = "open"
  BY <1>2, <1>4 DEF MapsInv, MapsTyped
<1>6. queueEvents'[q] = 0 /\ \A other \in Names \ {q} : queueEvents'[other] = queueEvents[other]
  BY <1>1, <1>2 DEF MapsInv, MapsTyped
<1>7. Returned.at \notin EndingStages
  BY DEF Returned, Frame, EndingStages
<1>8. EndsItsOwn'
  <2> SUFFICES ASSUME NEW d \in Callers, frame'[d].at \in EndingStages
               PROVE  \A n \in {queues[frame'[d].queue], queueEvents'[frame'[d].queue]} :
                        n \in {0, frame'[d].on} \/ built[n].meanwhile
    BY <1>2 DEF EndsItsOwn
  <2>1. frame'[d] = frame[d] /\ frame[d].queue \in Names
    BY <1>2, <1>7, FrameShape DEF MapsInv, EndingStages, Awaiting
  <2>2. \A n \in {queues[frame[d].queue], queueEvents[frame[d].queue]} :
           n \in {0, frame[d].on} \/ built[n].meanwhile
    BY <2>1 DEF Kept, EndsItsOwn
  <2> QED BY <1>6, <2>1, <2>2
<1>9. HasClosed'
  <2> SUFFICES ASSUME NEW d \in Callers, frame'[d].at \in {"closingQueue", "closingEvents"}
               PROVE  /\ frame'[d].at = "closingQueue" => queueStatus'[frame'[d].on] # "open"
                      /\ frame'[d].at = "closingEvents" => eventsStatus'[frame'[d].on] # "open"
    BY DEF HasClosed
  <2>1. frame'[d] = frame[d]
    BY <1>2, <1>7 DEF EndingStages
  <2>2. frame[d].on \in 1 .. MaxBuilt
    BY <2>1, BuiltBounded DEF MapsInv, FramesFit, Awaiting
  <2> QED BY <1>2, <1>5, <2>1, <2>2 DEF Kept, HasClosed
<1>10. EventsAlone'
  <2> SUFFICES ASSUME NEW other \in Names, queues[other] = 0, queueEvents'[other] # 0
               PROVE  eventsStatus'[queueEvents[other]] # "open" \/ Excused(queueEvents[other])
    BY <1>2, <1>6 DEF EventsAlone, Excused
  <2>1. other # q /\ queueEvents[other] # 0
    BY <1>6
  <2>2. queueEvents[other] \in 1 .. MaxBuilt
    BY <2>1, BuiltBounded DEF MapsInv, MapsFit
  <2> QED BY <1>5, <2>1, <2>2 DEF Kept, EventsAlone
<1>11. StraysExplained'
  <2> SUFFICES ASSUME NEW m \in Built,
                      \/ queueStatus[m] = "open" /\ queues[built[m].queue] # m
                      \/ eventsStatus'[m] = "open" /\ queueEvents'[built[m].queue] # m
               PROVE  built[m].meanwhile \/ m \in obliterated
    BY <1>2 DEF StraysExplained, Stray
  <2>1. built[m].queue \in Names /\ m \in 1 .. MaxBuilt /\ m # 0
    <3>1. built[m] \in [queue : Names, meanwhile : BOOLEAN]
      BY ElementOfSeq DEF MapsInv, MapsTyped, Built
    <3> QED BY <3>1, BuiltBounded DEF MapsInv
  <2>2. CASE Stray(m)
    BY <2>2 DEF Kept, StraysExplained
  <2>3. CASE ~ Stray(m)
    <3>1. eventsStatus'[m] = "open" /\ built[m].queue = q /\ queueEvents[q] = m
      BY <1>5, <1>6, <2>1, <2>3 DEF Stray
    <3> QED BY <1>3, <1>5, <2>1, <3>1
  <2> QED BY <2>2, <2>3
<1> QED BY <1>8, <1>9, <1>10, <1>11 DEF Kept

LEMMA CloseRejectedKeeps ==
  ASSUME MapsInv, Kept, NEW c \in Callers, CloseRejected(c)
  PROVE  Kept'
<1>1. frame[c].on \in 1 .. MaxBuilt
  BY BuiltBounded DEF CloseRejected, MapsInv, FramesFit, Awaiting
<1>2. /\ UNCHANGED <<queues, queueEvents, built, obliterated>> /\ Built' = Built
      /\ queueStatus' \in {queueStatus, [queueStatus EXCEPT ![frame[c].on] = "broken"]}
      /\ eventsStatus' \in {eventsStatus, [eventsStatus EXCEPT ![frame[c].on] = "broken"]}
      /\ frame'[c] = Returned /\ \A d \in Callers \ {c} : frame'[d] = frame[d]
  BY DEF CloseRejected, mapVars, Go, MapsInv, CallsTyped, Built
<1>3. /\ \A n \in 1 .. MaxBuilt : queueStatus'[n] = "open" => queueStatus[n] = "open"
      /\ \A n \in 1 .. MaxBuilt : eventsStatus'[n] = "open" => eventsStatus[n] = "open"
  BY <1>1, <1>2 DEF MapsInv, MapsTyped
<1>4. Returned.at \notin EndingStages
  BY DEF Returned, Frame, EndingStages
<1>5. EndsItsOwn'
  BY <1>2, <1>4 DEF Kept, EndsItsOwn
<1>6. HasClosed'
  <2> SUFFICES ASSUME NEW d \in Callers, frame'[d].at \in {"closingQueue", "closingEvents"}
               PROVE  /\ frame'[d].at = "closingQueue" => queueStatus'[frame'[d].on] # "open"
                      /\ frame'[d].at = "closingEvents" => eventsStatus'[frame'[d].on] # "open"
    BY DEF HasClosed
  <2>1. frame'[d] = frame[d]
    BY <1>2, <1>4 DEF EndingStages
  <2>2. frame[d].on \in 1 .. MaxBuilt
    BY <2>1, BuiltBounded DEF MapsInv, FramesFit, Awaiting
  <2> QED BY <1>3, <2>1, <2>2 DEF Kept, HasClosed
<1>7. EventsAlone'
  <2>1. \A other \in Names : queueEvents[other] # 0 => queueEvents[other] \in 1 .. MaxBuilt
    BY BuiltBounded DEF MapsInv, MapsFit
  <2> QED BY <1>2, <1>3, <2>1 DEF Kept, EventsAlone, Excused
<1>8. StraysExplained'
  BY <1>2, <1>3, BuiltBounded DEF Kept, StraysExplained, Stray, MapsInv
<1> QED BY <1>5, <1>6, <1>7, <1>8 DEF Kept

LEMMA KeptStep ==
  ASSUME MapsInv, Kept, stored \in Nat, [Next]_vars
  PROVE  Kept'
<1>1. CASE Sends
  BY <1>1, SendKeeps DEF Sends
<1>2. CASE Quiet /\ UNCHANGED obliterated
  BY <1>2, QuietKeeps
<1>3. CASE UNCHANGED vars
  BY <1>3, QuietKeeps DEF vars, Quiet
<1> QED BY <1>1, <1>2, <1>3, NextSplit, ReplyIsQuiet, WorksIsQuiet, CloseQueueKeeps, ForgetsKeeps,
           QueueClosedKeeps, EventsClosedKeeps, CloseRejectedKeeps
-----------------------------------------------------------------------------

(***************************************************************************)
(* A job that was looked up and not found is new when it is added.         *)
(***************************************************************************)
JobsKept == JobsTyped /\ Numbered /\ NotFoundThen /\ AddedOnce

\* Jobs are taken out or change their status, and no call begins to add one.
LEMMA JobsShrink ==
  ASSUME MapsInv, JobsKept, UNCHANGED <<stored, answer>>, DOMAIN jobs' = Names,
         \A q \in Names : /\ DOMAIN jobs'[q] \subseteq DOMAIN jobs[q]
                         /\ \A id \in DOMAIN jobs'[q] : jobs'[q][id].number = jobs[q][id].number,
         \A d \in Callers : frame'[d] = frame[d] \/ frame'[d].at \notin {"looking", "adding"}
  PROVE  JobsKept'
<1>1. JobsTyped' /\ AddedOnce'
  BY DEF JobsKept, JobsTyped, AddedOnce
<1>2. Numbered'
  BY DEF JobsKept, Numbered
<1>3. NotFoundThen'
  <2> SUFFICES ASSUME NEW d \in Callers, frame'[d].at \in {"looking", "adding"}
               PROVE  /\ frame'[d].add.began <= stored'
                      /\ frame'[d].at = "adding" /\ frame'[d].add.byData /\ frame'[d].add.id = None =>
                           (GenerateJobId(frame'[d].add.job) \in DOMAIN jobs'[frame'[d].queue] =>
                             jobs'[frame'[d].queue][GenerateJobId(frame'[d].add.job)].number
                               > frame'[d].add.began)
    BY DEF NotFoundThen
  <2>1. frame'[d] = frame[d] /\ frame[d].queue \in Names
    BY FrameShape DEF MapsInv, Awaiting
  <2> QED BY <2>1 DEF JobsKept, NotFoundThen
<1> QED BY <1>1, <1>2, <1>3 DEF JobsKept

\* A call that returns, or goes on to anything but adding a job.
LEMMA Leaves ==
  ASSUME MapsInv, NEW c \in Callers, NEW next, Go(c, next), next.at \notin {"looking", "adding"}
  PROVE  \A d \in Callers : frame'[d] = frame[d] \/ frame'[d].at \notin {"looking", "adding"}
BY DEF Go, MapsInv, CallsTyped

LEMMA RemovesShrinks ==
  ASSUME JobsTyped, NEW q \in Names, NEW ids, Removes(q, ids)
  PROVE  /\ UNCHANGED <<stored, answer>> /\ DOMAIN jobs' = Names
         /\ \A r \in Names : /\ DOMAIN jobs'[r] \subseteq DOMAIN jobs[r]
                            /\ \A id \in DOMAIN jobs'[r] : jobs'[r][id].number = jobs[r][id].number
BY DEF JobsTyped, Removes, Restrict

LEMMA RemovalKeepsJobs ==
  ASSUME MapsInv, JobsKept, NEW c \in Callers, Cleans(c) \/ Drains(c) \/ Obliterates(c)
  PROVE  JobsKept'
<1>1. frame[c].queue \in Names
  BY FrameShape DEF Cleans, Drains, Obliterates, Replies, MapsInv, Awaiting
<1>2. PICK ids : Removes(frame[c].queue, ids)
  BY DEF Cleans, Drains, Obliterates
<1>3. PICK next : Go(c, next) /\ next.at \notin {"looking", "adding"}
  <2>1. CASE Cleans(c) \/ Drains(c)
    BY <2>1, AtEnds DEF Cleans, Drains
  <2>2. CASE Obliterates(c)
    <3>1. frame[c] \in [at : Awaiting, queue : Names, on : Nat, add : Additions \cup {None}]
      BY <2>2, FrameShape DEF Obliterates, Replies, MapsInv, Awaiting
    <3> DEFINE next == [frame[c] EXCEPT !.at = "obliterated"]
    <3>2. next.at = "obliterated"
      BY <3>1
    <3>3. Go(c, next)
      BY <2>2 DEF Obliterates
    <3> HIDE DEF next
    <3> QED BY <3>2, <3>3
  <2> QED BY <2>1, <2>2
<1> QED BY <1>1, <1>2, <1>3, RemovesShrinks, Leaves, JobsShrink DEF JobsKept

LEMMA WorksKeepsJobs ==
  ASSUME MapsInv, JobsKept, NEW q \in Names, NEW id \in DOMAIN jobs[q], Works(q, id)
  PROVE  JobsKept'
<1>1. PICK status : jobs' = [jobs EXCEPT ![q][id].status = status]
  BY DEF Works
<1>2. /\ DOMAIN jobs' = Names
      /\ \A r \in Names : /\ DOMAIN jobs'[r] = DOMAIN jobs[r]
                         /\ \A i \in DOMAIN jobs[r] : jobs'[r][i].number = jobs[r][i].number
  BY <1>1 DEF JobsKept, JobsTyped, Numbered
<1> QED BY <1>2, JobsShrink DEF Works

LEMMA AloneKeepsJobs ==
  ASSUME MapsInv, JobsKept, UNCHANGED <<redisVars, answer>>,
         \A d \in Callers : frame'[d] = frame[d] \/ frame'[d].at \notin {"looking", "adding"}
  PROVE  JobsKept'
BY JobsShrink DEF redisVars, JobsKept, JobsTyped

LEMMA CloseEventsLeaves ==
  ASSUME MapsInv, NEW c \in Callers, NEW q \in Names, CloseEvents(c, q)
  PROVE  \A d \in Callers : frame'[d] = frame[d] \/ frame'[d].at \notin {"looking", "adding"}
<1>1. PICK next : Go(c, next) /\ next.at \notin {"looking", "adding"}
  <2>1. Frame("closingEvents", q, queueEvents[q], None).at = "closingEvents"
    BY DEF Frame
  <2> QED BY <2>1, AtEnds DEF CloseEvents
<1> QED BY <1>1, Leaves

LEMMA OthersKeepJobs ==
  ASSUME MapsInv, JobsKept, NEW c \in Callers,
         \/ \E q \in Names : CloseQueue(c, q)
         \/ CommandReplies(c) \/ Rejected(c) \/ Forgets(c)
         \/ QueueClosed(c) \/ EventsClosed(c) \/ CloseRejected(c)
  PROVE  JobsKept'
<1>1. UNCHANGED <<redisVars, answer>>
  BY DEF CloseQueue, CommandReplies, Rejected, Forgets, QueueClosed, EventsClosed, CloseRejected
<1>2. ASSUME NEW q \in Names, CloseQueue(c, q)
      PROVE  \A d \in Callers : frame'[d] = frame[d] \/ frame'[d].at \notin {"looking", "adding"}
  <2>1. CASE queues[q] # 0
    <3>1. /\ Go(c, Frame("closingQueue", q, queues[q], None))
          /\ Frame("closingQueue", q, queues[q], None).at = "closingQueue"
      BY <1>2, <2>1 DEF CloseQueue, Frame
    <3> QED BY <3>1, Leaves
  <2>2. CASE queues[q] = 0
    BY <1>2, <2>2, CloseEventsLeaves DEF CloseQueue
  <2> QED BY <2>1, <2>2
<1>3. ASSUME QueueClosed(c)
      PROVE  \A d \in Callers : frame'[d] = frame[d] \/ frame'[d].at \notin {"looking", "adding"}
  <2>1. frame[c].queue \in Names
    BY <1>3, FrameShape DEF QueueClosed, MapsInv, Awaiting
  <2> QED BY <1>3, <2>1, CloseEventsLeaves DEF QueueClosed
<1>4. ASSUME CommandReplies(c) \/ Rejected(c) \/ Forgets(c) \/ EventsClosed(c) \/ CloseRejected(c)
      PROVE  \A d \in Callers : frame'[d] = frame[d] \/ frame'[d].at \notin {"looking", "adding"}
  <2>1. Go(c, Returned)
    BY <1>4 DEF CommandReplies, Rejected, Forgets, EventsClosed, CloseRejected
  <2> QED BY <2>1, AtEnds, Leaves
<1> QED BY <1>1, <1>2, <1>3, <1>4, AloneKeepsJobs

LEMMA SendKeepsJobs ==
  ASSUME MapsInv, JobsKept, NEW c \in Callers, NEW q \in Names, NEW at \in SendStages,
         NEW add \in Additions \cup {None}, Send(c, q, at, add), UNCHANGED answer,
         at \in {"looking", "adding"} => add \in Additions /\ add.began = stored,
         at = "adding" => ~ add.byData
  PROVE  JobsKept'
<1>1. PICK n \in 1 .. MaxBuilt : Go(c, Frame(at, q, n, add)) /\ UNCHANGED redisVars
  BY DEF Send
<1> DEFINE next == Frame(at, q, n, add)
<1>2. next.at = at /\ next.add = add
  BY DEF Frame
<1>3. frame'[c] = next /\ \A d \in Callers \ {c} : frame'[d] = frame[d]
  BY <1>1 DEF Go, MapsInv, CallsTyped
<1> HIDE DEF next
<1>4. JobsTyped' /\ AddedOnce' /\ Numbered'
  BY <1>1 DEF JobsKept, JobsTyped, AddedOnce, Numbered, redisVars
<1>5. NotFoundThen'
  <2> SUFFICES ASSUME NEW d \in Callers
               PROVE  /\ frame'[d].at \in {"looking", "adding"} => frame'[d].add.began <= stored
                      /\ frame'[d].at = "adding" /\ frame'[d].add.byData /\ frame'[d].add.id = None =>
                           (GenerateJobId(frame'[d].add.job) \in DOMAIN jobs[frame'[d].queue] =>
                             jobs[frame'[d].queue][GenerateJobId(frame'[d].add.job)].number
                               > frame'[d].add.began)
    BY <1>1 DEF NotFoundThen, redisVars
  <2>1. CASE d = c
    BY <1>2, <1>3, <2>1 DEF JobsKept, JobsTyped
  <2>2. CASE d # c
    BY <1>3, <2>2 DEF JobsKept, NotFoundThen
  <2> QED BY <2>1, <2>2
<1> QED BY <1>4, <1>5 DEF JobsKept

LEMMA LooksKeepsJobs ==
  ASSUME MapsInv, JobsKept, NEW c \in Callers, Looks(c)
  PROVE  JobsKept'
<1> DEFINE q == frame[c].queue
           add == frame[c].add
           id == GenerateJobId(add.job)
<1>1. /\ frame[c].at = "looking" /\ q \in Names /\ add \in Additions
      /\ frame[c] \in [at : Awaiting, queue : Names, on : Nat, add : Additions \cup {None}]
  BY FrameShape DEF Looks, Replies, MapsInv, CallsTyped, Awaiting
<1>2. UNCHANGED redisVars
  BY DEF Looks
<1>3. CASE id \in DOMAIN jobs[q]
  <2> DEFINE new == [skipped |-> TRUE, asked |-> add.job, id |-> add.id,
                     began |-> add.began, got |-> jobs[q][id]]
  <2>1. answer' = [answer EXCEPT ![c] = new] /\ Go(c, Returned)
    BY <1>3 DEF Looks, Return
  <2>2. new.skipped
    OBVIOUS
  <2> HIDE DEF new
  <2>3. \A d \in Callers : answer'[d] = IF d = c THEN new ELSE answer[d]
    BY <2>1 DEF MapsInv, CallsTyped
  <2>4. AddedOnce'
    BY <2>2, <2>3 DEF JobsKept, AddedOnce
  <2>5. JobsTyped' /\ Numbered'
    BY <1>2 DEF JobsKept, JobsTyped, Numbered, redisVars
  <2>6. \A d \in Callers : frame'[d] = frame[d] \/ frame'[d].at \notin {"looking", "adding"}
    BY <2>1, AtEnds, Leaves
  <2>7. NotFoundThen'
    BY <1>2, <2>6 DEF JobsKept, NotFoundThen, redisVars
  <2> QED BY <2>4, <2>5, <2>7 DEF JobsKept
<1>4. CASE id \notin DOMAIN jobs[q]
  <2> DEFINE next == [frame[c] EXCEPT !.at = "adding"]
  <2>1. UNCHANGED answer /\ Go(c, next)
    BY <1>4 DEF Looks
  <2>2. next.at = "adding" /\ next.queue = q /\ next.add = add
    BY <1>1
  <2> HIDE DEF next
  <2>3. frame'[c] = next /\ \A d \in Callers \ {c} : frame'[d] = frame[d]
    BY <2>1 DEF Go, MapsInv, CallsTyped
  <2>4. JobsTyped' /\ AddedOnce' /\ Numbered'
    BY <1>2, <2>1 DEF JobsKept, JobsTyped, AddedOnce, Numbered, redisVars
  <2>5. add.began <= stored
    BY <1>1 DEF JobsKept, NotFoundThen
  <2> HIDE DEF q, add
  <2>6. NotFoundThen'
    <3> SUFFICES ASSUME NEW d \in Callers
                 PROVE  /\ frame'[d].at \in {"looking", "adding"} => frame'[d].add.began <= stored
                        /\ frame'[d].at = "adding" /\ frame'[d].add.byData /\ frame'[d].add.id = None =>
                             (GenerateJobId(frame'[d].add.job) \in DOMAIN jobs[frame'[d].queue] =>
                               jobs[frame'[d].queue][GenerateJobId(frame'[d].add.job)].number
                                 > frame'[d].add.began)
      BY <1>2 DEF NotFoundThen, redisVars
    <3>1. CASE d = c
      BY <1>4, <2>2, <2>3, <2>5, <3>1
    <3>2. CASE d # c
      BY <2>3, <3>2 DEF JobsKept, NotFoundThen
    <3> QED BY <3>1, <3>2
  <2> QED BY <2>4, <2>6 DEF JobsKept
<1> QED BY <1>3, <1>4

\* A job is stored under an id that was free.
Stores(q, id, new) ==
  /\ id \notin DOMAIN jobs[q] /\ stored' = stored + 1
  /\ DOMAIN jobs' = Names
  /\ DOMAIN jobs'[q] = DOMAIN jobs[q] \cup {id} /\ jobs'[q][id] = new
  /\ \A i \in DOMAIN jobs[q] : jobs'[q][i] = jobs[q][i]
  /\ \A r \in Names \ {q} : jobs'[r] = jobs[r]

\* What is stored gets a number of its own.
LEMMA StoresNumbered ==
  ASSUME JobsTyped, Numbered, NEW q \in Names, NEW id, NEW new, new.number = stored + 1,
         Stores(q, id, new)
  PROVE  JobsTyped' /\ Numbered'
<1>1. /\ stored' = stored + 1
      /\ DOMAIN jobs' = Names
      /\ DOMAIN jobs'[q] = DOMAIN jobs[q] \cup {id} /\ jobs'[q][id] = new
      /\ \A i \in DOMAIN jobs[q] : jobs'[q][i] = jobs[q][i]
      /\ \A r \in Names \ {q} : jobs'[r] = jobs[r]
  BY DEF Stores
<1>2. JobsTyped'
  BY <1>1 DEF JobsTyped
<1>3. Numbered'
  <2> SUFFICES ASSUME NEW r \in Names, NEW i \in DOMAIN jobs'[r]
               PROVE  /\ jobs'[r][i].number \in 1 .. stored'
                      /\ \A other \in DOMAIN jobs'[r] :
                           jobs'[r][i].number = jobs'[r][other].number => i = other
    BY DEF Numbered
  <2>1. CASE r # q
    BY <1>1, <2>1 DEF Numbered, JobsTyped
  <2>2. CASE r = q
    <3>1. \A j \in DOMAIN jobs'[q] : j = id \/ (j \in DOMAIN jobs[q] /\ jobs[q][j].number \in 1 .. stored)
      BY <1>1 DEF Numbered
    <3>2. jobs'[q][id].number = stored + 1 /\ stored' = stored + 1 /\ stored \in Nat
      BY <1>1 DEF JobsTyped
    <3>3. \A j \in DOMAIN jobs[q] : jobs'[q][j].number = jobs[q][j].number
      BY <1>1
    <3> QED BY <2>2, <3>1, <3>2, <3>3 DEF Numbered
  <2> QED BY <2>1, <2>2
<1> QED BY <1>1, <1>2, <1>3

LEMMA AddsKeepsJobs ==
  ASSUME MapsInv, JobsKept, NEW c \in Callers, Adds(c)
  PROVE  JobsKept'
<1> DEFINE q == frame[c].queue
           add == frame[c].add
           id == IF add.id = None THEN GenerateJobId(add.job) ELSE add.id
           new == [number |-> stored + 1, job |-> add.job, status |-> "waiting"]
           got == [skipped |-> FALSE, asked |-> add.job, id |-> add.id,
                   began |-> add.began, got |-> jobs'[q][id]]
<1>1. /\ frame[c].at = "adding" /\ q \in Names /\ add \in Additions
  BY FrameShape DEF Adds, Replies, MapsInv, CallsTyped, Awaiting
<1>2. /\ Go(c, Returned)
      /\ IF add.byData THEN answer' = [answer EXCEPT ![c] = got] ELSE UNCHANGED answer
  BY DEF Adds, Return
<1>3. \/ id \in DOMAIN jobs[q] /\ UNCHANGED redisVars
      \/ Stores(q, id, new)
  BY <1>1 DEF Adds, Stores, JobsKept, JobsTyped
<1>4. /\ add.began \in Nat /\ add.began <= stored /\ stored \in Nat
      /\ add.byData /\ add.id = None /\ id \in DOMAIN jobs[q] => jobs[q][id].number > add.began
  BY <1>1 DEF Additions, JobsKept, JobsTyped, NotFoundThen
<1>5. got.got = jobs'[q][id] /\ got.id = add.id /\ got.began = add.began /\ new.number = stored + 1
  OBVIOUS
<1>6. \A d \in Callers : frame'[d] = frame[d] \/ frame'[d].at \notin {"looking", "adding"}
  BY <1>2, AtEnds, Leaves
<1> HIDE DEF q, add, id, new, got
<1>7. /\ JobsTyped' /\ Numbered'
      /\ add.byData /\ add.id = None => jobs'[q][id].number > add.began
  <2>1. CASE id \in DOMAIN jobs[q] /\ UNCHANGED redisVars
    BY <1>4, <2>1 DEF JobsKept, JobsTyped, Numbered, redisVars
  <2>2. CASE Stores(q, id, new)
    <3>1. JobsTyped' /\ Numbered'
      BY <1>1, <1>5, <2>2, StoresNumbered DEF JobsKept
    <3>2. jobs'[q][id] = new
      BY <2>2 DEF Stores
    <3> QED BY <1>4, <1>5, <3>1, <3>2
  <2> QED BY <1>3, <2>1, <2>2
<1>8. AddedOnce'
  <2> SUFFICES ASSUME NEW d \in Callers, answer'[d] # None, ~ answer'[d].skipped, answer'[d].id = None
               PROVE  answer'[d].got.number > answer'[d].began
    BY DEF AddedOnce
  <2>1. CASE d = c /\ add.byData
    <3>1. answer'[d] = got
      BY <1>2, <2>1 DEF MapsInv, CallsTyped
    <3> QED BY <1>5, <1>7, <2>1, <3>1
  <2>2. CASE d # c \/ ~ add.byData
    <3>1. answer'[d] = answer[d]
      BY <1>2, <2>2 DEF MapsInv, CallsTyped
    <3> QED BY <3>1 DEF JobsKept, AddedOnce
  <2> QED BY <2>1, <2>2
<1>9. NotFoundThen'
  <2> SUFFICES ASSUME NEW d \in Callers, frame'[d].at \in {"looking", "adding"}
               PROVE  /\ frame'[d].add.began <= stored'
                      /\ frame'[d].at = "adding" /\ frame'[d].add.byData /\ frame'[d].add.id = None =>
                           (GenerateJobId(frame'[d].add.job) \in DOMAIN jobs'[frame'[d].queue] =>
                             jobs'[frame'[d].queue][GenerateJobId(frame'[d].add.job)].number
                               > frame'[d].add.began)
    BY DEF NotFoundThen
  <2>1. /\ frame'[d] = frame[d] /\ frame[d].queue \in Names /\ frame[d].add \in Additions
    BY <1>6, FrameShape DEF MapsInv, CallsTyped, Awaiting
  <2> DEFINE r == frame[d].queue
             his == GenerateJobId(frame[d].add.job)
             began == frame[d].add.began
  <2>2. /\ began \in Nat /\ began <= stored
        /\ frame[d].at = "adding" /\ frame[d].add.byData /\ frame[d].add.id = None =>
             (his \in DOMAIN jobs[r] => jobs[r][his].number > began)
    BY <2>1 DEF Additions, JobsKept, NotFoundThen
  <2> HIDE DEF r, his, began
  <2>3. CASE UNCHANGED redisVars
    BY <2>1, <2>2, <2>3 DEF redisVars, r, his, began
  <2>4. CASE Stores(q, id, new)
    <3>1. /\ stored' = stored + 1
          /\ DOMAIN jobs'[q] = DOMAIN jobs[q] \cup {id} /\ jobs'[q][id] = new
          /\ \A i \in DOMAIN jobs[q] : jobs'[q][i] = jobs[q][i]
          /\ \A other \in Names \ {q} : jobs'[other] = jobs[other]
      BY <2>4 DEF Stores
    <3>2. began <= stored'
      BY <1>4, <2>2, <3>1
    <3>3. ASSUME frame[d].at = "adding", frame[d].add.byData, frame[d].add.id = None,
                 his \in DOMAIN jobs'[r]
          PROVE  jobs'[r][his].number > began
      <4>1. CASE r = q /\ his = id /\ id \notin DOMAIN jobs[q]
        BY <1>4, <1>5, <2>2, <3>1, <4>1
      <4>2. CASE his \in DOMAIN jobs[r] /\ jobs'[r][his] = jobs[r][his]
        BY <2>2, <3>3, <4>2
      <4> QED BY <2>1, <3>1, <3>3, <4>1, <4>2 DEF r
    <3> QED BY <2>1, <3>2, <3>3 DEF r, his, began
  <2> QED BY <1>3, <2>3, <2>4
<1> QED BY <1>7, <1>8, <1>9 DEF JobsKept

LEMMA JobsStep ==
  ASSUME MapsInv, JobsKept, [Next]_vars
  PROVE  JobsKept'
<1>1. stored \in Nat
  BY DEF JobsKept, JobsTyped
<1>2. CASE Sends
  BY <1>2, SendKeepsJobs DEF Sends
<1>3. CASE UNCHANGED vars
  BY <1>3, AloneKeepsJobs DEF vars
<1> QED BY <1>1, <1>2, <1>3, NextSplit, LooksKeepsJobs, AddsKeepsJobs, RemovalKeepsJobs,
           OthersKeepJobs, WorksKeepsJobs
-----------------------------------------------------------------------------

IInv == MapsInv /\ Kept /\ JobsKept

LEMMA InitIInv == Init => IInv
<1> SUFFICES ASSUME Init PROVE IInv
  OBVIOUS
<1>1. MapsTyped
  BY BoundsAssumption DEF Init, MapsTyped, Statuses
<1>2. CallsTyped /\ FramesFit
  BY AtEnds DEF Init, CallsTyped, FramesFit
<1>3. MapsFit
  BY DEF Init, MapsFit
<1>4. EndsItsOwn /\ HasClosed
  BY DEF Init, EndsItsOwn, HasClosed, Expected, Frame, EndingStages
<1>5. EventsAlone /\ StraysExplained
  BY DEF Init, EventsAlone, StraysExplained, Built
<1>6. JobsTyped /\ Numbered /\ NotFoundThen /\ AddedOnce
  BY DEF Init, JobsTyped, Numbered, NotFoundThen, AddedOnce, Expected, Frame
<1> QED BY <1>1, <1>2, <1>3, <1>4, <1>5, <1>6 DEF IInv, MapsInv, Kept, JobsKept

THEOREM Invariance == Spec => []IInv
<1>1. IInv /\ [Next]_vars => IInv'
  <2> SUFFICES ASSUME IInv, [Next]_vars PROVE IInv'
    OBVIOUS
  <2>1. stored \in Nat
    BY DEF IInv, JobsKept, JobsTyped
  <2> QED BY <2>1, MapsStep, KeptStep, JobsStep DEF IInv
<1> QED BY InitIInv, <1>1, PTL DEF Spec

LEMMA IInvTypes == IInv => TypeOK
<1> SUFFICES ASSUME IInv PROVE TypeOK
  OBVIOUS
<1>1. /\ queues \in [Names -> 0 .. Len(built)]
      /\ queueEvents \in [Names -> 0 .. Len(built)]
  BY DEF IInv, MapsInv, MapsTyped, MapsFit, Built
<1>2. \A q \in Names : queues[q] # 0 => /\ built[queues[q]].queue = q
                                       /\ queueEvents[q] \in {0, queues[q]}
  BY DEF IInv, MapsInv, MapsFit
<1>3. \A n \in 1 .. MaxBuilt :
        /\ {queueStatus[n], eventsStatus[n]} \subseteq {"open", "closing", "closed", "broken"}
        /\ n > Len(built) => queueStatus[n] = "open" /\ eventsStatus[n] = "open"
  BY DEF IInv, MapsInv, MapsTyped, MapsFit, Statuses, Built
<1>4. \A c \in Callers : frame[c] \notin {Expected, Returned} => built[frame[c].on].queue = frame[c].queue
  BY FrameShape DEF IInv, MapsInv, FramesFit
<1>5. \A q \in Names : \A id, other \in DOMAIN jobs[q] :
        jobs[q][id].number = jobs[q][other].number => id = other
  BY DEF IInv, JobsKept, Numbered
<1> QED BY <1>1, <1>2, <1>3, <1>4, <1>5 DEF TypeOK

(***************************************************************************)
(* The maps hold what was built for their names, every call awaits         *)
(* something built for the name it was given, and no two jobs of a queue   *)
(* are the same stored one, in every reachable state.                      *)
(***************************************************************************)
THEOREM TypeCorrect == Spec => []TypeOK
BY Invariance, IInvTypes, PTL

(***************************************************************************)
(* Whatever the calls do at the same time: a Queue or QueueEvents that is  *)
(* open and out of closeQueue()'s reach was obliterated, or was built      *)
(* while a closeQueue() or obliterateQueue() of its name was awaited.      *)
(***************************************************************************)
THEOREM StraysAreExplained == Spec => []StraysExplained
<1>1. IInv => StraysExplained
  BY DEF IInv, Kept
<1> QED BY Invariance, <1>1, PTL

(***************************************************************************)
(* However many calls race to add the same job, and whatever is cleaned,   *)
(* drained or obliterated meanwhile: a job that addUniqueByData() returns  *)
(* was stored after that call began.                                       *)
(***************************************************************************)
THEOREM AddsOnce == Spec => []AddedOnce
<1>1. IInv => AddedOnce
  BY DEF IInv, JobsKept
<1> QED BY Invariance, <1>1, PTL
=============================================================================
