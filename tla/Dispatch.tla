------------------------------ MODULE Dispatch ------------------------------
(***************************************************************************)
(* What an event bus promises to those who publish, whatever it keeps of   *)
(* its handlers and however it walks through them: a published event is    *)
(* owed to every handler subscribed at that time, and it is done with the  *)
(* event when nothing is owed any more.  Handlers that subscribe later may *)
(* be given the event, and a handler may be given it again.  An event that *)
(* no handler has seen can be dropped; one that some have seen only if the *)
(* bus is not lenient towards failures.                                    *)
(***************************************************************************)
CONSTANTS Handler, Event, EventType, TypeOf

VARIABLES
  lenient,      \* a failure of a handler does not keep the event from others
  subscribed,   \* subscribed[t]: the handlers of type t
  progress,     \* "new", "held", "calling", "done" or "dropped"
  owed          \* owed[e]: the handlers e still has to be given to

vars == <<lenient, subscribed, progress, owed>>
-----------------------------------------------------------------------------

Subscribe(h) ==
  /\ subscribed' = [subscribed EXCEPT ![TypeOf[h]] = @ \cup {h}]
  /\ UNCHANGED <<lenient, progress, owed>>

Moves(e, to, rest) ==
  /\ progress' = [progress EXCEPT ![e] = to]
  /\ owed' = [owed EXCEPT ![e] = rest]
  /\ UNCHANGED <<lenient, subscribed>>

\* Someone may hold the event back; if not, the first handler has it at once.
Publish(e) ==
  LET due == subscribed[TypeOf[e]] IN
  /\ progress[e] = "new"
  /\ \/ due = {} /\ Moves(e, "done", {})
     \/ due # {} /\ Moves(e, "held", due)
     \/ \E h \in due : Moves(e, "calling", due \ {h})

Call(e, h) ==
  /\ progress[e] \in {"held", "calling"}
  /\ h \in subscribed[TypeOf[e]]
  /\ Moves(e, "calling", owed[e] \ {h})

Finish(e) ==
  /\ progress[e] = "calling"
  /\ owed[e] = {}
  /\ Moves(e, "done", {})

Drop(e) ==
  /\ progress[e] = "held" \/ (progress[e] = "calling" /\ ~ lenient)
  /\ Moves(e, "dropped", owed[e])
-----------------------------------------------------------------------------

Init ==
  /\ lenient \in BOOLEAN
  /\ subscribed = [t \in EventType |-> {}]
  /\ progress = [e \in Event |-> "new"]
  /\ owed = [e \in Event |-> {}]

Next ==
  \/ \E h \in Handler : Subscribe(h)
  \/ \E e \in Event : Publish(e) \/ Finish(e) \/ Drop(e)
  \/ \E e \in Event, h \in Handler : Call(e, h)

Spec == Init /\ [][Next]_vars
=============================================================================
