------------------------------- MODULE Tasks -------------------------------
(***************************************************************************)
(* The task service with its controller and repository.  A task is its     *)
(* status; its id is a fresh UUID, that is the request that creates it, or *)
(* one of the tasks seeded before the server listens.  The publishing at   *)
(* the end of both services' operations is here too: the api has no bridge,*)
(* and the publisher in memory starts the handlers without awaiting them,  *)
(* so publish() resolves at once and never rejects.                        *)
(***************************************************************************)
EXTENDS Accounts

CONSTANTS Seeds       \* ids of the tasks TaskSeeder has saved

VARIABLES tasks       \* InMemoryTaskRepository.store: the status of every id

TaskIds == Seeds \union Requests
Found(r) == tasks[call[r].about] # "absent"

(* TaskRead as if a task that is not there were left to save(). *)
TaskRead_Unchecked(r, next) ==
    /\ Reads(r)
    /\ Wait(r, next)
    /\ UNCHANGED <<accountVars, tasks, published>>

(* complete() and delete() read the task and throw when it is not there. *)
TaskRead(r, next) ==
    /\ Reads(r)
    /\ IF Found(r) THEN Wait(r, next) ELSE Answer(r, 404)
    /\ UNCHANGED <<accountVars, tasks, published>>

TaskWritten(r, id, value) ==
    /\ tasks' = [tasks EXCEPT ![id] = value]
    /\ Writes(r)
    /\ UNCHANGED <<accountVars, published>>

(* getAll() and getById(). *)
GetTasks(r) ==
    /\ Handling(r, "getTasks") \/ Handling(r, "getTask")
    /\ Answer(r, IF call[r].route = "getTasks" \/ Found(r) THEN 200 ELSE 404)
    /\ Reads(r)
    /\ UNCHANGED <<accountVars, tasks, published>>

CreateTask(r) ==
    /\ Handling(r, "createTask")
    /\ TaskWritten(r, r, "pending")
    /\ Wait(r, "publishing")

CompleteBegins(r) ==
    /\ Handling(r, "completeTask")
    /\ TaskRead(r, "completing")

Completes(r) ==
    /\ pc[r] = "completing"
    /\ TaskWritten(r, call[r].about, "done")
    /\ Wait(r, "publishing")

DeleteBegins(r) ==
    /\ Handling(r, "deleteTask")
    /\ TaskRead(r, "deleting")

(* Deletes as if repository.delete() were not awaited: it may reject unseen. *)
Deletes_Unawaited(r) ==
    /\ pc[r] = "deleting"
    /\ \/ TaskWritten(r, call[r].about, "absent")
       \/ UNCHANGED <<accountVars, historyVars, published, tasks>>
    /\ Answer(r, 204)

Deletes(r) ==
    /\ pc[r] = "deleting"
    /\ TaskWritten(r, call[r].about, "absent")
    /\ Answer(r, 204)

(* How many events the services publish one after the other, for a write. *)
EventsOf(route) ==
    CASE route = "createTask" -> 2
      [] route = "deleteTask" -> 0
      [] OTHER                -> 1

SuccessOf(route) == IF route \in {"register", "createTask"} THEN 201 ELSE 200

(* eventBus.publish(): the handlers are started; the next event is         *)
(* published, or the answer goes out.                                      *)
Publishes(r) ==
    /\ pc[r] = "publishing"
    /\ published' = [published EXCEPT ![r] = @ + 1]
    /\ IF published'[r] = EventsOf(call[r].route)
       THEN Answer(r, SuccessOf(call[r].route))
       ELSE Wait(r, "publishing")
    /\ UNCHANGED <<accountVars, historyVars, tasks>>

TasksInit == tasks = [t \in TaskIds |-> IF t \in Seeds THEN "pending" ELSE "absent"]

TasksStep(r) ==
    \/ GetTasks(r)
    \/ CreateTask(r)
    \/ CompleteBegins(r)
    \/ Completes(r)
    \/ DeleteBegins(r)
    \/ Deletes(r)
    \/ Publishes(r)
============================================================================
