-------------------------- MODULE RequestPipeline --------------------------
(***************************************************************************)
(* How the server handles a request: the authentication hook of a          *)
(* protected route, the controller behind it, and the answer.  Requests    *)
(* are handled concurrently; a request gives way to others where its       *)
(* handler awaits.  What the controllers do is in Accounts and Tasks.      *)
(***************************************************************************)
EXTENDS Naturals

CONSTANTS Requests,   \* the requests, each handled once
          AuthUsers,  \* what the strategy makes of valid tokens: [id, role]
          Calls,      \* what clients may send
          None        \* no value; no token in the header

VARIABLES pc,         \* pc[r]: what the handling of r waits for
          call,       \* call[r]: route and input of r
          status      \* status[r]: the HTTP status answered, 0 before

pipelineVars == <<pc, call, status>>

(* @UseAuth() and @Roles(): an empty set stands for any role. *)
Protected == {"updatePassword", "me", "getTask", "createTask", "completeTask", "deleteTask"}
RequiredRoles(route) ==
    CASE route = "completeTask" -> {"staff", "admin"}
      [] route = "deleteTask"   -> {"admin"}
      [] OTHER                  -> {}

Public == {"register", "login", "forgotPassword", "resetPassword", "getTasks"}
Routes == Public \union Protected

Wait(r, next) ==
    /\ pc' = [pc EXCEPT ![r] = next]
    /\ UNCHANGED <<call, status>>

(* The route handler returns, or an error reaches handleGlobalError. *)
Answer(r, code) ==
    /\ pc' = [pc EXCEPT ![r] = "answered"]
    /\ status' = [status EXCEPT ![r] = code]
    /\ UNCHANGED call

Arrive(r) ==
    /\ pc[r] = "expected"
    /\ \E c \in Calls :
        /\ call' = [call EXCEPT ![r] = c]
        /\ pc' = [pc EXCEPT ![r] = IF c.route \in Protected THEN "authenticating" ELSE "handling"]
    /\ UNCHANGED status

(* AuthMiddleware.handle: no Bearer header, or strategy.validate() rejects. *)
Unauthenticated(r) ==
    /\ pc[r] = "authenticating"
    /\ call[r].bearer \notin AuthUsers
    /\ Answer(r, 401)

HasRole(r) == LET roles == RequiredRoles(call[r].route) IN
    roles = {} \/ call[r].bearer.role \in roles

Forbidden(r) ==
    /\ pc[r] = "authenticating"
    /\ call[r].bearer \in AuthUsers
    /\ ~HasRole(r)
    /\ Answer(r, 403)

(* The hook stores the user and returns nothing, the handler runs. *)
Authenticated(r) ==
    /\ pc[r] = "authenticating"
    /\ call[r].bearer \in AuthUsers
    /\ HasRole(r)
    /\ Wait(r, "handling")

(* The controller finds a field missing, or a value object refuses it. *)
Malformed(r) ==
    /\ pc[r] = "handling"
    /\ ~call[r].wellFormed
    /\ Answer(r, 400)

Handling(r, route) ==
    /\ pc[r] = "handling"
    /\ call[r].wellFormed
    /\ call[r].route = route

(* What a service awaits rejects, the repository or Bun.password, or login() *)
(* cannot sign its token: nothing is written, and the error brings no status *)
(* of its own.  (The maps in memory never reject; another IUserRepository or *)
(* ITaskRepository may.)                                                     *)
Rejects(r) ==
    /\ \/ pc[r] \in {"hashing", "verifying", "issuing", "completing", "deleting"}
       \/ pc[r] = "handling" /\ call[r].wellFormed
    /\ Answer(r, 500)

PipelineInit ==
    /\ pc = [r \in Requests |-> "expected"]
    /\ call = [r \in Requests |-> None]
    /\ status = [r \in Requests |-> 0]

PipelineStep(r) ==
    \/ Arrive(r)
    \/ Unauthenticated(r)
    \/ Forbidden(r)
    \/ Authenticated(r)
    \/ Malformed(r)
    \/ Rejects(r)
============================================================================
