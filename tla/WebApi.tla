------------------------------- MODULE WebApi -------------------------------
(***************************************************************************)
(* The api application: requests for accounts and tasks handled at the     *)
(* same time.  What the services guarantee to requests that do not         *)
(* overlap, and what overlapping requests may do to each other.            *)
(***************************************************************************)
EXTENDS Tasks

vars == <<pc, call, status, users, held, writes, savedAt, readAt, published, tasks>>

Init == PipelineInit /\ AccountsInit /\ TasksInit

Handle(r) ==
    \/ PipelineStep(r) /\ UNCHANGED <<accountVars, historyVars, published, tasks>>
    \/ AccountsStep(r) /\ UNCHANGED tasks
    \/ TasksStep(r)

Next == \E r \in Requests : Handle(r)

Spec == Init /\ [][Next]_vars

-----------------------------------------------------------------------------
EarlierIds == {EarlierUsers[i].id : i \in DOMAIN EarlierUsers}
EarlierTokens == {EarlierUsers[i].token : i \in DOMAIN EarlierUsers}
Users == [id : EarlierIds \union Requests,
          email : {c.about : c \in Calls} \union {EarlierUsers[i].email : i \in DOMAIN EarlierUsers},
          password : {EarlierUsers[i].password : i \in DOMAIN EarlierUsers} \union Requests,
          token : EarlierTokens \union Requests \union {None}]

(* A UUID made by a request is new; the earlier users have ids and         *)
(* addresses of their own; TaskId.fromString and ResetToken.create let no  *)
(* missing value through.                                                  *)
ASSUME WebAssumption ==
    /\ None \notin Requests \union Calls \union Users
    /\ EarlierUsers \in Seq(Users)
    /\ \A i, j \in DOMAIN EarlierUsers :
          EarlierUsers[i].id = EarlierUsers[j].id \/ EarlierUsers[i].email = EarlierUsers[j].email => i = j
    /\ Requests \intersect (EarlierIds \union EarlierTokens \union Seeds) = {}
    /\ \A c \in Calls :
          /\ c.route \in Routes
          /\ c.wellFormed /\ c.route \in {"getTask", "completeTask", "deleteTask"} => c.about \in TaskIds
          /\ c.wellFormed /\ c.route = "resetPassword" => c.about # None

RequestTypes ==
    /\ pc \in [Requests -> {"expected", "authenticating", "handling", "hashing", "verifying",
                            "issuing", "completing", "deleting", "publishing", "answered"}]
    /\ call \in [Requests -> Calls \union {None}]
    /\ status \in [Requests -> {0, 200, 201, 204, 400, 401, 403, 404, 409, 500}]

StoreTypes ==
    /\ users \in Seq(Users)
    /\ \A i, j \in DOMAIN users : users[i].id = users[j].id => i = j

HistoryTypes ==
    /\ writes \in Nat
    /\ savedAt \in [Requests -> 0 .. writes]
    /\ readAt \in [Requests -> 0 .. writes]

(* Types; the map of users has one entity per id.                          *)
TypeOK ==
    /\ RequestTypes
    /\ StoreTypes
    /\ held \in [Requests -> Users \union {None}]
    /\ HistoryTypes
    /\ published \in [Requests -> 0 .. 2]
    /\ tasks \in [TaskIds -> {"absent", "pending", "done"}]

(* register() finds the address free, hashes the password and saves: two   *)
(* users have one address only if the second of them had read before the   *)
(* first was saved.                                                        *)
EmailOnce == \A i, j \in DOMAIN users :
    i < j /\ users[i].email = users[j].email
        => /\ users[i].id \in Requests
           /\ readAt[users[j].id] < savedAt[users[i].id]

(* The user an account request r has saved. *)
Changes(r, user) ==
    \/ call[r].route = "register" /\ r = user
    \/ call[r].route \in {"forgotPassword", "resetPassword", "updatePassword"} /\ held[r].id = user

Issued(token) == IF token \in Requests THEN savedAt[token] ELSE 0

(* A reset token dies with the next write of its user: whoever resets a    *)
(* password by a token has read after no reset, no update and no new token *)
(* since that one was issued.  So a token is used twice only by requests   *)
(* that had both read before either saved.                                 *)
TokenDies == \A r, w \in Requests :
    /\ Done(r) /\ call[r].route = "resetPassword"
    /\ Done(w) /\ Changes(w, held[r].id)
    /\ Issued(call[r].about) < savedAt[w]
    => readAt[r] < savedAt[w]

Sets(r, user) == Done(r) /\ Changes(r, user) /\ call[r].route # "forgotPassword"
Latest(r, user) == Sets(r, user) /\ \A s \in Requests : Sets(s, user) => savedAt[s] <= savedAt[r]
WroteBack(f, user, password, last) ==
    /\ Done(f) /\ call[f].route = "forgotPassword"
    /\ held[f].id = user /\ held[f].password = password
    /\ readAt[f] < savedAt[last] /\ savedAt[last] < savedAt[f]

(* The password of a user is the one saved last, unless forgotPassword()   *)
(* had read the user before that and saved its copy after it.              *)
PasswordCurrent == \A i \in DOMAIN users, last \in Requests :
    Latest(last, users[i].id) =>
        \/ users[i].password = last
        \/ \E f \in Requests : WroteBack(f, users[i].id, users[i].password, last)

Deleted(d) == Done(d) /\ call[d].route = "deleteTask"
Revived(d) == \E c \in Requests :
    /\ Done(c) /\ call[c].route = "completeTask" /\ call[c].about = call[d].about
    /\ readAt[c] < savedAt[d] /\ savedAt[d] < savedAt[c]

(* A deleted task is back only if a complete() had read it before it was   *)
(* deleted and saved it after.                                             *)
DeletedStaysDeleted == \A d \in Requests :
    Deleted(d) /\ tasks[call[d].about] # "absent" => Revived(d)

ReadOnly == {"login", "me", "getTask", "getTasks"}

HonestAnswer(r) ==
    LET route == call[r].route IN
    /\ status[r] >= 400 => ~Done(r) /\ published[r] = 0
    /\ status[r] \in 200 .. 299 /\ route \notin ReadOnly /\ ~(route = "forgotPassword" /\ held[r] = None)
        => Done(r) /\ published[r] = EventsOf(route)
    /\ Done(r) /\ route \in Protected => call[r].bearer \in AuthUsers /\ HasRole(r)

(* What a client is told is what happened, whichever call rejects on the   *)
(* way: after an error the request has changed and published nothing;      *)
(* after a success its write is done and its events are published (their   *)
(* handlers may still run, or fail unseen).  Only a caller whose token and *)
(* role a protected route accepts changes anything there.                  *)
AnswerMatchesEffect == \A r \in Requests : HonestAnswer(r)
=============================================================================
