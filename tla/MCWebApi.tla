------------------------------ MODULE MCWebApi ------------------------------
(***************************************************************************)
(* Three requests to an api with one user, who has asked for a reset, and  *)
(* one task.  The user may be the caller; "admin" is known to the strategy *)
(* but not to this process's repository.                                   *)
(***************************************************************************)
EXTENDS WebApi, TLC

CONSTANTS r1, r2, r3, t0

MCRequests == {r1, r2, r3}
MCEarlierUsers == <<[id |-> "ann", email |-> "ann@", password |-> "first", token |-> t0]>>
User == [id |-> "ann", role |-> "user"]
Admin == [id |-> "admin", role |-> "admin"]
MCAuthUsers == {User, Admin}

Sent(routes, abouts, bearers, wellFormed) ==
    [route : routes, about : abouts, bearer : bearers, wellFormed : {wellFormed}]

(* Every outcome of the pipeline for every kind of route; inputs that make *)
(* no difference to a handler that is not reached are left out.            *)
MCCalls == UNION {
    Sent({"register", "forgotPassword"}, {"ann@", "bob@"}, {None}, TRUE),
    Sent({"login"}, {"ann@", "bob@"}, {None}, TRUE),
    Sent({"resetPassword"}, {t0} \union Requests, {None}, TRUE),
    Sent({"updatePassword", "me"}, {None}, {User, Admin}, TRUE),
    Sent({"getTasks"}, {None}, {None}, TRUE),
    Sent({"createTask"}, {None}, {User}, TRUE),
    Sent({"getTask", "completeTask", "deleteTask"}, {"seed"} \union Requests, {Admin}, TRUE),
    Sent({"completeTask", "deleteTask"}, {"seed"}, {User, None}, TRUE),
    Sent({"register", "createTask"}, {None}, {User}, FALSE)}

Symmetry == Permutations(Requests)
=============================================================================
