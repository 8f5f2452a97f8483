---------------------------- MODULE WebApiProofs ----------------------------
(***************************************************************************)
(* Proofs about the api application, for any number of concurrent          *)
(* requests, users and tasks.                                              *)
(***************************************************************************)
EXTENDS WebApi, FiniteSetTheorems, SequenceTheorems, WellFoundedInduction, TLAPS

(***************************************************************************)
(* The inductive invariant.                                                *)
(*                                                                         *)
(* Where a request may be, given its route.                                *)
(***************************************************************************)
Fits(route) ==
  CASE route = "register"       -> {"hashing", "publishing"}
    [] route = "login"          -> {"verifying"}
    [] route = "forgotPassword" -> {"issuing", "publishing"}
    [] route = "resetPassword"  -> {"hashing", "publishing"}
    [] route = "updatePassword" -> {"verifying", "hashing", "publishing"}
    [] route = "createTask"     -> {"publishing"}
    [] route = "completeTask"   -> {"completing", "publishing"}
    [] route = "deleteTask"     -> {"deleting"}
    [] OTHER                    -> {}

Started(r) == pc[r] \notin {"expected", "authenticating"}
Midway(r) == pc[r] \notin {"expected", "authenticating", "handling", "answered"}
Allowed(r) == call[r].route \in Protected => call[r].bearer \in AuthUsers /\ HasRole(r)

\* A request follows its route; it has written when it publishes.
FlowOf(r) ==
  /\ pc[r] # "expected" => call[r] \in Calls
  /\ Midway(r) => pc[r] \in Fits(call[r].route) /\ call[r].wellFormed
  /\ Done(r) => /\ pc[r] \in {"publishing", "answered"}
                /\ call[r].route \notin ReadOnly
                /\ call[r].wellFormed
  /\ pc[r] = "publishing" => Done(r) /\ published[r] < EventsOf(call[r].route)
  /\ ~ Done(r) => published[r] = 0
  /\ Started(r) /\ pc[r] # "answered" => Allowed(r)
  /\ Done(r) => Allowed(r)
  /\ pc[r] = "answered" <=> status[r] # 0

Flow == \A r \in Requests : FlowOf(r)

StoredIsRegistered ==
  \A i \in DOMAIN users : users[i].id \in Requests =>
    Done(users[i].id) /\ call[users[i].id].route = "register"

\* The map keeps the order of insertion.
EarlierComeFirst ==
  \A i, j \in DOMAIN users : i < j /\ users[i].id \in Requests => users[j].id \in Requests

\* A stored token is younger than every write of its user before it.
TokenIsNewest ==
  \A i \in DOMAIN users : LET t == users[i].token IN t # None =>
    /\ t \in Requests => Done(t)
    /\ \A w \in Requests : Done(w) /\ Changes(w, users[i].id) => savedAt[w] <= Issued(t)

TaskWasCreated ==
  \A t \in Requests : tasks[t] # "absent" => Done(t)

(***************************************************************************)
(* What a request knows of the store it has read.                          *)
(***************************************************************************)
Reader(r) == Midway(r) \/ Done(r)

\* Whoever saves a changed user has read one.
Changer(r) == call[r].route \in {"forgotPassword", "resetPassword", "updatePassword"}
HasRead(r) == Reader(r) /\ Changer(r) => held[r] # None

\* No user is ever removed, and none changes its id or address.
HeldIsStored(r) == held[r] # None =>
  \E i \in DOMAIN users : users[i].id = held[r].id /\ users[i].email = held[r].email

\* A registration that is under way knows of all that have its address but
\* those saved after its look.
FreeWhenRead(r) == pc[r] = "hashing" /\ call[r].route = "register" =>
  \A i \in DOMAIN users : users[i].email = call[r].about =>
    users[i].id \in Requests /\ readAt[r] < savedAt[users[i].id]

\* TokenDies, also of resets that have not saved yet.
ResetIsFresh(r) == Reader(r) /\ call[r].route = "resetPassword" =>
  /\ call[r].about \in Requests => Done(call[r].about)
  /\ \A w \in Requests :
       Done(w) /\ Changes(w, held[r].id) /\ Issued(call[r].about) < savedAt[w]
         => readAt[r] < savedAt[w]

\* PasswordCurrent, of the copy that forgotPassword() is about to save.
CopyIsCurrent(r) == \A last \in Requests : pc[r] = "issuing" /\ Latest(last, held[r].id) =>
  \/ readAt[r] < savedAt[last]
  \/ held[r].password = last
  \/ \E f \in Requests : WroteBack(f, held[r].id, held[r].password, last)

TaskWasFound(r) ==
  /\ Reader(r)
  /\ call[r].route \in {"completeTask", "deleteTask"}
  /\ call[r].about \in Requests
  => Done(call[r].about)

\* A complete() that has read a task a delete() had already removed has
\* found it revived.
CompletionIsFresh(r) == \A d \in Requests :
  pc[r] = "completing" /\ Deleted(d) /\ call[d].about = call[r].about
    => readAt[r] < savedAt[d] \/ Revived(d)

Knows(r) ==
  /\ HasRead(r) /\ HeldIsStored(r)
  /\ FreeWhenRead(r) /\ ResetIsFresh(r) /\ CopyIsCurrent(r)
  /\ TaskWasFound(r) /\ CompletionIsFresh(r)

Knowledge == \A r \in Requests : Knows(r)

IInv ==
  /\ TypeOK
  /\ Flow
  /\ StoredIsRegistered /\ EarlierComeFirst
  /\ EmailOnce
  /\ TokenIsNewest
  /\ PasswordCurrent
  /\ TaskWasCreated
  /\ DeletedStaysDeleted
  /\ Knowledge
  /\ AnswerMatchesEffect
-----------------------------------------------------------------------------

(***************************************************************************)
(* The find methods return a match, and null only when there is none.      *)
(***************************************************************************)
LEMMA FirstIsMatch ==
  ASSUME TypeOK, NEW hits \in SUBSET DOMAIN users
  PROVE  /\ hits = {} => First(hits) = None
         /\ hits # {} => /\ \E i \in hits : First(hits) = users[i]
                         /\ First(hits) \in Users
                         /\ First(hits) # None
<1>1. hits \subseteq Nat /\ \A i \in hits : users[i] \in Users
  BY DEF TypeOK, StoreTypes
<1>2. CASE hits = {}
  BY <1>2 DEF First
<1>3. CASE hits # {}
  <2> DEFINE Below(x) == {y \in hits : y < x}
             Family == {Below(x) : x \in hits}
  <2>0. IsFiniteSet(hits)
    <3>1. \E n \in Nat : DOMAIN users = 1 .. n
      BY DEF TypeOK, StoreTypes
    <3>2. QED
      BY <3>1, FS_Interval, FS_Subset
  <2>1. \E x \in hits : \A y \in hits : <<Below(y), Below(x)>> \notin StrictSubsetOrdering(hits)
    <3>1. FiniteSubsetsOf(hits) = SUBSET hits
      BY <2>0, FS_FiniteSubsetsOfFinite
    <3>0. \A x \in hits : Below(x) \in SUBSET hits
      OBVIOUS
    <3> HIDE DEF Below
    <3>2. Family \subseteq FiniteSubsetsOf(hits) /\ Family # {}
      BY <1>3, <3>0, <3>1
    <3> HIDE DEF Family
    <3>3. \E X \in Family : \A Y \in Family : <<Y, X>> \notin StrictSubsetOrdering(hits)
      BY <2>0, <3>2, FS_StrictSubsetOrderingWellFounded, WFMin
    <3> USE DEF Family
    <3>4. QED
      BY <3>3
  <2>2. ASSUME NEW x \in hits, NEW y \in hits, y < x
        PROVE  <<Below(y), Below(x)>> \in StrictSubsetOrdering(hits)
    <3>1. Below(y) \subseteq Below(x) /\ y \in Below(x) \ Below(y)
      BY <1>1, <2>2
    <3>2. Below(y) \in SUBSET hits /\ Below(x) \in SUBSET hits /\ Below(y) # Below(x)
      BY <3>1
    <3> HIDE DEF Below
    <3>3. QED
      BY <3>1, <3>2 DEF StrictSubsetOrdering
  <2>3. Min(hits) \in hits
    <3> HIDE DEF Below
    <3>1. \E x \in hits : \A y \in hits : ~ (y < x)
      BY <2>1, <2>2
    <3>2. \E x \in hits : \A y \in hits : x <= y
      BY <1>1, <3>1
    <3>3. QED
      BY <3>2 DEF Min
  <2>4. QED
    BY <1>1, <1>3, <2>3, WebAssumption DEF First
<1>4. QED
  BY <1>2, <1>3

(***************************************************************************)
(* save() replaces the user of that id, or appends a new one.              *)
(***************************************************************************)
LEMMA SaveReplaces ==
  ASSUME TypeOK, NEW u \in Users, Save(u),
         NEW k \in DOMAIN users, users[k].id = u.id
  PROVE  /\ DOMAIN users' = DOMAIN users
         /\ users'[k] = u
         /\ \A i \in DOMAIN users : i # k => users'[i] = users[i] /\ users[i].id # u.id
         /\ users' \in Seq(Users)
<1>1. users' = [i \in DOMAIN users |-> IF users[i].id = u.id THEN u ELSE users[i]]
  BY DEF Save
<1>2. \A i \in DOMAIN users : i # k => users[i].id # u.id
  BY DEF TypeOK, StoreTypes
<1>3. users \in Seq(Users)
  BY DEF TypeOK, StoreTypes
<1>4. users' \in Seq(Users)
  BY <1>1, <1>3
<1>5. QED
  BY <1>1, <1>2, <1>4

LEMMA SaveAppends ==
  ASSUME TypeOK, NEW u \in Users, Save(u),
         \A i \in DOMAIN users : users[i].id # u.id
  PROVE  \E n \in Nat : /\ DOMAIN users = 1 .. n
                        /\ DOMAIN users' = 1 .. (n + 1)
                        /\ users'[n + 1] = u
                        /\ \A i \in 1 .. n : users'[i] = users[i]
                        /\ users' \in Seq(Users)
<1>1. users' = Append(users, u)
  BY DEF Save
<1>2. users \in Seq(Users)
  BY DEF TypeOK, StoreTypes
<1>3. QED
  BY <1>1, <1>2

(***************************************************************************)
(* What the three writes of users do to the store.                         *)
(***************************************************************************)
Replaces(u) ==
  \E k \in DOMAIN users :
    /\ users[k].id = u.id /\ users[k].email = u.email
    /\ DOMAIN users' = DOMAIN users
    /\ users'[k] = u
    /\ \A i \in DOMAIN users : i # k => users'[i] = users[i] /\ users[i].id # u.id

LEMMA ChangeReplaces ==
  ASSUME IInv, NEW r \in Requests, NEW u \in Users, Save(u), held[r] # None,
         u.id = held[r].id, u.email = held[r].email
  PROVE  Replaces(u) /\ users' \in Seq(Users)
<1>1. PICK k \in DOMAIN users : users[k].id = held[r].id /\ users[k].email = held[r].email
  BY DEF IInv, Knowledge, Knows, HeldIsStored
<1>2. TypeOK
  BY DEF IInv
<1>3. QED
  BY <1>1, <1>2, SaveReplaces DEF Replaces

LEMMA IssueReplaces ==
  ASSUME IInv, NEW r \in Requests, IssuesToken(r)
  PROVE  /\ call[r].route = "forgotPassword"
         /\ held[r] \in Users
         /\ WithResetToken(held[r], r) = [held[r] EXCEPT !.token = r]
         /\ WithResetToken(held[r], r) \in Users
         /\ Replaces(WithResetToken(held[r], r))
         /\ users' \in Seq(Users)
<1>1. call[r].route = "forgotPassword"
  BY DEF IInv, Flow, FlowOf, IssuesToken, Fits, Midway, WebAssumption
<1>2. held[r] \in Users
  BY <1>1 DEF IInv, TypeOK, Knowledge, Knows, HasRead, Reader, IssuesToken, Changer, Midway
<1>3. WithResetToken(held[r], r) \in Users /\ WithResetToken(held[r], r).id = held[r].id
      /\ WithResetToken(held[r], r).email = held[r].email
  BY <1>2 DEF WithResetToken, Users
<1>4. held[r] # None /\ Save(WithResetToken(held[r], r))
  BY <1>2, WebAssumption DEF IssuesToken
<1>5. Replaces(WithResetToken(held[r], r)) /\ users' \in Seq(Users)
  <2> HIDE DEF WithResetToken
  <2> QED
    BY <1>3, <1>4, ChangeReplaces
<1>6. QED
  BY <1>1, <1>2, <1>3, <1>5 DEF WithResetToken

LEMMA PasswordReplaces ==
  ASSUME IInv, NEW r \in Requests, ChangesPassword(r)
  PROVE  /\ held[r] \in Users
         /\ WithPasswordHash(held[r], r) = [held[r] EXCEPT !.password = r, !.token = None]
         /\ WithPasswordHash(held[r], r) \in Users
         /\ Replaces(WithPasswordHash(held[r], r))
         /\ users' \in Seq(Users)
<1>2. held[r] \in Users
  BY DEF IInv, TypeOK, Knowledge, Knows, HasRead, Reader, ChangesPassword, Changer, Midway
<1>3. WithPasswordHash(held[r], r) \in Users /\ WithPasswordHash(held[r], r).id = held[r].id
      /\ WithPasswordHash(held[r], r).email = held[r].email
  BY <1>2 DEF WithPasswordHash, Users
<1>4. held[r] # None /\ Save(WithPasswordHash(held[r], r))
  BY <1>2, WebAssumption DEF ChangesPassword
<1>5. Replaces(WithPasswordHash(held[r], r)) /\ users' \in Seq(Users)
  BY <1>3, <1>4, ChangeReplaces
<1>6. QED
  BY <1>2, <1>3, <1>5 DEF WithPasswordHash

Adds(u) ==
  \E n \in Nat :
    /\ DOMAIN users = 1 .. n /\ DOMAIN users' = 1 .. (n + 1)
    /\ users'[n + 1] = u
    /\ \A i \in 1 .. n : users'[i] = users[i] /\ users[i].id # u.id

LEMMA RegisterAdds ==
  ASSUME IInv, NEW r \in Requests, Registers(r)
  PROVE  /\ NewUser(r) \in Users
         /\ Adds(NewUser(r))
         /\ users' \in Seq(Users)
<1>1. call[r] \in Calls /\ ~ Done(r)
  BY DEF IInv, Flow, FlowOf, Registers
<1>2. NewUser(r) \in Users /\ NewUser(r).id = r
  BY <1>1 DEF NewUser, Users
<1>3. \A i \in DOMAIN users : users[i].id # r
  BY <1>1 DEF IInv, StoredIsRegistered
<1>4. TypeOK /\ Save(NewUser(r))
  BY DEF IInv, Registers
<1>5. Adds(NewUser(r)) /\ users' \in Seq(Users)
  <2> HIDE DEF NewUser
  <2> QED
    BY <1>2, <1>3, <1>4, SaveAppends DEF Adds
<1>6. QED
  BY <1>2, <1>5
-----------------------------------------------------------------------------

(***************************************************************************)
(* Every step keeps the types.                                             *)
(***************************************************************************)
LEMMA RequestTypesStep ==
  ASSUME IInv, [Next]_vars
  PROVE  RequestTypes'
<1>0. RequestTypes
  BY DEF IInv, TypeOK
<1>1. CASE UNCHANGED vars
  BY <1>0, <1>1 DEF RequestTypes, vars
<1>2. ASSUME NEW r \in Requests, NEW next \in {"authenticating", "handling", "hashing", "verifying",
                            "issuing", "completing", "deleting", "publishing"}, Wait(r, next)
      PROVE  RequestTypes'
  BY <1>0, <1>2 DEF RequestTypes, Wait
<1>3. ASSUME NEW r \in Requests, NEW code \in {200, 201, 204, 400, 401, 403, 404, 409, 500}, Answer(r, code)
      PROVE  RequestTypes'
  BY <1>0, <1>3 DEF RequestTypes, Answer
<1>4. ASSUME NEW r \in Requests, PipelineStep(r)
      PROVE  RequestTypes'
  <2>1. CASE Arrive(r)
    BY <1>0, <2>1 DEF RequestTypes, Arrive
  <2>2. QED
    BY <1>2, <1>3, <1>4, <2>1 DEF PipelineStep, Unauthenticated, Forbidden, Authenticated, Malformed, Rejects
<1>5. ASSUME NEW r \in Requests, AccountsStep(r)
      PROVE  RequestTypes'
  <2>1. \E next \in {"authenticating", "handling", "hashing", "verifying", "issuing", "completing", "deleting", "publishing"},
           code \in {200, 201, 204, 400, 401, 403, 404, 409, 500} : Wait(r, next) \/ Answer(r, code)
    BY <1>5 DEF AccountsStep, RegisterBegins, Registers, LoginBegins, ForgotBegins, IssuesToken, ResetBegins,
                UpdateBegins, PasswordMatches, PasswordDiffers, ChangesPassword, Me, ReadAs
  <2>2. QED
    BY <1>2, <1>3, <2>1
<1>6. ASSUME NEW r \in Requests, TasksStep(r)
      PROVE  RequestTypes'
  <2>1. \E next \in {"authenticating", "handling", "hashing", "verifying", "issuing", "completing", "deleting", "publishing"},
           code \in {200, 201, 204, 400, 401, 403, 404, 409, 500} : Wait(r, next) \/ Answer(r, code)
    BY <1>6 DEF TasksStep, GetTasks, CreateTask, CompleteBegins, Completes, DeleteBegins, Deletes, Publishes,
                 TaskRead, SuccessOf
  <2>2. QED
    BY <1>2, <1>3, <2>1
<1>7. QED
  BY <1>1, <1>4, <1>5, <1>6 DEF Next, Handle

LEMMA StoreTypesStep ==
  ASSUME IInv, [Next]_vars
  PROVE  StoreTypes'
<1>0. StoreTypes
  BY DEF IInv, TypeOK
<1>1. CASE UNCHANGED users
  BY <1>0, <1>1 DEF StoreTypes
<1>2. ASSUME NEW r \in Requests, Registers(r)
      PROVE  StoreTypes'
  <2>1. users' \in Seq(Users) /\ Adds(NewUser(r))
    BY <1>2, RegisterAdds
  <2>2. QED
    BY <1>0, <2>1 DEF StoreTypes, Adds
<1>3. ASSUME NEW r \in Requests, IssuesToken(r) \/ ChangesPassword(r)
      PROVE  StoreTypes'
  <2>1. users' \in Seq(Users) /\ \E u : Replaces(u)
    BY <1>3, IssueReplaces, PasswordReplaces
  <2>2. QED
    BY <1>0, <2>1 DEF StoreTypes, Replaces
<1>4. UNCHANGED users \/ \E r \in Requests : Registers(r) \/ IssuesToken(r) \/ ChangesPassword(r)
  BY DEF Next, Handle, vars, accountVars, AccountsStep, TasksStep, RegisterBegins, LoginBegins, ForgotBegins, ResetBegins,
         UpdateBegins, PasswordMatches, PasswordDiffers, Me, ReadAs, Read, GetTasks, CreateTask, CompleteBegins,
         Completes, DeleteBegins, Deletes, Publishes, TaskRead, TaskWritten
<1>5. QED
  BY <1>1, <1>2, <1>3, <1>4

LEMMA HistoryTypesStep ==
  ASSUME IInv, [Next]_vars
  PROVE  HistoryTypes'
<1>0. HistoryTypes
  BY DEF IInv, TypeOK
<1>1. CASE UNCHANGED historyVars
  BY <1>0, <1>1 DEF HistoryTypes, historyVars
<1>2. ASSUME NEW r \in Requests, Reads(r)
      PROVE  HistoryTypes'
  BY <1>0, <1>2 DEF HistoryTypes, Reads
<1>3. ASSUME NEW r \in Requests, Writes(r)
      PROVE  HistoryTypes'
  BY <1>0, <1>3 DEF HistoryTypes, Writes
<1>4. UNCHANGED historyVars \/ \E r \in Requests : Reads(r) \/ Writes(r)
  BY DEF Next, Handle, vars, historyVars, AccountsStep, TasksStep, RegisterBegins, Registers, LoginBegins, ForgotBegins,
         IssuesToken, ResetBegins, UpdateBegins, PasswordMatches, PasswordDiffers, ChangesPassword, Me, ReadAs, Read,
         WritesIt, GetTasks, CreateTask, CompleteBegins, Completes, DeleteBegins, Deletes, Publishes,
         TaskRead, TaskWritten
<1>5. QED
  BY <1>1, <1>2, <1>3, <1>4

LEMMA DataTypesStep ==
  ASSUME IInv, [Next]_vars
  PROVE  /\ held' \in [Requests -> Users \union {None}]
         /\ published' \in [Requests -> 0 .. 2]
         /\ tasks' \in [TaskIds -> {"absent", "pending", "done"}]
<1>0. TypeOK
  BY DEF IInv
<1>1. UNCHANGED held \/ \E r \in Requests, u \in Users \union {None} : Read(r, u)
  <2>1. /\ \A email : ByEmail(email) \in Users \union {None}
        /\ \A token : ByResetToken(token) \in Users \union {None}
        /\ \A id : ById(id) \in Users \union {None}
    BY <1>0, FirstIsMatch DEF ByEmail, ByResetToken, ById
  <2>2. QED
    BY <2>1 DEF Next, Handle, vars, accountVars, AccountsStep, TasksStep, RegisterBegins, Registers, LoginBegins, ForgotBegins,
           IssuesToken, ResetBegins, UpdateBegins, PasswordMatches, PasswordDiffers, ChangesPassword, Me, ReadAs,
           WritesIt, GetTasks, CreateTask, CompleteBegins, Completes, DeleteBegins, Deletes, Publishes,
           TaskRead, TaskWritten
<1>2. held' \in [Requests -> Users \union {None}]
  BY <1>0, <1>1 DEF TypeOK, Read
<1>3. UNCHANGED published \/ \E r \in Requests : Publishes(r)
  BY DEF Next, Handle, vars, AccountsStep, TasksStep, RegisterBegins, Registers, LoginBegins, ForgotBegins,
         IssuesToken, ResetBegins, UpdateBegins, PasswordMatches, PasswordDiffers, ChangesPassword, Me, ReadAs, Read,
         WritesIt, GetTasks, CreateTask, CompleteBegins, Completes, DeleteBegins, Deletes,
         TaskRead, TaskWritten
<1>4. \A r \in Requests : Publishes(r) => published[r] < 2
  <2>1. \A route : EventsOf(route) \in 0 .. 2
    BY DEF EventsOf
  <2>2. \A r \in Requests : Publishes(r) => published[r] < EventsOf(call[r].route)
    BY DEF IInv, Flow, FlowOf, Publishes
  <2>3. QED
    BY <1>0, <2>1, <2>2 DEF TypeOK
<1>5. published' \in [Requests -> 0 .. 2]
  BY <1>0, <1>3, <1>4 DEF TypeOK, Publishes
<1>6. tasks' \in [TaskIds -> {"absent", "pending", "done"}]
  <2>1. UNCHANGED tasks \/ \E r \in Requests, value \in {"absent", "pending", "done"} : \E id : TaskWritten(r, id, value)
    BY DEF Next, Handle, vars, AccountsStep, TasksStep, GetTasks, CreateTask, CompleteBegins, Completes, DeleteBegins, Deletes,
           Publishes, TaskRead
  <2>2. QED
    BY <1>0, <2>1 DEF TypeOK, TaskWritten
<1>7. QED
  BY <1>2, <1>5, <1>6

LEMMA TypeStep ==
  ASSUME IInv, [Next]_vars
  PROVE  TypeOK'
BY RequestTypesStep, StoreTypesStep, HistoryTypesStep, DataTypesStep DEF TypeOK

(***************************************************************************)
(* A step of one request leaves the others where they are.                 *)
(***************************************************************************)
Same(q) ==
  /\ pc'[q] = pc[q] /\ call'[q] = call[q] /\ status'[q] = status[q] /\ held'[q] = held[q]
  /\ savedAt'[q] = savedAt[q] /\ readAt'[q] = readAt[q] /\ published'[q] = published[q]

LEMMA OthersKeep ==
  ASSUME TypeOK, NEW r \in Requests, NEW q \in Requests \ {r}, Handle(r)
  PROVE  Same(q)
<1>1. ASSUME NEW next, Wait(r, next) PROVE pc'[q] = pc[q] /\ call'[q] = call[q] /\ status'[q] = status[q]
  BY <1>1 DEF Wait, TypeOK, RequestTypes
<1>2. ASSUME NEW code, Answer(r, code) PROVE pc'[q] = pc[q] /\ call'[q] = call[q] /\ status'[q] = status[q]
  BY <1>2 DEF Answer, TypeOK, RequestTypes
<1>3. Arrive(r) => pc'[q] = pc[q] /\ call'[q] = call[q] /\ status'[q] = status[q]
  BY DEF Arrive, TypeOK, RequestTypes
<1>4. pc'[q] = pc[q] /\ call'[q] = call[q] /\ status'[q] = status[q]
  <2>1. Arrive(r) \/ (\E next : Wait(r, next)) \/ (\E code : Answer(r, code))
    BY DEF Handle, PipelineStep, Unauthenticated, Forbidden, Authenticated, Malformed, Rejects, AccountsStep, TasksStep,
           RegisterBegins, Registers, LoginBegins, ForgotBegins, IssuesToken, ResetBegins, UpdateBegins,
           PasswordMatches, PasswordDiffers, ChangesPassword, Me, ReadAs, GetTasks, CreateTask, CompleteBegins,
           Completes, DeleteBegins, Deletes, Publishes, TaskRead
  <2>2. QED
    BY <1>1, <1>2, <1>3, <2>1
<1>5. savedAt'[q] = savedAt[q] /\ readAt'[q] = readAt[q]
  <2>1. UNCHANGED historyVars \/ Reads(r) \/ Writes(r)
    BY DEF Handle, historyVars, AccountsStep, TasksStep, RegisterBegins, Registers, LoginBegins, ForgotBegins,
           IssuesToken, ResetBegins, UpdateBegins, PasswordMatches, PasswordDiffers, ChangesPassword, Me, ReadAs, Read,
           WritesIt, GetTasks, CreateTask, CompleteBegins, Completes, DeleteBegins, Deletes, Publishes,
           TaskRead, TaskWritten
  <2>2. QED
    BY <2>1 DEF TypeOK, HistoryTypes, historyVars, Reads, Writes
<1>6. held'[q] = held[q]
  <2>1. UNCHANGED held \/ \E u : Read(r, u)
    BY DEF Handle, accountVars, AccountsStep, TasksStep, RegisterBegins, Registers, LoginBegins, ForgotBegins,
           IssuesToken, ResetBegins, UpdateBegins, PasswordMatches, PasswordDiffers, ChangesPassword, Me, ReadAs,
           WritesIt, GetTasks, CreateTask, CompleteBegins, Completes, DeleteBegins, Deletes, Publishes,
           TaskRead, TaskWritten
  <2>2. QED
    BY <2>1 DEF TypeOK, Read
<1>7. published'[q] = published[q]
  <2>1. UNCHANGED published \/ Publishes(r)
    BY DEF Handle, AccountsStep, TasksStep, RegisterBegins, Registers, LoginBegins, ForgotBegins,
           IssuesToken, ResetBegins, UpdateBegins, PasswordMatches, PasswordDiffers, ChangesPassword, Me, ReadAs, Read,
           WritesIt, GetTasks, CreateTask, CompleteBegins, Completes, DeleteBegins, Deletes,
           TaskRead, TaskWritten
  <2>2. QED
    BY <2>1 DEF TypeOK, Publishes
<1>8. QED
  BY <1>4, <1>5, <1>6, <1>7 DEF Same

(***************************************************************************)
(* A request follows its route, and its answer is honest.                  *)
(***************************************************************************)
LEMMA FlowOfOthers ==
  ASSUME NEW q, FlowOf(q), HonestAnswer(q), Same(q)
  PROVE  FlowOf(q)' /\ HonestAnswer(q)'
BY DEF FlowOf, HonestAnswer, Same, Midway, Started, Done, Allowed, HasRole

LEMMA FlowOfActor ==
  ASSUME IInv, NEW r \in Requests, Handle(r)
  PROVE  FlowOf(r)' /\ HonestAnswer(r)'
<1>0. TypeOK /\ FlowOf(r) /\ HonestAnswer(r)
  BY DEF IInv, Flow, AnswerMatchesEffect
<1>1. call[r] \in Calls => call[r].route \in Routes
  BY WebAssumption
<1>2. CASE Arrive(r) /\ UNCHANGED <<accountVars, historyVars, published, tasks>>
  BY <1>0, <1>1, <1>2 DEF TypeOK, RequestTypes, HistoryTypes, FlowOf, HonestAnswer, Arrive, Wait, Answer, Midway,
     Started, Done, Allowed, HasRole, historyVars, accountVars
<1>3. CASE Unauthenticated(r) /\ UNCHANGED <<accountVars, historyVars, published, tasks>>
  BY <1>0, <1>1, <1>3 DEF TypeOK, RequestTypes, HistoryTypes, FlowOf, HonestAnswer, Unauthenticated, Wait, Answer, Midway,
     Started, Done, Allowed, HasRole, historyVars, accountVars
<1>4. CASE Forbidden(r) /\ UNCHANGED <<accountVars, historyVars, published, tasks>>
  BY <1>0, <1>1, <1>4 DEF TypeOK, RequestTypes, HistoryTypes, FlowOf, HonestAnswer, Forbidden, Wait, Answer, Midway,
     Started, Done, Allowed, HasRole, historyVars, accountVars
<1>5. CASE Authenticated(r) /\ UNCHANGED <<accountVars, historyVars, published, tasks>>
  BY <1>0, <1>1, <1>5 DEF TypeOK, RequestTypes, HistoryTypes, FlowOf, HonestAnswer, Authenticated, Wait, Answer, Midway,
     Started, Done, Allowed, HasRole, historyVars, accountVars
<1>6. CASE Malformed(r) /\ UNCHANGED <<accountVars, historyVars, published, tasks>>
  BY <1>0, <1>1, <1>6 DEF TypeOK, RequestTypes, HistoryTypes, FlowOf, HonestAnswer, Malformed, Wait, Answer, Midway,
     Started, Done, Allowed, HasRole, historyVars, accountVars
<1>7. CASE RegisterBegins(r)
  BY <1>0, <1>1, <1>7 DEF TypeOK, RequestTypes, HistoryTypes, FlowOf, HonestAnswer, RegisterBegins, Wait, Answer, Midway,
     Started, Done, Allowed, HasRole, Fits, EventsOf, ReadOnly, Routes, Public, Protected, Handling, Read, Reads
<1>8. CASE LoginBegins(r)
  BY <1>0, <1>1, <1>8 DEF TypeOK, RequestTypes, HistoryTypes, FlowOf, HonestAnswer, LoginBegins, Wait, Answer, Midway,
     Started, Done, Allowed, HasRole, Fits, EventsOf, ReadOnly, Routes, Public, Protected, Handling, ReadAs, Read, Reads
<1>9. CASE ForgotBegins(r)
  BY <1>0, <1>1, <1>9 DEF TypeOK, RequestTypes, HistoryTypes, FlowOf, HonestAnswer, ForgotBegins, Wait, Answer, Midway,
     Started, Done, Allowed, HasRole, Fits, EventsOf, ReadOnly, Routes, Public, Protected, Handling, ReadAs, Read, Reads
<1>10. CASE ResetBegins(r)
  BY <1>0, <1>1, <1>10 DEF TypeOK, RequestTypes, HistoryTypes, FlowOf, HonestAnswer, ResetBegins, Wait, Answer, Midway,
     Started, Done, Allowed, HasRole, Fits, EventsOf, ReadOnly, Routes, Public, Protected, Handling, ReadAs, Read, Reads
<1>11. CASE UpdateBegins(r)
  BY <1>0, <1>1, <1>11 DEF TypeOK, RequestTypes, HistoryTypes, FlowOf, HonestAnswer, UpdateBegins, Wait, Answer, Midway,
     Started, Done, Allowed, HasRole, Fits, EventsOf, ReadOnly, Routes, Public, Protected, Handling, ReadAs, Read, Reads
<1>12. CASE Me(r)
  BY <1>0, <1>1, <1>12 DEF TypeOK, RequestTypes, HistoryTypes, FlowOf, HonestAnswer, Me, Wait, Answer, Midway,
     Started, Done, Allowed, HasRole, Fits, EventsOf, ReadOnly, Routes, Public, Protected, Handling, Read, Reads
<1>13. CASE PasswordMatches(r)
  <2>1. FlowOf(r)'
    BY <1>0, <1>1, <1>13 DEF TypeOK, RequestTypes, HistoryTypes, FlowOf, PasswordMatches, Wait, Answer, Midway,
       Started, Done, Allowed, HasRole, Fits, EventsOf, ReadOnly, Routes, Public, Protected, historyVars, accountVars
  <2>2. HonestAnswer(r)'
    BY <1>0, <1>1, <1>13 DEF TypeOK, RequestTypes, HistoryTypes, FlowOf, HonestAnswer, PasswordMatches, Wait, Answer, Midway,
       Started, Done, Allowed, HasRole, Fits, EventsOf, ReadOnly, Routes, Public, Protected, historyVars, accountVars
  <2>3. QED
    BY <2>1, <2>2
<1>14. CASE PasswordDiffers(r)
  BY <1>0, <1>1, <1>14 DEF TypeOK, RequestTypes, HistoryTypes, FlowOf, HonestAnswer, PasswordDiffers, Wait, Answer, Midway,
     Started, Done, Allowed, HasRole, Fits, EventsOf, ReadOnly, Routes, Public, Protected, historyVars, accountVars
<1>15. CASE Registers(r)
  BY <1>0, <1>1, <1>15 DEF TypeOK, RequestTypes, HistoryTypes, FlowOf, HonestAnswer, Registers, Wait, Answer, Midway,
     Started, Done, Allowed, HasRole, Fits, EventsOf, ReadOnly, Routes, Public, Protected, WritesIt, Writes
<1>16. CASE IssuesToken(r)
  <2>1. FlowOf(r)'
    BY <1>0, <1>1, <1>16 DEF TypeOK, RequestTypes, HistoryTypes, FlowOf, IssuesToken, Wait, Answer, Midway,
       Started, Done, Allowed, HasRole, Fits, EventsOf, ReadOnly, Routes, Public, Protected, WritesIt, Writes
  <2>2. HonestAnswer(r)'
    BY <1>0, <1>1, <1>16 DEF TypeOK, RequestTypes, HistoryTypes, FlowOf, HonestAnswer, IssuesToken, Wait, Answer, Midway,
       Started, Done, Allowed, HasRole, Fits, EventsOf, ReadOnly, Routes, Public, Protected, WritesIt, Writes
  <2>3. QED
    BY <2>1, <2>2
<1>17. CASE ChangesPassword(r)
  BY <1>0, <1>1, <1>17 DEF TypeOK, RequestTypes, HistoryTypes, FlowOf, HonestAnswer, ChangesPassword, Wait, Answer, Midway,
     Started, Done, Allowed, HasRole, Fits, EventsOf, ReadOnly, Routes, Public, Protected, WritesIt, Writes
<1>18. CASE GetTasks(r)
  BY <1>0, <1>1, <1>18 DEF TypeOK, RequestTypes, HistoryTypes, FlowOf, HonestAnswer, GetTasks, Wait, Answer, Midway,
     Started, Done, Allowed, HasRole, Fits, EventsOf, ReadOnly, Routes, Public, Protected, Handling, Reads, accountVars
<1>19. CASE CompleteBegins(r)
  BY <1>0, <1>1, <1>19 DEF TypeOK, RequestTypes, HistoryTypes, FlowOf, HonestAnswer, CompleteBegins, Wait, Answer, Midway,
     Started, Done, Allowed, HasRole, Fits, EventsOf, ReadOnly, Routes, Public, Protected, Handling, TaskRead, Reads, accountVars
<1>20. CASE DeleteBegins(r)
  <2>1. FlowOf(r)'
    BY <1>0, <1>1, <1>20 DEF TypeOK, RequestTypes, HistoryTypes, FlowOf, DeleteBegins, Wait, Answer, Midway,
       Started, Done, Allowed, HasRole, Fits, EventsOf, ReadOnly, Routes, Public, Protected, Handling, TaskRead, Reads, accountVars
  <2>2. HonestAnswer(r)'
    BY <1>0, <1>1, <1>20 DEF TypeOK, RequestTypes, HistoryTypes, FlowOf, HonestAnswer, DeleteBegins, Wait, Answer, Midway,
       Started, Done, Allowed, HasRole, Fits, EventsOf, ReadOnly, Routes, Public, Protected, Handling, TaskRead, Reads, accountVars
  <2>3. QED
    BY <2>1, <2>2
<1>21. CASE CreateTask(r)
  BY <1>0, <1>1, <1>21 DEF TypeOK, RequestTypes, HistoryTypes, FlowOf, HonestAnswer, CreateTask, Wait, Answer, Midway,
     Started, Done, Allowed, HasRole, Fits, EventsOf, ReadOnly, Routes, Public, Protected, Handling, TaskWritten, Writes, accountVars
<1>22. CASE Completes(r)
  <2>1. FlowOf(r)'
    BY <1>0, <1>1, <1>22 DEF TypeOK, RequestTypes, HistoryTypes, FlowOf, Completes, Wait, Answer, Midway,
       Started, Done, Allowed, HasRole, Fits, EventsOf, ReadOnly, Routes, Public, Protected, TaskWritten, Writes, accountVars
  <2>2. HonestAnswer(r)'
    BY <1>0, <1>1, <1>22 DEF TypeOK, RequestTypes, HistoryTypes, FlowOf, HonestAnswer, Completes, Wait, Answer, Midway,
       Started, Done, Allowed, HasRole, Fits, EventsOf, ReadOnly, Routes, Public, Protected, TaskWritten, Writes, accountVars
  <2>3. QED
    BY <2>1, <2>2
<1>23. CASE Deletes(r)
  BY <1>0, <1>1, <1>23 DEF TypeOK, RequestTypes, HistoryTypes, FlowOf, HonestAnswer, Deletes, Wait, Answer, Midway,
     Started, Done, Allowed, HasRole, Fits, EventsOf, ReadOnly, Routes, Public, Protected, TaskWritten, Writes, accountVars
<1>24. CASE Publishes(r)
  <2>1. FlowOf(r)'
    BY <1>0, <1>1, <1>24 DEF TypeOK, RequestTypes, HistoryTypes, FlowOf, Publishes, Wait, Answer, Midway,
       Started, Done, Allowed, HasRole, Fits, EventsOf, ReadOnly, Routes, Public, Protected, SuccessOf, historyVars, accountVars
  <2>2. HonestAnswer(r)'
    BY <1>0, <1>1, <1>24 DEF TypeOK, RequestTypes, HistoryTypes, FlowOf, HonestAnswer, Publishes, Wait, Answer, Midway,
       Started, Done, Allowed, HasRole, Fits, EventsOf, ReadOnly, Routes, Public, Protected, SuccessOf, historyVars, accountVars
  <2>3. QED
    BY <2>1, <2>2
<1>25. CASE Rejects(r) /\ UNCHANGED <<accountVars, historyVars, published, tasks>>
  BY <1>0, <1>1, <1>25 DEF TypeOK, RequestTypes, HistoryTypes, FlowOf, HonestAnswer, Rejects, Wait, Answer, Midway,
     Started, Done, Allowed, HasRole, Fits, EventsOf, ReadOnly, Routes, Public, Protected, historyVars, accountVars
<1>26. QED
  BY <1>2, <1>3, <1>4, <1>5, <1>6, <1>7, <1>8, <1>9, <1>10, <1>11, <1>12, <1>13, <1>14, <1>15, <1>16, <1>17, <1>18, <1>19, <1>20, <1>21, <1>22, <1>23, <1>24, <1>25 DEF Handle, PipelineStep, AccountsStep, TasksStep
-----------------------------------------------------------------------------

(***************************************************************************)
(* What a step that writes nothing leaves alone.                           *)
(***************************************************************************)
Settled ==
  \A q \in Requests :
    /\ savedAt'[q] = savedAt[q]
    /\ Done(q) => call'[q] = call[q] /\ held'[q] = held[q] /\ readAt'[q] = readAt[q]

LEMMA HistoryKept ==
  ASSUME Settled, NEW q \in Requests
  PROVE  /\ Done(q)' <=> Done(q)
         /\ \A user : Done(q) => (Changes(q, user)' <=> Changes(q, user))
         /\ \A user : Sets(q, user)' <=> Sets(q, user)
         /\ \A user : Latest(q, user)' <=> Latest(q, user)
         /\ \A user, password : \A last \in Requests : WroteBack(q, user, password, last)' <=> WroteBack(q, user, password, last)
         /\ Deleted(q)' <=> Deleted(q)
         /\ Deleted(q) => (Revived(q)' <=> Revived(q))
         /\ Issued(q)' = Issued(q)
<1>1. \A p \in Requests : Done(p)' <=> Done(p)
  BY DEF Settled, Done
<1>2. \A p \in Requests : \A user : Done(p) => (Changes(p, user)' <=> Changes(p, user))
  BY DEF Settled, Changes
<1>3. \A p \in Requests : \A user : Sets(p, user)' <=> Sets(p, user)
  BY <1>1, <1>2 DEF Settled, Sets
<1>4. \A user : Latest(q, user)' <=> Latest(q, user)
  BY <1>3 DEF Settled, Latest
<1>5. \A user, password : \A last \in Requests : WroteBack(q, user, password, last)' <=> WroteBack(q, user, password, last)
  BY <1>1 DEF Settled, WroteBack
<1>6. Deleted(q)' <=> Deleted(q)
  BY <1>1 DEF Settled, Deleted
<1>7. Deleted(q) => (Revived(q)' <=> Revived(q))
  BY <1>1 DEF Settled, Revived, Deleted
<1>8. Issued(q)' = Issued(q)
  BY DEF Settled, Issued
<1>9. QED
  BY <1>1, <1>2, <1>3, <1>4, <1>5, <1>6, <1>7, <1>8

LEMMA Undisturbed ==
  ASSUME IInv, Settled, UNCHANGED <<users, tasks>>
  PROVE  /\ StoredIsRegistered' /\ EarlierComeFirst' /\ EmailOnce' /\ TokenIsNewest' /\ PasswordCurrent'
         /\ TaskWasCreated' /\ DeletedStaysDeleted'
<1>1. StoredIsRegistered' /\ EarlierComeFirst'
  BY DEF IInv, StoredIsRegistered, EarlierComeFirst, Settled, Done
<1>2. EmailOnce'
  <2>1. ASSUME NEW i \in DOMAIN users, NEW j \in DOMAIN users, i < j, users[i].email = users[j].email
        PROVE  users[i].id \in Requests /\ readAt'[users[j].id] < savedAt'[users[i].id]
    <3>1. users[i].id \in Requests /\ readAt[users[j].id] < savedAt[users[i].id]
      BY <2>1 DEF IInv, EmailOnce
    <3>2. users[j].id \in Requests
      BY <2>1, <3>1 DEF IInv, EarlierComeFirst
    <3>3. Done(users[j].id)
      BY <3>2 DEF IInv, StoredIsRegistered
    <3>4. QED
      BY <3>1, <3>2, <3>3 DEF Settled
  <2>2. QED
    BY <2>1 DEF EmailOnce
<1>3. TokenIsNewest'
  BY HistoryKept DEF IInv, TokenIsNewest, Settled, Issued
<1>4. PasswordCurrent'
  BY HistoryKept DEF IInv, PasswordCurrent
<1>5. TaskWasCreated'
  BY HistoryKept DEF IInv, TaskWasCreated
<1>6. DeletedStaysDeleted'
  BY HistoryKept DEF IInv, DeletedStaysDeleted, Settled, Deleted
<1>7. QED
  BY <1>1, <1>2, <1>3, <1>4, <1>5, <1>6
-----------------------------------------------------------------------------

(***************************************************************************)
(* What every step does to the store and its history: a write is numbered  *)
(* after all before it and never taken back, a user stays and keeps its id *)
(* and address, a new one is the request that has just saved it.           *)
(***************************************************************************)
Advances ==
  /\ \A q \in Requests : Done(q) =>
       /\ savedAt'[q] = savedAt[q] /\ call'[q] = call[q]
       /\ held'[q] = held[q] /\ readAt'[q] = readAt[q]
  /\ \A q \in Requests : ~ Done(q) /\ Done(q)' => writes < savedAt'[q]
  /\ \A i \in DOMAIN users :
       /\ i \in DOMAIN users'
       /\ users'[i].id = users[i].id /\ users'[i].email = users[i].email
  /\ \A i \in DOMAIN users' \ DOMAIN users :
       \E q \in Requests : users'[i].id = q /\ ~ Done(q) /\ Done(q)'

\* The steps of r that write nothing; those that do are the others.
Idle(r) ==
  /\ ~ Registers(r) /\ ~ IssuesToken(r) /\ ~ ChangesPassword(r)
  /\ ~ CreateTask(r) /\ ~ Completes(r) /\ ~ Deletes(r)

LEMMA IdleSettles ==
  ASSUME IInv, NEW r \in Requests, Handle(r), Idle(r)
  PROVE  Settled /\ UNCHANGED <<users, tasks>>
<1>1. UNCHANGED <<users, tasks>>
  BY DEF Idle, Handle, accountVars, AccountsStep, TasksStep, RegisterBegins, LoginBegins, ForgotBegins,
         ResetBegins, UpdateBegins, PasswordMatches, PasswordDiffers, Me, ReadAs, Read,
         GetTasks, CompleteBegins, DeleteBegins, Publishes, TaskRead
<1>2. UNCHANGED savedAt
  BY DEF Idle, Handle, historyVars, AccountsStep, TasksStep, RegisterBegins, LoginBegins, ForgotBegins,
         ResetBegins, UpdateBegins, PasswordMatches, PasswordDiffers, Me, ReadAs, Read, Reads,
         GetTasks, CompleteBegins, DeleteBegins, Publishes, TaskRead
<1>3. TypeOK /\ FlowOf(r)
  BY DEF IInv, Flow
<1>4. ASSUME Done(r) PROVE call'[r] = call[r] /\ held'[r] = held[r] /\ readAt'[r] = readAt[r]
  <2>1. pc[r] \in {"publishing", "answered"}
    BY <1>3, <1>4 DEF FlowOf
  <2>2. Publishes(r)
    BY <2>1 DEF Idle, Handle, PipelineStep, Arrive, Unauthenticated, Forbidden, Authenticated, Malformed, Rejects,
           AccountsStep, TasksStep, RegisterBegins, LoginBegins, ForgotBegins, Handling,
           ResetBegins, UpdateBegins, PasswordMatches, PasswordDiffers, Me, GetTasks, CompleteBegins, DeleteBegins
  <2>3. QED
    BY <2>2 DEF Publishes, Wait, Answer, accountVars, historyVars
<1>5. \A q \in Requests \ {r} : Same(q)
  BY <1>3, OthersKeep
<1>6. QED
  BY <1>1, <1>2, <1>4, <1>5 DEF Settled, Same

LEMMA WritingStep ==
  ASSUME IInv, NEW r \in Requests, Handle(r), ~ Idle(r)
  PROVE  /\ ~ Done(r) /\ savedAt'[r] = writes + 1
         /\ call'[r] = call[r] /\ held'[r] = held[r] /\ readAt'[r] = readAt[r]
         /\ pc'[r] \in {"publishing", "answered"}
         /\ Midway(r) \/ CreateTask(r)
         /\ call[r] \in Calls /\ call[r].wellFormed
<1>1. TypeOK /\ FlowOf(r)
  BY DEF IInv, Flow
<1>2. pc[r] \notin {"publishing", "answered", "expected"}
  BY DEF Idle, Registers, IssuesToken, ChangesPassword, CreateTask, Completes, Deletes, Handling
<1>3. Writes(r) /\ UNCHANGED <<call, held>>
  BY DEF Idle, Registers, IssuesToken, ChangesPassword, CreateTask, Completes, Deletes, WritesIt, TaskWritten,
         accountVars, Wait, Answer
<1>4. Wait(r, "publishing") \/ Answer(r, 204)
  BY DEF Idle, Registers, IssuesToken, ChangesPassword, CreateTask, Completes, Deletes
<1>5. Midway(r) \/ CreateTask(r)
  BY DEF Idle, Registers, IssuesToken, ChangesPassword, Completes, Deletes, Midway
<1>6. call[r].wellFormed
  BY <1>1, <1>5 DEF FlowOf, CreateTask, Handling
<1>7. QED
  BY <1>1, <1>2, <1>3, <1>4, <1>5, <1>6 DEF Writes, TypeOK, RequestTypes, HistoryTypes, FlowOf, Wait, Answer

LEMMA StepAdvances ==
  ASSUME IInv, NEW r \in Requests, Handle(r)
  PROVE  Advances
<1>1. CASE Idle(r)
  BY <1>1, IdleSettles DEF Settled, Advances, Done
<1>2. CASE ~ Idle(r)
  <2>0. TypeOK
    BY DEF IInv
  <2>1. \A q \in Requests \ {r} : Same(q)
    BY <2>0, OthersKeep
  <2>2. ~ Done(r) /\ savedAt'[r] = writes + 1
    BY <1>2, WritingStep
  <2>3. /\ \A q \in Requests : Done(q) =>
             /\ savedAt'[q] = savedAt[q] /\ call'[q] = call[q]
             /\ held'[q] = held[q] /\ readAt'[q] = readAt[q]
        /\ \A q \in Requests : ~ Done(q) /\ Done(q)' => writes < savedAt'[q]
    BY <2>0, <2>1, <2>2 DEF Same, Done, TypeOK, HistoryTypes
  <2>4. Done(r)'
    BY <2>0, <2>2 DEF Done, TypeOK, HistoryTypes
  <2>5. CASE Registers(r)
    <3>1. Adds(NewUser(r)) /\ NewUser(r).id = r
      BY <2>5, RegisterAdds DEF NewUser
    <3>2. QED
      BY <2>2, <2>3, <2>4, <3>1 DEF Adds, Advances
  <2>6. CASE IssuesToken(r) \/ ChangesPassword(r)
    <3>1. \E u : Replaces(u)
      BY <2>6, IssueReplaces, PasswordReplaces
    <3>2. QED
      BY <2>3, <3>1 DEF Replaces, Advances
  <2>7. CASE CreateTask(r) \/ Completes(r) \/ Deletes(r)
    <3>1. UNCHANGED users
      BY <2>7 DEF CreateTask, Completes, Deletes, TaskWritten, accountVars
    <3>2. QED
      BY <2>3, <3>1 DEF Advances
  <2>8. QED
    BY <1>2, <2>5, <2>6, <2>7 DEF Idle
<1>3. QED
  BY <1>1, <1>2

LEMMA HistoryAdvances ==
  ASSUME Advances, NEW q \in Requests, Done(q)
  PROVE  /\ Done(q)' /\ savedAt'[q] = savedAt[q]
         /\ \A user : Changes(q, user)' <=> Changes(q, user)
         /\ \A user : Latest(q, user)' => Latest(q, user)
         /\ \A f \in Requests : \A user, password :
              WroteBack(f, user, password, q) => WroteBack(f, user, password, q)'
         /\ Deleted(q)' <=> Deleted(q)
         /\ Deleted(q) /\ Revived(q) => Revived(q)'
<1>1. \A p \in Requests : Done(p) => Done(p)'
  BY DEF Advances, Done
<1>2. \A p \in Requests : \A user : Done(p) => (Changes(p, user)' <=> Changes(p, user))
  BY DEF Advances, Changes
<1>3. \A p \in Requests : \A user : Sets(p, user) => Sets(p, user)'
  BY <1>1, <1>2 DEF Advances, Sets
<1>4. \A user : Sets(q, user)' => Sets(q, user)
  BY <1>2 DEF Advances, Sets
<1>5. ASSUME NEW user, Latest(q, user)' PROVE Latest(q, user)
  <2>1. Sets(q, user)
    BY <1>4, <1>5 DEF Latest
  <2>2. ASSUME NEW p \in Requests, Sets(p, user) PROVE savedAt[p] <= savedAt[q]
    <3>1. Done(p) /\ savedAt'[p] <= savedAt'[q]
      BY <1>3, <1>5, <2>2 DEF Latest, Sets
    <3>2. QED
      BY <3>1 DEF Advances
  <2>3. QED
    BY <2>1, <2>2 DEF Latest
<1>6. ASSUME NEW f \in Requests, NEW user, NEW password, WroteBack(f, user, password, q)
      PROVE  WroteBack(f, user, password, q)'
  BY <1>1, <1>6 DEF WroteBack, Advances
<1>7. Deleted(q)' <=> Deleted(q)
  BY <1>1 DEF Deleted, Advances
<1>8. Deleted(q) /\ Revived(q) => Revived(q)'
  BY <1>1 DEF Deleted, Revived, Advances
<1>9. Done(q)' /\ savedAt'[q] = savedAt[q]
  BY <1>1 DEF Advances
<1>10. QED
  BY <1>2, <1>5, <1>6, <1>7, <1>8, <1>9

(***************************************************************************)
(* A request that reads nothing goes on with what it knows, whatever is    *)
(* written meanwhile.                                                      *)
(***************************************************************************)
Carries(q) ==
  /\ held'[q] = held[q]
  /\ Reader(q)' => /\ call'[q] = call[q] /\ readAt'[q] = readAt[q]
                   /\ Reader(q) \/ call[q].route = "createTask"
  /\ pc'[q] \in {"issuing", "completing"} => pc'[q] = pc[q]
  /\ pc'[q] = "hashing" /\ call'[q].route = "register" => pc[q] = "hashing"

LEMMA KnowledgeLasts ==
  ASSUME IInv, TypeOK', Advances, NEW q \in Requests, Carries(q)
  PROVE  Knows(q)'
<1>1. Knows(q) /\ TypeOK /\ readAt[q] \in Nat /\ readAt[q] <= writes /\ writes \in Nat
  BY DEF IInv, Knowledge, TypeOK, HistoryTypes
<1>2. \A p \in Requests : savedAt'[p] \in Nat /\ savedAt[p] \in Nat
  BY <1>1 DEF TypeOK, HistoryTypes
<1>3. \A p \in Requests : ~ Done(p) /\ Done(p)' => readAt[q] < savedAt'[p]
  BY <1>1, <1>2 DEF Advances
<1>4. HasRead(q)'
  BY <1>1 DEF Knows, HasRead, Carries, Changer
<1>5. HeldIsStored(q)'
  BY <1>1 DEF Knows, HeldIsStored, Carries, Advances
<1>6. FreeWhenRead(q)'
  <2> SUFFICES ASSUME pc'[q] = "hashing", call'[q].route = "register",
                      NEW i \in DOMAIN users', users'[i].email = call'[q].about
               PROVE  users'[i].id \in Requests /\ readAt'[q] < savedAt'[users'[i].id]
    BY DEF FreeWhenRead
  <2>1. pc[q] = "hashing" /\ call'[q] = call[q] /\ readAt'[q] = readAt[q]
    BY DEF Carries, Reader, Midway
  <2>2. CASE i \in DOMAIN users
    <3>1. users[i].id \in Requests /\ readAt[q] < savedAt[users[i].id] /\ users'[i].id = users[i].id
      BY <1>1, <2>1, <2>2 DEF Knows, FreeWhenRead, Advances
    <3>2. Done(users[i].id)
      BY <2>2, <3>1 DEF IInv, StoredIsRegistered
    <3>3. QED
      BY <2>1, <3>1, <3>2 DEF Advances
  <2>3. CASE i \notin DOMAIN users
    BY <1>3, <2>1, <2>3 DEF Advances
  <2>4. QED
    BY <2>2, <2>3
<1>7. ResetIsFresh(q)'
  <2> SUFFICES ASSUME Reader(q)', call'[q].route = "resetPassword"
               PROVE  ResetIsFresh(q)'
    BY DEF ResetIsFresh
  <2>1. Reader(q) /\ call'[q] = call[q] /\ readAt'[q] = readAt[q] /\ held'[q] = held[q]
    BY DEF Carries
  <2>2. call[q].about \in Requests => Done(call[q].about)
    BY <1>1, <2>1 DEF Knows, ResetIsFresh
  <2>3. Issued(call[q].about)' = Issued(call[q].about)
    BY <2>1, <2>2 DEF Issued, Advances
  <2>4. ASSUME NEW w \in Requests, Done(w)', Changes(w, held[q].id)', Issued(call[q].about)' < savedAt'[w]
        PROVE  readAt'[q] < savedAt'[w]
    <3>1. CASE Done(w)
      <4>1. Changes(w, held[q].id) /\ savedAt'[w] = savedAt[w]
        BY <2>1, <2>4, <3>1 DEF Changes, Advances
      <4>2. QED
        BY <1>1, <2>1, <2>3, <2>4, <3>1, <4>1 DEF Knows, ResetIsFresh
    <3>2. CASE ~ Done(w)
      BY <1>3, <2>1, <2>4, <3>2
    <3>3. QED
      BY <3>1, <3>2
  <2>5. call'[q].about \in Requests => Done(call[q].about)'
    BY <2>1, <2>2 DEF Done, Advances
  <2>6. QED
    BY <2>4, <2>5 DEF ResetIsFresh
<1>8. CopyIsCurrent(q)'
  <2> SUFFICES ASSUME NEW last \in Requests, pc'[q] = "issuing", Latest(last, held[q].id)',
                      ~ (readAt'[q] < savedAt'[last])
               PROVE  \/ held'[q].password = last
                      \/ \E f \in Requests : WroteBack(f, held[q].id, held[q].password, last)'
    BY DEF CopyIsCurrent
  <2>1. pc[q] = "issuing" /\ readAt'[q] = readAt[q] /\ held'[q] = held[q]
    BY DEF Carries, Reader, Midway
  <2>2. Done(last)
    BY <1>3, <2>1 DEF Latest, Sets
  <2>3. PICK user, password : user = held[q].id /\ password = held[q].password
    OBVIOUS
  <2>4. Latest(last, user)'
    BY <2>1, <2>3 DEF Latest, Sets, Changes
  <2>5. Latest(last, user) /\ savedAt'[last] = savedAt[last]
    BY <2>2, <2>4, HistoryAdvances
  <2>6. password = last \/ \E f \in Requests : WroteBack(f, user, password, last)
    BY <1>1, <2>1, <2>3, <2>5 DEF Knows, CopyIsCurrent
  <2>7. password = last \/ \E f \in Requests : WroteBack(f, user, password, last)'
    BY <2>2, <2>6, HistoryAdvances
  <2>8. QED
    BY <2>1, <2>3, <2>7 DEF WroteBack
<1>9. TaskWasFound(q)'
  BY <1>1, HistoryAdvances DEF Knows, TaskWasFound, Carries
<1>10. CompletionIsFresh(q)'
  <2> SUFFICES ASSUME NEW d \in Requests, pc'[q] = "completing", Deleted(d)', call'[d].about = call'[q].about
               PROVE  readAt'[q] < savedAt'[d] \/ Revived(d)'
    BY DEF CompletionIsFresh
  <2>1. pc[q] = "completing" /\ call'[q] = call[q] /\ readAt'[q] = readAt[q]
    BY DEF Carries, Reader, Midway
  <2>2. Done(d)'
    BY DEF Deleted
  <2>3. CASE Done(d)
    <3>1. Deleted(d) /\ call'[d] = call[d] /\ savedAt'[d] = savedAt[d]
      BY <2>3, HistoryAdvances DEF Advances
    <3>2. QED
      BY <1>1, <2>1, <2>3, <3>1, HistoryAdvances DEF Knows, CompletionIsFresh
  <2>4. CASE ~ Done(d)
    BY <1>3, <2>1, <2>2, <2>4
  <2>5. QED
    BY <2>3, <2>4
<1>11. QED
  BY <1>4, <1>5, <1>6, <1>7, <1>8, <1>9, <1>10 DEF Knows

(***************************************************************************)
(* A request that reads learns what the store holds.                       *)
(***************************************************************************)
Reading(r) ==
  \/ RegisterBegins(r) \/ LoginBegins(r) \/ ForgotBegins(r) \/ ResetBegins(r)
  \/ UpdateBegins(r) \/ Me(r) \/ CompleteBegins(r) \/ DeleteBegins(r)

LEMMA CarriesUnlessReading ==
  ASSUME IInv, NEW r \in Requests, Handle(r), ~ Reading(r)
  PROVE  Carries(r)
<1>0. TypeOK /\ FlowOf(r)
  BY DEF IInv, Flow
<1>1. CASE PipelineStep(r) /\ UNCHANGED <<accountVars, historyVars, published, tasks>>
  <2>1. ~ Reader(r)'
    BY <1>0, <1>1 DEF PipelineStep, Arrive, Unauthenticated, Forbidden, Authenticated, Malformed, Rejects, Wait, Answer,
       accountVars, historyVars, FlowOf, Done, Midway, Reader, TypeOK, RequestTypes
  <2>2. pc'[r] \notin {"issuing", "completing", "hashing"}
    BY <2>1 DEF Reader, Midway
  <2>3. QED
    BY <1>1, <2>1, <2>2 DEF Carries, accountVars
<1>2. CASE ~ Idle(r)
  <2>1. pc'[r] \in {"publishing", "answered"} /\ call'[r] = call[r] /\ held'[r] = held[r] /\ readAt'[r] = readAt[r]
    BY <1>2, WritingStep
  <2>2. Reader(r) \/ call[r].route = "createTask"
    BY <1>2, WritingStep DEF Reader, CreateTask, Handling
  <2>3. QED
    BY <2>1, <2>2 DEF Carries
<1>3. CASE PasswordMatches(r) \/ PasswordDiffers(r)
  BY <1>0, <1>3 DEF PasswordMatches, PasswordDiffers, Wait, Answer, accountVars, historyVars, Carries, Reader, Midway,
     FlowOf, Fits, TypeOK, RequestTypes
<1>4. CASE GetTasks(r)
  BY <1>0, <1>4 DEF GetTasks, Handling, Answer, Reads, accountVars, Carries, Reader, Midway, Done, FlowOf, TypeOK, RequestTypes
<1>5. CASE Publishes(r)
  BY <1>0, <1>5 DEF Publishes, Wait, Answer, accountVars, historyVars, Carries, Reader, Midway,
     FlowOf, TypeOK, RequestTypes
<1>6. QED
  BY <1>1, <1>2, <1>3, <1>4, <1>5 DEF Handle, AccountsStep, TasksStep, Idle, Reading

LEMMA FindsStored ==
  ASSUME IInv, NEW r \in Requests, NEW found,
         \E id : found \in {ById(id), ByEmail(id), ByResetToken(id)},
         Read(r, found)
  PROVE  /\ held'[r] = found /\ readAt'[r] = writes
         /\ found # None => \E i \in DOMAIN users : found = users[i]
         /\ UNCHANGED users
<1>1. TypeOK
  BY DEF IInv
<1>2. \E hits \in SUBSET DOMAIN users : found = First(hits)
  BY DEF ById, ByEmail, ByResetToken
<1>3. found # None => \E i \in DOMAIN users : found = users[i]
  BY <1>1, <1>2, FirstIsMatch
<1>4. QED
  BY <1>1, <1>3 DEF Read, Reads, TypeOK, HistoryTypes

\* The first read of a request: it has not written, and writes nothing now.
LEMMA ReadingSettles ==
  ASSUME IInv, NEW r \in Requests, Handle(r), Reading(r)
  PROVE  /\ Settled /\ UNCHANGED <<users, tasks>>
         /\ call'[r] = call[r] /\ call[r] \in Calls /\ call[r].wellFormed
         /\ ~ Done(r) /\ ~ Done(r)' /\ readAt'[r] = writes /\ pc'[r] # "publishing"
<1>1. pc[r] = "handling" /\ Idle(r)
  BY DEF Reading, RegisterBegins, LoginBegins, ForgotBegins, ResetBegins, UpdateBegins, Me, CompleteBegins,
         DeleteBegins, Handling, Idle, Registers, IssuesToken, ChangesPassword, CreateTask, Completes, Deletes
<1>2. TypeOK /\ FlowOf(r)
  BY DEF IInv, Flow
<1>3. Settled /\ UNCHANGED <<users, tasks>>
  BY <1>1, IdleSettles
<1>4. ~ Done(r) /\ ~ Done(r)' /\ call[r] \in Calls
  BY <1>1, <1>2, <1>3 DEF FlowOf, Settled, Done
<1>5. Reads(r) /\ UNCHANGED call /\ call[r].wellFormed /\ pc'[r] # "publishing"
  BY <1>2 DEF Reading, RegisterBegins, LoginBegins, ForgotBegins, ResetBegins, UpdateBegins, Me, CompleteBegins,
         DeleteBegins, Handling, ReadAs, Read, TaskRead, Wait, Answer, TypeOK, RequestTypes
<1>6. QED
  BY <1>2, <1>3, <1>4, <1>5 DEF Reads, TypeOK, HistoryTypes

LEMMA ReadingHeld ==
  ASSUME IInv, NEW r \in Requests, Handle(r), Reading(r)
  PROVE  HeldIsStored(r)'
<1>1. UNCHANGED users /\ Knows(r)
  BY ReadingSettles DEF IInv, Knowledge
<1>2. CASE UNCHANGED held
  BY <1>1, <1>2 DEF Knows, HeldIsStored
<1>3. CASE UNCHANGED held => FALSE
  <2>1. \E found : /\ \E id : found \in {ById(id), ByEmail(id), ByResetToken(id)}
                   /\ Read(r, found)
    BY <1>3 DEF Reading, RegisterBegins, LoginBegins, ForgotBegins, ResetBegins, UpdateBegins, Me, CompleteBegins,
         DeleteBegins, ReadAs, TaskRead, accountVars
  <2>2. held'[r] # None => \E i \in DOMAIN users : held'[r] = users[i]
    BY <2>1, FindsStored
  <2>3. QED
    BY <1>1, <2>2 DEF HeldIsStored
<1>4. QED
  BY <1>2, <1>3

LEMMA RegisterBeginsKnows ==
  ASSUME IInv, NEW r \in Requests, RegisterBegins(r), Handle(r)
  PROVE  FreeWhenRead(r)'
<1>1. TypeOK /\ UNCHANGED users /\ call'[r] = call[r]
  BY ReadingSettles DEF Reading, IInv
<1>2. CASE ByEmail(call[r].about) = None
  <2>1. {i \in DOMAIN users : users[i].email = call[r].about} = {}
    BY <1>1, <1>2, FirstIsMatch DEF ByEmail
  <2>2. QED
    BY <1>1, <2>1 DEF FreeWhenRead
<1>3. CASE ByEmail(call[r].about) # None
  BY <1>1, <1>3 DEF RegisterBegins, Answer, FreeWhenRead, TypeOK, RequestTypes
<1>4. QED
  BY <1>2, <1>3

LEMMA ResetBeginsKnows ==
  ASSUME IInv, NEW r \in Requests, ResetBegins(r), Handle(r)
  PROVE  HasRead(r)' /\ ResetIsFresh(r)'
<1> DEFINE found == ByResetToken(call[r].about)
           hits == {i \in DOMAIN users : users[i].token = call[r].about}
<1>1. /\ TypeOK /\ Settled /\ ~ Done(r)' /\ UNCHANGED users /\ call'[r] = call[r]
      /\ call[r] \in Calls /\ call[r].wellFormed /\ call[r].route = "resetPassword"
  BY ReadingSettles DEF Reading, IInv, ResetBegins, Handling
<1>2. held'[r] = found
  BY FindsStored DEF ResetBegins, ReadAs
<1>3. CASE found = None
  BY <1>1, <1>3 DEF ResetBegins, ReadAs, Answer, HasRead, ResetIsFresh, Reader, Midway, TypeOK, RequestTypes
<1>4. CASE found # None
  <2>1. PICK i \in hits : found = users[i]
    BY <1>1, <1>4, FirstIsMatch DEF ByResetToken
  <2>2. users[i].token = call[r].about /\ call[r].about # None
    BY <1>1, <2>1, WebAssumption
  <2>3. /\ call[r].about \in Requests => Done(call[r].about)
        /\ \A w \in Requests : Done(w) /\ Changes(w, users[i].id) => savedAt[w] <= Issued(call[r].about)
    BY <2>1, <2>2 DEF IInv, TokenIsNewest
  <2>4. ASSUME NEW w \in Requests, Done(w)', Changes(w, held[r].id)', Issued(call[r].about)' < savedAt'[w]
        PROVE  FALSE
    <3>1. Done(w) /\ Changes(w, users[i].id) /\ savedAt'[w] = savedAt[w]
      BY <1>1, <1>2, <2>1, <2>4 DEF Settled, Done, Changes
    <3>2. Issued(call[r].about)' = Issued(call[r].about)
      BY <1>1 DEF Issued, Settled
    <3>3. Issued(call[r].about) \in Nat /\ savedAt[w] \in Nat
      BY <1>1 DEF TypeOK, HistoryTypes, Issued
    <3>4. QED
      BY <2>3, <2>4, <3>1, <3>2, <3>3
  <2>5. call'[r].about \in Requests => Done(call[r].about)'
    BY <1>1, <2>3 DEF Settled, Done
  <2>6. ResetIsFresh(r)'
    BY <2>4, <2>5 DEF ResetIsFresh
  <2>7. QED
    BY <1>2, <1>4, <2>6 DEF HasRead
<1>5. QED
  BY <1>3, <1>4

LEMMA ForgotBeginsKnows ==
  ASSUME IInv, NEW r \in Requests, ForgotBegins(r), Handle(r)
  PROVE  HasRead(r)' /\ CopyIsCurrent(r)'
<1> DEFINE found == ByEmail(call[r].about)
           hits == {i \in DOMAIN users : users[i].email = call[r].about}
<1>1. TypeOK /\ Settled /\ ~ Done(r)' /\ UNCHANGED users
  BY ReadingSettles DEF Reading, IInv
<1>2. held'[r] = found
  BY FindsStored DEF ForgotBegins, ReadAs
<1>3. CASE found = None
  BY <1>1, <1>3 DEF ForgotBegins, ReadAs, Answer, HasRead, CopyIsCurrent, Reader, Midway, TypeOK, RequestTypes
<1>4. CASE found # None
  <2>1. PICK i \in hits : found = users[i]
    BY <1>1, <1>4, FirstIsMatch DEF ByEmail
  <2>2. ASSUME NEW last \in Requests, Latest(last, held[r].id)'
        PROVE  \/ held'[r].password = last
               \/ \E f \in Requests : WroteBack(f, held[r].id, held[r].password, last)'
    <3>1. PICK user, password : user = users[i].id /\ password = users[i].password
      OBVIOUS
    <3>2. Latest(last, user)'
      BY <1>2, <2>1, <2>2, <3>1 DEF Latest, Sets, Changes
    <3>3. Latest(last, user)
      BY <1>1, <3>2, HistoryKept
    <3>4. password = last \/ \E f \in Requests : WroteBack(f, user, password, last)
      BY <2>1, <3>1, <3>3 DEF IInv, PasswordCurrent
    <3>5. password = last \/ \E f \in Requests : WroteBack(f, user, password, last)'
      BY <1>1, <3>4, HistoryKept
    <3>6. QED
      BY <1>2, <2>1, <3>1, <3>5 DEF WroteBack
  <2>3. QED
    BY <1>2, <1>4, <2>2 DEF HasRead, CopyIsCurrent
<1>5. QED
  BY <1>3, <1>4

LEMMA TaskReadKnows ==
  ASSUME IInv, NEW r \in Requests, CompleteBegins(r) \/ DeleteBegins(r), Handle(r)
  PROVE  TaskWasFound(r)' /\ CompletionIsFresh(r)'
<1>1. /\ TypeOK /\ Settled /\ ~ Done(r)' /\ UNCHANGED tasks /\ call'[r] = call[r]
      /\ call[r].route \in {"completeTask", "deleteTask"}
  BY ReadingSettles DEF Reading, IInv, CompleteBegins, DeleteBegins, Handling
<1>2. CASE ~ Found(r)
  BY <1>1, <1>2 DEF CompleteBegins, DeleteBegins, TaskRead, Answer, TaskWasFound, CompletionIsFresh, Reader, Midway,
     TypeOK, RequestTypes
<1>3. CASE Found(r)
  <2>1. call[r].about \in Requests => Done(call[r].about)
    BY <1>3 DEF Found, IInv, TaskWasCreated
  <2>2. TaskWasFound(r)'
    BY <1>1, <2>1 DEF TaskWasFound, Settled, Done
  <2>3. ASSUME NEW d \in Requests, Deleted(d)', call'[d].about = call'[r].about
        PROVE  Revived(d)'
    <3>1. Deleted(d) /\ call[d].about = call[r].about
      BY <1>1, <2>3, HistoryKept DEF Settled, Deleted
    <3>2. Revived(d)
      BY <1>3, <3>1 DEF Found, IInv, DeletedStaysDeleted
    <3>3. QED
      BY <1>1, <3>1, <3>2, HistoryKept
  <2>4. QED
    BY <2>2, <2>3 DEF CompletionIsFresh
<1>4. QED
  BY <1>2, <1>3

LEMMA KnowledgeStep ==
  ASSUME IInv, TypeOK', NEW r \in Requests, Handle(r)
  PROVE  Knowledge'
<1>0. TypeOK /\ Advances
  BY StepAdvances DEF IInv
<1>1. ASSUME NEW q \in Requests \ {r} PROVE Knows(q)'
  <2>1. Carries(q)
    BY <1>0, OthersKeep DEF Same, Carries, Reader, Midway, Done
  <2>2. QED
    BY <1>0, <2>1, KnowledgeLasts
<1>2. CASE ~ Reading(r)
  BY <1>0, <1>1, <1>2, CarriesUnlessReading, KnowledgeLasts DEF Knowledge
<1>3. CASE Reading(r)
  <2> SUFFICES Knows(r)'
    BY <1>1 DEF Knowledge
  <2>0. call'[r] = call[r] /\ ~ Done(r)' /\ HeldIsStored(r)' /\ pc'[r] # "publishing"
    BY <1>3, ReadingSettles, ReadingHeld
  <2>1. CASE RegisterBegins(r)
    <3>1. call[r].route = "register" /\ pc'[r] \in {"hashing", "answered"}
      BY <1>0, <2>1 DEF RegisterBegins, Handling, Wait, Answer, TypeOK, RequestTypes
    <3>2. QED
      BY <2>0, <2>1, <3>1, RegisterBeginsKnows DEF Knows, HasRead, ResetIsFresh, CopyIsCurrent, TaskWasFound,
         CompletionIsFresh, Changer
  <2>2. CASE ResetBegins(r)
    <3>1. call[r].route = "resetPassword" /\ pc'[r] \in {"hashing", "answered"}
      BY <1>0, <2>2 DEF ResetBegins, ReadAs, Handling, Wait, Answer, TypeOK, RequestTypes
    <3>2. QED
      BY <2>0, <2>2, <3>1, ResetBeginsKnows DEF Knows, FreeWhenRead, CopyIsCurrent, TaskWasFound, CompletionIsFresh
  <2>3. CASE ForgotBegins(r)
    <3>1. call[r].route = "forgotPassword" /\ pc'[r] \in {"issuing", "answered"}
      BY <1>0, <2>3 DEF ForgotBegins, ReadAs, Handling, Wait, Answer, TypeOK, RequestTypes
    <3>2. QED
      BY <2>0, <2>3, <3>1, ForgotBeginsKnows DEF Knows, FreeWhenRead, ResetIsFresh, TaskWasFound, CompletionIsFresh
  <2>4. CASE LoginBegins(r) \/ Me(r) \/ UpdateBegins(r)
    <3>1. /\ call[r].route \in {"login", "me", "updatePassword"} /\ pc'[r] \in {"verifying", "answered"}
          /\ held'[r] = None => pc'[r] = "answered"
      BY <1>0, <2>4 DEF LoginBegins, Me, UpdateBegins, Read, ReadAs, Handling, Wait, Answer, TypeOK, RequestTypes
    <3>2. QED
      BY <2>0, <3>1 DEF Knows, HasRead, FreeWhenRead, ResetIsFresh, CopyIsCurrent, TaskWasFound, CompletionIsFresh,
         Reader, Midway
  <2>5. CASE CompleteBegins(r) \/ DeleteBegins(r)
    <3>1. call[r].route \in {"completeTask", "deleteTask"} /\ pc'[r] \in {"completing", "deleting", "answered"}
      BY <1>0, <2>5 DEF CompleteBegins, DeleteBegins, TaskRead, Handling, Wait, Answer, TypeOK, RequestTypes
    <3>2. QED
      BY <2>0, <2>5, <3>1, TaskReadKnows DEF Knows, HasRead, FreeWhenRead, ResetIsFresh, CopyIsCurrent, Changer
  <2>6. QED
    BY <1>3, <2>1, <2>2, <2>3, <2>4, <2>5 DEF Reading
<1>4. QED
  BY <1>2, <1>3
-----------------------------------------------------------------------------

(***************************************************************************)
(* What the invariants say of one stored user, kept by writes of others.   *)
(***************************************************************************)
TokenNewestAt(i) == LET t == users[i].token IN t # None =>
  /\ t \in Requests => Done(t)
  /\ \A w \in Requests : Done(w) /\ Changes(w, users[i].id) => savedAt[w] <= Issued(t)

PasswordCurrentAt(i) == \A last \in Requests : Latest(last, users[i].id) =>
  \/ users[i].password = last
  \/ \E f \in Requests : WroteBack(f, users[i].id, users[i].password, last)

Untouched(i) ==
  /\ i \in DOMAIN users /\ i \in DOMAIN users' /\ users'[i] = users[i]
  /\ \A w \in Requests : ~ Done(w) /\ Done(w)' => ~ Changes(w, users[i].id)'

LEMMA UntouchedKept ==
  ASSUME IInv, Advances, NEW i, Untouched(i)
  PROVE  TokenNewestAt(i)' /\ PasswordCurrentAt(i)'
<1>0. users'[i] = users[i] /\ TokenNewestAt(i) /\ PasswordCurrentAt(i)
  BY DEF Untouched, IInv, TokenIsNewest, PasswordCurrent, TokenNewestAt, PasswordCurrentAt
<1>1. PICK user, password, t : user = users[i].id /\ password = users[i].password /\ t = users[i].token
  OBVIOUS
<1>2. ASSUME NEW w \in Requests, Done(w)', Changes(w, user)'
      PROVE  Done(w) /\ Changes(w, user) /\ savedAt'[w] = savedAt[w]
  <2>1. Changes(w, users[i].id)'
    BY <1>0, <1>1, <1>2 DEF Changes
  <2>2. Done(w)
    BY <1>0, <1>2, <2>1 DEF Untouched, Changes
  <2>3. QED
    BY <1>2, <2>2, HistoryAdvances
<1>3. TokenNewestAt(i)'
  <2> SUFFICES ASSUME t # None PROVE TokenNewestAt(i)'
    BY <1>0, <1>1 DEF TokenNewestAt
  <2>1. t \in Requests => Done(t)
    BY <1>0, <1>1 DEF TokenNewestAt
  <2>2. Issued(t)' = Issued(t) /\ (t \in Requests => Done(t)')
    BY <2>1, HistoryAdvances DEF Issued
  <2>3. ASSUME NEW w \in Requests, Done(w)', Changes(w, user)'
        PROVE  savedAt'[w] <= Issued(t)'
    BY <1>0, <1>1, <1>2, <2>2, <2>3 DEF TokenNewestAt
  <2>4. ASSUME NEW w \in Requests, Done(w)', Changes(w, users[i].id)'
        PROVE  savedAt'[w] <= Issued(t)'
    BY <1>0, <1>1, <2>3, <2>4 DEF Changes
  <2>5. QED
    BY <1>0, <1>1, <2>2, <2>4 DEF TokenNewestAt, Issued
<1>4. PasswordCurrentAt(i)'
  <2> SUFFICES ASSUME NEW last \in Requests, Latest(last, users[i].id)'
               PROVE  \/ users'[i].password = last
                      \/ \E f \in Requests : WroteBack(f, users[i].id, users[i].password, last)'
    BY DEF PasswordCurrentAt
  <2>1. Latest(last, user)'
    BY <1>0, <1>1 DEF Latest, Sets, Changes
  <2>2. Done(last)
    BY <1>2, <2>1 DEF Latest, Sets
  <2>3. Latest(last, user)
    BY <2>1, <2>2, HistoryAdvances
  <2>4. password = last \/ \E f \in Requests : WroteBack(f, user, password, last)
    BY <1>0, <1>1, <2>3 DEF PasswordCurrentAt
  <2>5. password = last \/ \E f \in Requests : WroteBack(f, user, password, last)'
    BY <2>2, <2>4, HistoryAdvances
  <2>6. QED
    BY <1>0, <1>1, <2>5 DEF WroteBack
<1>5. QED
  BY <1>3, <1>4

(***************************************************************************)
(* Who is stored, under which address.                                     *)
(***************************************************************************)
LEMMA SameUsersStored ==
  ASSUME IInv, Advances, DOMAIN users' = DOMAIN users
  PROVE  StoredIsRegistered' /\ EarlierComeFirst' /\ EmailOnce'
<1>1. StoredIsRegistered' /\ EarlierComeFirst'
  BY DEF IInv, StoredIsRegistered, EarlierComeFirst, Advances, Done
<1>2. ASSUME NEW i \in DOMAIN users, NEW j \in DOMAIN users, i < j, users[i].email = users[j].email
      PROVE  users[i].id \in Requests /\ readAt'[users[j].id] < savedAt'[users[i].id]
  <2>1. users[i].id \in Requests /\ readAt[users[j].id] < savedAt[users[i].id]
    BY <1>2 DEF IInv, EmailOnce
  <2>2. users[j].id \in Requests
    BY <1>2, <2>1 DEF IInv, EarlierComeFirst
  <2>3. Done(users[i].id) /\ Done(users[j].id)
    BY <2>1, <2>2 DEF IInv, StoredIsRegistered
  <2>4. QED
    BY <2>1, <2>2, <2>3 DEF Advances
<1>3. EmailOnce'
  BY <1>2 DEF EmailOnce, Advances
<1>4. QED
  BY <1>1, <1>3

LEMMA RegisterStores ==
  ASSUME IInv, NEW r \in Requests, Registers(r), Handle(r), Advances
  PROVE  StoredIsRegistered' /\ EarlierComeFirst' /\ EmailOnce'
<1>1. ~ Done(r) /\ Done(r)' /\ call'[r] = call[r] /\ readAt'[r] = readAt[r]
  BY WritingStep DEF Idle, Done, IInv, TypeOK, HistoryTypes
<1>2. call[r].route = "register" /\ FreeWhenRead(r)
  BY DEF Registers, IInv, Knowledge, Knows
<1>3. PICK n \in Nat :
        /\ DOMAIN users = 1 .. n /\ DOMAIN users' = 1 .. (n + 1)
        /\ users'[n + 1].id = r /\ users'[n + 1].email = call[r].about
        /\ \A i \in 1 .. n : users'[i] = users[i] /\ users[i].id # r
  <2>1. Adds(NewUser(r)) /\ NewUser(r).id = r /\ NewUser(r).email = call[r].about
    BY RegisterAdds DEF NewUser
  <2>2. QED
    BY <2>1 DEF Adds
<1>4. StoredIsRegistered' /\ EarlierComeFirst'
  BY <1>1, <1>2, <1>3 DEF IInv, StoredIsRegistered, EarlierComeFirst, Advances, Done
<1>5. ASSUME NEW i \in DOMAIN users', NEW j \in DOMAIN users', i < j, users'[i].email = users'[j].email
      PROVE  users'[i].id \in Requests /\ readAt'[users'[j].id] < savedAt'[users'[i].id]
  <2>0. i \in DOMAIN users
    BY <1>3, <1>5
  <2>1. CASE j \in DOMAIN users
    <3>1. users[i].id \in Requests /\ readAt[users[j].id] < savedAt[users[i].id]
      BY <1>3, <1>5, <2>0, <2>1 DEF IInv, EmailOnce
    <3>2. users[j].id \in Requests
      BY <1>5, <2>0, <2>1, <3>1 DEF IInv, EarlierComeFirst
    <3>3. Done(users[i].id) /\ Done(users[j].id)
      BY <2>0, <2>1, <3>1, <3>2 DEF IInv, StoredIsRegistered
    <3>4. QED
      BY <1>3, <2>0, <2>1, <3>1, <3>2, <3>3 DEF Advances
  <2>2. CASE j \notin DOMAIN users
    <3>1. j = n + 1
      BY <1>3, <2>2
    <3>2. pc[r] = "hashing" /\ users[i].email = call[r].about
      BY <1>3, <1>5, <2>0, <3>1 DEF Registers
    <3>3. users[i].id \in Requests /\ readAt[r] < savedAt[users[i].id]
      BY <1>2, <2>0, <3>2 DEF FreeWhenRead
    <3>4. Done(users[i].id)
      BY <2>0, <3>3 DEF IInv, StoredIsRegistered
    <3>5. QED
      BY <1>1, <1>3, <2>0, <3>1, <3>3, <3>4 DEF Advances
  <2>3. QED
    BY <2>1, <2>2
<1>6. QED
  BY <1>4, <1>5 DEF EmailOnce

(***************************************************************************)
(* The three writes of a user.                                             *)
(***************************************************************************)
LEMMA UserWritten ==
  ASSUME IInv, Advances, NEW r \in Requests, Handle(r), ~ Idle(r),
         NEW k \in DOMAIN users',
         \A i \in DOMAIN users' : i # k => Untouched(i),
         TokenNewestAt(k)', PasswordCurrentAt(k)'
  PROVE  TokenIsNewest' /\ PasswordCurrent'
<1>1. ASSUME NEW i \in DOMAIN users' PROVE TokenNewestAt(i)' /\ PasswordCurrentAt(i)'
  BY UntouchedKept
<1>2. QED
  BY <1>1 DEF TokenIsNewest, PasswordCurrent, TokenNewestAt, PasswordCurrentAt

LEMMA RegisterWrites ==
  ASSUME IInv, NEW r \in Requests, Registers(r), Handle(r), Advances
  PROVE  TokenIsNewest' /\ PasswordCurrent'
<1>1. /\ ~ Done(r) /\ Done(r)' /\ call'[r] = call[r] /\ held'[r] = held[r] /\ ~ Idle(r)
      /\ call[r].route = "register"
  BY WritingStep DEF Idle, Done, IInv, TypeOK, HistoryTypes, Registers
<1>2. PICK n \in Nat :
        /\ DOMAIN users = 1 .. n /\ DOMAIN users' = 1 .. (n + 1)
        /\ users'[n + 1] = NewUser(r)
        /\ \A i \in 1 .. n : users'[i] = users[i] /\ users[i].id # r
  <2>1. Adds(NewUser(r)) /\ NewUser(r).id = r
    BY RegisterAdds DEF NewUser
  <2>2. QED
    BY <2>1 DEF Adds
<1>3. \A w \in Requests \ {r} : Done(w)' => Done(w)
  <2>1. TypeOK
    BY DEF IInv
  <2>2. QED
    BY <2>1, OthersKeep DEF Same, Done
<1>4. ASSUME NEW i \in DOMAIN users', i # n + 1 PROVE Untouched(i)
  BY <1>1, <1>2, <1>3, <1>4 DEF Untouched, Changes
<1>5. users'[n + 1].token = None /\ users'[n + 1].id = r /\ users'[n + 1].password = r
  BY <1>2 DEF NewUser
<1>6. ASSUME NEW last \in Requests, Latest(last, users[n + 1].id)' PROVE last = r
  <2>1. Sets(last, users[n + 1].id)'
    BY <1>6 DEF Latest
  <2>2. Done(last)' /\ Changes(last, users[n + 1].id)'
    BY <2>1 DEF Sets
  <2>3. SUFFICES ASSUME last # r PROVE FALSE
    OBVIOUS
  <2>4. Done(last) /\ call'[last] = call[last] /\ held'[last] = held[last]
    BY <1>3, <2>2, <2>3 DEF Advances
  <2>5. Changer(last) /\ held[last].id = r
    BY <1>5, <2>2, <2>3, <2>4 DEF Changes, Changer
  <2>6. HasRead(last) /\ HeldIsStored(last)
    BY DEF IInv, Knowledge, Knows
  <2>7. \E i \in DOMAIN users : users[i].id = r
    BY <2>4, <2>5, <2>6 DEF HasRead, HeldIsStored, Reader
  <2>8. QED
    BY <1>2, <2>7
<1>7. TokenNewestAt(n + 1)' /\ PasswordCurrentAt(n + 1)'
  BY <1>5, <1>6 DEF TokenNewestAt, PasswordCurrentAt
<1>8. n + 1 \in DOMAIN users'
  BY <1>2
<1>9. QED
  BY <1>1, <1>4, <1>7, <1>8, UserWritten

\* A save of a user that is there is the youngest write.
LEMMA ReplaceTouches ==
  ASSUME IInv, TypeOK', NEW r \in Requests, Handle(r), Changer(r), ~ Idle(r), Advances,
         held[r] # None, NEW u, u.id = held[r].id, Replaces(u)
  PROVE  \E k \in DOMAIN users' :
            /\ users'[k] = u
            /\ \A i \in DOMAIN users' : i # k => Untouched(i)
            /\ \A w \in Requests \ {r} : Done(w)' => Done(w) /\ savedAt'[w] = savedAt[w] /\ savedAt[w] < savedAt'[r]
            /\ Done(r)'
<1>0. TypeOK
  BY DEF IInv
<1>1. savedAt'[r] = writes + 1 /\ call'[r] = call[r] /\ held'[r] = held[r]
  BY WritingStep
<1>2. PICK k \in DOMAIN users :
        /\ users[k].id = u.id
        /\ DOMAIN users' = DOMAIN users
        /\ users'[k] = u
        /\ \A i \in DOMAIN users : i # k => users'[i] = users[i] /\ users[i].id # u.id
  BY DEF Replaces
<1>3. \A w \in Requests \ {r} : Done(w)' => Done(w) /\ savedAt'[w] = savedAt[w] /\ savedAt[w] < savedAt'[r]
  BY <1>0, <1>1, OthersKeep DEF Same, Done, TypeOK, HistoryTypes
<1>4. ASSUME NEW i \in DOMAIN users, i # k PROVE Untouched(i)
  <2>1. ~ Changes(r, users[i].id)'
    BY <1>1, <1>2, <1>4 DEF Changes, Changer
  <2>2. QED
    BY <1>2, <1>3, <1>4, <2>1 DEF Untouched
<1>5. Done(r)'
  BY <1>0, <1>1 DEF Done, TypeOK, HistoryTypes
<1>6. QED
  BY <1>2, <1>3, <1>4, <1>5

LEMMA IssueWrites ==
  ASSUME IInv, TypeOK', NEW r \in Requests, IssuesToken(r), Handle(r), Advances
  PROVE  TokenIsNewest' /\ PasswordCurrent'
<1> DEFINE u == WithResetToken(held[r], r)
<1>1. /\ call[r].route = "forgotPassword" /\ held[r] \in Users /\ u = [held[r] EXCEPT !.token = r]
      /\ Replaces(u) /\ u \in Users
  BY IssueReplaces
<1>2. u.id = held[r].id /\ u.password = held[r].password /\ u.token = r
  BY <1>1 DEF Users
<1> HIDE DEF u
<1>3. ~ Idle(r) /\ Changer(r) /\ held[r] # None /\ pc[r] = "issuing" /\ CopyIsCurrent(r)
  BY <1>1, WebAssumption DEF Idle, Changer, IssuesToken, IInv, Knowledge, Knows
<1>4. PICK k \in DOMAIN users' :
        /\ users'[k] = u
        /\ \A i \in DOMAIN users' : i # k => Untouched(i)
        /\ \A w \in Requests \ {r} : Done(w)' => Done(w) /\ savedAt'[w] = savedAt[w] /\ savedAt[w] < savedAt'[r]
        /\ Done(r)'
  <2>1. PICK v : v = u
    OBVIOUS
  <2>2. Replaces(v) /\ v.id = held[r].id
    BY <1>1, <1>2, <2>1 DEF Replaces
  <2>3. QED
    BY <1>3, <2>1, <2>2, ReplaceTouches
<1>5. call'[r] = call[r] /\ held'[r] = held[r] /\ readAt'[r] = readAt[r]
  BY <1>3, WritingStep
<1>6. \A p \in Requests : savedAt'[p] \in Nat
  BY DEF TypeOK, HistoryTypes
<1>7. TokenNewestAt(k)'
  BY <1>2, <1>4, <1>6 DEF TokenNewestAt, Issued
<1>8. PasswordCurrentAt(k)'
  <2> SUFFICES ASSUME NEW last \in Requests, Latest(last, users[k].id)'
               PROVE  \/ users'[k].password = last
                      \/ \E f \in Requests : WroteBack(f, users[k].id, users[k].password, last)'
    BY DEF PasswordCurrentAt
  <2>1. PICK user, password : user = held[r].id /\ password = held[r].password
    OBVIOUS
  <2>2. users'[k].id = user /\ users'[k].password = password
    BY <1>2, <1>4, <2>1
  <2>3. Latest(last, user)'
    BY <2>2 DEF Latest, Sets, Changes
  <2>4. last # r /\ Done(last) /\ savedAt'[last] = savedAt[last] /\ savedAt[last] < savedAt'[r]
    BY <1>1, <1>4, <1>5, <2>3 DEF Latest, Sets
  <2>5. Latest(last, user)
    BY <2>3, <2>4, HistoryAdvances
  <2>6. CASE readAt[r] < savedAt[last]
    <3>1. WroteBack(r, user, password, last)'
      BY <1>1, <1>4, <1>5, <2>1, <2>4, <2>6 DEF WroteBack
    <3>2. QED
      BY <2>2, <3>1 DEF WroteBack
  <2>7. CASE \E f \in Requests : WroteBack(f, user, password, last)
    <3>1. \E f \in Requests : WroteBack(f, user, password, last)'
      BY <2>4, <2>7, HistoryAdvances
    <3>2. QED
      BY <2>2, <3>1 DEF WroteBack
  <2>8. CASE password = last
    BY <2>2, <2>8
  <2>9. QED
    BY <1>3, <2>1, <2>5, <2>6, <2>7, <2>8 DEF CopyIsCurrent
<1>9. QED
  BY <1>3, <1>4, <1>7, <1>8, UserWritten

LEMMA PasswordWrites ==
  ASSUME IInv, TypeOK', NEW r \in Requests, ChangesPassword(r), Handle(r), Advances
  PROVE  TokenIsNewest' /\ PasswordCurrent'
<1> DEFINE u == WithPasswordHash(held[r], r)
<1>1. /\ held[r] \in Users /\ u = [held[r] EXCEPT !.password = r, !.token = None]
      /\ Replaces(u) /\ u \in Users
  BY PasswordReplaces
<1>2. u.id = held[r].id /\ u.password = r /\ u.token = None
  BY <1>1 DEF Users
<1> HIDE DEF u
<1>3. ~ Idle(r) /\ Changer(r) /\ held[r] # None /\ call[r].route # "forgotPassword"
  BY <1>1, WebAssumption DEF Idle, Changer, ChangesPassword
<1>4. PICK k \in DOMAIN users' :
        /\ users'[k] = u
        /\ \A i \in DOMAIN users' : i # k => Untouched(i)
        /\ \A w \in Requests \ {r} : Done(w)' => Done(w) /\ savedAt'[w] = savedAt[w] /\ savedAt[w] < savedAt'[r]
        /\ Done(r)'
  <2>1. PICK v : v = u
    OBVIOUS
  <2>2. Replaces(v) /\ v.id = held[r].id
    BY <1>1, <1>2, <2>1 DEF Replaces
  <2>3. QED
    BY <1>3, <2>1, <2>2, ReplaceTouches
<1>5. call'[r] = call[r] /\ held'[r] = held[r]
  BY <1>3, WritingStep
<1>6. \A p \in Requests : savedAt'[p] \in Nat
  BY DEF TypeOK, HistoryTypes
<1>7. TokenNewestAt(k)'
  BY <1>2, <1>4 DEF TokenNewestAt
<1>8. ASSUME NEW last \in Requests, Latest(last, users[k].id)' PROVE last = r
  <2>1. Sets(r, users[k].id)'
    BY <1>2, <1>3, <1>4, <1>5 DEF Sets, Changes, Changer
  <2>2. savedAt'[r] <= savedAt'[last] /\ Done(last)'
    BY <1>8, <2>1 DEF Latest, Sets
  <2>3. QED
    BY <1>4, <1>6, <2>2
<1>9. PasswordCurrentAt(k)'
  BY <1>2, <1>4, <1>8 DEF PasswordCurrentAt
<1>10. QED
  BY <1>3, <1>4, <1>7, <1>9, UserWritten

LEMMA TaskWriteKeepsUsers ==
  ASSUME IInv, NEW r \in Requests, Handle(r), CreateTask(r) \/ Completes(r) \/ Deletes(r), Advances
  PROVE  /\ StoredIsRegistered' /\ EarlierComeFirst' /\ EmailOnce'
         /\ TokenIsNewest' /\ PasswordCurrent'
<1>0. TypeOK /\ FlowOf(r)
  BY DEF IInv, Flow
<1>1. UNCHANGED users /\ ~ Idle(r)
  BY DEF CreateTask, Completes, Deletes, TaskWritten, accountVars, Idle
<1>2. call'[r] = call[r] /\ call[r].route \in {"createTask", "completeTask", "deleteTask"}
  BY <1>0, <1>1, WritingStep DEF CreateTask, Completes, Deletes, Handling, FlowOf, Midway, Fits, WebAssumption
<1>3. \A w \in Requests \ {r} : Done(w)' => Done(w)
  BY <1>0, OthersKeep DEF Same, Done
<1>4. ASSUME NEW i \in DOMAIN users' PROVE Untouched(i)
  BY <1>1, <1>2, <1>3 DEF Untouched, Changes
<1>5. TokenIsNewest' /\ PasswordCurrent'
  BY <1>4, UntouchedKept DEF TokenIsNewest, PasswordCurrent, TokenNewestAt, PasswordCurrentAt
<1>6. QED
  BY <1>1, <1>5, SameUsersStored

(***************************************************************************)
(* What the writes do to the tasks.                                        *)
(***************************************************************************)
LEMMA TasksStored ==
  ASSUME IInv, NEW r \in Requests, Handle(r), ~ Idle(r), Advances
  PROVE  TaskWasCreated' /\ DeletedStaysDeleted'
<1>0. TypeOK /\ Knows(r) /\ FlowOf(r)
  BY DEF IInv, Knowledge, Flow
<1>1. /\ ~ Done(r) /\ Done(r)' /\ savedAt'[r] = writes + 1
      /\ call'[r] = call[r] /\ held'[r] = held[r] /\ readAt'[r] = readAt[r]
      /\ call[r] \in Calls /\ call[r].wellFormed
  BY <1>0, WritingStep DEF Done, TypeOK, HistoryTypes
<1>2. \A w \in Requests \ {r} : Done(w)' => Done(w)
  BY <1>0, OthersKeep DEF Same, Done
<1>3. ASSUME NEW d \in Requests, Deleted(d)', d # r
      PROVE  Deleted(d) /\ call'[d] = call[d]
  BY <1>2, <1>3, HistoryAdvances DEF Deleted, Advances
<1>4. CASE Registers(r) \/ IssuesToken(r) \/ ChangesPassword(r)
  <2>1. UNCHANGED tasks
    BY <1>4 DEF Handle, AccountsStep, TasksStep, Registers, IssuesToken, ChangesPassword, GetTasks, CreateTask,
       CompleteBegins, Completes, DeleteBegins, Deletes, Handling, Publishes, PipelineStep, vars
  <2>2. call[r].route # "deleteTask"
    BY <1>0, <1>4 DEF Registers, IssuesToken, ChangesPassword, FlowOf, Midway, Fits
  <2>3. TaskWasCreated'
    BY <2>1, HistoryAdvances DEF IInv, TaskWasCreated
  <2>4. ASSUME NEW d \in Requests, Deleted(d)', tasks'[call'[d].about] # "absent"
        PROVE  Revived(d)'
    <3>1. Deleted(d) /\ tasks[call[d].about] # "absent"
      BY <1>1, <1>3, <2>1, <2>2, <2>4 DEF Deleted
    <3>2. QED
      BY <3>1, HistoryAdvances DEF IInv, DeletedStaysDeleted, Deleted
  <2>5. QED
    BY <2>3, <2>4 DEF DeletedStaysDeleted
<1>5. CASE CreateTask(r)
  <2>1. call[r].route = "createTask" /\ tasks' = [tasks EXCEPT ![r] = "pending"]
    BY <1>5 DEF CreateTask, Handling, TaskWritten
  <2>2. TaskWasCreated'
    BY <1>0, <1>1, <2>1, HistoryAdvances DEF IInv, TaskWasCreated, TypeOK, TaskIds
  <2>4. ASSUME NEW d \in Requests, Deleted(d)', tasks'[call'[d].about] # "absent"
        PROVE  Revived(d)'
    <3>1. d # r
      BY <1>1, <2>1, <2>4 DEF Deleted
    <3>2. Deleted(d) /\ call'[d] = call[d] /\ TaskWasFound(d)
      BY <1>3, <2>4, <3>1 DEF IInv, Knowledge, Knows
    <3>3. call[d].about # r
      BY <1>1, <3>2 DEF TaskWasFound, Reader, Deleted
    <3>4. tasks[call[d].about] # "absent"
      BY <1>0, <2>1, <2>4, <3>2, <3>3 DEF TypeOK
    <3>5. QED
      BY <3>2, <3>4, HistoryAdvances DEF IInv, DeletedStaysDeleted, Deleted
  <2>5. QED
    BY <2>2, <2>4 DEF DeletedStaysDeleted
<1>6. CASE Completes(r)
  <2>1. /\ pc[r] = "completing" /\ call[r].route = "completeTask"
        /\ tasks' = [tasks EXCEPT ![call[r].about] = "done"]
    BY <1>0, <1>6, WebAssumption DEF Completes, TaskWritten, FlowOf, Midway, Fits
  <2>2. call[r].about \in Requests => Done(call[r].about)
    BY <1>0, <2>1 DEF Knows, TaskWasFound, Reader, Midway
  <2>3. TaskWasCreated'
    BY <1>0, <2>1, <2>2, HistoryAdvances DEF IInv, TaskWasCreated, TypeOK
  <2>4. ASSUME NEW d \in Requests, Deleted(d)', tasks'[call'[d].about] # "absent"
        PROVE  Revived(d)'
    <3>1. d # r
      BY <1>1, <2>1, <2>4 DEF Deleted
    <3>2. Deleted(d) /\ call'[d] = call[d] /\ savedAt'[d] = savedAt[d] /\ savedAt[d] <= writes
      BY <1>0, <1>3, <2>4, <3>1 DEF Advances, Deleted, TypeOK, HistoryTypes
    <3>3. CASE call[d].about = call[r].about /\ readAt[r] < savedAt[d]
      BY <1>0, <1>1, <2>1, <3>2, <3>3 DEF Revived, TypeOK, HistoryTypes
    <3>4. CASE call[d].about = call[r].about /\ ~ (readAt[r] < savedAt[d])
      <4>1. Revived(d)
        BY <1>0, <2>1, <3>2, <3>4 DEF Knows, CompletionIsFresh
      <4>2. QED
        BY <3>2, <4>1, HistoryAdvances DEF Deleted
    <3>5. CASE call[d].about # call[r].about
      <4>1. tasks[call[d].about] # "absent"
        BY <1>0, <2>1, <2>4, <3>2, <3>5 DEF TypeOK
      <4>2. QED
        BY <3>2, <4>1, HistoryAdvances DEF IInv, DeletedStaysDeleted, Deleted
    <3>6. QED
      BY <3>3, <3>4, <3>5
  <2>5. QED
    BY <2>3, <2>4 DEF DeletedStaysDeleted
<1>7. CASE Deletes(r)
  <2>1. call[r].route = "deleteTask" /\ tasks' = [tasks EXCEPT ![call[r].about] = "absent"]
    BY <1>0, <1>7, WebAssumption DEF Deletes, TaskWritten, FlowOf, Midway, Fits
  <2>2. call[r].about \in TaskIds
    BY <1>1, <2>1, WebAssumption
  <2>3. \A t \in TaskIds : tasks'[t] = IF t = call[r].about THEN "absent" ELSE tasks[t]
    BY <1>0, <2>1 DEF TypeOK
  <2>4. TaskWasCreated'
    BY <2>3, HistoryAdvances DEF IInv, TaskWasCreated, TaskIds
  <2>5. ASSUME NEW d \in Requests, Deleted(d)', tasks'[call'[d].about] # "absent"
        PROVE  Revived(d)'
    <3>1. call'[d].about # call[r].about /\ d # r
      BY <1>1, <2>2, <2>3, <2>5
    <3>2. Deleted(d) /\ call'[d] = call[d]
      BY <1>3, <2>5, <3>1
    <3>3. tasks[call[d].about] # "absent"
      BY <1>0, <2>1, <2>5, <3>1, <3>2 DEF TypeOK
    <3>4. QED
      BY <3>2, <3>3, HistoryAdvances DEF IInv, DeletedStaysDeleted, Deleted
  <2>6. QED
    BY <2>4, <2>5 DEF DeletedStaysDeleted
<1>8. QED
  BY <1>4, <1>5, <1>6, <1>7 DEF Idle
-----------------------------------------------------------------------------

(***************************************************************************)
(* The invariant is inductive.                                             *)
(***************************************************************************)
LEMMA InitHolds ==
  Init => IInv
<1> SUFFICES ASSUME Init PROVE IInv
  OBVIOUS
<1> USE DEF Init, PipelineInit, AccountsInit, TasksInit
<1>1. TypeOK
  BY WebAssumption DEF TypeOK, RequestTypes, StoreTypes, HistoryTypes, TaskIds
<1>2. Flow /\ AnswerMatchesEffect
  BY DEF Flow, FlowOf, AnswerMatchesEffect, HonestAnswer, Midway, Started, Done
<1>3. \A r \in Requests : ~ Done(r) /\ ~ Reader(r) /\ pc[r] = "expected" /\ held[r] = None
  <2>1. \A r \in Requests : savedAt[r] = 0 /\ pc[r] = "expected" /\ held[r] = None
    OBVIOUS
  <2>2. \A r \in Requests : ~ Done(r)
    <3>1. \A n : n = 0 => ~ (n > 0)
      OBVIOUS
    <3>2. QED
      BY <2>1, <3>1 DEF Done
  <2>3. QED
    BY <2>1, <2>2 DEF Reader, Midway
<1>4. \A i \in DOMAIN users : users[i].id \notin Requests /\ users[i].token \notin Requests
  BY WebAssumption DEF EarlierIds, EarlierTokens
<1>5. StoredIsRegistered /\ EarlierComeFirst
  BY <1>4 DEF StoredIsRegistered, EarlierComeFirst
<1>6. EmailOnce
  <2>1. DOMAIN users \subseteq Nat
    BY <1>1 DEF TypeOK, StoreTypes
  <2>2. QED
    BY <2>1, WebAssumption DEF EmailOnce
<1>7. TokenIsNewest
  BY <1>3, <1>4 DEF TokenIsNewest
<1>8. PasswordCurrent
  BY <1>3 DEF PasswordCurrent, Latest, Sets
<1>9. TaskWasCreated /\ DeletedStaysDeleted
  BY <1>3, WebAssumption DEF TaskWasCreated, DeletedStaysDeleted, Deleted, TaskIds
<1>10. Knowledge
  BY <1>3 DEF Knowledge, Knows, HasRead, HeldIsStored, FreeWhenRead, ResetIsFresh, CopyIsCurrent, TaskWasFound,
     CompletionIsFresh
<1>11. QED
  BY <1>1, <1>2, <1>5, <1>6, <1>7, <1>8, <1>9, <1>10 DEF IInv

LEMMA FlowStep ==
  ASSUME IInv, NEW r \in Requests, Handle(r)
  PROVE  Flow' /\ AnswerMatchesEffect'
<1>1. FlowOf(r)' /\ HonestAnswer(r)'
  BY FlowOfActor
<1>2. ASSUME NEW q \in Requests \ {r} PROVE FlowOf(q)' /\ HonestAnswer(q)'
  <2>1. TypeOK /\ FlowOf(q) /\ HonestAnswer(q)
    BY DEF IInv, Flow, AnswerMatchesEffect
  <2>2. QED
    BY <2>1, OthersKeep, FlowOfOthers
<1>3. QED
  BY <1>1, <1>2 DEF Flow, AnswerMatchesEffect

LEMMA StoreStep ==
  ASSUME IInv, TypeOK', NEW r \in Requests, Handle(r)
  PROVE  /\ StoredIsRegistered' /\ EarlierComeFirst' /\ EmailOnce' /\ TokenIsNewest' /\ PasswordCurrent'
         /\ TaskWasCreated' /\ DeletedStaysDeleted'
<1>0. Advances
  BY StepAdvances
<1>1. CASE Idle(r)
  BY <1>1, IdleSettles, Undisturbed
<1>2. CASE Registers(r)
  BY <1>0, <1>2, RegisterStores, RegisterWrites, TasksStored DEF Idle
<1>3. CASE IssuesToken(r) \/ ChangesPassword(r)
  <2>1. DOMAIN users' = DOMAIN users
    BY <1>3, IssueReplaces, PasswordReplaces DEF Replaces
  <2>2. QED
    BY <1>0, <1>3, <2>1, SameUsersStored, IssueWrites, PasswordWrites, TasksStored DEF Idle
<1>4. CASE CreateTask(r) \/ Completes(r) \/ Deletes(r)
  BY <1>0, <1>4, TaskWriteKeepsUsers, TasksStored DEF Idle
<1>5. QED
  BY <1>1, <1>2, <1>3, <1>4 DEF Idle

LEMMA Stutters ==
  ASSUME IInv, TypeOK', UNCHANGED vars
  PROVE  IInv'
<1>1. Settled /\ Advances /\ UNCHANGED <<users, tasks>>
  BY DEF vars, Settled, Advances, Done
<1>2. \A q \in Requests : Same(q) /\ Carries(q)
  BY DEF vars, Same, Carries, Reader, Midway, Done
<1>3. Flow' /\ AnswerMatchesEffect'
  BY <1>2, FlowOfOthers DEF IInv, Flow, AnswerMatchesEffect
<1>4. Knowledge'
  BY <1>1, <1>2, KnowledgeLasts DEF Knowledge
<1>5. QED
  BY <1>1, <1>3, <1>4, Undisturbed DEF IInv

(***************************************************************************)
(* The invariant holds in every reachable state of the api application.    *)
(***************************************************************************)
THEOREM Invariance == Spec => []IInv
<1>1. IInv /\ [Next]_vars => IInv'
  <2> SUFFICES ASSUME IInv, [Next]_vars PROVE IInv'
    OBVIOUS
  <2>1. TypeOK'
    BY TypeStep
  <2>2. CASE UNCHANGED vars
    BY <2>1, <2>2, Stutters
  <2>3. ASSUME NEW r \in Requests, Handle(r) PROVE IInv'
    BY <2>1, <2>3, FlowStep, StoreStep, KnowledgeStep DEF IInv
  <2>4. QED
    BY <2>2, <2>3 DEF Next
<1>2. QED
  BY <1>1, InitHolds, PTL DEF Spec
-----------------------------------------------------------------------------

(***************************************************************************)
(* The variables have their types, and the map of users has one entity per *)
(* id however requests save.                                               *)
(***************************************************************************)
THEOREM TypeCorrect == Spec => []TypeOK
<1>1. IInv => TypeOK
  BY DEF IInv
<1>2. QED
  BY <1>1, Invariance, PTL

(***************************************************************************)
(* Two users have one address only when the later registration had looked  *)
(* before the earlier one was saved.                                       *)
(***************************************************************************)
THEOREM DuplicatesOverlap == Spec => []EmailOnce
<1>1. IInv => EmailOnce
  BY DEF IInv
<1>2. QED
  BY <1>1, Invariance, PTL

(***************************************************************************)
(* Whoever resets a password by a token has read after no reset, no update *)
(* and no new token of that user since the token was issued.               *)
(***************************************************************************)
THEOREM SpentTokenIsDead == Spec => []TokenDies
<1>1. IInv => TokenDies
  BY DEF IInv, Knowledge, Knows, ResetIsFresh, Reader, TokenDies
<1>2. QED
  BY <1>1, Invariance, PTL

(***************************************************************************)
(* A user has the password saved last, or the copy a forgotPassword() had  *)
(* read before that save and wrote back after it.                          *)
(***************************************************************************)
THEOREM LastPasswordCounts == Spec => []PasswordCurrent
<1>1. IInv => PasswordCurrent
  BY DEF IInv
<1>2. QED
  BY <1>1, Invariance, PTL

(***************************************************************************)
(* A deleted task is back only by a complete() that had read it before it  *)
(* was deleted and saved it after.                                         *)
(***************************************************************************)
THEOREM DeletedTaskStaysAway == Spec => []DeletedStaysDeleted
<1>1. IInv => DeletedStaysDeleted
  BY DEF IInv
<1>2. QED
  BY <1>1, Invariance, PTL

(***************************************************************************)
(* The status a client is answered tells what its request has done, and no *)
(* caller without the route's token and role has changed anything.         *)
(***************************************************************************)
THEOREM AnswersAreHonest == Spec => []AnswerMatchesEffect
<1>1. IInv => AnswerMatchesEffect
  BY DEF IInv
<1>2. QED
  BY <1>1, Invariance, PTL
=============================================================================
