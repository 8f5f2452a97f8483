------------------------------ MODULE Accounts ------------------------------
(***************************************************************************)
(* The user service with its controller and repository.  Every operation   *)
(* reads a user, awaits, and saves a user made from the one it read; what  *)
(* others save meanwhile is not looked at again.                           *)
(*                                                                         *)
(* A fresh UUID (the id of a registered user, a reset token) is the        *)
(* request that makes it, and so is the hash of a password: it tells who   *)
(* set the password.                                                       *)
(***************************************************************************)
EXTENDS RequestPipeline, Sequences, FiniteSetsExt

CONSTANTS EarlierUsers  \* the store when the first request arrives, a sequence

VARIABLES users,      \* InMemoryUserRepository.store, in the order of insertion
          held,       \* held[r]: the entity r has read
          writes,     \* how many writes there have been, to either repository
          savedAt,    \* savedAt[r]: the number of r's write among them, 0 before
          readAt,     \* readAt[r]: how many there had been when r read
          published   \* published[r]: how many events of r have reached the bus

accountVars == <<users, held>>
historyVars == <<writes, savedAt, readAt>>

(* History: the reads and writes of both repositories are numbered. *)
Done(r) == savedAt[r] > 0
Reads(r) ==
    /\ readAt' = [readAt EXCEPT ![r] = writes]
    /\ UNCHANGED <<writes, savedAt>>
Writes(r) ==
    /\ writes' = writes + 1
    /\ savedAt' = [savedAt EXCEPT ![r] = writes + 1]
    /\ UNCHANGED readAt

(* The repository's find methods: the first match in the order of the map. *)
First(hits) == IF hits = {} THEN None ELSE users[Min(hits)]
ById(id) == First({i \in DOMAIN users : users[i].id = id})
ByEmail(email) == First({i \in DOMAIN users : users[i].email = email})
ByResetToken(token) == First({i \in DOMAIN users : users[i].token = token})

(* Save as if the store were a list. *)
Save_Appends(user) == users' = Append(users, user)

(* save() keeps the place of an entity that is there. *)
Save(user) ==
    users' = IF \E i \in DOMAIN users : users[i].id = user.id
             THEN [i \in DOMAIN users |-> IF users[i].id = user.id THEN user ELSE users[i]]
             ELSE Append(users, user)

NewUser(r) == [id |-> r, email |-> call[r].about, password |-> r, token |-> None]

(* WithPasswordHash as if it copied the token like the other fields. *)
WithPasswordHash_KeepsToken(user, hash) == [user EXCEPT !.password = hash]

WithPasswordHash(user, hash) == [user EXCEPT !.password = hash, !.token = None]
WithResetToken(user, token) == [user EXCEPT !.token = token]

(* The read before the first await: what r goes on with. *)
Read(r, user) ==
    /\ held' = [held EXCEPT ![r] = user]
    /\ Reads(r)
    /\ UNCHANGED <<users, published>>

WritesIt(r) ==
    /\ Writes(r)
    /\ UNCHANGED <<held, published>>

ReadAs(r, found, next, code) ==
    /\ Read(r, found)
    /\ IF found # None THEN Wait(r, next) ELSE Answer(r, code)

(* RegisterBegins without its check. *)
RegisterBegins_Unchecked(r) ==
    /\ Handling(r, "register")
    /\ Read(r, None)
    /\ Wait(r, "hashing")

RegisterBegins(r) ==
    LET existing == ByEmail(call[r].about) IN
    /\ Handling(r, "register")
    /\ Read(r, existing)
    /\ IF existing = None THEN Wait(r, "hashing") ELSE Answer(r, 409)

Registers(r) ==
    /\ pc[r] = "hashing"
    /\ call[r].route = "register"
    /\ Save(NewUser(r))
    /\ WritesIt(r)
    /\ Wait(r, "publishing")

LoginBegins(r) ==
    /\ Handling(r, "login")
    /\ ReadAs(r, ByEmail(call[r].about), "verifying", 401)

ForgotBegins(r) ==
    /\ Handling(r, "forgotPassword")
    /\ ReadAs(r, ByEmail(call[r].about), "issuing", 200)

IssuesToken(r) ==
    /\ pc[r] = "issuing"
    /\ Save(WithResetToken(held[r], r))
    /\ WritesIt(r)
    /\ Wait(r, "publishing")

ResetBegins(r) ==
    /\ Handling(r, "resetPassword")
    /\ ReadAs(r, ByResetToken(call[r].about), "hashing", 400)

UpdateBegins(r) ==
    /\ Handling(r, "updatePassword")
    /\ ReadAs(r, ById(call[r].bearer.id), "verifying", 404)

(* Bun.password.verify() of the password sent against the hash that was read. *)
PasswordMatches(r) ==
    /\ pc[r] = "verifying"
    /\ IF call[r].route = "login" THEN Answer(r, 200) ELSE Wait(r, "hashing")
    /\ UNCHANGED <<accountVars, historyVars, published>>

PasswordDiffers(r) ==
    /\ pc[r] = "verifying"
    /\ Answer(r, 401)
    /\ UNCHANGED <<accountVars, historyVars, published>>

(* ChangesPassword as if the new hash were dropped when a save came between. *)
ChangesPassword_SkipsIfChanged(r) ==
    /\ pc[r] = "hashing"
    /\ call[r].route \in {"resetPassword", "updatePassword"}
    /\ IF ById(held[r].id) = held[r]
       THEN Save(WithPasswordHash(held[r], r))
       ELSE UNCHANGED users
    /\ WritesIt(r)
    /\ Wait(r, "publishing")

ChangesPassword(r) ==
    /\ pc[r] = "hashing"
    /\ call[r].route \in {"resetPassword", "updatePassword"}
    /\ Save(WithPasswordHash(held[r], r))
    /\ WritesIt(r)
    /\ Wait(r, "publishing")

Me(r) ==
    LET user == ById(call[r].bearer.id) IN
    /\ Handling(r, "me")
    /\ Read(r, user)
    /\ Answer(r, IF user = None THEN 404 ELSE 200)

AccountsInit ==
    /\ users = EarlierUsers
    /\ held = [r \in Requests |-> None]
    /\ writes = 0
    /\ savedAt = [r \in Requests |-> 0]
    /\ readAt = [r \in Requests |-> 0]
    /\ published = [r \in Requests |-> 0]

AccountsStep(r) ==
    \/ RegisterBegins(r)
    \/ Registers(r)
    \/ LoginBegins(r)
    \/ ForgotBegins(r)
    \/ IssuesToken(r)
    \/ ResetBegins(r)
    \/ UpdateBegins(r)
    \/ PasswordMatches(r)
    \/ PasswordDiffers(r)
    \/ ChangesPassword(r)
    \/ Me(r)
=============================================================================
