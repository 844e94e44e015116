---------------------------- MODULE UserDirectory ----------------------------
(***************************************************************************)
(* Accounts: the handlers of src/users/users.service.ts and                *)
(* src/auth/auth.service.ts on the tables "Users", "SystemCredentials" and *)
(* "LoginAudit" of database/schema.sql.  No handler opens a transaction or *)
(* locks a row: each is a series of statements that commit on their own,   *)
(* and what another call does between two of them is stopped only by the   *)
(* criteria of the last statement and the constraints of the tables.       *)
(*                                                                         *)
(* Left out: names, listings, inactive accounts (nothing deactivates one), *)
(* and accounts with wallets (another table that keeps them from deletion).*)
(***************************************************************************)
EXTENDS Naturals

CONSTANTS
  Ids,          \* keys of "Users", in the order of the sequence; 0 is no key
  Mobiles,
  Uids,         \* unique ids, GK00 and six digits in the code
  Passwords,    \* a stored hash is named by the password it was made from
  Clients,      \* HTTP calls and starts of a server process
  Attempts,     \* draws of a unique id before giving up, 20 in the code
  Scenarios,    \* tables and tokens, and the calls each client may make on them
  None,         \* null
  Absent        \* a field the request body leaves out

Super == 0      \* the superadmin's id in tokens and routes
Actors == Ids \cup {Super}
Types == {"superadmin", "agent", "user"}
User == [type : Types, agent : Ids \cup {None}, mobile : Mobiles, uid : Uids,
         hash : Passwords]
Credential == [mobile : Mobiles, hash : Passwords]
Handlers == {"create", "update", "remove", "password", "login", "seed"}
Call == [handler : Handlers, actor : Actors \cup {None}, id : Actors \cup {None},
         type : Types \cup {None}, mobile : Mobiles \cup {Absent},
         agent : Ids \cup {None, Absent}, old : Passwords \cup {None},
         new : Passwords \cup {None}]

\* what the guards and the validation of the request bodies let through
Valid(k) ==
  /\ k.handler \notin {"login", "seed"} => k.actor \in Actors
  /\ k.handler \in {"update", "remove"} => k.id \in Actors
  /\ k.handler \in {"create", "seed"} => k.mobile \in Mobiles
  /\ k.handler \in {"create", "seed", "password"} => k.new \in Passwords

ASSUME IdsAssumption == Ids \subseteq Nat \ {0}
ASSUME NoneAssumption ==
  /\ None \notin Nat \cup Mobiles \cup Uids \cup Passwords \cup User \cup Credential \cup Call
  /\ Absent \notin Nat \cup Mobiles \cup {None}
ASSUME AttemptsAssumption == Attempts \in Nat \ {0}
\* the login that gave a token left a row in "LoginAudit", which is kept for a day
\* at least; the token lasts an hour.  The tables start as the handlers leave them
ASSUME ScenariosAssumption == \A d \in Scenarios :
  /\ d.users \in [Ids -> User \cup {None}]
  /\ d.audited \subseteq {i \in Ids : d.users[i] # None}
  /\ d.credential \in Credential \cup {None}
  /\ d.tokens \in [Actors -> Types \cup {None}]
  /\ d.tokens[Super] \in {"superadmin", None}
  /\ \A i \in Ids : d.tokens[i] # None => i \in d.audited /\ d.tokens[i] = d.users[i].type
  /\ \A i \in Ids : d.users[i] # None /\ d.users[i].agent # None =>
       /\ d.users[i].type = "user"
       /\ d.users[d.users[i].agent] # None
       /\ d.users[d.users[i].agent].type = "agent"
  /\ d.calls \in [Clients -> SUBSET {k \in Call : Valid(k)}]

VARIABLES
  users,       \* the rows of "Users", None where there is no row
  usedIds,     \* the keys the sequence has given out (of failed inserts, none)
  audited,     \* the accounts that rows of "LoginAudit" reference
  credential,  \* the superadmin's row
  tokens,      \* the type in the token each caller holds
  calls,       \* the calls each client may make
  pc,          \* where each client is in its handler, or how it ended
  call,        \* the call it makes
  seen,        \* the row it has read, with the changes it will save
  found,       \* the key it has found: an agent, or the account to log in or save
  uid,         \* the unique id it has drawn
  tries,       \* the draws it has made in vain
  dirty        \* the columns save() found changed

tables == <<users, usedIds, audited, credential, tokens, calls>>
locals == <<call, seen, found, uid, tries, dirty>>
vars == <<tables, pc, locals>>

Steps == {"findMobile", "findAgent", "draw", "insert", "askMobile", "readUser",
          "countUsers", "write", "reread", "readCredential", "select", "audit"}
Ended == {"done", "failed"}

Init ==
  /\ \E d \in Scenarios :
       /\ users = d.users
       /\ usedIds = {i \in Ids : d.users[i] # None}
       /\ audited = d.audited
       /\ credential = d.credential
       /\ tokens = d.tokens
       /\ calls = d.calls
  /\ pc = [c \in Clients |-> "start"]
  /\ call = [c \in Clients |-> None]
  /\ seen = [c \in Clients |-> None]
  /\ found = [c \in Clients |-> None]
  /\ uid = [c \in Clients |-> None]
  /\ tries = [c \in Clients |-> 0]
  /\ dirty = [c \in Clients |-> {}]

-----------------------------------------------------------------------------
(* Who may do what, and what the tables allow.                             *)

Handler(c) == call[c].handler
Actor(c) == call[c].actor
Role(c) == IF Actor(c) \in Actors THEN tokens[Actor(c)] ELSE None
IsAdmin(c) == Role(c) = "superadmin"
\* the call is about the row of "SystemCredentials": changePassword asks for the
\* caller's type only
OfSuper(k) ==
  /\ k.handler \in {"login", "update", "password"}
  /\ k.handler # "password" => k.id = Super
  /\ k.handler # "login" => tokens[k.actor] = "superadmin"

\* the rows in an agent's scope: the users assigned to the agent
InScope(c, u) == Role(c) = "agent" /\ u.type = "user" /\ u.agent = Actor(c)
IsSelf(c) == Handler(c) = "update" /\ call[c].id = Actor(c)

\* assertCanManageUser
CanManage(c, u) == IsAdmin(c) \/ InScope(c, u) \/ IsSelf(c)

\* mutant: the statement that writes finds the row by its key only
ById(c, u) == u # None
\* the criteria of the statement that writes
Matches(c, u) == u # None /\ (IsAdmin(c) \/ InScope(c, u) \/ IsSelf(c))

\* an agent creates users only, and for itself
NewType(c) == IF Role(c) = "agent" \/ call[c].type = None THEN "user" ELSE call[c].type
AgentAsked(c) == IF Handler(c) = "create" /\ Role(c) = "agent" THEN Actor(c)
                                                                ELSE call[c].agent

MobileTaken(m, but) == \E i \in Ids \ {but} : users[i] # None /\ users[i].mobile = m
UidTaken(u, but) == \E i \in Ids \ {but} : users[i] # None /\ users[i].uid = u
Row(i) == IF i \in Ids THEN users[i] ELSE None
HasUsers(i) == \E j \in Ids : users[j] # None /\ users[j].agent = i
IsAgent(i) == i \in Ids /\ users[i] # None /\ users[i].type = "agent"

\* the constraints of "Users" on a row with key i
Storable(i, u) ==
  /\ ~MobileTaken(u.mobile, i)
  /\ ~UidTaken(u.uid, i)
  /\ u.agent # None => users[u.agent] # None

\* mutant: the foreign key from users to their agent is missing
OnlyAudited(i) == i \in audited
\* mutant: LoginAudit.user_id is ON DELETE SET NULL, as in full-schema.sql
OnlyAssigned(i) == HasUsers(i)
\* the foreign keys that keep a row from being deleted
Referenced(i) == i \in audited \/ HasUsers(i)

-----------------------------------------------------------------------------
(* Steps of several handlers.                                              *)

Go(c, step) == pc' = [pc EXCEPT ![c] = step]

\* the answer is sent and the handler's locals are gone
End(c, outcome) ==
  /\ Go(c, outcome)
  /\ call' = [call EXCEPT ![c] = None]
  /\ seen' = [seen EXCEPT ![c] = None]
  /\ found' = [found EXCEPT ![c] = None]
  /\ uid' = [uid EXCEPT ![c] = None]
  /\ tries' = [tries EXCEPT ![c] = 0]
  /\ dirty' = [dirty EXCEPT ![c] = {}]
\* an exception, or an error of the database nobody handles
Fail(c) == End(c, "failed") /\ UNCHANGED tables

First(k) ==
  CASE k.handler = "create" -> "findMobile"
    [] k.handler = "seed" -> "readCredential"
    [] OfSuper(k) -> "readCredential"
    [] OTHER -> "readUser"

\* the role guards of the controllers, and each handler's first statement
Start(c) ==
  /\ pc[c] = "start"
  /\ \E k \in calls[c] :
       /\ k.handler \notin {"login", "seed"} => tokens[k.actor] # None
       /\ IF k.handler \in {"create", "remove"} /\ tokens[k.actor] = "user" THEN Fail(c)
          ELSE /\ call' = [call EXCEPT ![c] = k]
               /\ Go(c, First(k))
               /\ UNCHANGED <<tables, seen, found, uid, tries, dirty>>

\* what an update does once the agent is known to exist
AfterAgent(c, u) == IF call[c].mobile \in {Absent, u.mobile} THEN "write" ELSE "findMobile"

FindMobile(c) ==
  /\ pc[c] = "findMobile"
  /\ IF MobileTaken(call[c].mobile, None) THEN Fail(c)
     ELSE /\ Go(c, IF OfSuper(call[c]) THEN "select"
                   ELSE IF Handler(c) = "update" THEN "write"
                   ELSE IF NewType(c) = "user" THEN "findAgent" ELSE "draw")
          /\ UNCHANGED <<tables, locals>>

FindAgent(c) ==
  LET i == AgentAsked(c) IN
  /\ pc[c] = "findAgent"
  /\ IF ~IsAgent(i) THEN Fail(c)
     ELSE /\ found' = [found EXCEPT ![c] = i]
          /\ Go(c, IF Handler(c) = "create" THEN "draw" ELSE AfterAgent(c, seen[c]))
          /\ UNCHANGED <<tables, call, seen, uid, tries, dirty>>

-----------------------------------------------------------------------------
(* create: a unique id is drawn until one is free, and drawn anew when the *)
(* INSERT finds it taken after all.                                        *)

\* mutant: one draw more
OneMore(c) == tries[c] = Attempts
LastTry(c) == tries[c] = Attempts - 1
\* mutant: a draw in vain is not counted
Again(c) == UNCHANGED tries
Retry(c) == tries' = [tries EXCEPT ![c] = @ + 1]

\* generateUniqueValue
Draw(c) ==
  /\ pc[c] = "draw"
  /\ \E u \in Uids :
       \/ /\ ~UidTaken(u, None)
          /\ uid' = [uid EXCEPT ![c] = u]
          /\ tries' = [tries EXCEPT ![c] = 0]
          /\ Go(c, "insert")
          /\ UNCHANGED <<tables, call, seen, found, dirty>>
       \/ UidTaken(u, None) /\ LastTry(c) /\ Fail(c)
       \/ /\ UidTaken(u, None)
          /\ ~LastTry(c)
          /\ Retry(c)
          /\ UNCHANGED <<tables, pc, call, seen, found, uid, dirty>>

\* the first INSERT uses the id that was free, a later one an unchecked draw; the
\* index on the mobile number is the older one and reports first
Insert(c) ==
  LET type == NewType(c)
      agent == IF type = "user" THEN found[c] ELSE None
  IN /\ pc[c] = "insert"
     /\ \E u \in IF tries[c] = 0 THEN {uid[c]} ELSE Uids :
          LET new == [type |-> type, agent |-> agent, mobile |-> call[c].mobile,
                      uid |-> u, hash |-> call[c].new]
          IN \/ MobileTaken(new.mobile, None) /\ Fail(c)
             \/ /\ ~MobileTaken(new.mobile, None)
                /\ UidTaken(u, None)
                /\ Go(c, "askMobile")
                /\ UNCHANGED <<tables, locals>>
             \/ /\ agent # None /\ users[agent] = None
                /\ ~MobileTaken(new.mobile, None) /\ ~UidTaken(u, None)
                /\ Fail(c)
             \/ \E i \in Ids \ usedIds :
                  /\ Storable(i, new)
                  /\ \A j \in Ids \ usedIds : i <= j
                  /\ users' = [users EXCEPT ![i] = new]
                  /\ usedIds' = usedIds \cup {i}
                  /\ End(c, "done")
                  /\ UNCHANGED <<audited, credential, tokens, calls>>

\* was the mobile number the one taken?
AskMobile(c) ==
  /\ pc[c] = "askMobile"
  /\ IF MobileTaken(call[c].mobile, None) \/ LastTry(c) THEN Fail(c)
     ELSE /\ Retry(c)
          /\ Go(c, "insert")
          /\ UNCHANGED <<tables, call, seen, found, uid, dirty>>

-----------------------------------------------------------------------------
(* update and remove.                                                      *)

\* the checks of update, and the row with the changes
ReadUserToUpdate(c) ==
  LET u == Row(call[c].id)
      agent == call[c].agent
  IN /\ pc[c] = "readUser"
     /\ Handler(c) = "update"
     /\ IF u = None THEN Fail(c)
        ELSE IF \/ ~CanManage(c, u)
                \/ agent # Absent /\ ~(IsAdmin(c) /\ u.type = "user")
        THEN Fail(c)
        ELSE /\ seen' = [seen EXCEPT ![c] = u]
             /\ Go(c, IF agent \in Ids THEN "findAgent" ELSE AfterAgent(c, u))
             /\ UNCHANGED <<tables, call, found, uid, tries, dirty>>

\* UPDATE ... WHERE the criteria, of the columns given
UpdateWrite(c) ==
  LET i == call[c].id
      u == users[i]
      new == [u EXCEPT !.mobile = IF call[c].mobile = Absent THEN @ ELSE call[c].mobile,
                       !.agent = IF call[c].agent = Absent THEN @ ELSE call[c].agent]
  IN /\ pc[c] = "write"
     /\ Handler(c) = "update" /\ ~OfSuper(call[c])
     /\ IF ~Matches(c, u) THEN Fail(c)
        ELSE IF ~Storable(i, new) THEN Fail(c)
        ELSE /\ users' = [users EXCEPT ![i] = new]
             /\ Go(c, "reread")
             /\ UNCHANGED <<usedIds, audited, credential, tokens, calls, locals>>

Reread(c) ==
  /\ pc[c] = "reread"
  /\ End(c, IF users[call[c].id] = None THEN "failed" ELSE "done")
  /\ UNCHANGED tables

ReadUserToRemove(c) ==
  LET u == Row(call[c].id) IN
  /\ pc[c] = "readUser"
  /\ Handler(c) = "remove"
  /\ IF u = None THEN Fail(c)
     ELSE IF ~CanManage(c, u) THEN Fail(c)
     ELSE /\ Go(c, IF IsAdmin(c) /\ u.type = "agent" THEN "countUsers" ELSE "write")
          /\ UNCHANGED <<tables, locals>>

CountUsers(c) ==
  /\ pc[c] = "countUsers"
  /\ IF HasUsers(call[c].id) THEN Fail(c)
     ELSE Go(c, "write") /\ UNCHANGED <<tables, locals>>

\* DELETE ... WHERE the criteria
RemoveWrite(c) ==
  LET i == call[c].id IN
  /\ pc[c] = "write"
  /\ Handler(c) = "remove"
  /\ IF ~Matches(c, users[i]) THEN Fail(c)
     ELSE IF Referenced(i) THEN Fail(c)
     ELSE /\ users' = [users EXCEPT ![i] = None]
          /\ End(c, "done")
          /\ UNCHANGED <<usedIds, audited, credential, tokens, calls>>

-----------------------------------------------------------------------------
(* changePassword, and the superadmin's profile: the row is read, changed  *)
(* in memory and saved whole.  save() selects the row again and writes the *)
(* columns that differ from what was read; a row that is gone it inserts.  *)

ReadUserToSave(c) ==
  LET u == users[Actor(c)] IN
  /\ pc[c] = "readUser"
  /\ Handler(c) = "password"
  /\ IF u = None \/ u.hash # call[c].old THEN Fail(c)
     ELSE /\ seen' = [seen EXCEPT ![c] = [u EXCEPT !.hash = call[c].new]]
          /\ Go(c, "select")
          /\ UNCHANGED <<tables, call, found, uid, tries, dirty>>

ReadCredentialToSave(c) ==
  LET u == credential
      saved(new) == /\ seen' = [seen EXCEPT ![c] = new]
                    /\ UNCHANGED <<tables, call, found, uid, tries, dirty>>
  IN /\ pc[c] = "readCredential"
     /\ Handler(c) \in {"password", "update"}
     /\ IF u = None \/ (Handler(c) = "password" /\ u.hash # call[c].old)
        THEN Fail(c)
        ELSE IF Handler(c) = "password"
        THEN saved([u EXCEPT !.hash = call[c].new]) /\ Go(c, "select")
        ELSE /\ saved([u EXCEPT !.mobile = IF call[c].mobile = Absent THEN @ ELSE call[c].mobile])
             /\ Go(c, IF call[c].mobile \in {Absent, u.mobile} THEN "select" ELSE "findMobile")

Columns == {"type", "agent", "mobile", "uid", "hash"}
Stored(c) == IF OfSuper(call[c]) THEN credential ELSE users[Actor(c)]

Select(c) ==
  /\ pc[c] = "select"
  /\ found' = [found EXCEPT ![c] = IF Stored(c) = None THEN None ELSE Actor(c)]
  /\ dirty' = [dirty EXCEPT ![c] = IF Stored(c) = None THEN {}
               ELSE {f \in DOMAIN seen[c] : seen[c][f] # Stored(c)[f]}]
  /\ Go(c, "write")
  /\ UNCHANGED <<tables, call, seen, uid, tries>>

Merged(c, u) == [f \in DOMAIN u |-> IF f \in dirty[c] THEN seen[c][f] ELSE u[f]]

\* UPDATE ... WHERE id, which has no effect without a row, or INSERT under the key
\* the entity was read with
SaveUser(c) ==
  LET i == Actor(c)
      inserts == found[c] = None
      new == IF inserts THEN seen[c] ELSE Merged(c, users[i])
  IN /\ pc[c] = "write"
     /\ Handler(c) = "password" /\ ~OfSuper(call[c])
     /\ IF users[i] = None /\ ~inserts THEN End(c, "done") /\ UNCHANGED tables
        ELSE IF (users[i] # None /\ inserts) \/ ~Storable(i, new) THEN Fail(c)
        ELSE /\ users' = [users EXCEPT ![i] = new]
             /\ End(c, "done")
             /\ UNCHANGED <<usedIds, audited, credential, tokens, calls>>

SaveCredential(c) ==
  /\ pc[c] = "write"
  /\ Handler(c) \in {"password", "update"} /\ OfSuper(call[c])
  /\ credential' = Merged(c, credential)
  /\ End(c, "done")
  /\ UNCHANGED <<users, usedIds, audited, tokens, calls>>

-----------------------------------------------------------------------------
(* login, and the credential a process seeds when it starts.               *)

\* a failed login of no account, and any of the superadmin's, is audited without
\* a reference to an account
LoginSuper(c) ==
  /\ pc[c] = "readCredential"
  /\ Handler(c) = "login"
  /\ IF credential = None \/ credential.hash # call[c].old THEN Fail(c)
     ELSE /\ tokens' = [tokens EXCEPT ![Super] = "superadmin"]
          /\ End(c, "done")
          /\ UNCHANGED <<users, usedIds, audited, credential, calls>>

ReadUserToLogin(c) ==
  /\ pc[c] = "readUser"
  /\ Handler(c) = "login"
  /\ \/ ~MobileTaken(call[c].mobile, None) /\ Fail(c)
     \/ \E i \in Ids :
          /\ users[i] # None /\ users[i].mobile = call[c].mobile
          /\ seen' = [seen EXCEPT ![c] = users[i]]
          /\ found' = [found EXCEPT ![c] = i]
          /\ Go(c, "audit")
          /\ UNCHANGED <<tables, call, uid, tries, dirty>>

\* the audit row references the account, so it must still exist; then the token
\* tells what was read
Audit(c) ==
  LET i == found[c]
      valid == seen[c].hash = call[c].old
  IN /\ pc[c] = "audit"
     /\ IF users[i] = None THEN Fail(c)
        ELSE /\ audited' = audited \cup {i}
             /\ tokens' = IF valid THEN [tokens EXCEPT ![i] = seen[c].type] ELSE tokens
             /\ End(c, IF valid THEN "done" ELSE "failed")
             /\ UNCHANGED <<users, usedIds, credential, calls>>

ReadCredentialToSeed(c) ==
  /\ pc[c] = "readCredential"
  /\ Handler(c) = "seed"
  /\ IF credential # None THEN End(c, "done") /\ UNCHANGED tables
     ELSE Go(c, "write") /\ UNCHANGED <<tables, locals>>

\* INSERT of a name that is unique: the process that loses does not start
InsertSeed(c, row) ==
  \/ credential = None /\ credential' = row /\ End(c, "done")
  \/ credential # None /\ UNCHANGED credential /\ End(c, "failed")

SeedWrite(c) ==
  /\ pc[c] = "write"
  /\ Handler(c) = "seed"
  /\ InsertSeed(c, [mobile |-> call[c].mobile, hash |-> call[c].new])
  /\ UNCHANGED <<users, usedIds, audited, tokens, calls>>

-----------------------------------------------------------------------------
Step(c) ==
  \/ FindMobile(c) \/ FindAgent(c) \/ Draw(c) \/ Insert(c) \/ AskMobile(c)
  \/ ReadUserToUpdate(c) \/ UpdateWrite(c) \/ Reread(c)
  \/ ReadUserToRemove(c) \/ CountUsers(c) \/ RemoveWrite(c)
  \/ ReadUserToSave(c) \/ ReadCredentialToSave(c) \/ Select(c) \/ SaveUser(c)
  \/ SaveCredential(c)
  \/ LoginSuper(c) \/ ReadUserToLogin(c) \/ Audit(c)
  \/ ReadCredentialToSeed(c) \/ SeedWrite(c)

\* the process or its connection is gone: what was written stays
Crash(c) == pc[c] \in Steps /\ Fail(c)

\* every call has been answered, or waits for a token
Terminating == (\A c \in Clients : pc[c] \in Ended \cup {"start"}) /\ UNCHANGED vars

Next ==
  \/ \E c \in Clients : Start(c) \/ Step(c) \/ Crash(c)
  \/ Terminating

\* a started handler runs on
Fairness == \A c \in Clients : WF_vars(Step(c))

Spec == Init /\ [][Next]_vars /\ Fairness

-----------------------------------------------------------------------------
(* What the accounts promise.                                              *)

\* Every variable has its type; the draws of a unique id stay within their limit.
TypeOK ==
  /\ users \in [Ids -> User \cup {None}]
  /\ usedIds \in SUBSET Ids
  /\ audited \in SUBSET Ids
  /\ credential \in Credential \cup {None}
  /\ tokens \in [Actors -> Types \cup {None}]
  /\ calls \in [Clients -> SUBSET Call]
  /\ pc \in [Clients -> Steps \cup Ended \cup {"start"}]
  /\ call \in [Clients -> Call \cup {None}]
  /\ seen \in [Clients -> User \cup Credential \cup {None}]
  /\ found \in [Clients -> Actors \cup {None}]
  /\ uid \in [Clients -> Uids \cup {None}]
  /\ tries \in [Clients -> 0..Attempts - 1]
  /\ dirty \in [Clients -> SUBSET Columns]

\* A user's agent is an existing account of type agent, although the agent may be
\* deleted between the lookup and the write, or be assigned a user between the
\* count and the deletion.
AssignedAgentExists == \A i \in Ids :
  users[i] # None /\ users[i].agent # None =>
    users[i].type = "user" /\ IsAgent(users[i].agent)

\* An agent's calls change or delete no row but the agent's own and those of
\* users assigned to the agent at that moment, even if an admin reassigns the
\* user after the handler checked.
AgentScopeHolds == [][\A c \in Clients, i \in Ids :
  /\ pc[c] = "write" /\ pc'[c] # "write" /\ Role(c) = "agent"
  /\ users[i] # None /\ users'[i] # users[i]
  => i = Actor(c) \/ users[i].agent = Actor(c)]_vars

\* A deleted account stays deleted.  A password change that read the row before
\* would insert it again; the audit of the login that gave its token is what
\* keeps the row from being deleted meanwhile.
RemovedStaysRemoved == [][\A i \in usedIds :
  users[i] = None => users'[i] = None]_vars

\* Every call that started is answered: the draws of a unique id end, however
\* many ids are taken.
EveryCallAnswered == \A c \in Clients : pc[c] \in Steps ~> pc[c] \in Ended

\* Only admins reassign users to an agent.  The code does not keep this: a password
\* change of the user saves the agent it read.
OnlyAdminsReassign == [][\A i \in Ids :
  users[i] # None /\ users'[i] # None /\ users'[i].agent # users[i].agent =>
    \E c \in Clients : pc'[c] # pc[c] /\ IsAdmin(c)]_vars

=============================================================================
