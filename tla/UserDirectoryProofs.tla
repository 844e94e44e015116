------------------------- MODULE UserDirectoryProofs -------------------------
(***************************************************************************)
(* What the accounts promise, for every set of accounts, calls and starts  *)
(* of a server process.                                                    *)
(*                                                                         *)
(* No handler holds a lock, so the inductive invariant says what is left   *)
(* of a read when the tables have moved on: an account that was read may   *)
(* be gone, but its key is not given out again and its type never changes; *)
(* and the account of a caller with a token cannot be gone, because the    *)
(* audit of the login that gave the token references it.                   *)
(***************************************************************************)
EXTENDS UserDirectory, TLAPS

\* the account i was read as u, and may have been deleted since
Was(i, u) ==
  /\ i \in usedIds
  /\ u \in User
  /\ users[i] # None => users[i].type = u.type

WasAgent(i) ==
  /\ i \in usedIds
  /\ users[i] # None => users[i].type = "agent"

\* a row that may be saved: its agent was one
Sound(u) == u.agent # None => u.type = "user" /\ WasAgent(u.agent)

Serves(c) ==
  /\ call[c] \in Call /\ Valid(call[c])
  /\ Handler(c) \notin {"login", "seed"} => Role(c) # None

Path(c) ==
  /\ pc[c] \in {"draw", "insert", "askMobile"} => Handler(c) = "create"
  /\ pc[c] \in {"findMobile", "findAgent"} => Handler(c) \in {"create", "update"}
  /\ pc[c] \in {"readUser", "findAgent"} => ~OfSuper(call[c])
  /\ pc[c] = "readCredential" => OfSuper(call[c]) \/ Handler(c) = "seed"
  /\ pc[c] = "countUsers" => Handler(c) = "remove"
  /\ pc[c] = "select" => \/ Handler(c) = "password"
                         \/ Handler(c) = "update" /\ OfSuper(call[c])

\* what a handler has found for the row it will insert
CreateFound(c) ==
  /\ pc[c] \in {"insert", "askMobile"} => uid[c] \in Uids
  /\ pc[c] \in {"draw", "insert", "askMobile"} /\ NewType(c) = "user" =>
       found[c] \in Ids /\ WasAgent(found[c])

UpdateFound(c) ==
  Handler(c) = "update" /\ ~OfSuper(call[c]) /\ pc[c] \in {"findAgent", "findMobile", "write"} =>
    /\ Was(call[c].id, seen[c])
    /\ call[c].agent # Absent => seen[c].type = "user"
    /\ pc[c] # "findAgent" /\ call[c].agent \in Ids => WasAgent(call[c].agent)

RemoveFound(c) ==
  Handler(c) = "remove" /\ pc[c] \in {"countUsers", "write"} => call[c].id \in Ids

SaveFound(c) ==
  Handler(c) = "password" /\ ~OfSuper(call[c]) /\ pc[c] \in {"select", "write"} =>
    /\ Was(Actor(c), seen[c]) /\ Sound(seen[c])
    /\ pc[c] = "write" => found[c] = Actor(c)

SuperFound(c) ==
  OfSuper(call[c]) /\ pc[c] \in {"findMobile", "select", "write"} =>
    /\ seen[c] \in Credential /\ credential # None
    /\ pc[c] = "write" => dirty[c] \subseteq {"mobile", "hash"}

LoginFound(c) == pc[c] = "audit" => Was(found[c], seen[c])

Session(c) == pc[c] \in Steps =>
  /\ Serves(c) /\ Path(c)
  /\ CreateFound(c) /\ UpdateFound(c) /\ RemoveFound(c) /\ SaveFound(c)
  /\ SuperFound(c) /\ LoginFound(c)

\* what keeps the accounts of callers from deletion, and keys from reuse
Kept ==
  /\ \A i \in Ids : users[i] # None => i \in usedIds
  /\ \A i \in audited : users[i] # None
  /\ \A i \in Ids : tokens[i] # None => i \in audited /\ tokens[i] = users[i].type
  /\ tokens[Super] \in {"superadmin", None}
  /\ \A c \in Clients : \A k \in calls[c] : Valid(k)

IInv ==
  /\ TypeOK
  /\ AssignedAgentExists
  /\ Kept
  /\ \A c \in Clients : Session(c)

-----------------------------------------------------------------------------
(* What any step leaves alone. *)

\* what other handlers rely on: no key is given out again, no type changes, a
\* caller keeps the token and the superadmin's row stays
Keeps ==
  /\ usedIds \subseteq usedIds'
  /\ \A i \in usedIds : users'[i] # None => users[i] # None /\ users'[i].type = users[i].type
  /\ \A a \in Actors : tokens[a] # None => tokens'[a] = tokens[a]
  /\ credential # None => credential' # None

OthersKeep(c) == \A d \in Clients \ {c} :
  /\ pc'[d] = pc[d] /\ call'[d] = call[d] /\ seen'[d] = seen[d] /\ found'[d] = found[d]
  /\ uid'[d] = uid[d] /\ tries'[d] = tries[d] /\ dirty'[d] = dirty[d]

TablesTyped ==
  /\ users \in [Ids -> User \cup {None}]
  /\ usedIds \in SUBSET Ids
  /\ audited \in SUBSET Ids
  /\ credential \in Credential \cup {None}
  /\ tokens \in [Actors -> Types \cup {None}]
  /\ calls \in [Clients -> SUBSET Call]

LocalsTyped ==
  /\ pc \in [Clients -> Steps \cup Ended \cup {"start"}]
  /\ call \in [Clients -> Call \cup {None}]
  /\ seen \in [Clients -> User \cup Credential \cup {None}]
  /\ found \in [Clients -> Actors \cup {None}]
  /\ uid \in [Clients -> Uids \cup {None}]
  /\ tries \in [Clients -> 0..Attempts - 1]
  /\ dirty \in [Clients -> SUBSET Columns]

LEMMA TypeSplits == TypeOK <=> TablesTyped /\ LocalsTyped
BY DEF TypeOK, TablesTyped, LocalsTyped

LEMMA EndForgets ==
  ASSUME NEW c \in Clients, NEW o \in Ended, LocalsTyped, End(c, o)
  PROVE  LocalsTyped' /\ OthersKeep(c) /\ pc'[c] = o /\ o \notin Steps
<1>1. 0 \in 0..Attempts - 1
  BY AttemptsAssumption
<1>. QED
  BY <1>1 DEF End, Go, LocalsTyped, OthersKeep, Ended, Steps

\* a handler that answers without writing
LEMMA FailKeeps ==
  ASSUME NEW c \in Clients, LocalsTyped, Fail(c)
  PROVE  LocalsTyped' /\ OthersKeep(c) /\ pc'[c] \notin Steps /\ UNCHANGED tables
BY EndForgets DEF Fail, Ended

LEMMA OtherSession ==
  ASSUME NEW c \in Clients, NEW d \in Clients \ {c}, TypeOK, Keeps, OthersKeep(c),
         Session(d)
  PROVE  Session(d)'
<1>. SUFFICES ASSUME pc[d] \in Steps
              PROVE  /\ Serves(d)' /\ Path(d)'
                     /\ CreateFound(d)' /\ UpdateFound(d)' /\ RemoveFound(d)'
                     /\ SaveFound(d)' /\ SuperFound(d)' /\ LoginFound(d)'
  BY DEF Session, OthersKeep
<1>1. /\ pc'[d] = pc[d] /\ call'[d] = call[d] /\ seen'[d] = seen[d]
      /\ found'[d] = found[d] /\ uid'[d] = uid[d] /\ dirty'[d] = dirty[d]
  BY DEF OthersKeep
<1>2. /\ Serves(d) /\ Path(d)
      /\ CreateFound(d) /\ UpdateFound(d) /\ RemoveFound(d) /\ SaveFound(d)
      /\ SuperFound(d) /\ LoginFound(d)
  BY DEF Session
<1>3. call[d] \in Call /\ Valid(call[d])
  BY <1>2 DEF Serves
<1>4. Handler(d) \notin {"login", "seed"} =>
        /\ Actor(d) \in Actors /\ Role(d) # None
        /\ tokens[Actor(d)] = Role(d) /\ tokens'[Actor(d)] = Role(d)
  BY <1>2, <1>3 DEF Serves, Valid, Handler, Actor, Role, Keeps
<1>5. /\ Handler(d)' = Handler(d) /\ Actor(d)' = Actor(d)
      /\ Handler(d) \notin {"login", "seed"} => Role(d)' = Role(d)
  BY <1>1, <1>4 DEF Handler, Actor, Role
<1>6. OfSuper(call[d])' <=> OfSuper(call[d])
  BY <1>1, <1>4 DEF OfSuper, Handler, Actor
<1>7. Handler(d) = "create" => NewType(d)' = NewType(d)
  BY <1>1, <1>5 DEF NewType
<1>8. /\ \A i, u : Was(i, u) => Was(i, u)'
      /\ \A i : WasAgent(i) => WasAgent(i)'
      /\ \A u : Sound(u) => Sound(u)'
  BY DEF Was, WasAgent, Sound, Keeps
<1>9. Serves(d)'
  BY <1>1, <1>2, <1>3, <1>5 DEF Serves, Valid
<1>10. Path(d)'
  BY <1>1, <1>2, <1>5, <1>6 DEF Path
<1>11. CreateFound(d)'
  BY <1>1, <1>2, <1>7, <1>8 DEF CreateFound, Path
<1>12. UpdateFound(d)'
  BY <1>1, <1>2, <1>5, <1>6, <1>8 DEF UpdateFound
<1>13. RemoveFound(d)'
  BY <1>1, <1>2, <1>5 DEF RemoveFound
<1>14. SaveFound(d)'
  BY <1>1, <1>2, <1>5, <1>6, <1>8 DEF SaveFound
<1>15. SuperFound(d)'
  BY <1>1, <1>2, <1>6 DEF SuperFound, Keeps
<1>16. LoginFound(d)'
  BY <1>1, <1>2, <1>8 DEF LoginFound
<1>. QED
  BY <1>9, <1>10, <1>11, <1>12, <1>13, <1>14, <1>15, <1>16

-----------------------------------------------------------------------------
(* The steps that write no table. *)

Quiet(c) ==
  UNCHANGED tables /\ LocalsTyped' /\ OthersKeep(c) /\ Session(c)'

LEMMA FailQuiet ==
  ASSUME NEW c \in Clients, LocalsTyped, Fail(c)
  PROVE  Quiet(c)
BY FailKeeps DEF Quiet, Session

\* a step that only moves on, perhaps with a new call or row
LEMMA Moves ==
  ASSUME NEW c \in Clients, TypeOK, NEW step \in Steps, Go(c, step)
  PROVE  /\ pc' \in [Clients -> Steps \cup Ended \cup {"start"}]
         /\ pc'[c] = step
         /\ \A d \in Clients \ {c} : pc'[d] = pc[d]
BY DEF Go, TypeOK

\* with the tables unchanged, a read is what it was
LEMMA SameReads ==
  ASSUME UNCHANGED tables
  PROVE  /\ \A i, u : Was(i, u)' <=> Was(i, u)
         /\ \A i : WasAgent(i)' <=> WasAgent(i)
         /\ \A u : Sound(u)' <=> Sound(u)
BY DEF tables, Was, WasAgent, Sound

\* with the call unchanged too, so is what the handler is about
LEMMA SameCall ==
  ASSUME NEW c \in Clients, UNCHANGED tables, UNCHANGED call
  PROVE  /\ Handler(c)' = Handler(c) /\ Actor(c)' = Actor(c)
         /\ Role(c)' = Role(c) /\ NewType(c)' = NewType(c)
         /\ OfSuper(call[c])' <=> OfSuper(call[c])
         /\ Serves(c)' <=> Serves(c)
BY DEF tables, Handler, Actor, Role, NewType, OfSuper, Serves, Valid

LEMMA StartQuiet ==
  ASSUME NEW c \in Clients, IInv, Start(c)
  PROVE  Quiet(c)
<1>. TypeOK /\ LocalsTyped
  BY TypeSplits DEF IInv
<1>1. PICK k \in calls[c] :
        /\ k.handler \notin {"login", "seed"} => tokens[k.actor] # None
        /\ \/ Fail(c)
           \/ /\ call' = [call EXCEPT ![c] = k]
              /\ Go(c, First(k))
              /\ UNCHANGED <<tables, seen, found, uid, tries, dirty>>
  BY DEF Start
<1>2. CASE Fail(c)
  BY <1>2, FailQuiet
<1>3. CASE /\ call' = [call EXCEPT ![c] = k]
           /\ Go(c, First(k))
           /\ UNCHANGED <<tables, seen, found, uid, tries, dirty>>
  <2>1. k \in Call /\ Valid(k)
    BY DEF IInv, Kept, TypeOK
  <2>2. /\ First(k) \in {"findMobile", "readCredential", "readUser"}
        /\ First(k) = "findMobile" => k.handler = "create"
    BY DEF First
  <2>3. First(k) \in Steps
    BY <2>2 DEF Steps
  <2>4. /\ pc' \in [Clients -> Steps \cup Ended \cup {"start"}]
        /\ pc'[c] = First(k)
        /\ \A d \in Clients \ {c} : pc'[d] = pc[d]
    BY <1>3, <2>3, Moves
  <2>5. call'[c] = k /\ \A d \in Clients \ {c} : call'[d] = call[d]
    BY <1>3 DEF TypeOK
  <2>6. LocalsTyped'
    BY <1>3, <2>1, <2>4 DEF LocalsTyped
  <2>7. OthersKeep(c)
    BY <1>3, <2>4, <2>5 DEF OthersKeep
  <2>8. /\ Handler(c)' = k.handler
        /\ k.handler \notin {"login", "seed"} => Role(c)' # None
        /\ k.handler = "create" => ~OfSuper(call[c])'
    BY <1>1, <1>3, <2>1, <2>5 DEF Handler, Role, Actor, Valid, tables, OfSuper
  <2>11. /\ First(k) = "readUser" => ~OfSuper(call[c])'
         /\ First(k) = "readCredential" => OfSuper(call[c])' \/ k.handler = "seed"
    BY <1>3, <2>5 DEF First, OfSuper, tables
  <2>9. Serves(c)'
    BY <2>1, <2>5, <2>8 DEF Serves, Valid
  <2>10. Session(c)'
    BY <2>2, <2>4, <2>8, <2>9, <2>11
       DEF Session, Path, CreateFound, UpdateFound, RemoveFound, SaveFound, SuperFound, LoginFound
  <2>. QED
    BY <1>3, <2>6, <2>7, <2>10 DEF Quiet
<1>. QED
  BY <1>1, <1>2, <1>3

LEMMA Running ==
  ASSUME NEW c \in Clients, IInv, pc[c] \in Steps
  PROVE  /\ TypeOK /\ LocalsTyped
         /\ Serves(c) /\ Path(c)
         /\ CreateFound(c) /\ UpdateFound(c) /\ RemoveFound(c) /\ SaveFound(c)
         /\ SuperFound(c) /\ LoginFound(c)
         /\ call[c] \in Call /\ Valid(call[c])
         /\ Handler(c) \notin {"login", "seed"} =>
              Actor(c) \in Actors /\ Role(c) = tokens[Actor(c)] /\ Role(c) # None
BY TypeSplits DEF IInv, Session, Serves, Valid, Handler, Actor, Role

LEMMA FindMobileQuiet ==
  ASSUME NEW c \in Clients, IInv, FindMobile(c)
  PROVE  Quiet(c)
<1>1. pc[c] = "findMobile" /\ pc[c] \in Steps
  BY DEF FindMobile, Steps
<1>. /\ TypeOK /\ LocalsTyped /\ Serves(c) /\ Path(c) /\ UpdateFound(c) /\ SuperFound(c)
  BY <1>1, Running
<1>2. CASE Fail(c)
  BY <1>2, FailQuiet
<1>3. CASE ~Fail(c)
  <2> DEFINE step == IF OfSuper(call[c]) THEN "select"
                     ELSE IF Handler(c) = "update" THEN "write"
                     ELSE IF NewType(c) = "user" THEN "findAgent" ELSE "draw"
  <2>1. step \in Steps /\ Go(c, step) /\ UNCHANGED <<tables, locals>>
    BY <1>3 DEF FindMobile, Steps
  <2>2. /\ pc' \in [Clients -> Steps \cup Ended \cup {"start"}]
        /\ pc'[c] = step
        /\ \A d \in Clients \ {c} : pc'[d] = pc[d]
    BY <2>1, Moves
  <2>3. LocalsTyped' /\ OthersKeep(c)
    BY <2>1, <2>2 DEF locals, LocalsTyped, OthersKeep
  <2>4. /\ Handler(c)' = Handler(c) /\ NewType(c)' = NewType(c)
        /\ OfSuper(call[c])' <=> OfSuper(call[c])
        /\ Serves(c)'
        /\ \A i, u : Was(i, u)' <=> Was(i, u)
        /\ \A i : WasAgent(i)' <=> WasAgent(i)
    BY <2>1, SameCall, SameReads DEF locals
  <2>5. Handler(c) \in {"create", "update"}
    BY <1>1 DEF Path
  <2>6. OfSuper(call[c]) => Handler(c) = "update"
    BY <2>5 DEF OfSuper, Handler
  <2>7. Path(c)'
    BY <2>2, <2>4, <2>5, <2>6 DEF Path
  <2>8. CreateFound(c)' /\ RemoveFound(c)' /\ SaveFound(c)' /\ LoginFound(c)'
    BY <2>2, <2>4, <2>5, <2>6 DEF CreateFound, RemoveFound, SaveFound, LoginFound
  <2>9. UpdateFound(c)' /\ SuperFound(c)'
    BY <1>1, <2>1, <2>2, <2>4, <2>5, <2>6 DEF UpdateFound, SuperFound, locals, tables
  <2>. QED
    BY <2>1, <2>3, <2>4, <2>7, <2>8, <2>9 DEF Quiet, Session
<1>. QED
  BY <1>2, <1>3

LEMMA FindAgentQuiet ==
  ASSUME NEW c \in Clients, IInv, FindAgent(c)
  PROVE  Quiet(c)
<1> DEFINE i == AgentAsked(c)
           step == IF Handler(c) = "create" THEN "draw" ELSE AfterAgent(c, seen[c])
<1>1. pc[c] = "findAgent" /\ pc[c] \in Steps
  BY DEF FindAgent, Steps
<1>. /\ TypeOK /\ LocalsTyped /\ Serves(c) /\ Path(c) /\ UpdateFound(c)
  BY <1>1, Running
<1>2. CASE Fail(c)
  BY <1>2, FailQuiet
<1>3. CASE ~Fail(c)
  <2>1. /\ IsAgent(i)
        /\ found' = [found EXCEPT ![c] = i]
        /\ Go(c, step)
        /\ UNCHANGED <<tables, call, seen, uid, tries, dirty>>
    BY <1>3 DEF FindAgent
  <2>2. step \in {"draw", "write", "findMobile"} /\ step \in Steps
    BY DEF AfterAgent, Steps
  <2>3. /\ pc' \in [Clients -> Steps \cup Ended \cup {"start"}]
        /\ pc'[c] = step
        /\ \A d \in Clients \ {c} : pc'[d] = pc[d]
    BY <2>1, <2>2, Moves
  <2>4. i \in Ids /\ WasAgent(i)
    BY <2>1 DEF IsAgent, WasAgent, IInv, Kept
  <2>5. LocalsTyped' /\ OthersKeep(c) /\ found'[c] = i
    BY <2>1, <2>3, <2>4 DEF LocalsTyped, OthersKeep, Actors
  <2>6. /\ Handler(c)' = Handler(c) /\ ~OfSuper(call[c])'
        /\ Serves(c)'
        /\ \A j, u : Was(j, u)' <=> Was(j, u)
        /\ \A j : WasAgent(j)' <=> WasAgent(j)
    BY <1>1, <2>1, SameCall, SameReads DEF Path
  <2>7. Handler(c) \in {"create", "update"} /\ (Handler(c) = "create" <=> step = "draw")
    BY <1>1 DEF Path, AfterAgent
  <2>8. Handler(c) = "update" => i = call[c].agent
    BY DEF AgentAsked
  <2>. HIDE DEF step, i
  <2>9. Path(c)'
    BY <2>2, <2>3, <2>6, <2>7 DEF Path
  <2>10. CreateFound(c)'
    BY <2>2, <2>3, <2>4, <2>5, <2>6 DEF CreateFound
  <2>11. RemoveFound(c)' /\ SaveFound(c)' /\ SuperFound(c)' /\ LoginFound(c)'
    BY <2>2, <2>3, <2>6, <2>7 DEF RemoveFound, SaveFound, SuperFound, LoginFound
  <2>12. UpdateFound(c)'
    BY <1>1, <2>1, <2>3, <2>4, <2>6, <2>8, Path(c) DEF UpdateFound, Path
  <2>. QED
    BY <2>1, <2>5, <2>6, <2>9, <2>10, <2>11, <2>12 DEF Quiet, Session
<1>. QED
  BY <1>2, <1>3

LEMMA DrawQuiet ==
  ASSUME NEW c \in Clients, IInv, Draw(c)
  PROVE  Quiet(c)
<1>1. pc[c] = "draw" /\ pc[c] \in Steps
  BY DEF Draw, Steps
<1>. /\ TypeOK /\ LocalsTyped /\ Serves(c) /\ Path(c) /\ CreateFound(c)
  BY <1>1, Running
<1>2. Handler(c) = "create"
  BY <1>1 DEF Path
<1>3. CASE Fail(c)
  BY <1>3, FailQuiet
<1>4. CASE ~Fail(c)
  <2>1. UNCHANGED <<tables, call, seen, found, dirty>>
    BY <1>4 DEF Draw
  <2>2. \/ /\ \E u \in Uids : uid' = [uid EXCEPT ![c] = u]
           /\ tries' = [tries EXCEPT ![c] = 0]
           /\ Go(c, "insert")
        \/ ~LastTry(c) /\ Retry(c) /\ UNCHANGED <<pc, uid>>
    BY <1>4 DEF Draw
  <2>3. tries' \in [Clients -> 0..Attempts - 1] /\ \A d \in Clients \ {c} : tries'[d] = tries[d]
    <3>1. tries[c] \in 0..Attempts - 1 /\ 0 \in 0..Attempts - 1
      BY AttemptsAssumption DEF TypeOK
    <3>2. ~LastTry(c) => tries[c] + 1 \in 0..Attempts - 1
      BY <3>1, AttemptsAssumption DEF LastTry
    <3>. QED
      BY <2>2, <3>1, <3>2 DEF TypeOK, Retry
  <2>4. /\ pc' \in [Clients -> Steps \cup Ended \cup {"start"}]
        /\ pc'[c] \in {"draw", "insert"}
        /\ \A d \in Clients \ {c} : pc'[d] = pc[d]
    BY <1>1, <2>2, Moves DEF TypeOK, Steps
  <2>5. /\ uid' \in [Clients -> Uids \cup {None}]
        /\ pc'[c] = "insert" => uid'[c] \in Uids
        /\ \A d \in Clients \ {c} : uid'[d] = uid[d]
    BY <1>1, <2>2 DEF TypeOK
  <2>6. LocalsTyped' /\ OthersKeep(c)
    BY <2>1, <2>3, <2>4, <2>5 DEF LocalsTyped, OthersKeep
  <2>7. /\ Handler(c)' = "create" /\ NewType(c)' = NewType(c) /\ ~OfSuper(call[c])'
        /\ Serves(c)'
        /\ \A j : WasAgent(j)' <=> WasAgent(j)
    BY <1>2, <2>1, SameCall, SameReads DEF OfSuper, Handler
  <2>8. Session(c)'
    BY <1>1, <2>1, <2>4, <2>5, <2>7
       DEF Session, Path, CreateFound, UpdateFound, RemoveFound, SaveFound, SuperFound, LoginFound
  <2>. QED
    BY <2>1, <2>6, <2>8 DEF Quiet
<1>. QED
  BY <1>3, <1>4

LEMMA AskMobileQuiet ==
  ASSUME NEW c \in Clients, IInv, AskMobile(c)
  PROVE  Quiet(c)
<1>1. pc[c] = "askMobile" /\ pc[c] \in Steps
  BY DEF AskMobile, Steps
<1>. /\ TypeOK /\ LocalsTyped /\ Serves(c) /\ Path(c) /\ CreateFound(c)
  BY <1>1, Running
<1>2. Handler(c) = "create"
  BY <1>1 DEF Path
<1>3. CASE Fail(c)
  BY <1>3, FailQuiet
<1>4. CASE ~Fail(c)
  <2>1. ~LastTry(c) /\ Retry(c) /\ Go(c, "insert")
        /\ UNCHANGED <<tables, call, seen, found, uid, dirty>>
    BY <1>4 DEF AskMobile
  <2>2. tries' \in [Clients -> 0..Attempts - 1] /\ \A d \in Clients \ {c} : tries'[d] = tries[d]
    <3>1. tries[c] \in 0..Attempts - 1
      BY DEF TypeOK
    <3>2. tries[c] + 1 \in 0..Attempts - 1
      BY <2>1, <3>1, AttemptsAssumption DEF LastTry
    <3>. QED
      BY <2>1, <3>2 DEF TypeOK, Retry
  <2>3. /\ pc' \in [Clients -> Steps \cup Ended \cup {"start"}]
        /\ pc'[c] = "insert"
        /\ \A d \in Clients \ {c} : pc'[d] = pc[d]
    BY <2>1, Moves DEF Steps
  <2>4. LocalsTyped' /\ OthersKeep(c)
    BY <2>1, <2>2, <2>3 DEF LocalsTyped, OthersKeep
  <2>5. /\ Handler(c)' = "create" /\ NewType(c)' = NewType(c) /\ ~OfSuper(call[c])'
        /\ Serves(c)'
        /\ \A j : WasAgent(j)' <=> WasAgent(j)
    BY <1>2, <2>1, SameCall, SameReads DEF OfSuper, Handler
  <2>6. Session(c)'
    BY <1>1, <2>1, <2>3, <2>5
       DEF Session, Path, CreateFound, UpdateFound, RemoveFound, SaveFound, SuperFound, LoginFound
  <2>. QED
    BY <2>1, <2>4, <2>6 DEF Quiet
<1>. QED
  BY <1>3, <1>4

\* an account found in the table
LEMMA FoundUser ==
  ASSUME IInv, NEW i \in Ids, users[i] # None
  PROVE  /\ users[i] \in User /\ Was(i, users[i]) /\ Sound(users[i])
         /\ users[i].agent \in Ids \cup {None}
<1>1. users[i] \in User
  BY DEF IInv, TypeOK
<1>2. Was(i, users[i])
  BY <1>1 DEF IInv, Kept, Was
<1>3. Sound(users[i])
  BY DEF IInv, AssignedAgentExists, IsAgent, Kept, Sound, WasAgent
<1>. QED
  BY <1>1, <1>2, <1>3 DEF User

LEMMA ReadUserToUpdateQuiet ==
  ASSUME NEW c \in Clients, IInv, ReadUserToUpdate(c)
  PROVE  Quiet(c)
<1> DEFINE i == call[c].id
           u == Row(i)
           agent == call[c].agent
           step == IF agent \in Ids THEN "findAgent" ELSE AfterAgent(c, u)
<1>1. pc[c] = "readUser" /\ pc[c] \in Steps /\ Handler(c) = "update"
  BY DEF ReadUserToUpdate, Steps
<1>. /\ TypeOK /\ LocalsTyped /\ Serves(c) /\ Path(c)
  BY <1>1, Running
<1>2. CASE Fail(c)
  BY <1>2, FailQuiet
<1>3. CASE ~Fail(c)
  <2>1. /\ u # None
        /\ agent # Absent => u.type = "user"
        /\ seen' = [seen EXCEPT ![c] = u]
        /\ Go(c, step)
        /\ UNCHANGED <<tables, call, found, uid, tries, dirty>>
    BY <1>3 DEF ReadUserToUpdate
  <2>2. step \in {"findAgent", "write", "findMobile"} /\ step \in Steps
        /\ (agent \in Ids => step = "findAgent")
    BY DEF AfterAgent, Steps
  <2>3. /\ pc' \in [Clients -> Steps \cup Ended \cup {"start"}]
        /\ pc'[c] = step
        /\ \A d \in Clients \ {c} : pc'[d] = pc[d]
    BY <2>1, <2>2, Moves
  <2>4. i \in Ids /\ u = users[i]
    BY <2>1 DEF Row
  <2>5. u \in User /\ Was(i, u)
    BY <2>1, <2>4, FoundUser
  <2>. HIDE DEF step, u
  <2>6. LocalsTyped' /\ OthersKeep(c) /\ seen'[c] = u
    BY <2>1, <2>3, <2>5 DEF LocalsTyped, OthersKeep
  <2>7. /\ Handler(c)' = "update" /\ ~OfSuper(call[c])'
        /\ Serves(c)'
        /\ \A j, v : Was(j, v)' <=> Was(j, v)
        /\ call' = call
    BY <1>1, <2>1, SameCall, SameReads DEF Path
  <2>8. UpdateFound(c)'
    BY <2>1, <2>2, <2>3, <2>5, <2>6, <2>7 DEF UpdateFound
  <2>9. Session(c)'
    BY <2>2, <2>3, <2>7, <2>8
       DEF Session, Path, CreateFound, RemoveFound, SaveFound, SuperFound, LoginFound
  <2>. QED
    BY <2>1, <2>6, <2>9 DEF Quiet
<1>. QED
  BY <1>2, <1>3

LEMMA RemoveQuiet ==
  ASSUME NEW c \in Clients, IInv, ReadUserToRemove(c) \/ CountUsers(c)
  PROVE  Quiet(c)
<1>1. pc[c] \in {"readUser", "countUsers"} /\ pc[c] \in Steps
  BY DEF ReadUserToRemove, CountUsers, Steps
<1>. /\ TypeOK /\ LocalsTyped /\ Serves(c) /\ Path(c) /\ RemoveFound(c)
  BY <1>1, Running
<1>2. CASE Fail(c)
  BY <1>2, FailQuiet
<1>3. CASE ~Fail(c)
  <2>1. PICK step \in {"countUsers", "write"} : Go(c, step)
    BY <1>3 DEF ReadUserToRemove, CountUsers
  <2>2. UNCHANGED <<tables, locals>>
    BY <1>3 DEF ReadUserToRemove, CountUsers
  <2>3. Handler(c) = "remove" /\ call[c].id \in Ids
    BY <1>3 DEF ReadUserToRemove, CountUsers, Path, RemoveFound, Row
  <2>4. /\ pc' \in [Clients -> Steps \cup Ended \cup {"start"}]
        /\ pc'[c] \in {"countUsers", "write"}
        /\ \A d \in Clients \ {c} : pc'[d] = pc[d]
    BY <2>1, Moves DEF Steps
  <2>5. LocalsTyped' /\ OthersKeep(c)
    BY <2>2, <2>4 DEF locals, LocalsTyped, OthersKeep
  <2>6. /\ Handler(c)' = "remove" /\ ~OfSuper(call[c])' /\ Serves(c)' /\ call' = call
    BY <2>2, <2>3, SameCall DEF OfSuper, Handler, locals
  <2>7. Session(c)'
    BY <2>3, <2>4, <2>6
       DEF Session, Path, CreateFound, UpdateFound, RemoveFound, SaveFound, SuperFound, LoginFound
  <2>. QED
    BY <2>2, <2>5, <2>7 DEF Quiet
<1>. QED
  BY <1>2, <1>3

LEMMA ReadUserToSaveQuiet ==
  ASSUME NEW c \in Clients, IInv, ReadUserToSave(c)
  PROVE  Quiet(c)
<1> DEFINE i == Actor(c)
           u == users[i]
           new == [u EXCEPT !.hash = call[c].new]
<1>1. pc[c] = "readUser" /\ pc[c] \in Steps /\ Handler(c) = "password"
  BY DEF ReadUserToSave, Steps
<1>. /\ TypeOK /\ LocalsTyped /\ Serves(c) /\ Path(c) /\ Valid(call[c])
  BY <1>1, Running
<1>2. CASE Fail(c)
  BY <1>2, FailQuiet
<1>3. CASE ~Fail(c)
  <2>1. /\ u # None
        /\ seen' = [seen EXCEPT ![c] = new]
        /\ Go(c, "select")
        /\ UNCHANGED <<tables, call, found, uid, tries, dirty>>
    BY <1>3 DEF ReadUserToSave
  <2>2. i \in Ids
    <3>1. i \in Actors /\ Role(c) = tokens[i] /\ tokens[i] # None
      BY <1>1, Running
    <3>2. tokens[i] # "superadmin"
      BY <1>1 DEF Path, OfSuper, Handler, Actor
    <3>. QED
      BY <3>1, <3>2 DEF Actors, IInv, Kept
  <2>3. u \in User /\ Was(i, u) /\ Sound(u)
    BY <2>1, <2>2, FoundUser
  <2>4. call[c].new \in Passwords
    BY <1>1 DEF Valid, Handler
  <2>. HIDE DEF u
  <2>5. new \in User /\ new.type = u.type /\ new.agent = u.agent
    BY <2>3, <2>4 DEF User
  <2>6. Was(i, new) /\ Sound(new)
    BY <2>3, <2>5 DEF Was, Sound
  <2>. HIDE DEF new
  <2>7. /\ pc' \in [Clients -> Steps \cup Ended \cup {"start"}]
        /\ pc'[c] = "select"
        /\ \A d \in Clients \ {c} : pc'[d] = pc[d]
    BY <2>1, Moves DEF Steps
  <2>8. LocalsTyped' /\ OthersKeep(c) /\ seen'[c] = new
    BY <2>1, <2>5, <2>7 DEF LocalsTyped, OthersKeep
  <2>9. /\ Handler(c)' = "password" /\ Actor(c)' = i /\ ~OfSuper(call[c])'
        /\ Serves(c)'
        /\ \A j, v : Was(j, v)' <=> Was(j, v)
        /\ \A v : Sound(v)' <=> Sound(v)
    BY <1>1, <2>1, SameCall, SameReads DEF Path
  <2>10. SaveFound(c)'
    BY <2>6, <2>7, <2>8, <2>9 DEF SaveFound
  <2>11. Session(c)'
    BY <2>7, <2>9, <2>10
       DEF Session, Path, CreateFound, UpdateFound, RemoveFound, SuperFound, LoginFound
  <2>. QED
    BY <2>1, <2>8, <2>11 DEF Quiet
<1>. QED
  BY <1>2, <1>3

LEMMA ReadCredentialToSaveQuiet ==
  ASSUME NEW c \in Clients, IInv, ReadCredentialToSave(c)
  PROVE  Quiet(c)
<1> DEFINE renamed == [credential EXCEPT !.mobile = IF call[c].mobile = Absent THEN @
                                                    ELSE call[c].mobile]
           rehashed == [credential EXCEPT !.hash = call[c].new]
<1>1. pc[c] = "readCredential" /\ pc[c] \in Steps /\ Handler(c) \in {"password", "update"}
  BY DEF ReadCredentialToSave, Steps
<1>. /\ TypeOK /\ LocalsTyped /\ Serves(c) /\ Path(c)
     /\ call[c] \in Call /\ Valid(call[c])
  BY <1>1, Running
<1>2. CASE Fail(c)
  BY <1>2, FailQuiet
<1>3. CASE ~Fail(c)
  <2>1. /\ credential # None
        /\ UNCHANGED <<tables, call, found, uid, tries, dirty>>
        /\ \/ /\ Handler(c) = "password"
              /\ seen' = [seen EXCEPT ![c] = rehashed] /\ Go(c, "select")
           \/ /\ Handler(c) = "update"
              /\ seen' = [seen EXCEPT ![c] = renamed]
              /\ \E step \in {"select", "findMobile"} : Go(c, step)
    BY <1>3 DEF ReadCredentialToSave
  <2>2. credential \in Credential
    BY <2>1 DEF TypeOK
  <2>3. Handler(c) = "password" => rehashed \in Credential
    BY <2>2 DEF Credential, Valid, Handler
  <2>4. renamed \in Credential
    BY <2>2 DEF Credential, Call
  <2>. HIDE DEF renamed, rehashed
  <2>5. PICK new \in Credential, step \in {"select", "findMobile"} :
          /\ step = "findMobile" => Handler(c) = "update"
          /\ seen' = [seen EXCEPT ![c] = new]
          /\ Go(c, step)
    BY <2>1, <2>3, <2>4
  <2>6. /\ pc' \in [Clients -> Steps \cup Ended \cup {"start"}]
        /\ pc'[c] = step
        /\ \A d \in Clients \ {c} : pc'[d] = pc[d]
    BY <2>5, Moves DEF Steps
  <2>7. LocalsTyped' /\ OthersKeep(c) /\ seen'[c] = new
    BY <2>1, <2>5, <2>6 DEF LocalsTyped, OthersKeep
  <2>8. /\ Handler(c)' = Handler(c) /\ OfSuper(call[c])' /\ Serves(c)'
        /\ credential' = credential
    BY <1>1, <2>1, SameCall DEF Path, tables
  <2>9. Session(c)'
    BY <1>1, <2>1, <2>5, <2>6, <2>7, <2>8
       DEF Session, Path, CreateFound, UpdateFound, RemoveFound, SaveFound, SuperFound, LoginFound
  <2>. QED
    BY <2>1, <2>7, <2>9 DEF Quiet
<1>. QED
  BY <1>2, <1>3

\* the account of a caller whose handler runs on it is there
LEMMA CallerThere ==
  ASSUME NEW c \in Clients, IInv, pc[c] \in Steps,
         Handler(c) \notin {"login", "seed"}, Actor(c) \in Ids
  PROVE  Actor(c) \in usedIds /\ users[Actor(c)] # None
BY Running DEF IInv, Kept

LEMMA SelectQuiet ==
  ASSUME NEW c \in Clients, IInv, Select(c)
  PROVE  Quiet(c)
<1>1. pc[c] = "select" /\ pc[c] \in Steps
  BY DEF Select, Steps
<1>. /\ TypeOK /\ LocalsTyped /\ Serves(c) /\ Path(c) /\ SaveFound(c) /\ SuperFound(c)
  BY <1>1, Running
<1>2. /\ \/ Handler(c) = "password"
         \/ Handler(c) = "update" /\ OfSuper(call[c])
      /\ Actor(c) \in Actors
  BY <1>1, Running DEF Path
<1>3. ~OfSuper(call[c]) =>
        /\ Was(Actor(c), seen[c]) /\ Sound(seen[c])
        /\ Actor(c) \in Ids /\ Stored(c) # None
  <2>1. ~OfSuper(call[c]) => Was(Actor(c), seen[c]) /\ Sound(seen[c])
    BY <1>1, <1>2 DEF SaveFound
  <2>2. ~OfSuper(call[c]) => Actor(c) \in Ids
    BY <2>1 DEF Was, TypeOK
  <2>. QED
    BY <1>1, <1>2, <2>1, <2>2, CallerThere DEF Stored
<1>4. OfSuper(call[c]) => seen[c] \in Credential /\ credential # None /\ Stored(c) # None
  BY <1>1 DEF SuperFound, Stored
<1> DEFINE changed == {f \in DOMAIN seen[c] : seen[c][f] # Stored(c)[f]}
<1>5. /\ found' = [found EXCEPT ![c] = Actor(c)]
      /\ dirty' = [dirty EXCEPT ![c] = changed]
      /\ Go(c, "write")
      /\ UNCHANGED <<tables, call, seen, uid, tries>>
  BY <1>3, <1>4 DEF Select
<1>6. /\ changed \subseteq Columns
      /\ OfSuper(call[c]) => changed \subseteq {"mobile", "hash"}
  BY <1>3, <1>4 DEF Columns, User, Credential, Was
<1>. HIDE DEF changed
<1>7. /\ pc' \in [Clients -> Steps \cup Ended \cup {"start"}]
      /\ pc'[c] = "write"
      /\ \A d \in Clients \ {c} : pc'[d] = pc[d]
  BY <1>5, Moves DEF Steps
<1>8. LocalsTyped' /\ OthersKeep(c) /\ found'[c] = Actor(c) /\ dirty'[c] = changed
  BY <1>2, <1>5, <1>6, <1>7 DEF LocalsTyped, OthersKeep
<1>9. /\ Handler(c)' = Handler(c) /\ Actor(c)' = Actor(c)
      /\ OfSuper(call[c])' <=> OfSuper(call[c])
      /\ Serves(c)'
      /\ \A j, v : Was(j, v)' <=> Was(j, v)
      /\ \A v : Sound(v)' <=> Sound(v)
  BY <1>5, SameCall, SameReads
<1>10. SaveFound(c)' /\ SuperFound(c)'
  BY <1>3, <1>4, <1>5, <1>6, <1>7, <1>8, <1>9 DEF SaveFound, SuperFound, tables
<1>11. Session(c)'
  BY <1>2, <1>7, <1>9, <1>10
     DEF Session, Path, CreateFound, UpdateFound, RemoveFound, LoginFound
<1>. QED
  BY <1>5, <1>8, <1>11 DEF Quiet

LEMMA ReadUserToLoginQuiet ==
  ASSUME NEW c \in Clients, IInv, ReadUserToLogin(c)
  PROVE  Quiet(c)
<1>1. pc[c] = "readUser" /\ pc[c] \in Steps /\ Handler(c) = "login"
  BY DEF ReadUserToLogin, Steps
<1>. /\ TypeOK /\ LocalsTyped /\ Serves(c) /\ Path(c)
  BY <1>1, Running
<1>2. CASE Fail(c)
  BY <1>2, FailQuiet
<1>3. CASE ~Fail(c)
  <2>1. PICK i \in Ids :
          /\ users[i] # None
          /\ seen' = [seen EXCEPT ![c] = users[i]]
          /\ found' = [found EXCEPT ![c] = i]
          /\ Go(c, "audit")
          /\ UNCHANGED <<tables, call, uid, tries, dirty>>
    BY <1>3 DEF ReadUserToLogin
  <2>2. users[i] \in User /\ Was(i, users[i])
    BY <2>1, FoundUser
  <2>3. /\ pc' \in [Clients -> Steps \cup Ended \cup {"start"}]
        /\ pc'[c] = "audit"
        /\ \A d \in Clients \ {c} : pc'[d] = pc[d]
    BY <2>1, Moves DEF Steps
  <2>4. LocalsTyped' /\ OthersKeep(c) /\ seen'[c] = users[i] /\ found'[c] = i
    BY <2>1, <2>2, <2>3 DEF LocalsTyped, OthersKeep, Actors
  <2>5. /\ Handler(c)' = "login" /\ Serves(c)'
        /\ \A j, v : Was(j, v)' <=> Was(j, v)
    BY <1>1, <2>1, SameCall, SameReads
  <2>6. Session(c)'
    BY <2>2, <2>3, <2>4, <2>5
       DEF Session, Path, CreateFound, UpdateFound, RemoveFound, SaveFound, SuperFound, LoginFound
  <2>. QED
    BY <2>1, <2>4, <2>6 DEF Quiet
<1>. QED
  BY <1>2, <1>3

LEMMA ReadCredentialToSeedQuiet ==
  ASSUME NEW c \in Clients, IInv, ReadCredentialToSeed(c)
  PROVE  Quiet(c)
<1>1. pc[c] = "readCredential" /\ pc[c] \in Steps /\ Handler(c) = "seed"
  BY DEF ReadCredentialToSeed, Steps
<1>. /\ TypeOK /\ LocalsTyped /\ Serves(c)
  BY <1>1, Running
<1>2. CASE End(c, "done") /\ UNCHANGED tables
  BY <1>2, EndForgets DEF Quiet, Session, Ended
<1>3. CASE Go(c, "write") /\ UNCHANGED <<tables, locals>>
  <2>1. /\ pc' \in [Clients -> Steps \cup Ended \cup {"start"}]
        /\ pc'[c] = "write"
        /\ \A d \in Clients \ {c} : pc'[d] = pc[d]
    BY <1>3, Moves DEF Steps
  <2>2. LocalsTyped' /\ OthersKeep(c)
    BY <1>3, <2>1 DEF locals, LocalsTyped, OthersKeep
  <2>3. Handler(c)' = "seed" /\ ~OfSuper(call[c])' /\ Serves(c)'
    BY <1>1, <1>3, SameCall DEF locals, OfSuper, Handler
  <2>4. Session(c)'
    BY <2>1, <2>3
       DEF Session, Path, CreateFound, UpdateFound, RemoveFound, SaveFound, SuperFound, LoginFound
  <2>. QED
    BY <1>3, <2>2, <2>4 DEF Quiet
<1>. QED
  BY <1>2, <1>3 DEF ReadCredentialToSeed

LEMMA RereadQuiet ==
  ASSUME NEW c \in Clients, IInv, Reread(c)
  PROVE  Quiet(c)
BY TypeSplits, EndForgets DEF Reread, IInv, Quiet, Session, Ended

-----------------------------------------------------------------------------
(* The steps that write a table. *)

Holds ==
  /\ TablesTyped /\ AssignedAgentExists /\ Kept

LEMMA QuietHolds ==
  ASSUME IInv, UNCHANGED tables
  PROVE  Holds' /\ Keeps
<1>. Holds
  BY TypeSplits DEF IInv, Holds
<1>1. TablesTyped' /\ Kept' /\ AssignedAgentExists'
  BY DEF Holds, TablesTyped, Kept, AssignedAgentExists, IsAgent, tables
<1>2. Keeps
  BY DEF tables, Keeps, Holds, TablesTyped
<1>. QED
  BY <1>1, <1>2 DEF Holds

\* a row that replaces one of its type, with an agent that exists
LEMMA Replaced ==
  ASSUME IInv, NEW i \in Ids, NEW new \in User, users[i] # None,
         new.type = users[i].type, Sound(new), Storable(i, new),
         users' = [users EXCEPT ![i] = new],
         UNCHANGED <<usedIds, audited, credential, tokens, calls>>
  PROVE  Holds' /\ Keeps
<1>. TablesTyped /\ Kept /\ AssignedAgentExists
  BY TypeSplits DEF IInv
<1>1. /\ users'[i] = new /\ new # None
      /\ \A j \in Ids \ {i} : users'[j] = users[j]
  BY NoneAssumption DEF TablesTyped
<1>2. TablesTyped'
  BY DEF TablesTyped
<1>3. Keeps
  BY <1>1 DEF Keeps, TablesTyped, Kept
<1>4. \A j \in Ids : IsAgent(j) => IsAgent(j)'
  BY <1>1 DEF IsAgent
<1>5. new.agent # None => new.type = "user" /\ IsAgent(new.agent)
  BY DEF Sound, WasAgent, Storable, IsAgent, TablesTyped
<1>6. AssignedAgentExists'
  <2>1. ASSUME NEW j \in Ids, users'[j] # None, users'[j].agent # None
        PROVE  users'[j].type = "user" /\ users'[j].agent \in Ids /\ IsAgent(users'[j].agent)
    BY <1>1, <1>5, <2>1 DEF AssignedAgentExists, IsAgent
  <2>. QED
    BY <1>4, <2>1 DEF AssignedAgentExists, IsAgent
<1>7. Kept'
  BY <1>1 DEF Kept, TablesTyped
<1>. QED
  BY <1>2, <1>3, <1>6, <1>7 DEF Holds

LEMMA Removed ==
  ASSUME IInv, NEW i \in Ids, users[i] # None, ~Referenced(i),
         users' = [users EXCEPT ![i] = None],
         UNCHANGED <<usedIds, audited, credential, tokens, calls>>
  PROVE  Holds' /\ Keeps
<1>. TablesTyped /\ Kept /\ AssignedAgentExists
  BY TypeSplits DEF IInv
<1>1. /\ users'[i] = None
      /\ \A j \in Ids \ {i} : users'[j] = users[j]
  BY DEF TablesTyped
<1>2. TablesTyped'
  BY DEF TablesTyped
<1>3. Keeps
  BY <1>1 DEF Keeps, TablesTyped, Kept
<1>4. AssignedAgentExists'
  BY <1>1 DEF AssignedAgentExists, IsAgent, Referenced, HasUsers
<1>5. Kept'
  BY <1>1 DEF Kept, TablesTyped, Referenced
<1>. QED
  BY <1>2, <1>3, <1>4, <1>5 DEF Holds

LEMMA Inserted ==
  ASSUME IInv, NEW i \in Ids \ usedIds, NEW new \in User, Sound(new), Storable(i, new),
         users' = [users EXCEPT ![i] = new], usedIds' = usedIds \cup {i},
         UNCHANGED <<audited, credential, tokens, calls>>
  PROVE  Holds' /\ Keeps
<1>. TablesTyped /\ Kept /\ AssignedAgentExists
  BY TypeSplits DEF IInv
<1>1. /\ users'[i] = new /\ new # None /\ users[i] = None
      /\ \A j \in Ids \ {i} : users'[j] = users[j]
  BY NoneAssumption DEF TablesTyped, Kept
<1>2. TablesTyped'
  BY DEF TablesTyped
<1>3. Keeps
  BY <1>1 DEF Keeps, TablesTyped, Kept
<1>4. \A j \in Ids : IsAgent(j) => IsAgent(j)'
  BY <1>1 DEF IsAgent
<1>5. new.agent # None => new.type = "user" /\ IsAgent(new.agent)
  BY DEF Sound, WasAgent, Storable, IsAgent, TablesTyped
<1>6. AssignedAgentExists'
  <2>1. ASSUME NEW j \in Ids, users'[j] # None, users'[j].agent # None
        PROVE  users'[j].type = "user" /\ users'[j].agent \in Ids /\ IsAgent(users'[j].agent)
    BY <1>1, <1>5, <2>1 DEF AssignedAgentExists, IsAgent
  <2>. QED
    BY <1>4, <2>1 DEF AssignedAgentExists, IsAgent
<1>7. Kept'
  BY <1>1 DEF Kept, TablesTyped
<1>. QED
  BY <1>2, <1>3, <1>6, <1>7 DEF Holds

Advances(c) ==
  Holds' /\ Keeps /\ LocalsTyped' /\ OthersKeep(c) /\ Session(c)'

LEMMA QuietAdvances ==
  ASSUME NEW c \in Clients, IInv, Quiet(c)
  PROVE  Advances(c)
BY QuietHolds DEF Quiet, Advances

LEMMA FailAdvances ==
  ASSUME NEW c \in Clients, IInv, Fail(c)
  PROVE  Advances(c)
BY TypeSplits, FailQuiet, QuietAdvances DEF IInv

\* a write that ends the call
LEMMA EndAdvances ==
  ASSUME NEW c \in Clients, NEW o \in Ended, IInv, Holds', Keeps, End(c, o)
  PROVE  Advances(c)
BY TypeSplits, EndForgets DEF IInv, Advances, Session

LEMMA InsertAdvances ==
  ASSUME NEW c \in Clients, IInv, Insert(c)
  PROVE  Advances(c)
<1> DEFINE type == NewType(c)
           agent == IF type = "user" THEN found[c] ELSE None
           new(u) == [type |-> type, agent |-> agent, mobile |-> call[c].mobile,
                      uid |-> u, hash |-> call[c].new]
<1>1. pc[c] = "insert" /\ pc[c] \in Steps
  BY DEF Insert, Steps
<1>. /\ TypeOK /\ LocalsTyped /\ Serves(c) /\ Path(c) /\ CreateFound(c)
     /\ call[c] \in Call /\ Valid(call[c])
  BY <1>1, Running
<1>2. Handler(c) = "create"
  BY <1>1 DEF Path
<1>3. PICK u \in IF tries[c] = 0 THEN {uid[c]} ELSE Uids :
        \/ Fail(c)
        \/ Go(c, "askMobile") /\ UNCHANGED <<tables, locals>>
        \/ \E i \in Ids \ usedIds :
             /\ Storable(i, new(u))
             /\ users' = [users EXCEPT ![i] = new(u)]
             /\ usedIds' = usedIds \cup {i}
             /\ End(c, "done")
             /\ UNCHANGED <<audited, credential, tokens, calls>>
  BY DEF Insert
<1>4. CASE Fail(c)
  BY <1>4, FailAdvances
<1>5. CASE Go(c, "askMobile") /\ UNCHANGED <<tables, locals>>
  <2>1. /\ pc' \in [Clients -> Steps \cup Ended \cup {"start"}]
        /\ pc'[c] = "askMobile"
        /\ \A d \in Clients \ {c} : pc'[d] = pc[d]
    BY <1>5, Moves DEF Steps
  <2>2. LocalsTyped' /\ OthersKeep(c)
    BY <1>5, <2>1 DEF locals, LocalsTyped, OthersKeep
  <2>3. /\ Handler(c)' = "create" /\ NewType(c)' = NewType(c) /\ ~OfSuper(call[c])'
        /\ Serves(c)'
        /\ \A j : WasAgent(j)' <=> WasAgent(j)
    BY <1>2, <1>5, SameCall, SameReads DEF OfSuper, Handler, locals
  <2>4. Session(c)'
    BY <1>1, <1>5, <2>1, <2>3
       DEF Session, Path, CreateFound, UpdateFound, RemoveFound, SaveFound, SuperFound,
           LoginFound, locals
  <2>. QED
    BY <1>5, <2>2, <2>4, QuietAdvances DEF Quiet
<1>6. ASSUME NEW i \in Ids \ usedIds,
             Storable(i, new(u)),
             users' = [users EXCEPT ![i] = new(u)],
             usedIds' = usedIds \cup {i},
             End(c, "done"),
             UNCHANGED <<audited, credential, tokens, calls>>
      PROVE  Advances(c)
  <2>1. u \in Uids
    BY <1>1, <1>3 DEF CreateFound
  <2>2. call[c].mobile \in Mobiles /\ call[c].new \in Passwords
    BY <1>2 DEF Valid, Handler
  <2>3. type \in Types
    <3>1. call[c].type \in Types \cup {None}
      BY DEF Call
    <3>. QED
      BY <3>1 DEF NewType, Types
  <2>4. /\ agent \in Ids \cup {None}
        /\ agent # None => type = "user" /\ WasAgent(agent)
    BY <1>1 DEF CreateFound
  <2>. HIDE DEF type, agent
  <2>5. new(u) \in User /\ new(u).type = type /\ new(u).agent = agent
    BY <2>1, <2>2, <2>3, <2>4 DEF User
  <2>6. Sound(new(u))
    BY <2>4, <2>5 DEF Sound
  <2>. HIDE DEF new
  <2>7. Holds' /\ Keeps
    BY <1>6, <2>5, <2>6, Inserted
  <2>. QED
    BY <1>6, <2>7, EndAdvances DEF Ended
<1>. QED
  BY <1>3, <1>4, <1>5, <1>6

LEMMA UpdateWriteAdvances ==
  ASSUME NEW c \in Clients, IInv, UpdateWrite(c)
  PROVE  Advances(c)
<1> DEFINE i == call[c].id
           u == users[i]
           new == [u EXCEPT !.mobile = IF call[c].mobile = Absent THEN @ ELSE call[c].mobile,
                            !.agent = IF call[c].agent = Absent THEN @ ELSE call[c].agent]
<1>1. pc[c] = "write" /\ pc[c] \in Steps /\ Handler(c) = "update" /\ ~OfSuper(call[c])
  BY DEF UpdateWrite, Steps
<1>. /\ TypeOK /\ LocalsTyped /\ Serves(c) /\ UpdateFound(c) /\ call[c] \in Call
  BY <1>1, Running
<1>2. CASE Fail(c)
  BY <1>2, FailAdvances
<1>3. CASE ~Fail(c)
  <2>1. /\ Matches(c, u) /\ Storable(i, new)
        /\ users' = [users EXCEPT ![i] = new]
        /\ Go(c, "reread")
        /\ UNCHANGED <<usedIds, audited, credential, tokens, calls, locals>>
    BY <1>3 DEF UpdateWrite
  <2>2. /\ Was(i, seen[c]) /\ i \in Ids
        /\ call[c].agent # Absent => seen[c].type = "user"
        /\ call[c].agent \in Ids => WasAgent(call[c].agent)
    BY <1>1 DEF UpdateFound, Was, TypeOK
  <2>3. u # None /\ u \in User /\ Sound(u)
    BY <2>1, <2>2, FoundUser DEF Matches
  <2>4. u.type = seen[c].type
    BY <2>2, <2>3 DEF Was
  <2>5. /\ call[c].mobile \in Mobiles \cup {Absent}
        /\ call[c].agent \in Ids \cup {None, Absent}
    BY DEF Call
  <2>. HIDE DEF u
  <2>6. /\ new \in User /\ new.type = u.type
        /\ new.agent = IF call[c].agent = Absent THEN u.agent ELSE call[c].agent
    BY <2>3, <2>5 DEF User
  <2>7. Sound(new)
    BY <2>2, <2>3, <2>4, <2>5, <2>6 DEF Sound
  <2>. HIDE DEF new, i
  <2>8. Holds' /\ Keeps
    BY <2>1, <2>2, <2>3, <2>6, <2>7, Replaced DEF u
  <2>9. /\ pc' \in [Clients -> Steps \cup Ended \cup {"start"}]
        /\ pc'[c] = "reread"
        /\ \A d \in Clients \ {c} : pc'[d] = pc[d]
    BY <2>1, Moves DEF Steps
  <2>10. LocalsTyped' /\ OthersKeep(c)
    BY <2>1, <2>9 DEF locals, LocalsTyped, OthersKeep
  <2>11. Handler(c)' = "update" /\ Serves(c)'
    BY <1>1, <2>1 DEF Serves, Valid, Handler, Role, Actor, locals
  <2>12. Session(c)'
    BY <2>9, <2>11
       DEF Session, Path, CreateFound, UpdateFound, RemoveFound, SaveFound, SuperFound, LoginFound
  <2>. QED
    BY <2>8, <2>10, <2>12 DEF Advances
<1>. QED
  BY <1>2, <1>3

LEMMA RemoveWriteAdvances ==
  ASSUME NEW c \in Clients, IInv, RemoveWrite(c)
  PROVE  Advances(c)
<1>1. pc[c] = "write" /\ pc[c] \in Steps /\ Handler(c) = "remove"
  BY DEF RemoveWrite, Steps
<1>2. call[c].id \in Ids
  BY <1>1, Running DEF RemoveFound
<1>3. CASE Fail(c)
  BY <1>3, FailAdvances
<1>4. CASE ~Fail(c)
  <2>1. Holds' /\ Keeps
    BY <1>2, <1>4, Removed DEF RemoveWrite, Matches
  <2>. QED
    BY <1>4, <2>1, EndAdvances DEF RemoveWrite, Ended
<1>. QED
  BY <1>3, <1>4

\* what a save finds: the caller's row, which it can only replace
LEMMA SaveFinds ==
  ASSUME NEW c \in Clients, IInv, SaveUser(c)
  PROVE  /\ Actor(c) \in Ids /\ users[Actor(c)] # None /\ found[c] # None
         /\ Was(Actor(c), seen[c]) /\ Sound(seen[c])
<1>1. pc[c] = "write" /\ pc[c] \in Steps /\ Handler(c) = "password" /\ ~OfSuper(call[c])
  BY DEF SaveUser, Steps
<1>2. Was(Actor(c), seen[c]) /\ Sound(seen[c]) /\ found[c] = Actor(c)
  BY <1>1, Running DEF SaveFound
<1>3. Actor(c) \in Ids
  BY <1>2 DEF Was, IInv, TypeOK
<1>4. found[c] # None
  BY <1>2, <1>3, IdsAssumption, NoneAssumption
<1>. QED
  BY <1>1, <1>2, <1>3, <1>4, CallerThere

LEMMA SaveUserAdvances ==
  ASSUME NEW c \in Clients, IInv, SaveUser(c)
  PROVE  Advances(c)
<1> DEFINE i == Actor(c)
           new == Merged(c, users[i])
<1>1. /\ i \in Ids /\ users[i] # None /\ found[c] # None
      /\ Was(i, seen[c]) /\ Sound(seen[c])
  BY SaveFinds
<1>2. CASE Fail(c)
  BY <1>2, FailAdvances
<1>3. CASE ~Fail(c)
  <2>1. /\ Storable(i, new)
        /\ users' = [users EXCEPT ![i] = new]
        /\ End(c, "done")
        /\ UNCHANGED <<usedIds, audited, credential, tokens, calls>>
    BY <1>1, <1>3 DEF SaveUser
  <2>2. users[i] \in User /\ Sound(users[i])
    BY <1>1, FoundUser
  <2>3. seen[c] \in User /\ seen[c].type = users[i].type
    BY <1>1 DEF Was
  <2>4. new = [type |-> users[i].type,
               agent |-> IF "agent" \in dirty[c] THEN seen[c].agent ELSE users[i].agent,
               mobile |-> IF "mobile" \in dirty[c] THEN seen[c].mobile ELSE users[i].mobile,
               uid |-> IF "uid" \in dirty[c] THEN seen[c].uid ELSE users[i].uid,
               hash |-> IF "hash" \in dirty[c] THEN seen[c].hash ELSE users[i].hash]
    BY <2>2, <2>3 DEF Merged, User
  <2>. HIDE DEF new
  <2>5. /\ new \in User /\ new.type = users[i].type
        /\ new.agent \in {seen[c].agent, users[i].agent}
    BY <2>2, <2>3, <2>4 DEF User
  <2>6. Sound(new)
    BY <1>1, <2>2, <2>3, <2>5 DEF Sound
  <2>7. Holds' /\ Keeps
    BY <1>1, <2>1, <2>5, <2>6, Replaced
  <2>. QED
    BY <2>1, <2>7, EndAdvances DEF Ended
<1>. QED
  BY <1>2, <1>3

\* the superadmin's row is written, or a token is given
LEMMA CredentialWritten ==
  ASSUME IInv, credential' \in Credential, UNCHANGED <<users, usedIds, audited, tokens, calls>>
  PROVE  Holds' /\ Keeps
<1>. TablesTyped /\ Kept /\ AssignedAgentExists
  BY TypeSplits DEF IInv
<1>1. TablesTyped' /\ AssignedAgentExists' /\ Kept'
  BY DEF TablesTyped, AssignedAgentExists, IsAgent, Kept
<1>2. Keeps
  BY NoneAssumption DEF Keeps, TablesTyped
<1>. QED
  BY <1>1, <1>2 DEF Holds

LEMMA SaveCredentialAdvances ==
  ASSUME NEW c \in Clients, IInv, SaveCredential(c)
  PROVE  Advances(c)
<1>1. pc[c] = "write" /\ pc[c] \in Steps /\ OfSuper(call[c])
  BY DEF SaveCredential, Steps
<1>2. seen[c] \in Credential /\ credential \in Credential
  BY <1>1, Running DEF SuperFound, TypeOK
<1>3. Merged(c, credential) =
        [mobile |-> IF "mobile" \in dirty[c] THEN seen[c].mobile ELSE credential.mobile,
         hash |-> IF "hash" \in dirty[c] THEN seen[c].hash ELSE credential.hash]
  BY <1>2 DEF Merged, Credential
<1>4. Merged(c, credential) \in Credential
  BY <1>2, <1>3 DEF Credential
<1>5. Holds' /\ Keeps
  BY <1>4, CredentialWritten DEF SaveCredential
<1>. QED
  BY <1>5, EndAdvances DEF SaveCredential, Ended

LEMMA SeedWriteAdvances ==
  ASSUME NEW c \in Clients, IInv, SeedWrite(c)
  PROVE  Advances(c)
<1> DEFINE row == [mobile |-> call[c].mobile, hash |-> call[c].new]
<1>1. pc[c] = "write" /\ pc[c] \in Steps /\ Handler(c) = "seed"
  BY DEF SeedWrite, Steps
<1>2. row \in Credential
  BY <1>1, Running DEF Valid, Handler, Credential
<1>3. CASE credential' = row /\ End(c, "done")
  BY <1>2, <1>3, CredentialWritten, EndAdvances DEF SeedWrite, Ended
<1>4. CASE UNCHANGED credential /\ End(c, "failed")
  <2>1. UNCHANGED tables
    BY <1>4 DEF SeedWrite, tables
  <2>. QED
    BY <1>4, <2>1, QuietHolds, EndAdvances DEF Ended
<1>. QED
  BY <1>3, <1>4 DEF SeedWrite, InsertSeed

LEMMA LoginSuperAdvances ==
  ASSUME NEW c \in Clients, IInv, LoginSuper(c)
  PROVE  Advances(c)
<1>1. CASE Fail(c)
  BY <1>1, FailAdvances
<1>2. CASE ~Fail(c)
  <2>. TablesTyped /\ Kept /\ AssignedAgentExists
    BY TypeSplits DEF IInv
  <2>1. /\ tokens' = [tokens EXCEPT ![Super] = "superadmin"]
        /\ End(c, "done")
        /\ UNCHANGED <<users, usedIds, audited, credential, calls>>
    BY <1>2 DEF LoginSuper
  <2>2. /\ tokens'[Super] = "superadmin"
        /\ \A i \in Ids : tokens'[i] = tokens[i]
        /\ tokens' \in [Actors -> Types \cup {None}]
    BY <2>1, IdsAssumption DEF TablesTyped, Actors, Super, Types
  <2>3. TablesTyped' /\ AssignedAgentExists' /\ Kept'
    BY <2>1, <2>2 DEF TablesTyped, AssignedAgentExists, IsAgent, Kept
  <2>4. Keeps
    BY <2>1, <2>2 DEF Keeps, TablesTyped, Actors, Kept
  <2>. QED
    BY <2>1, <2>3, <2>4, EndAdvances DEF Holds, Ended
<1>. QED
  BY <1>1, <1>2

LEMMA AuditAdvances ==
  ASSUME NEW c \in Clients, IInv, Audit(c)
  PROVE  Advances(c)
<1> DEFINE i == found[c]
           valid == seen[c].hash = call[c].old
<1>1. pc[c] = "audit" /\ pc[c] \in Steps
  BY DEF Audit, Steps
<1>2. Was(i, seen[c])
  BY <1>1, Running DEF LoginFound
<1>3. CASE Fail(c)
  BY <1>3, FailAdvances
<1>4. CASE ~Fail(c)
  <2>. TablesTyped /\ Kept /\ AssignedAgentExists
    BY TypeSplits DEF IInv
  <2>1. /\ users[i] # None
        /\ audited' = audited \cup {i}
        /\ tokens' = IF valid THEN [tokens EXCEPT ![i] = seen[c].type] ELSE tokens
        /\ UNCHANGED <<users, usedIds, credential, calls>>
    BY <1>4 DEF Audit
  <2>2. \E o \in Ended : End(c, o)
    BY <1>4 DEF Audit, Ended
  <2>3. i \in Ids /\ seen[c].type = users[i].type /\ seen[c].type \in Types
    BY <1>2, <2>1 DEF Was, TablesTyped, User
  <2>4. /\ tokens' \in [Actors -> Types \cup {None}]
        /\ tokens'[i] \in {tokens[i], users[i].type}
        /\ \A a \in Actors \ {i} : tokens'[a] = tokens[a]
    BY <2>1, <2>3 DEF TablesTyped, Actors
  <2>5. Super \notin Ids /\ Super \in Actors
    BY IdsAssumption DEF Super, Actors
  <2>6. tokens[i] # None => tokens'[i] = tokens[i]
    BY <2>3, <2>4 DEF Kept
  <2>. HIDE DEF i, valid
  <2>7. TablesTyped' /\ AssignedAgentExists'
    BY <2>1, <2>3, <2>4 DEF TablesTyped, AssignedAgentExists, IsAgent
  <2>8. Kept'
    <3>1. \A j \in audited' : users'[j] # None
      BY <2>1 DEF Kept
    <3>2. \A j \in Ids : tokens'[j] # None => j \in audited' /\ tokens'[j] = users'[j].type
      BY <2>1, <2>3, <2>4 DEF Kept, Actors
    <3>3. tokens'[Super] = tokens[Super]
      BY <2>3, <2>4, <2>5
    <3>. QED
      BY <2>1, <3>1, <3>2, <3>3 DEF Kept
  <2>9. Keeps
    BY <2>1, <2>4, <2>6 DEF Keeps, TablesTyped
  <2>. QED
    BY <2>2, <2>7, <2>8, <2>9, EndAdvances DEF Holds
<1>. QED
  BY <1>3, <1>4

-----------------------------------------------------------------------------
(* The invariant. *)

LEMMA StepAdvances ==
  ASSUME NEW c \in Clients, IInv, Start(c) \/ Step(c) \/ Crash(c)
  PROVE  Advances(c)
<1>1. CASE Start(c)
  BY <1>1, StartQuiet, QuietAdvances
<1>2. CASE FindMobile(c) \/ FindAgent(c) \/ Draw(c) \/ AskMobile(c)
  BY <1>2, FindMobileQuiet, FindAgentQuiet, DrawQuiet, AskMobileQuiet, QuietAdvances
<1>3. CASE Insert(c)
  BY <1>3, InsertAdvances
<1>4. CASE ReadUserToUpdate(c) \/ Reread(c) \/ ReadUserToRemove(c) \/ CountUsers(c)
  BY <1>4, ReadUserToUpdateQuiet, RereadQuiet, RemoveQuiet, QuietAdvances
<1>5. CASE UpdateWrite(c) \/ RemoveWrite(c)
  BY <1>5, UpdateWriteAdvances, RemoveWriteAdvances
<1>6. CASE ReadUserToSave(c) \/ ReadCredentialToSave(c) \/ Select(c)
  BY <1>6, ReadUserToSaveQuiet, ReadCredentialToSaveQuiet, SelectQuiet, QuietAdvances
<1>7. CASE SaveUser(c) \/ SaveCredential(c)
  BY <1>7, SaveUserAdvances, SaveCredentialAdvances
<1>8. CASE LoginSuper(c) \/ Audit(c)
  BY <1>8, LoginSuperAdvances, AuditAdvances
<1>9. CASE ReadUserToLogin(c) \/ ReadCredentialToSeed(c)
  BY <1>9, ReadUserToLoginQuiet, ReadCredentialToSeedQuiet, QuietAdvances
<1>10. CASE SeedWrite(c) \/ Crash(c)
  BY <1>10, SeedWriteAdvances, FailAdvances DEF Crash
<1>. QED
  BY <1>1, <1>2, <1>3, <1>4, <1>5, <1>6, <1>7, <1>8, <1>9, <1>10 DEF Step

LEMMA DirectoryInit == Init => IInv
<1>. SUFFICES ASSUME Init PROVE IInv
  OBVIOUS
<1>1. PICK d \in Scenarios :
        /\ users = d.users
        /\ usedIds = {i \in Ids : d.users[i] # None}
        /\ audited = d.audited
        /\ credential = d.credential
        /\ tokens = d.tokens
        /\ calls = d.calls
  BY DEF Init
<1>2. /\ users \in [Ids -> User \cup {None}]
      /\ usedIds = {i \in Ids : users[i] # None}
      /\ audited \subseteq {i \in Ids : users[i] # None}
      /\ credential \in Credential \cup {None}
      /\ tokens \in [Actors -> Types \cup {None}]
      /\ tokens[Super] \in {"superadmin", None}
      /\ \A i \in Ids : tokens[i] # None => i \in audited /\ tokens[i] = users[i].type
      /\ \A i \in Ids : users[i] # None /\ users[i].agent # None =>
           /\ users[i].type = "user"
           /\ users[users[i].agent] # None
           /\ users[users[i].agent].type = "agent"
      /\ calls \in [Clients -> SUBSET {k \in Call : Valid(k)}]
  BY <1>1, ScenariosAssumption
<1>3. TablesTyped
  BY <1>2 DEF TablesTyped
<1>4. LocalsTyped
  <2>1. 0 \in 0..Attempts - 1
    BY AttemptsAssumption
  <2>. QED
    BY <2>1 DEF Init, LocalsTyped
<1>5. AssignedAgentExists
  BY <1>2 DEF AssignedAgentExists, IsAgent, User
<1>6. Kept
  BY <1>2 DEF Kept
<1>7. \A c \in Clients : Session(c)
  BY DEF Init, Session, Steps
<1>. QED
  BY <1>3, <1>4, <1>5, <1>6, <1>7, TypeSplits DEF IInv

LEMMA DirectoryStep == IInv /\ [Next]_vars => IInv'
<1>. SUFFICES ASSUME IInv, [Next]_vars PROVE IInv'
  OBVIOUS
<1>1. ASSUME NEW c \in Clients, Start(c) \/ Step(c) \/ Crash(c)
      PROVE  IInv'
  <2>1. Advances(c)
    BY <1>1, StepAdvances
  <2>2. TypeOK'
    BY <2>1, TypeSplits DEF Advances, Holds, TypeOK, TablesTyped, LocalsTyped
  <2>3. \A d \in Clients \ {c} : Session(d)'
    BY <2>1, OtherSession DEF Advances, IInv
  <2>. QED
    BY <2>1, <2>2, <2>3 DEF Advances, Holds, IInv
<1>2. CASE UNCHANGED vars
  <2>1. Holds'
    BY <1>2, QuietHolds DEF vars
  <2>2. TypeOK'
    BY <1>2 DEF IInv, TypeOK, vars, tables, locals
  <2>3. \A c \in Clients : Session(c)'
    <3>1. UNCHANGED tables /\ UNCHANGED call
      BY <1>2 DEF vars, locals
    <3>. TAKE c \in Clients
    <3>2. /\ Handler(c)' = Handler(c) /\ Actor(c)' = Actor(c)
          /\ NewType(c)' = NewType(c)
          /\ OfSuper(call[c])' <=> OfSuper(call[c])
          /\ Serves(c)' <=> Serves(c)
      BY <3>1, SameCall
    <3>3. /\ \A i, u : Was(i, u)' <=> Was(i, u)
          /\ \A i : WasAgent(i)' <=> WasAgent(i)
          /\ \A u : Sound(u)' <=> Sound(u)
      BY <3>1, SameReads
    <3>4. Session(c)
      BY DEF IInv
    <3>. QED
      BY <1>2, <3>2, <3>3, <3>4
         DEF Session, Path, CreateFound, UpdateFound, RemoveFound, SaveFound, SuperFound,
             LoginFound, vars, tables, locals
  <2>. QED
    BY <2>1, <2>2, <2>3 DEF Holds, IInv
<1>. QED
  BY <1>1, <1>2 DEF Next, Terminating

THEOREM DirectorySafety == Spec => []IInv
BY DirectoryInit, DirectoryStep, PTL DEF Spec

\* The tables and the locals of the handlers keep their types, and the draws of a
\* unique id their limit, whatever calls interleave.
THEOREM DirectoryTypes == Spec => []TypeOK
BY DirectorySafety, PTL DEF IInv

\* A user's agent is always an existing agent, although no handler that assigns or
\* deletes one locks it: the foreign keys stop what the checks cannot.
THEOREM AgentsExist == Spec => []AssignedAgentExists
BY DirectorySafety, PTL DEF IInv

-----------------------------------------------------------------------------
(* What a step may not do. *)

\* a handler that moves is the one that takes the step
LEMMA MoverSteps ==
  ASSUME NEW c \in Clients, IInv, Next, pc'[c] # pc[c]
  PROVE  Start(c) \/ Step(c) \/ Crash(c)
<1>1. ~Terminating
  BY DEF Terminating, vars
<1>2. PICK d \in Clients : Start(d) \/ Step(d) \/ Crash(d)
  BY <1>1 DEF Next
<1>3. OthersKeep(d)
  BY <1>2, StepAdvances DEF Advances
<1>. QED
  BY <1>2, <1>3 DEF OthersKeep

LEMMA NoWrite ==
  ASSUME NEW c \in Clients, Start(c) \/ Step(c) \/ Crash(c),
         ~Insert(c), ~UpdateWrite(c), ~RemoveWrite(c), ~SaveUser(c)
  PROVE  UNCHANGED users
BY DEF Step, Start, Crash, Fail, tables, FindMobile, FindAgent, Draw, AskMobile,
       ReadUserToUpdate, Reread, ReadUserToRemove, CountUsers, ReadUserToSave,
       ReadCredentialToSave, Select, SaveCredential, LoginSuper, ReadUserToLogin, Audit,
       ReadCredentialToSeed, SeedWrite

InOwnScope == \A c \in Clients, i \in Ids :
  /\ pc[c] = "write" /\ pc'[c] # "write" /\ Role(c) = "agent"
  /\ users[i] # None /\ users'[i] # users[i]
  => i = Actor(c) \/ users[i].agent = Actor(c)

\* An agent's call writes only the agent's own row or that of a user assigned to
\* the agent when it is written: a check made before another call reassigned the
\* user does not count.
THEOREM ScopeHolds == Spec => AgentScopeHolds
<1>1. IInv /\ [Next]_vars => [InOwnScope]_vars
  <2>. SUFFICES ASSUME IInv, Next PROVE InOwnScope
    OBVIOUS
  <2>1. ASSUME NEW c \in Clients, NEW i \in Ids,
               pc[c] = "write", pc'[c] # "write", Role(c) = "agent",
               users[i] # None, users'[i] # users[i]
        PROVE  i = Actor(c) \/ users[i].agent = Actor(c)
    <3>1. Start(c) \/ Step(c) \/ Crash(c)
      BY <2>1, MoverSteps
    <3>2. users \in [Ids -> User \cup {None}]
      BY DEF IInv, TypeOK
    <3>3. ~Insert(c)
      BY <2>1 DEF Insert
    <3>4. CASE UpdateWrite(c)
      <4>1. i = call[c].id /\ Matches(c, users[i])
        BY <2>1, <3>2, <3>4 DEF UpdateWrite, Fail, tables
      <4>. QED
        BY <2>1, <4>1 DEF Matches, IsAdmin, InScope, IsSelf
    <3>5. CASE RemoveWrite(c)
      <4>1. i = call[c].id /\ Matches(c, users[i]) /\ Handler(c) = "remove"
        BY <2>1, <3>2, <3>5 DEF RemoveWrite, Fail, tables
      <4>. QED
        BY <2>1, <4>1 DEF Matches, IsAdmin, InScope, IsSelf
    <3>6. CASE SaveUser(c)
      BY <2>1, <3>2, <3>6 DEF SaveUser, Fail, tables
    <3>. QED
      BY <2>1, <3>1, <3>3, <3>4, <3>5, <3>6, NoWrite
  <2>. QED
    BY <2>1 DEF InOwnScope
<1>. QED
  BY <1>1, DirectorySafety, PTL DEF Spec, AgentScopeHolds, InOwnScope

StaysRemoved == \A i \in usedIds : users[i] = None => users'[i] = None

\* An account that was deleted does not come back, although saving an entity whose
\* row is gone inserts it again: the caller who could do so has a token, and the
\* audit of that login keeps the row from deletion.
THEOREM RemovedStay == Spec => RemovedStaysRemoved
<1>1. IInv /\ [Next]_vars => [StaysRemoved]_vars
  <2>. SUFFICES ASSUME IInv, Next PROVE StaysRemoved
    OBVIOUS
  <2>1. CASE \E c \in Clients : Start(c) \/ Step(c) \/ Crash(c)
    <3>1. Keeps
      BY <2>1, StepAdvances DEF Advances
    <3>. QED
      BY <3>1 DEF Keeps, StaysRemoved
  <2>2. CASE Terminating
    BY <2>2 DEF Terminating, vars, tables, StaysRemoved
  <2>. QED
    BY <2>1, <2>2 DEF Next
<1>. QED
  BY <1>1, DirectorySafety, PTL DEF Spec, RemovedStaysRemoved, StaysRemoved

=============================================================================
