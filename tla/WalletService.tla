---------------------------- MODULE WalletService ----------------------------
(***************************************************************************)
(* The wallet service of the casino backend: the handlers of               *)
(* src/wallet/wallet.service.ts, and the two game steps that share the     *)
(* wallets table (a bet's debit and a winner's credit), as transactions    *)
(* that interleave at every statement that reads, locks or commits.        *)
(*                                                                         *)
(* A transaction locks rows with SELECT ... FOR UPDATE, keeps local copies *)
(* of what it read and computes its writes from those copies.  PostgreSQL  *)
(* runs it at READ COMMITTED: its writes become visible, and its locks are *)
(* released, when it commits, so the writes and the commit are one action. *)
(* The rows its INSERTs reference are locked FOR KEY SHARE, which waits    *)
(* for another transaction's FOR UPDATE on them.                           *)
(***************************************************************************)
EXTENDS Naturals, Sequences

CONSTANTS
  Users,       \* rows of "Users" that can own a wallet
  Admin,       \* an admin or the superadmin
  Kind,        \* the type of each user: "user" or "agent"
  AgentOf,     \* the agent a user is assigned to, or None
  WalletIds,   \* primary keys of wallets
  RequestIds,  \* primary keys of wallet_requests
  Clients,     \* HTTP calls, each handled once (a retry is another call)
  CallsOf,     \* the calls each client may make
  Limit,       \* the wallet limit, 999_999_999_999_999 cents in the code
  None

Actors == Users \cup {Admin}
Types == {"ADD_POINTS", "WITHDRAW"}
Statuses == {"PENDING", "ACCEPTED", "REJECTED"}
Buckets == {"MAIN", "TEMPORARY_WINNING"}
Sources == {"ADMIN_ADD", "WITHDRAW", "GAME_WIN", "GAME_ENTRY"}
\* handlers that lock the owner first, that lock the request first, that lock
\* neither, and the two of the game
ByUser == {"create", "transfer", "request"}
ByDecision == {"accept", "acceptOwn", "reject"}
ByRequest == {"edit", "delete"}
ByGame == {"bet", "win"}
Handlers == ByUser \cup ByDecision \cup ByRequest \cup ByGame

Call == [handler : Handlers, actor : Actors, user : Users, request : RequestIds,
         amount : Nat \cup {None}, type : Types \cup {None}]
Wallet == [owner : Users, main : Nat, temp : Nat]
Request == [user : Users, wallet : WalletIds, type : Types,
            amount : Nat \ {0}, status : Statuses]
\* what a caller sees of a request
RequestView == [user : Users, type : Types, amount : Nat \ {0}, status : Statuses]
Decision == [action : {"CREATED", "ACCEPTED", "REJECTED"}, by : Actors,
             before : Nat \cup {None}, after : Nat \cup {None}]
Entry == [type : {"CREDIT", "DEBIT"}, source : Sources, amount : Nat,
          before : Nat, after : Nat, request : RequestIds \cup {None}]

ASSUME ActorsAssumption ==
  /\ Admin \notin Users
  /\ Kind \in [Users -> {"user", "agent"}]
  /\ AgentOf \in [Users -> Users \cup {None}]
ASSUME CallsAssumption == CallsOf \in [Clients -> SUBSET Call]
ASSUME LimitAssumption == Limit \in Nat
ASSUME NoneAssumption ==
  /\ None \notin Users \cup WalletIds \cup RequestIds \cup Clients \cup Types
  /\ None \notin Nat \cup Call \cup Wallet \cup Request \cup RequestView

VARIABLES
  wallets,      \* the rows of wallets, None where there is no row
  requests,     \* the rows of wallet_requests, None where there is no row
  usedRequests, \* the keys already given out: a serial key is not reused
  actions,      \* the rows of wallet_request_actions of each request
  ledger,       \* the rows of transactions of each wallet and bucket
  userLock,     \* the client holding each row FOR UPDATE, or None
  walletLock,
  requestLock,
  pc,           \* where each client is in its handler
  call,         \* the call it makes
  row,          \* the request entity it has read
  dirty,        \* the columns save() found changed
  mine,         \* the wallet it has read, None if the owner has none
  balance       \* its copy of that wallet's balances

db == <<wallets, requests, usedRequests, actions, ledger>>
locks == <<userLock, walletLock, requestLock>>
locals == <<call, row, dirty, mine, balance>>
vars == <<db, locks, pc, locals>>

Ended == {"done", "failed"}
Active == {"lockUser", "readWallet", "lockRequest", "readRequest",
           "selectRequest", "lockWallet", "write", "insert"}
Zero == [main |-> 0, temp |-> 0]

Init ==
  /\ wallets = [w \in WalletIds |-> None]
  /\ requests = [r \in RequestIds |-> None]
  /\ usedRequests = {}
  /\ actions = [r \in RequestIds |-> << >>]
  /\ ledger = [w \in WalletIds |-> [b \in Buckets |-> << >>]]
  /\ userLock = [u \in Users |-> None]
  /\ walletLock = [w \in WalletIds |-> None]
  /\ requestLock = [r \in RequestIds |-> None]
  /\ pc = [c \in Clients |-> "start"]
  /\ call = [c \in Clients |-> None]
  /\ row = [c \in Clients |-> None]
  /\ dirty = [c \in Clients |-> {}]
  /\ mine = [c \in Clients |-> None]
  /\ balance = [c \in Clients |-> Zero]

-----------------------------------------------------------------------------
(* Who may do what. *)

Role(a) == IF a = Admin THEN "admin" ELSE Kind[a]

\* assertCanManageWalletUser
CanManage(u, a) ==
  \/ Role(a) = "admin"
  \/ a = u
  \/ Role(a) = "agent" /\ Kind[u] = "user" /\ AgentOf[u] = a

\* assertCanManageWalletRequestUser: agents cannot decide their own requests
CanDecide(u, a) == CanManage(u, a) /\ ~(Role(a) = "agent" /\ a = u)

\* the role guards of the controller and the checks made before any query
Admissible(k) ==
  /\ k.handler \in {"create", "accept"} => Role(k.actor) # "user"
  /\ k.handler \in {"transfer", "bet"} => Role(k.actor) = "user" /\ k.actor = k.user
  /\ k.handler = "win" => Role(k.actor) = "admin"
  /\ k.handler \in {"create", "request", "bet", "win"} => k.amount # None
  /\ k.handler \in {"request", "bet", "win", "edit"} => k.amount # 0
  /\ k.handler = "request" => k.type # None
  /\ k.handler = "edit" => k.amount # None \/ k.type # None
  /\ k.amount # None => k.amount <= Limit

First(h) ==
  CASE h \in ByUser -> "lockUser"
    [] h \in ByDecision -> "lockRequest"
    [] h \in ByRequest -> "readRequest"
    [] h \in ByGame -> "lockWallet"

-----------------------------------------------------------------------------
(* What a client waits for. *)

Handler(c) == call[c].handler
Owner(c) == IF row[c] # None THEN row[c].user ELSE call[c].user
WalletsOf(u) == {w \in WalletIds : wallets[w] # None /\ wallets[w].owner = u}

\* the amount a decision moves is the request's, any other the call's
Amount(c) == IF row[c] # None THEN row[c].amount ELSE call[c].amount
IsCredit(c) == Handler(c) = "acceptOwn" \/ row[c].type = "ADD_POINTS"

\* mutant: only the credits are checked
Overfilled(c) ==
  CASE Handler(c) = "create" -> balance[c].main + Amount(c) > Limit
    [] Handler(c) = "win" -> balance[c].temp + Amount(c) > Limit
    [] OTHER -> FALSE

\* the checks between locking the wallet and the first write
Refused(c) ==
  CASE Handler(c) = "create" -> balance[c].main + Amount(c) > Limit
    [] Handler(c) = "transfer" -> \/ balance[c].temp = 0
                                  \/ balance[c].main + balance[c].temp > Limit
    [] Handler(c) \in {"accept", "acceptOwn"} ->
         IF IsCredit(c) THEN balance[c].main + Amount(c) > Limit
                        ELSE balance[c].main < Amount(c)
    [] Handler(c) = "bet" -> balance[c].temp > 0 \/ balance[c].main < Amount(c)
    [] Handler(c) = "win" -> balance[c].temp + Amount(c) > Limit
    [] OTHER -> FALSE

\* the users whose rows the INSERTs of the write reference
KeyShareUsers(c) ==
  CASE Handler(c) \in {"request", "reject"} -> {call[c].actor} \cap Users
    [] Handler(c) \in {"accept", "acceptOwn"} ->
         {Owner(c), call[c].actor} \cap Users
    [] Handler(c) \in {"bet", "win"} -> {Owner(c)}
    [] OTHER -> {}

\* the request an unlocked UPDATE or DELETE waits for
RequestsWritten(c) ==
  IF Handler(c) \in ByRequest THEN {call[c].request} ELSE {}

\* the other transactions that hold a row c's next statement needs
Blockers(c) ==
  (CASE pc[c] = "lockUser" -> {userLock[Owner(c)]}
     [] pc[c] = "lockRequest" -> {requestLock[call[c].request]}
     [] pc[c] = "lockWallet" -> {walletLock[w] : w \in WalletsOf(Owner(c))}
     [] pc[c] = "write" /\ ~Refused(c) ->
          {userLock[u] : u \in KeyShareUsers(c)}
            \cup {walletLock[w] : w \in {mine[c]} \cap WalletIds}
            \cup {requestLock[r] : r \in RequestsWritten(c)}
     [] pc[c] = "insert" -> {userLock[Owner(c)], walletLock[row[c].wallet]}
     [] OTHER -> {}) \ {c, None}

Deadlocked(c) == \E S \in SUBSET Clients :
  c \in S /\ \A d \in S : Blockers(d) \cap S # {}

-----------------------------------------------------------------------------
(* The transactions. *)

\* commit or roll back: locks are released and the handler's locals are gone
End(c, outcome) ==
  /\ pc' = [pc EXCEPT ![c] = outcome]
  /\ userLock' = [u \in Users |-> IF userLock[u] = c THEN None ELSE userLock[u]]
  /\ walletLock' =
       [w \in WalletIds |-> IF walletLock[w] = c THEN None ELSE walletLock[w]]
  /\ requestLock' =
       [r \in RequestIds |-> IF requestLock[r] = c THEN None ELSE requestLock[r]]
  /\ call' = [call EXCEPT ![c] = None]
  /\ row' = [row EXCEPT ![c] = None]
  /\ dirty' = [dirty EXCEPT ![c] = {}]
  /\ mine' = [mine EXCEPT ![c] = None]
  /\ balance' = [balance EXCEPT ![c] = Zero]

\* mutant: a failing handler keeps its locks
Abandon(c) ==
  /\ pc' = [pc EXCEPT ![c] = "failed"]
  /\ call' = [call EXCEPT ![c] = None]
  /\ row' = [row EXCEPT ![c] = None]
  /\ dirty' = [dirty EXCEPT ![c] = {}]
  /\ mine' = [mine EXCEPT ![c] = None]
  /\ balance' = [balance EXCEPT ![c] = Zero]
  /\ UNCHANGED <<db, locks>>
Rollback(c) == End(c, "failed") /\ UNCHANGED db

Start(c) ==
  /\ pc[c] = "start"
  /\ \E k \in CallsOf[c] :
       \/ /\ Admissible(k)
          /\ call' = [call EXCEPT ![c] = k]
          /\ pc' = [pc EXCEPT ![c] = First(k.handler)]
          /\ UNCHANGED <<db, locks, row, dirty, mine, balance>>
       \/ ~Admissible(k) /\ Rollback(c)

\* mutant: the owner is read without FOR UPDATE
SeeUser(c) == UNCHANGED userLock
TakeUser(c) == userLock' = [userLock EXCEPT ![Owner(c)] = c]

LockUser(c) ==
  /\ pc[c] = "lockUser"
  /\ Blockers(c) = {}
  /\ \/ /\ CanManage(Owner(c), call[c].actor)
        /\ TakeUser(c)
        /\ pc' = [pc EXCEPT ![c] = IF Handler(c) = "request" THEN "readWallet"
                                                            ELSE "lockWallet"]
        /\ UNCHANGED <<db, walletLock, requestLock, locals>>
     \/ ~CanManage(Owner(c), call[c].actor) /\ Rollback(c)

\* createWalletRequest reads the wallet without locking it
ReadWallet(c) ==
  /\ pc[c] = "readWallet"
  /\ \/ \E w \in WalletsOf(Owner(c)) : mine' = [mine EXCEPT ![c] = w]
     \/ WalletsOf(Owner(c)) = {} /\ UNCHANGED mine
  /\ pc' = [pc EXCEPT ![c] = "write"]
  /\ UNCHANGED <<db, locks, call, row, dirty, balance>>

\* mutant: the status is not checked
Reachable(r, a) == requests[r] # None /\ CanDecide(requests[r].user, a)
Decidable(r, a) ==
  /\ requests[r] # None
  /\ CanDecide(requests[r].user, a)
  /\ requests[r].status = "PENDING"

\* mutant: the request is read without FOR UPDATE
SeeRequest(c, r) ==
  UNCHANGED requestLock /\ row' = [row EXCEPT ![c] = requests[r]]
TakeRequest(c, r) ==
  /\ requestLock' = [requestLock EXCEPT ![r] = c]
  /\ row' = [row EXCEPT ![c] = requests[r]]

\* the first query of accept and reject, and the checks that follow it
LockRequest(c) ==
  LET r == call[c].request
      decidable == Decidable(r, call[c].actor)
  IN /\ pc[c] = "lockRequest"
     /\ Blockers(c) = {}
     /\ \/ /\ decidable
           /\ TakeRequest(c, r)
           /\ pc' = [pc EXCEPT ![c] = "lockWallet"]
           /\ UNCHANGED <<db, userLock, walletLock, call, dirty, mine, balance>>
        \/ ~decidable /\ Rollback(c)

Balances(w) == [main |-> wallets[w].main, temp |-> wallets[w].temp]

\* mutant: the wallet is read without FOR UPDATE
SeeWallet(c, w) ==
  /\ UNCHANGED walletLock
  /\ mine' = [mine EXCEPT ![c] = w]
  /\ balance' = [balance EXCEPT ![c] = Balances(w)]
TakeWallet(c, w) ==
  /\ walletLock' = [walletLock EXCEPT ![w] = c]
  /\ mine' = [mine EXCEPT ![c] = w]
  /\ balance' = [balance EXCEPT ![c] = Balances(w)]

\* reject and accept go on without a wallet; create makes one
LockWallet(c) ==
  LET u == Owner(c) IN
  /\ pc[c] = "lockWallet"
  /\ Blockers(c) = {}
  /\ \/ /\ \E w \in WalletsOf(u) : TakeWallet(c, w)
        /\ pc' = [pc EXCEPT ![c] = "write"]
        /\ UNCHANGED <<db, userLock, requestLock, call, row, dirty>>
     \/ /\ WalletsOf(u) = {}
        /\ Handler(c) \in {"create", "accept", "acceptOwn", "reject"}
        /\ pc' = [pc EXCEPT ![c] = "write"]
        /\ UNCHANGED <<db, locks, locals>>
     \/ /\ WalletsOf(u) = {}
        /\ Handler(c) \in {"transfer", "bet", "win"}
        /\ Rollback(c)

Refuse(c) == pc[c] = "write" /\ Refused(c) /\ Rollback(c)

-----------------------------------------------------------------------------
(* The writes of each handler, with its commit. *)

Writing(c, hs) ==
  /\ pc[c] = "write"
  /\ Handler(c) \in hs
  /\ ~Refused(c)
  /\ Blockers(c) = {}

\* the wallet a write goes to: the one read, or a new row
Target(c) == IF mine[c] # None THEN {mine[c]}
                               ELSE {w \in WalletIds : wallets[w] = None}

SaveWallet(c, w, main, temp) ==
  wallets' = [wallets EXCEPT ![w] =
    [owner |-> Owner(c), main |-> main, temp |-> temp]]

NewEntry(type, source, amount, before, after, r) ==
  [type |-> type, source |-> source, amount |-> amount,
   before |-> before, after |-> after, request |-> r]

Post(w, b, e) == ledger' = [ledger EXCEPT ![w][b] = Append(@, e)]

Record(r, action, by, shown) ==
  actions' = [actions EXCEPT ![r] = Append(@,
    [action |-> action, by |-> by, before |-> shown, after |-> shown])]

CreateWrite(c) ==
  LET before == balance[c].main
      after == before + Amount(c)
  IN /\ Writing(c, {"create"})
     /\ \E w \in Target(c) :
          /\ SaveWallet(c, w, after, balance[c].temp)
          /\ \/ /\ Amount(c) > 0
                /\ Post(w, "MAIN",
                     NewEntry("CREDIT", "ADMIN_ADD", Amount(c), before, after, None))
             \/ Amount(c) = 0 /\ UNCHANGED ledger
     /\ End(c, "done")
     /\ UNCHANGED <<requests, usedRequests, actions>>

TransferWrite(c) ==
  LET w == mine[c]
      temp == balance[c].temp
      before == balance[c].main
      after == before + temp
  IN /\ Writing(c, {"transfer"})
     /\ SaveWallet(c, w, after, 0)
     /\ ledger' = [ledger EXCEPT
          ![w]["TEMPORARY_WINNING"] =
             Append(@, NewEntry("DEBIT", "GAME_WIN", temp, temp, 0, None)),
          ![w]["MAIN"] =
             Append(@, NewEntry("CREDIT", "GAME_WIN", temp, before, after, None))]
     /\ End(c, "done")
     /\ UNCHANGED <<requests, usedRequests, actions>>

RequestWrite(c) ==
  /\ Writing(c, {"request"})
  /\ \E w \in Target(c), r \in RequestIds \ usedRequests :
       /\ \/ mine[c] = None /\ SaveWallet(c, w, 0, 0)
          \/ mine[c] # None /\ UNCHANGED wallets
       /\ requests' = [requests EXCEPT ![r] =
            [user |-> Owner(c), wallet |-> w, type |-> call[c].type,
             amount |-> Amount(c), status |-> "PENDING"]]
       /\ usedRequests' = usedRequests \cup {r}
       /\ Record(r, "CREATED", call[c].actor, None)
  /\ End(c, "done")
  /\ UNCHANGED ledger

AcceptWrite(c) ==
  LET r == call[c].request
      before == balance[c].main
      after == IF IsCredit(c) THEN before + Amount(c) ELSE before - Amount(c)
  IN /\ Writing(c, {"accept", "acceptOwn"})
     /\ \E w \in Target(c) :
          /\ SaveWallet(c, w, after, balance[c].temp)
          /\ requests' = [requests EXCEPT ![r] =
               [row[c] EXCEPT !.wallet = w, !.status = "ACCEPTED"]]
          /\ Post(w, "MAIN",
               IF IsCredit(c)
               THEN NewEntry("CREDIT", "ADMIN_ADD", Amount(c), before, after, r)
               ELSE NewEntry("DEBIT", "WITHDRAW", Amount(c), before, after, r))
     /\ Record(r, "ACCEPTED", call[c].actor, None)
     /\ End(c, "done")
     /\ UNCHANGED usedRequests

\* the action keeps the balance the decision was made at
RejectWrite(c) ==
  LET r == call[c].request IN
  /\ Writing(c, {"reject"})
  /\ requests' = [requests EXCEPT ![r] = [row[c] EXCEPT !.status = "REJECTED"]]
  /\ Record(r, "REJECTED", call[c].actor, balance[c].main)
  /\ End(c, "done")
  /\ UNCHANGED <<wallets, usedRequests, ledger>>

\* the wallet's part of placeBet
BetWrite(c) ==
  LET before == balance[c].main
      after == before - Amount(c)
  IN /\ Writing(c, {"bet"})
     /\ SaveWallet(c, mine[c], after, balance[c].temp)
     /\ Post(mine[c], "MAIN",
          NewEntry("DEBIT", "GAME_ENTRY", Amount(c), before, after, None))
     /\ End(c, "done")
     /\ UNCHANGED <<requests, usedRequests, actions>>

\* one winner's turn in creditWinningPayouts
WinWrite(c) ==
  LET before == balance[c].temp
      after == before + Amount(c)
  IN /\ Writing(c, {"win"})
     /\ SaveWallet(c, mine[c], balance[c].main, after)
     /\ Post(mine[c], "TEMPORARY_WINNING",
          NewEntry("CREDIT", "GAME_WIN", Amount(c), before, after, None))
     /\ End(c, "done")
     /\ UNCHANGED <<requests, usedRequests, actions>>

-----------------------------------------------------------------------------
(* Editing and deleting a request take no lock before the statement that   *)
(* writes.                                                                 *)

\* findOne, the owner check and the PENDING check; an edit is then applied
\* to the entity, which keeps every column it was read with
ReadRequest(c) ==
  LET k == call[c]
      seen == requests[k.request]
      editable == /\ seen # None
                  /\ CanManage(seen.user, k.actor)
                  /\ seen.status = "PENDING"
      entity == [seen EXCEPT !.amount = IF k.amount # None THEN k.amount ELSE @,
                             !.type = IF k.type # None THEN k.type ELSE @]
  IN /\ pc[c] = "readRequest"
     /\ \/ /\ editable
           /\ row' = [row EXCEPT ![c] = IF k.handler = "edit" THEN entity ELSE seen]
           /\ pc' = [pc EXCEPT ![c] = IF k.handler = "edit" THEN "selectRequest"
                                                            ELSE "write"]
           /\ UNCHANGED <<db, locks, call, dirty, mine, balance>>
        \/ ~editable /\ Rollback(c)

\* save(entity) selects the row again to find the columns that differ; with no
\* row it inserts the entity under its own key
SelectRequest(c) ==
  LET stored == requests[call[c].request]
      changed == {f \in {"amount", "type", "status"} : row[c][f] # stored[f]}
  IN /\ pc[c] = "selectRequest"
     /\ \/ /\ stored = None
           /\ pc' = [pc EXCEPT ![c] = "insert"]
           /\ UNCHANGED <<db, locks, locals>>
        \/ /\ stored # None
           /\ changed # {}
           /\ dirty' = [dirty EXCEPT ![c] = changed]
           /\ pc' = [pc EXCEPT ![c] = "write"]
           /\ UNCHANGED <<db, locks, call, row, mine, balance>>
        \/ stored # None /\ changed = {} /\ End(c, "done") /\ UNCHANGED db

\* UPDATE ... SET the changed columns WHERE id: no row, no effect
EditWrite(c) ==
  LET r == call[c].request
      new(f) == IF f \in dirty[c] THEN row[c][f] ELSE requests[r][f]
  IN /\ Writing(c, {"edit"})
     /\ \/ /\ requests[r] # None
           /\ requests' = [requests EXCEPT ![r] =
                [@ EXCEPT !.amount = new("amount"), !.type = new("type"),
                          !.status = new("status")]]
        \/ requests[r] = None /\ UNCHANGED requests
     /\ End(c, "done")
     /\ UNCHANGED <<wallets, usedRequests, actions, ledger>>

EditInsert(c) ==
  LET r == call[c].request IN
  /\ pc[c] = "insert"
  /\ Blockers(c) = {}
  /\ \/ /\ requests[r] = None
        /\ requests' = [requests EXCEPT ![r] = row[c]]
        /\ End(c, "done")
        /\ UNCHANGED <<wallets, usedRequests, actions, ledger>>
     \/ requests[r] # None /\ Rollback(c)

\* mutant: ON DELETE CASCADE of transactions.request_id
Purged(s, r) == SelectSeq(s, LAMBDA e : e.request # r)

\* ON DELETE SET NULL of transactions.request_id
Detached(s, r) == [i \in DOMAIN s |->
  IF s[i].request = r THEN [s[i] EXCEPT !.request = None] ELSE s[i]]

\* the request's actions go with it, its ledger rows lose their reference
DeleteWrite(c) ==
  LET r == call[c].request
  IN /\ Writing(c, {"delete"})
     /\ requests' = [requests EXCEPT ![r] = None]
     /\ actions' = [actions EXCEPT ![r] = << >>]
     /\ ledger' = [w \in WalletIds |-> [b \in Buckets |-> Detached(ledger[w][b], r)]]
     /\ End(c, "done")
     /\ UNCHANGED <<wallets, usedRequests>>

-----------------------------------------------------------------------------
(* Failures: a crash or a lost connection rolls the transaction back, and  *)
(* PostgreSQL aborts one of the transactions that wait for each other.     *)

Crash(c) == pc[c] \in Active /\ Rollback(c)
DeadlockVictim(c) == pc[c] \in Active /\ Deadlocked(c) /\ Rollback(c)

Write(c) ==
  \/ CreateWrite(c) \/ TransferWrite(c) \/ RequestWrite(c) \/ AcceptWrite(c)
  \/ RejectWrite(c) \/ BetWrite(c) \/ WinWrite(c) \/ EditWrite(c)
  \/ EditInsert(c) \/ DeleteWrite(c)

Step(c) ==
  \/ LockUser(c) \/ ReadWallet(c) \/ LockRequest(c) \/ LockWallet(c)
  \/ ReadRequest(c) \/ SelectRequest(c) \/ Refuse(c) \/ Write(c)

\* every call has been answered
Terminating == (\A c \in Clients : pc[c] \in Ended) /\ UNCHANGED vars

Next ==
  \/ \E c \in Clients : Start(c) \/ Step(c) \/ Crash(c) \/ DeadlockVictim(c)
  \/ Terminating

\* a started handler runs on, and the deadlock detector runs after its timeout
Fairness == \A c \in Clients : WF_vars(Step(c)) /\ WF_vars(DeadlockVictim(c))

Spec == Init /\ [][Next]_vars /\ Fairness

-----------------------------------------------------------------------------
(* What the wallet service promises. *)

DbTypeOK ==
  /\ wallets \in [WalletIds -> Wallet \cup {None}]
  /\ requests \in [RequestIds -> Request \cup {None}]
  /\ usedRequests \in SUBSET RequestIds
  /\ actions \in [RequestIds -> Seq(Decision)]
  /\ ledger \in [WalletIds -> [Buckets -> Seq(Entry)]]

SessionTypeOK ==
  /\ userLock \in [Users -> Clients \cup {None}]
  /\ walletLock \in [WalletIds -> Clients \cup {None}]
  /\ requestLock \in [RequestIds -> Clients \cup {None}]
  /\ pc \in [Clients -> Active \cup Ended \cup {"start"}]
  /\ call \in [Clients -> Call \cup {None}]
  /\ row \in [Clients -> Request \cup {None}]
  /\ dirty \in [Clients -> SUBSET {"amount", "type", "status"}]
  /\ mine \in [Clients -> WalletIds \cup {None}]
  /\ balance \in [Clients -> [main : Nat, temp : Nat]]

\* Every variable has its type: rows of the tables, the locks and the locals of
\* the handlers.
TypeOK == DbTypeOK /\ SessionTypeOK

\* Concurrent create and createWalletRequest calls for a user without a wallet
\* never leave the user with two: the lock on the user's row serializes them
\* although there is no wallet row to lock.
OneWalletPerOwner == \A w1, w2 \in WalletIds :
  /\ wallets[w1] # None
  /\ wallets[w2] # None
  /\ wallets[w1].owner = wallets[w2].owner
  => w1 = w2

\* what client c computes its writes from, while c may still write
Secured(c) ==
  /\ Handler(c) \in ByUser /\ pc[c] \in {"lockWallet", "readWallet", "write"} =>
       userLock[Owner(c)] = c
  /\ Handler(c) \in ByDecision /\ pc[c] \in {"lockWallet", "write"} =>
       /\ requestLock[call[c].request] = c
       /\ requests[call[c].request] = row[c]
       /\ row[c].status = "PENDING"
  /\ Handler(c) \in ByDecision /\ pc[c] = "write" => mine[c] # None
  /\ mine[c] # None => mine[c] \in WalletsOf(Owner(c))
  /\ mine[c] # None /\ Handler(c) # "request" =>
       /\ walletLock[mine[c]] = c
       /\ balance[c] = Balances(mine[c])
  /\ mine[c] = None => balance[c] = Zero
  /\ mine[c] = None /\ Handler(c) \in {"create", "request"} /\ pc[c] = "write" =>
       WalletsOf(Owner(c)) = {}
  /\ Handler(c) \in ByRequest /\ pc[c] \in {"selectRequest", "insert", "write"} =>
       /\ call[c].request \in usedRequests
       /\ row[c].wallet \in WalletsOf(row[c].user)

\* The rows a handler read under its locks are still what it read when it writes,
\* and a wallet it found missing is still missing; a request always has the
\* wallet it was made for, so no decision ever finds none.
CopiesAreCurrent ==
  /\ \A c \in Clients : pc[c] \in Active => Secured(c)
  /\ \A r \in RequestIds : requests[r] # None =>
       r \in usedRequests /\ requests[r].wallet \in WalletsOf(requests[r].user)

Signed(e, before) ==
  IF e.type = "CREDIT" THEN before + e.amount ELSE before - e.amount

\* entries that start from an empty wallet, each from where the last one ended
Chained(s, final) ==
  /\ \A i \in 1..Len(s) : s[i].after = Signed(s[i], s[i].before)
  /\ \A i \in 1..Len(s) : s[i].before = IF i = 1 THEN 0 ELSE s[i - 1].after
  /\ final = IF s = << >> THEN 0 ELSE s[Len(s)].after

\* The ledger explains every balance: each bucket's entries form a chain of
\* before/after balances from zero to the balance the wallet shows, whatever
\* handlers raced for the wallet.  A lost update breaks the chain.
LedgerExplainsBalances == \A w \in WalletIds :
  LET shown == IF wallets[w] = None THEN Zero ELSE Balances(w)
  IN /\ Chained(ledger[w]["MAIN"], shown.main)
     /\ Chained(ledger[w]["TEMPORARY_WINNING"], shown.temp)

\* No wallet is overdrawn, or filled past the limit, by checks made on a
\* balance that another transaction changed meanwhile.
BalancesInRange == \A w \in WalletIds :
  wallets[w] # None => wallets[w].main \in 0..Limit /\ wallets[w].temp \in 0..Limit

IsDecision(d) == d.action \in {"ACCEPTED", "REJECTED"}

\* A request is acted on once: later attempts find it no longer pending.
DecidedOnce == \A r \in RequestIds : \A i, j \in DOMAIN actions[r] :
  IsDecision(actions[r][i]) /\ IsDecision(actions[r][j]) => i = j

EntriesOf(r) == UNION {{<<w, b, i>> : i \in {j \in DOMAIN ledger[w][b] :
  ledger[w][b][j].request = r}} : w \in WalletIds, b \in Buckets}

Decided(r, action) == \E i \in DOMAIN actions[r] : actions[r][i].action = action

\* Wallet, request status, action and ledger are one business operation: a
\* request is ACCEPTED exactly when one ledger entry of its own wallet carries
\* its amount and an ACCEPTED action exists, REJECTED exactly when a REJECTED
\* action exists, and a PENDING request has moved no points.
DecisionsBooked == \A r \in RequestIds : requests[r] # None =>
  LET q == requests[r] IN
  /\ q.status = "ACCEPTED" <=> Decided(r, "ACCEPTED")
  /\ q.status = "ACCEPTED" <=> EntriesOf(r) # {}
  /\ q.status = "REJECTED" <=> Decided(r, "REJECTED")
  /\ \A e \in EntriesOf(r) :
       /\ EntriesOf(r) = {e}
       /\ e[1] = q.wallet
       /\ e[2] = "MAIN"
       /\ ledger[e[1]][e[2]][e[3]].amount = q.amount

\* The balance a rejection records is the balance the wallet has when the
\* rejection commits, not one read before another transaction changed it.
RejectionShowsBalance == [][\A r \in RequestIds :
  Len(actions'[r]) > Len(actions[r]) /\ Decided(r, "REJECTED")' =>
    \A w \in WalletsOf(requests[r].user) :
      actions'[r][Len(actions'[r])].before = wallets[w].main]_vars

\* Temporary winnings only ever leave their bucket for the main balance of the
\* same wallet, and to the last cent: a win credited while a transfer runs is
\* neither lost nor transferred twice.
TransferConserves == [][\A w \in WalletIds :
  wallets[w] # None /\ wallets'[w].temp < wallets[w].temp =>
    /\ wallets'[w].temp = 0
    /\ wallets'[w].main = wallets[w].main + wallets[w].temp]_vars

\* Requests can be edited or deleted only while pending: once decided, a
\* request keeps its row and every column of it.
DecisionIsFinal == [][\A r \in RequestIds :
  requests[r] # None /\ requests[r].status # "PENDING" =>
    requests'[r] = requests[r]]_vars

\* What an acceptance books is the amount the request has when it commits, and
\* the request is pending then, even if an edit or a deletion is in flight: the
\* lock on the request keeps them out from the read to the commit.
AcceptanceBooksCurrentAmount == [][\A r \in RequestIds : \A e \in EntriesOf(r)' :
  e \notin EntriesOf(r) =>
    /\ requests[r] # None
    /\ requests[r].status = "PENDING"
    /\ ledger'[e[1]][e[2]][e[3]].amount = requests[r].amount]_vars

\* Every call that started is answered: handlers that lock the owner before the
\* wallet and handlers that need the owner after the wallet can wait for each
\* other, and the deadlock detector is what frees them.
EveryCallAnswered ==
  \A c \in Clients : pc[c] \in Active ~> pc[c] \in Ended

-----------------------------------------------------------------------------
(* The contract: what a caller sees of the tables.                         *)

AccountOf(u) ==
  IF WalletsOf(u) = {} THEN Zero ELSE Balances(CHOOSE w \in WalletsOf(u) : TRUE)

ShownRequest(r) ==
  IF requests[r] = None THEN None
  ELSE [user |-> requests[r].user, type |-> requests[r].type,
        amount |-> requests[r].amount, status |-> requests[r].status]

Contract == INSTANCE WalletContract WITH
  account <- [u \in Users |-> AccountOf(u)],
  request <- [r \in RequestIds |-> ShownRequest(r)]

\* While no unlocked edit or deletion is in flight, the interleaved handlers
\* behave as atomic operations on accounts and requests: no step shows a balance
\* without the decision that moved it, or a decision without its balance.
ImplementsContract == Contract!Spec

=============================================================================
