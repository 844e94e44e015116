------------------------ MODULE WalletServiceProofs ------------------------
(***************************************************************************)
(* Theorems about WalletService, for every set of users, wallets, requests *)
(* and calls, edits and deletions included: type correctness, one wallet   *)
(* per owner, a ledger that explains every balance and balances within     *)
(* their range.                                                            *)
(*                                                                         *)
(* Control ties the position of a client in its handler to the call it     *)
(* makes and to what it has read; TypeOK is inductive with it.  The        *)
(* safety invariant adds CopiesAreCurrent: the rows a handler computes its *)
(* writes from are current until it commits.  It is preserved because a    *)
(* step changes only rows its own client has locked, rows nobody has, and  *)
(* rows that do not exist yet.                                             *)
(***************************************************************************)
EXTENDS WalletService, TLAPS

USE DEF Balances

Running(c) ==
  /\ call[c] \in Call
  /\ Admissible(call[c])
  /\ pc[c] = "lockUser" => Handler(c) \in ByUser
  /\ pc[c] = "readWallet" => Handler(c) = "request"
  /\ pc[c] = "lockRequest" => Handler(c) \in ByDecision
  /\ pc[c] = "readRequest" => Handler(c) \in ByRequest
  /\ pc[c] \in {"selectRequest", "insert"} => Handler(c) = "edit" /\ row[c] \in Request
  /\ pc[c] = "lockWallet" =>
       Handler(c) \in {"create", "transfer"} \cup ByDecision \cup ByGame
  /\ pc[c] \in {"lockWallet", "write"} /\ Handler(c) \in ByDecision \cup ByRequest =>
       row[c] \in Request
  /\ Handler(c) \in ByUser \cup ByGame => row[c] = None
  /\ pc[c] = "write" /\ Handler(c) \in {"transfer"} \cup ByGame => mine[c] # None
  /\ mine[c] # None => pc[c] = "write"

ControlOf(c) ==
  /\ pc[c] \in Active => Running(c)
  /\ pc[c] \notin Active => row[c] = None /\ mine[c] = None /\ balance[c] = Zero

Control == \A c \in Clients : ControlOf(c)

\* what a step of c leaves to the other clients
Local(c) == <<pc[c], call[c], row[c], dirty[c], mine[c], balance[c]>>
OthersKeepLocals(c) == \A d \in Clients \ {c} : Local(d)' = Local(d)

-----------------------------------------------------------------------------
(* Ending a handler. *)

LEMMA EndTypes ==
  ASSUME NEW c \in Clients, NEW outcome \in Ended, SessionTypeOK, End(c, outcome)
  PROVE  SessionTypeOK'
<1>1. Zero \in [main : Nat, temp : Nat]
  BY DEF Zero
<1>. QED
  BY <1>1 DEF SessionTypeOK, End, Ended

LEMMA EndControl ==
  ASSUME NEW c \in Clients, NEW outcome \in Ended, SessionTypeOK, Control,
         End(c, outcome)
  PROVE  Control' /\ OthersKeepLocals(c)
<1>1. \A d \in Clients \ {c} : Local(d)' = Local(d)
  BY DEF SessionTypeOK, End, Local
<1>2. \A d \in Clients \ {c} : ControlOf(d)'
  BY <1>1 DEF Control, ControlOf, Running, Local, Handler
<1>3. ControlOf(c)'
  BY DEF SessionTypeOK, End, ControlOf, Active, Ended
<1>. QED
  BY <1>1, <1>2, <1>3 DEF Control, OthersKeepLocals

LEMMA RollbackKeeps ==
  ASSUME NEW c \in Clients, TypeOK, Control, Rollback(c)
  PROVE  TypeOK' /\ Control' /\ OthersKeepLocals(c)
<1>1. SessionTypeOK' /\ Control' /\ OthersKeepLocals(c)
  BY EndTypes, EndControl DEF TypeOK, Rollback, Ended
<1>2. DbTypeOK'
  BY DEF TypeOK, DbTypeOK, Rollback, db
<1>. QED
  BY <1>1, <1>2 DEF TypeOK

-----------------------------------------------------------------------------
(* The actions that only lock and read. *)

\* a client that has taken its step, the others as before
LEMMA ControlStep ==
  ASSUME NEW c \in Clients, Control, OthersKeepLocals(c), ControlOf(c)'
  PROVE  Control'
<1>1. \A d \in Clients \ {c} : ControlOf(d)'
  BY DEF Control, ControlOf, Running, OthersKeepLocals, Local, Handler
<1>. QED
  BY <1>1 DEF Control

LEMMA StartKeeps ==
  ASSUME NEW c \in Clients, TypeOK, Control, Start(c)
  PROVE  TypeOK' /\ Control' /\ OthersKeepLocals(c)
<1>1. CASE Rollback(c)
  BY <1>1, RollbackKeeps
<1>2. CASE ~Rollback(c)
  <2>1. PICK k \in CallsOf[c] :
          /\ Admissible(k)
          /\ call' = [call EXCEPT ![c] = k]
          /\ pc' = [pc EXCEPT ![c] = First(k.handler)]
          /\ UNCHANGED <<db, locks, row, dirty, mine, balance>>
    BY <1>2 DEF Start
  <2>2. k \in Call
    BY <2>1, CallsAssumption
  <2>3. First(k.handler) \in Active
    BY <2>2 DEF Call, Handlers, First, Active
  <2>4. DbTypeOK'
    BY <2>1 DEF TypeOK, DbTypeOK, db
  <2>5. SessionTypeOK'
    BY <2>1, <2>2, <2>3 DEF TypeOK, SessionTypeOK, locks
  <2>6. OthersKeepLocals(c)
    BY <2>1 DEF TypeOK, SessionTypeOK, OthersKeepLocals, Local
  <2>7. ControlOf(c)'
    <3>1. row[c] = None /\ mine[c] = None
      BY DEF Start, Control, ControlOf, Active
    <3>. QED
      BY <2>1, <2>2, <2>3, <3>1 DEF ControlOf, Running, TypeOK, SessionTypeOK, Handler,
        First, Call, Handlers, ByUser, ByDecision, ByRequest, ByGame, Active
  <2>. QED
    BY <2>4, <2>5, <2>6, <2>7, ControlStep DEF TypeOK
<1>. QED
  BY <1>1, <1>2

LEMMA OwnerTypes ==
  ASSUME NEW c \in Clients, TypeOK, Control, pc[c] \in Active
  PROVE  call[c] \in Call /\ Owner(c) \in Users /\ call[c].request \in RequestIds
<1>1. call[c] \in Call
  BY DEF Control, ControlOf, Running
<1>2. row[c] = None \/ row[c] \in Request
  BY DEF TypeOK, SessionTypeOK
<1>. QED
  BY <1>1, <1>2 DEF Owner, Call, Request

LEMMA LockUserKeeps ==
  ASSUME NEW c \in Clients, TypeOK, Control, LockUser(c)
  PROVE  TypeOK' /\ Control' /\ OthersKeepLocals(c)
<1>1. CASE Rollback(c)
  BY <1>1, RollbackKeeps
<1>2. CASE ~Rollback(c)
  <2>1. /\ pc[c] = "lockUser"
        /\ userLock' = [userLock EXCEPT ![Owner(c)] = c]
        /\ pc' = [pc EXCEPT ![c] = IF Handler(c) = "request" THEN "readWallet"
                                                            ELSE "lockWallet"]
        /\ UNCHANGED <<db, walletLock, requestLock, locals>>
    BY <1>2 DEF LockUser, TakeUser
  <2>2. DbTypeOK'
    BY <2>1 DEF TypeOK, DbTypeOK, db
  <2>3. SessionTypeOK'
    BY <2>1 DEF TypeOK, SessionTypeOK, locals, Active
  <2>4. OthersKeepLocals(c)
    BY <2>1 DEF TypeOK, SessionTypeOK, OthersKeepLocals, Local, locals
  <2>5. ControlOf(c)'
    <3>1. Running(c)
      BY <2>1 DEF Control, ControlOf, Active
    <3>. QED
      BY <2>1, <3>1 DEF ControlOf, Running, TypeOK, SessionTypeOK, Handler, locals,
        ByUser, ByDecision, ByRequest, ByGame, Active
  <2>. QED
    BY <2>2, <2>3, <2>4, <2>5, ControlStep DEF TypeOK
<1>. QED
  BY <1>1, <1>2

LEMMA ReadWalletKeeps ==
  ASSUME NEW c \in Clients, TypeOK, Control, ReadWallet(c)
  PROVE  TypeOK' /\ Control' /\ OthersKeepLocals(c)
<1>1. /\ pc[c] = "readWallet"
      /\ pc' = [pc EXCEPT ![c] = "write"]
      /\ UNCHANGED <<db, locks, call, row, dirty, balance>>
      /\ mine' \in [Clients -> WalletIds \cup {None}]
      /\ \A d \in Clients \ {c} : mine'[d] = mine[d]
  BY DEF ReadWallet, TypeOK, SessionTypeOK, WalletsOf
<1>2. DbTypeOK'
  BY <1>1 DEF TypeOK, DbTypeOK, db
<1>3. SessionTypeOK'
  BY <1>1 DEF TypeOK, SessionTypeOK, locks, Active
<1>4. OthersKeepLocals(c)
  BY <1>1 DEF TypeOK, SessionTypeOK, OthersKeepLocals, Local
<1>5. ControlOf(c)'
  <2>1. Running(c)
    BY <1>1 DEF Control, ControlOf, Active
  <2>. QED
    BY <1>1, <2>1 DEF ControlOf, Running, TypeOK, SessionTypeOK, Handler,
      ByUser, ByDecision, ByRequest, ByGame, Active
<1>. QED
  BY <1>2, <1>3, <1>4, <1>5, ControlStep DEF TypeOK

LEMMA LockRequestKeeps ==
  ASSUME NEW c \in Clients, TypeOK, Control, LockRequest(c)
  PROVE  TypeOK' /\ Control' /\ OthersKeepLocals(c)
<1>1. CASE Rollback(c)
  BY <1>1, RollbackKeeps
<1>2. CASE ~Rollback(c)
  <2> DEFINE r == call[c].request
  <2>1. /\ pc[c] = "lockRequest"
        /\ requests[r] # None
        /\ requestLock' = [requestLock EXCEPT ![r] = c]
        /\ row' = [row EXCEPT ![c] = requests[r]]
        /\ pc' = [pc EXCEPT ![c] = "lockWallet"]
        /\ UNCHANGED <<db, userLock, walletLock, call, dirty, mine, balance>>
    BY <1>2 DEF LockRequest, TakeRequest, Decidable
  <2>2. r \in RequestIds
    BY <2>1, OwnerTypes DEF Active
  <2>3. requests[r] \in Request
    BY <2>1, <2>2 DEF TypeOK, DbTypeOK
  <2>4. DbTypeOK'
    BY <2>1 DEF TypeOK, DbTypeOK, db
  <2>5. SessionTypeOK'
    BY <2>1, <2>2, <2>3 DEF TypeOK, SessionTypeOK, Active
  <2>6. OthersKeepLocals(c)
    BY <2>1 DEF TypeOK, SessionTypeOK, OthersKeepLocals, Local
  <2>7. ControlOf(c)'
    <3>1. Running(c)
      BY <2>1 DEF Control, ControlOf, Active
    <3>. QED
      BY <2>1, <2>3, <3>1 DEF ControlOf, Running, TypeOK, SessionTypeOK, Handler,
        ByUser, ByDecision, ByRequest, ByGame, Active
  <2>. QED
    BY <2>4, <2>5, <2>6, <2>7, ControlStep DEF TypeOK
<1>. QED
  BY <1>1, <1>2

LEMMA LockWalletKeeps ==
  ASSUME NEW c \in Clients, TypeOK, Control, LockWallet(c)
  PROVE  TypeOK' /\ Control' /\ OthersKeepLocals(c)
<1>. pc[c] = "lockWallet" /\ Running(c)
  BY DEF LockWallet, Control, ControlOf, Active
<1>1. CASE Rollback(c)
  BY <1>1, RollbackKeeps
<1> DEFINE Locked(w) ==
      /\ walletLock' = [walletLock EXCEPT ![w] = c]
      /\ mine' = [mine EXCEPT ![c] = w]
      /\ balance' = [balance EXCEPT ![c] = Balances(w)]
      /\ pc' = [pc EXCEPT ![c] = "write"]
      /\ UNCHANGED <<db, userLock, requestLock, call, row, dirty>>
<1>2. CASE \E w \in WalletsOf(Owner(c)) : Locked(w)
  <2>1. PICK w \in WalletsOf(Owner(c)) : Locked(w)
    BY <1>2
  <2>2. w \in WalletIds /\ wallets[w] \in Wallet
    BY DEF WalletsOf, TypeOK, DbTypeOK
  <2>3. DbTypeOK'
    BY <2>1 DEF TypeOK, DbTypeOK, db
  <2>4. SessionTypeOK'
    BY <2>1, <2>2 DEF TypeOK, SessionTypeOK, Active, Wallet
  <2>5. OthersKeepLocals(c)
    BY <2>1 DEF TypeOK, SessionTypeOK, OthersKeepLocals, Local
  <2>6. ControlOf(c)'
    BY <2>1, <2>2, NoneAssumption DEF ControlOf, Running, TypeOK, SessionTypeOK,
      Handler, ByUser, ByDecision, ByRequest, ByGame, Active
  <2>. QED
    BY <2>3, <2>4, <2>5, <2>6, ControlStep DEF TypeOK
<1>3. CASE /\ Handler(c) \in {"create"} \cup ByDecision
           /\ pc' = [pc EXCEPT ![c] = "write"]
           /\ UNCHANGED <<db, locks, locals>>
  <2>1. DbTypeOK'
    BY <1>3 DEF TypeOK, DbTypeOK, db
  <2>2. SessionTypeOK'
    BY <1>3 DEF TypeOK, SessionTypeOK, Active, locks, locals
  <2>3. OthersKeepLocals(c)
    BY <1>3 DEF TypeOK, SessionTypeOK, OthersKeepLocals, Local, locals
  <2>4. ControlOf(c)'
    BY <1>3 DEF ControlOf, Running, TypeOK, SessionTypeOK, locals,
      Handler, ByUser, ByDecision, ByRequest, ByGame, Active
  <2>. QED
    BY <2>1, <2>2, <2>3, <2>4, ControlStep DEF TypeOK
<1>. QED
  BY <1>1, <1>2, <1>3 DEF LockWallet, TakeWallet, ByDecision

LEMMA ReadRequestKeeps ==
  ASSUME NEW c \in Clients, TypeOK, Control, ReadRequest(c)
  PROVE  TypeOK' /\ Control' /\ OthersKeepLocals(c)
<1>1. CASE Rollback(c)
  BY <1>1, RollbackKeeps
<1>2. CASE ~Rollback(c)
  <2> DEFINE k == call[c]
             seen == requests[k.request]
             entity == [seen EXCEPT
               !.amount = IF k.amount # None THEN k.amount ELSE @,
               !.type = IF k.type # None THEN k.type ELSE @]
             read == IF k.handler = "edit" THEN entity ELSE seen
             next == IF k.handler = "edit" THEN "selectRequest" ELSE "write"
  <2>1. /\ pc[c] = "readRequest"
        /\ seen # None
        /\ row' = [row EXCEPT ![c] = read]
        /\ pc' = [pc EXCEPT ![c] = next]
        /\ UNCHANGED <<db, locks, call, dirty, mine, balance>>
    BY <1>2 DEF ReadRequest
  <2>2. Running(c)
    BY <2>1 DEF Control, ControlOf, Active
  <2>3. k \in Call /\ seen \in Request
    BY <2>1, OwnerTypes DEF Active, TypeOK, DbTypeOK
  <2>4. read \in Request
    <3>1. k.handler = "edit" => k.amount # 0
      BY <2>2 DEF Running, Admissible
    <3>2. CASE k.handler = "edit"
      <4>1. /\ k.amount # None => k.amount \in Nat \ {0}
            /\ k.type # None => k.type \in Types
        BY <2>3, <3>1, <3>2 DEF Call
      <4>2. entity \in Request
        BY <2>3, <4>1 DEF Request
      <4>. QED
        BY <3>2, <4>2
    <3>. QED
      BY <2>3, <3>2
  <2>. HIDE DEF entity, read
  <2>5. DbTypeOK'
    BY <2>1 DEF TypeOK, DbTypeOK, db
  <2>6. SessionTypeOK'
    BY <2>1, <2>4 DEF TypeOK, SessionTypeOK, locks, Active
  <2>7. OthersKeepLocals(c)
    BY <2>1 DEF TypeOK, SessionTypeOK, OthersKeepLocals, Local
  <2>8. ControlOf(c)'
    BY <2>1, <2>2, <2>4 DEF ControlOf, Running, TypeOK, SessionTypeOK,
      Handler, ByUser, ByDecision, ByRequest, ByGame, Active
  <2>. QED
    BY <2>5, <2>6, <2>7, <2>8, ControlStep DEF TypeOK
<1>. QED
  BY <1>1, <1>2

LEMMA SelectRequestKeeps ==
  ASSUME NEW c \in Clients, TypeOK, Control, SelectRequest(c)
  PROVE  TypeOK' /\ Control' /\ OthersKeepLocals(c)
<1>. pc[c] = "selectRequest" /\ Running(c)
  BY DEF SelectRequest, Control, ControlOf, Active
<1>1. CASE End(c, "done") /\ UNCHANGED db
  <2>1. SessionTypeOK' /\ Control' /\ OthersKeepLocals(c)
    BY <1>1, EndTypes, EndControl DEF TypeOK, Ended
  <2>2. DbTypeOK'
    BY <1>1 DEF TypeOK, DbTypeOK, db
  <2>. QED
    BY <2>1, <2>2 DEF TypeOK
<1>2. CASE /\ pc' = [pc EXCEPT ![c] = "insert"]
           /\ UNCHANGED <<db, locks, locals>>
  <2>1. DbTypeOK'
    BY <1>2 DEF TypeOK, DbTypeOK, db
  <2>2. SessionTypeOK'
    BY <1>2 DEF TypeOK, SessionTypeOK, Active, locks, locals
  <2>3. OthersKeepLocals(c)
    BY <1>2 DEF TypeOK, SessionTypeOK, OthersKeepLocals, Local, locals
  <2>4. ControlOf(c)'
    BY <1>2 DEF ControlOf, Running, TypeOK, SessionTypeOK, locals,
      Handler, ByUser, ByDecision, ByRequest, ByGame, Active
  <2>. QED
    BY <2>1, <2>2, <2>3, <2>4, ControlStep DEF TypeOK
<1>3. CASE /\ dirty' \in [Clients -> SUBSET {"amount", "type", "status"}]
           /\ \A d \in Clients \ {c} : dirty'[d] = dirty[d]
           /\ pc' = [pc EXCEPT ![c] = "write"]
           /\ UNCHANGED <<db, locks, call, row, mine, balance>>
  <2>1. DbTypeOK'
    BY <1>3 DEF TypeOK, DbTypeOK, db
  <2>2. SessionTypeOK'
    BY <1>3 DEF TypeOK, SessionTypeOK, Active, locks
  <2>3. OthersKeepLocals(c)
    BY <1>3 DEF TypeOK, SessionTypeOK, OthersKeepLocals, Local
  <2>4. ControlOf(c)'
    BY <1>3 DEF ControlOf, Running, TypeOK, SessionTypeOK,
      Handler, ByUser, ByDecision, ByRequest, ByGame, Active
  <2>. QED
    BY <2>1, <2>2, <2>3, <2>4, ControlStep DEF TypeOK
<1>. QED
  BY <1>1, <1>2, <1>3 DEF SelectRequest, TypeOK, SessionTypeOK

-----------------------------------------------------------------------------
(* The writes: what they compute has the type of the column it goes to. *)

LEMMA CommitKeeps ==
  ASSUME NEW c \in Clients, TypeOK, Control, End(c, "done"), DbTypeOK'
  PROVE  TypeOK' /\ Control' /\ OthersKeepLocals(c)
BY EndTypes, EndControl DEF TypeOK, Ended

LEMMA WritingTypes ==
  ASSUME NEW c \in Clients, TypeOK, Control, pc[c] = "write"
  PROVE  /\ Running(c)
         /\ call[c] \in Call
         /\ call[c].request \in RequestIds
         /\ call[c].actor \in Actors
         /\ Owner(c) \in Users
         /\ Target(c) \subseteq WalletIds
         /\ balance[c].main \in Nat
         /\ balance[c].temp \in Nat
         /\ Handler(c) \in {"create", "request"} \cup ByDecision \cup ByGame =>
              Amount(c) \in Nat
         /\ Handler(c) # "create" /\ Handler(c) \in {"request"} \cup ByDecision \cup ByGame =>
              Amount(c) # 0
         /\ Handler(c) = "request" => call[c].type \in Types
         /\ Handler(c) \in ByDecision \cup ByRequest => row[c] \in Request
         /\ Handler(c) \in {"transfer"} \cup ByGame => mine[c] \in WalletIds
<1>1. /\ Running(c)
      /\ call[c] \in Call
      /\ call[c].request \in RequestIds
      /\ Owner(c) \in Users
  BY OwnerTypes DEF Control, ControlOf, Active
<1>2. /\ Target(c) \subseteq WalletIds
      /\ mine[c] \in WalletIds \cup {None}
      /\ balance[c] \in [main : Nat, temp : Nat]
  BY DEF Target, TypeOK, SessionTypeOK
<1>3. Handler(c) \in ByDecision \cup ByRequest => row[c] \in Request /\ row[c] # None
  BY <1>1, NoneAssumption DEF Running
<1>4. Handler(c) \in ByDecision => Amount(c) \in Nat \ {0}
  BY <1>3 DEF Amount, Request
<1>5. Handler(c) \in {"create", "request"} \cup ByGame => Amount(c) = call[c].amount
  BY <1>1 DEF Running, Amount, ByUser
<1>6. Handler(c) \in {"create", "request"} \cup ByGame => call[c].amount \in Nat
  BY <1>1 DEF Running, Admissible, Call, Handler, ByGame
<1>7. Handler(c) \in {"request"} \cup ByGame => call[c].amount # 0
  BY <1>1 DEF Running, Admissible, Call, Handler, ByGame
<1>8. Handler(c) = "request" => call[c].type \in Types
  BY <1>1 DEF Running, Admissible, Call, Handler
<1>9. Handler(c) \in {"transfer"} \cup ByGame => mine[c] \in WalletIds
  BY <1>1, <1>2 DEF Running
<1>. QED
  BY <1>1, <1>2, <1>3, <1>4, <1>5, <1>6, <1>7, <1>8, <1>9 DEF Call, ByDecision, ByGame

\* a new ledger entry at the end of a bucket
LEMMA PostTypes ==
  ASSUME NEW w \in WalletIds, NEW b \in Buckets, NEW e \in Entry, DbTypeOK,
         Post(w, b, e)
  PROVE  ledger' \in [WalletIds -> [Buckets -> Seq(Entry)]]
<1>1. Append(ledger[w][b], e) \in Seq(Entry)
  BY DEF DbTypeOK
<1>. QED
  BY <1>1 DEF Post, DbTypeOK

LEMMA RecordTypes ==
  ASSUME NEW r \in RequestIds, NEW a \in {"CREATED", "ACCEPTED", "REJECTED"},
         NEW by \in Actors, NEW shown \in Nat \cup {None}, DbTypeOK,
         Record(r, a, by, shown)
  PROVE  actions' \in [RequestIds -> Seq(Decision)]
<1>1. [action |-> a, by |-> by, before |-> shown, after |-> shown] \in Decision
  BY DEF Decision
<1>. QED
  BY <1>1 DEF Record, DbTypeOK

LEMMA SaveWalletTypes ==
  ASSUME NEW c \in Clients, NEW w, NEW main \in Nat, NEW temp \in Nat,
         Owner(c) \in Users, DbTypeOK, SaveWallet(c, w, main, temp)
  PROVE  wallets' \in [WalletIds -> Wallet \cup {None}]
BY DEF SaveWallet, Wallet, DbTypeOK

LEMMA CreateWriteTypes ==
  ASSUME NEW c \in Clients, TypeOK, Control, CreateWrite(c)
  PROVE  DbTypeOK'
<1> DEFINE before == balance[c].main
           after == before + Amount(c)
           e == NewEntry("CREDIT", "ADMIN_ADD", Amount(c), before, after, None)
<1>1. pc[c] = "write" /\ Handler(c) = "create" /\ DbTypeOK
  BY DEF CreateWrite, Writing, TypeOK
<1>2. before \in Nat /\ after \in Nat /\ e \in Entry
  BY <1>1, WritingTypes DEF NewEntry, Entry, Sources
<1>3. PICK w \in Target(c) :
        /\ SaveWallet(c, w, after, balance[c].temp)
        /\ Post(w, "MAIN", e) \/ UNCHANGED ledger
  BY DEF CreateWrite
<1>4. w \in WalletIds
  BY <1>1, WritingTypes
<1>. HIDE DEF e, after
<1>5. wallets' \in [WalletIds -> Wallet \cup {None}]
  BY <1>1, <1>2, <1>3, WritingTypes, SaveWalletTypes
<1>6. ledger' \in [WalletIds -> [Buckets -> Seq(Entry)]]
  BY <1>1, <1>2, <1>3, <1>4, PostTypes DEF Buckets, DbTypeOK
<1>. QED
  BY <1>1, <1>5, <1>6 DEF CreateWrite, DbTypeOK

LEMMA TransferWriteTypes ==
  ASSUME NEW c \in Clients, TypeOK, Control, TransferWrite(c)
  PROVE  DbTypeOK'
<1> DEFINE w == mine[c]
           temp == balance[c].temp
           before == balance[c].main
           after == before + temp
           out == NewEntry("DEBIT", "GAME_WIN", temp, temp, 0, None)
           in == NewEntry("CREDIT", "GAME_WIN", temp, before, after, None)
<1>1. pc[c] = "write" /\ Handler(c) = "transfer" /\ DbTypeOK
  BY DEF TransferWrite, Writing, TypeOK
<1>2. w \in WalletIds /\ after \in Nat /\ out \in Entry /\ in \in Entry
  BY <1>1, WritingTypes DEF NewEntry, Entry, Sources
<1>3. /\ SaveWallet(c, w, after, 0)
      /\ ledger' = [ledger EXCEPT
           ![w]["TEMPORARY_WINNING"] = Append(@, out), ![w]["MAIN"] = Append(@, in)]
  BY DEF TransferWrite
<1>. HIDE DEF w, out, in, after
<1>4. wallets' \in [WalletIds -> Wallet \cup {None}]
  BY <1>1, <1>2, <1>3, WritingTypes, SaveWalletTypes
<1>5. ledger' \in [WalletIds -> [Buckets -> Seq(Entry)]]
  <2>1. /\ Append(ledger[w]["TEMPORARY_WINNING"], out) \in Seq(Entry)
        /\ Append(ledger[w]["MAIN"], in) \in Seq(Entry)
    BY <1>1, <1>2 DEF DbTypeOK, Buckets
  <2>. QED
    BY <1>1, <1>2, <1>3, <2>1 DEF DbTypeOK, Buckets
<1>. QED
  BY <1>1, <1>4, <1>5 DEF TransferWrite, DbTypeOK

LEMMA RequestWriteTypes ==
  ASSUME NEW c \in Clients, TypeOK, Control, RequestWrite(c)
  PROVE  DbTypeOK'
<1>1. pc[c] = "write" /\ Handler(c) = "request" /\ DbTypeOK
  BY DEF RequestWrite, Writing, TypeOK
<1>2. PICK w \in Target(c), r \in RequestIds \ usedRequests :
        /\ SaveWallet(c, w, 0, 0) \/ UNCHANGED wallets
        /\ requests' = [requests EXCEPT ![r] =
             [user |-> Owner(c), wallet |-> w, type |-> call[c].type,
              amount |-> Amount(c), status |-> "PENDING"]]
        /\ usedRequests' = usedRequests \cup {r}
        /\ Record(r, "CREATED", call[c].actor, None)
  BY DEF RequestWrite
<1>3. [user |-> Owner(c), wallet |-> w, type |-> call[c].type,
       amount |-> Amount(c), status |-> "PENDING"] \in Request
  BY <1>1, WritingTypes DEF Request, Statuses
<1>4. wallets' \in [WalletIds -> Wallet \cup {None}]
  BY <1>1, <1>2, WritingTypes, SaveWalletTypes DEF DbTypeOK
<1>5. actions' \in [RequestIds -> Seq(Decision)]
  BY <1>1, <1>2, WritingTypes, RecordTypes
<1>. QED
  BY <1>1, <1>2, <1>3, <1>4, <1>5 DEF RequestWrite, DbTypeOK

LEMMA AcceptWriteTypes ==
  ASSUME NEW c \in Clients, TypeOK, Control, AcceptWrite(c)
  PROVE  DbTypeOK'
<1> DEFINE r == call[c].request
           before == balance[c].main
           after == IF IsCredit(c) THEN before + Amount(c) ELSE before - Amount(c)
           e == IF IsCredit(c)
                THEN NewEntry("CREDIT", "ADMIN_ADD", Amount(c), before, after, r)
                ELSE NewEntry("DEBIT", "WITHDRAW", Amount(c), before, after, r)
<1>1. /\ pc[c] = "write"
      /\ Handler(c) \in {"accept", "acceptOwn"}
      /\ Handler(c) \in ByDecision
      /\ DbTypeOK
      /\ ~Refused(c)
  BY DEF AcceptWrite, Writing, TypeOK, ByDecision
<1>2. r \in RequestIds /\ row[c] \in Request /\ Amount(c) \in Nat /\ before \in Nat
  BY <1>1, WritingTypes
<1>3. ~IsCredit(c) => ~(before < Amount(c))
  BY <1>1 DEF Refused
<1>4. after \in Nat
  BY <1>2, <1>3
<1>5. e \in Entry
  BY <1>2, <1>4 DEF NewEntry, Entry, Sources
<1>6. PICK w \in Target(c) :
        /\ SaveWallet(c, w, after, balance[c].temp)
        /\ requests' = [requests EXCEPT ![r] =
             [row[c] EXCEPT !.wallet = w, !.status = "ACCEPTED"]]
        /\ Post(w, "MAIN", e)
  BY DEF AcceptWrite
<1>7. w \in WalletIds
  BY <1>1, WritingTypes
<1>. HIDE DEF e, after
<1>8. wallets' \in [WalletIds -> Wallet \cup {None}]
  BY <1>1, <1>4, <1>6, WritingTypes, SaveWalletTypes
<1>9. requests' \in [RequestIds -> Request \cup {None}]
  BY <1>1, <1>2, <1>6, <1>7 DEF DbTypeOK, Request, Statuses
<1>10. ledger' \in [WalletIds -> [Buckets -> Seq(Entry)]]
  BY <1>1, <1>5, <1>6, <1>7, PostTypes DEF Buckets
<1>11. actions' \in [RequestIds -> Seq(Decision)]
  BY <1>1, <1>2, WritingTypes, RecordTypes DEF AcceptWrite
<1>. QED
  BY <1>1, <1>8, <1>9, <1>10, <1>11 DEF AcceptWrite, DbTypeOK

LEMMA RejectWriteTypes ==
  ASSUME NEW c \in Clients, TypeOK, Control, RejectWrite(c)
  PROVE  DbTypeOK'
<1>1. /\ pc[c] = "write"
      /\ Handler(c) \in ByDecision
      /\ DbTypeOK
  BY DEF RejectWrite, Writing, TypeOK, ByDecision
<1>2. call[c].request \in RequestIds /\ row[c] \in Request
  BY <1>1, WritingTypes
<1>3. requests' \in [RequestIds -> Request \cup {None}]
  BY <1>1, <1>2 DEF RejectWrite, DbTypeOK, Request, Statuses
<1>4. actions' \in [RequestIds -> Seq(Decision)]
  BY <1>1, <1>2, WritingTypes, RecordTypes DEF RejectWrite
<1>. QED
  BY <1>1, <1>3, <1>4 DEF RejectWrite, DbTypeOK

LEMMA BetWriteTypes ==
  ASSUME NEW c \in Clients, TypeOK, Control, BetWrite(c)
  PROVE  DbTypeOK'
<1> DEFINE w == mine[c]
           before == balance[c].main
           after == before - Amount(c)
           e == NewEntry("DEBIT", "GAME_ENTRY", Amount(c), before, after, None)
<1>1. /\ pc[c] = "write" /\ Handler(c) = "bet" /\ Handler(c) \in ByGame
      /\ DbTypeOK /\ ~Refused(c)
  BY DEF BetWrite, Writing, TypeOK, ByGame
<1>2. w \in WalletIds /\ Amount(c) \in Nat /\ before \in Nat
  BY <1>1, WritingTypes
<1>3. after \in Nat
  BY <1>1, <1>2 DEF Refused
<1>4. e \in Entry
  BY <1>2, <1>3 DEF NewEntry, Entry, Sources
<1>5. SaveWallet(c, w, after, balance[c].temp) /\ Post(w, "MAIN", e)
  BY DEF BetWrite
<1>. HIDE DEF w, e, after
<1>6. wallets' \in [WalletIds -> Wallet \cup {None}]
  BY <1>1, <1>3, <1>5, WritingTypes, SaveWalletTypes
<1>7. ledger' \in [WalletIds -> [Buckets -> Seq(Entry)]]
  BY <1>1, <1>2, <1>4, <1>5, PostTypes DEF Buckets
<1>. QED
  BY <1>1, <1>6, <1>7 DEF BetWrite, DbTypeOK

LEMMA WinWriteTypes ==
  ASSUME NEW c \in Clients, TypeOK, Control, WinWrite(c)
  PROVE  DbTypeOK'
<1> DEFINE w == mine[c]
           before == balance[c].temp
           after == before + Amount(c)
           e == NewEntry("CREDIT", "GAME_WIN", Amount(c), before, after, None)
<1>1. /\ pc[c] = "write" /\ Handler(c) = "win" /\ Handler(c) \in ByGame /\ DbTypeOK
  BY DEF WinWrite, Writing, TypeOK, ByGame
<1>2. w \in WalletIds /\ after \in Nat /\ e \in Entry
  BY <1>1, WritingTypes DEF NewEntry, Entry, Sources
<1>3. SaveWallet(c, w, balance[c].main, after) /\ Post(w, "TEMPORARY_WINNING", e)
  BY DEF WinWrite
<1>. HIDE DEF w, e, after
<1>4. wallets' \in [WalletIds -> Wallet \cup {None}]
  BY <1>1, <1>2, <1>3, WritingTypes, SaveWalletTypes
<1>5. ledger' \in [WalletIds -> [Buckets -> Seq(Entry)]]
  BY <1>1, <1>2, <1>3, PostTypes DEF Buckets
<1>. QED
  BY <1>1, <1>4, <1>5 DEF WinWrite, DbTypeOK

LEMMA EditWriteTypes ==
  ASSUME NEW c \in Clients, TypeOK, Control, EditWrite(c)
  PROVE  DbTypeOK'
<1> DEFINE r == call[c].request
           new(f) == IF f \in dirty[c] THEN row[c][f] ELSE requests[r][f]
           edited == [requests[r] EXCEPT !.amount = new("amount"),
                        !.type = new("type"), !.status = new("status")]
<1>1. pc[c] = "write" /\ Handler(c) \in ByRequest /\ DbTypeOK
  BY DEF EditWrite, Writing, TypeOK, ByRequest
<1>2. r \in RequestIds /\ row[c] \in Request
  BY <1>1, WritingTypes
<1>3. requests[r] # None => edited \in Request
  BY <1>1, <1>2 DEF DbTypeOK, Request
<1>4. \/ requests' = [requests EXCEPT ![r] = edited] /\ requests[r] # None
      \/ UNCHANGED requests
  BY DEF EditWrite
<1>. HIDE DEF edited
<1>5. requests' \in [RequestIds -> Request \cup {None}]
  BY <1>1, <1>3, <1>4 DEF DbTypeOK
<1>. QED
  BY <1>1, <1>5 DEF EditWrite, DbTypeOK

LEMMA EditInsertKeeps ==
  ASSUME NEW c \in Clients, TypeOK, Control, EditInsert(c)
  PROVE  TypeOK' /\ Control' /\ OthersKeepLocals(c)
<1>1. CASE Rollback(c)
  BY <1>1, RollbackKeeps
<1>2. CASE ~Rollback(c)
  <2>1. row[c] \in Request
    BY DEF EditInsert, Control, ControlOf, Running, Active
  <2>2. DbTypeOK' /\ End(c, "done")
    BY <1>2, <2>1 DEF EditInsert, TypeOK, DbTypeOK
  <2>. QED
    BY <2>2, CommitKeeps
<1>. QED
  BY <1>1, <1>2

\* losing the reference to a deleted request keeps everything else of a ledger
LEMMA DetachedEntries ==
  ASSUME NEW s \in Seq(Entry), NEW r
  PROVE  /\ Detached(s, r) \in Seq(Entry)
         /\ Len(Detached(s, r)) = Len(s)
         /\ \A i \in 1..Len(s) :
              /\ Detached(s, r)[i].before = s[i].before
              /\ Detached(s, r)[i].after = s[i].after
              /\ Detached(s, r)[i].amount = s[i].amount
              /\ Detached(s, r)[i].type = s[i].type
<1> DEFINE n == Len(s)
<1>1. n \in Nat /\ DOMAIN s = 1..n /\ s \in [1..n -> Entry]
  OBVIOUS
<1>2. \A i \in 1..n : [s[i] EXCEPT !.request = None] \in Entry
  BY <1>1 DEF Entry
<1>3. Detached(s, r) \in [1..n -> Entry]
  BY <1>1, <1>2 DEF Detached
<1>4. Detached(s, r) \in Seq(Entry) /\ Len(Detached(s, r)) = n
  BY <1>1, <1>3
<1>. QED
  BY <1>1, <1>4 DEF Detached, Entry

LEMMA DeleteWriteTypes ==
  ASSUME NEW c \in Clients, TypeOK, Control, DeleteWrite(c)
  PROVE  DbTypeOK'
<1> DEFINE r == call[c].request
<1>1. pc[c] = "write" /\ DbTypeOK
  BY DEF DeleteWrite, Writing, TypeOK
<1>2. r \in RequestIds
  BY <1>1, WritingTypes
<1>3. requests' = [requests EXCEPT ![r] = None] /\ actions' = [actions EXCEPT ![r] = << >>]
  BY DEF DeleteWrite
<1>4. ledger' = [w \in WalletIds |-> [b \in Buckets |-> Detached(ledger[w][b], r)]]
  BY DEF DeleteWrite
<1>5. \A w \in WalletIds, b \in Buckets : Detached(ledger[w][b], r) \in Seq(Entry)
  BY <1>1, DetachedEntries DEF DbTypeOK
<1>6. ledger' \in [WalletIds -> [Buckets -> Seq(Entry)]]
  BY <1>4, <1>5
<1>7. requests' \in [RequestIds -> Request \cup {None}]
  BY <1>1, <1>3 DEF DbTypeOK
<1>8. << >> \in Seq(Decision)
  OBVIOUS
<1>9. actions' \in [RequestIds -> Seq(Decision)]
  BY <1>1, <1>3, <1>8 DEF DbTypeOK
<1>. QED
  BY <1>1, <1>6, <1>7, <1>9 DEF DeleteWrite, DbTypeOK

-----------------------------------------------------------------------------
(* Type correctness. *)

LEMMA StepKeeps ==
  ASSUME NEW c \in Clients, TypeOK, Control,
         Start(c) \/ Step(c) \/ Crash(c) \/ DeadlockVictim(c)
  PROVE  TypeOK' /\ Control' /\ OthersKeepLocals(c)
<1>1. CASE Start(c)
  BY <1>1, StartKeeps
<1>2. CASE LockUser(c)
  BY <1>2, LockUserKeeps
<1>3. CASE ReadWallet(c)
  BY <1>3, ReadWalletKeeps
<1>4. CASE LockRequest(c)
  BY <1>4, LockRequestKeeps
<1>5. CASE LockWallet(c)
  BY <1>5, LockWalletKeeps
<1>6. CASE ReadRequest(c)
  BY <1>6, ReadRequestKeeps
<1>7. CASE SelectRequest(c)
  BY <1>7, SelectRequestKeeps
<1>8. CASE Refuse(c) \/ Crash(c) \/ DeadlockVictim(c)
  BY <1>8, RollbackKeeps DEF Refuse, Crash, DeadlockVictim
<1>9. CASE CreateWrite(c)
  BY <1>9, CreateWriteTypes, CommitKeeps DEF CreateWrite
<1>10. CASE TransferWrite(c)
  BY <1>10, TransferWriteTypes, CommitKeeps DEF TransferWrite
<1>11. CASE RequestWrite(c)
  BY <1>11, RequestWriteTypes, CommitKeeps DEF RequestWrite
<1>12. CASE AcceptWrite(c)
  BY <1>12, AcceptWriteTypes, CommitKeeps DEF AcceptWrite
<1>13. CASE RejectWrite(c)
  BY <1>13, RejectWriteTypes, CommitKeeps DEF RejectWrite
<1>14. CASE BetWrite(c)
  BY <1>14, BetWriteTypes, CommitKeeps DEF BetWrite
<1>15. CASE WinWrite(c)
  BY <1>15, WinWriteTypes, CommitKeeps DEF WinWrite
<1>16. CASE EditWrite(c)
  BY <1>16, EditWriteTypes, CommitKeeps DEF EditWrite
<1>17. CASE EditInsert(c)
  BY <1>17, EditInsertKeeps
<1>18. CASE DeleteWrite(c)
  BY <1>18, DeleteWriteTypes, CommitKeeps DEF DeleteWrite
<1>. QED
  BY <1>1, <1>2, <1>3, <1>4, <1>5, <1>6, <1>7, <1>8, <1>9, <1>10, <1>11, <1>12,
     <1>13, <1>14, <1>15, <1>16, <1>17, <1>18 DEF Step, Write

LEMMA TypeInit == Init => TypeOK /\ Control
<1>. SUFFICES ASSUME Init PROVE TypeOK /\ Control
  OBVIOUS
<1>1. DbTypeOK
  BY DEF Init, DbTypeOK
<1>2. SessionTypeOK
  BY DEF Init, SessionTypeOK, Zero
<1>3. Control
  BY DEF Init, Control, ControlOf, Active
<1>. QED
  BY <1>1, <1>2, <1>3 DEF TypeOK

LEMMA Stuttering == TypeOK /\ Control /\ UNCHANGED vars => TypeOK' /\ Control'
<1>. SUFFICES ASSUME TypeOK, Control, UNCHANGED vars PROVE TypeOK' /\ Control'
  OBVIOUS
<1>1. TypeOK'
  BY DEF TypeOK, DbTypeOK, SessionTypeOK, vars, db, locks, locals
<1>2. Control'
  BY DEF Control, ControlOf, Running, Handler, vars, locals
<1>. QED
  BY <1>1, <1>2

\* Every handler keeps every table, lock and local variable within its type, and
\* a client is never at a statement that its handler does not have.
THEOREM TypeCorrect == Spec => [](TypeOK /\ Control)
<1>1. TypeOK /\ Control /\ [Next]_vars => TypeOK' /\ Control'
  BY StepKeeps, Stuttering DEF Next, Terminating
<1>. QED
  BY <1>1, TypeInit, PTL DEF Spec

-----------------------------------------------------------------------------
(* Safety: owners, ledgers and balances.                                   *)

\* what a step of c may do to the rows and the locks the others rely on
StaysOff(c) ==
  /\ \A w \in WalletIds : wallets[w] # None =>
       wallets'[w] # None /\ wallets'[w].owner = wallets[w].owner
  /\ \A w \in WalletIds : wallets[w] # None /\ wallets'[w] # wallets[w] =>
       walletLock[w] = c
  /\ \A w \in WalletIds : wallets[w] = None /\ wallets'[w] # None =>
       userLock[wallets'[w].owner] = c
  /\ \A r \in RequestIds : requests'[r] # requests[r] =>
       requests[r] = None \/ requestLock[r] \in {c, None}
  /\ usedRequests \subseteq usedRequests'
  /\ \A d \in Clients \ {c} :
       /\ \A u \in Users : userLock[u] = d => userLock'[u] = d
       /\ \A w \in WalletIds : walletLock[w] = d => walletLock'[w] = d
       /\ \A r \in RequestIds : requestLock[r] = d => requestLock'[r] = d

RequestsHaveWallets == \A r \in RequestIds : requests[r] # None =>
  r \in usedRequests /\ requests[r].wallet \in WalletsOf(requests[r].user)

AllSecured == \A c \in Clients : pc[c] \in Active => Secured(c)

-----------------------------------------------------------------------------
(* A step of one client leaves the copies of the others current. *)

LEMMA OthersStaySecured ==
  ASSUME NEW c \in Clients, NEW d \in Clients \ {c}, TypeOK, Control,
         StaysOff(c), OthersKeepLocals(c), pc[d] \in Active, Secured(d)
  PROVE  Secured(d)'
<1>1. /\ pc'[d] = pc[d] /\ call'[d] = call[d] /\ row'[d] = row[d]
      /\ mine'[d] = mine[d] /\ balance'[d] = balance[d]
  BY DEF OthersKeepLocals, Local
<1>2. Handler(d)' = Handler(d) /\ Owner(d)' = Owner(d)
  BY <1>1 DEF Handler, Owner
<1>3. Owner(d) \in Users /\ call[d].request \in RequestIds
  BY OwnerTypes
<1>4. Handler(d) \in ByUser /\ pc[d] \in {"lockWallet", "readWallet", "write"} =>
        userLock'[Owner(d)] = d
  BY <1>3 DEF Secured, StaysOff
<1>5. Handler(d) \in ByDecision /\ pc[d] \in {"lockWallet", "write"} =>
        /\ requestLock'[call[d].request] = d
        /\ requests'[call[d].request] = row[d]
        /\ row[d].status = "PENDING"
  <2>1. SUFFICES ASSUME Handler(d) \in ByDecision /\ pc[d] \in {"lockWallet", "write"}
                 PROVE  /\ requestLock'[call[d].request] = d
                        /\ requests'[call[d].request] = row[d]
                        /\ row[d].status = "PENDING"
    OBVIOUS
  <2>2. row[d] # None
    BY <2>1, NoneAssumption DEF Control, ControlOf, Running
  <2>3. d # None
    BY NoneAssumption
  <2>. QED
    BY <1>3, <2>1, <2>2, <2>3 DEF Secured, StaysOff
<1>6. ASSUME NEW u, NEW w \in WalletsOf(u)
      PROVE  w \in WalletsOf(u)'
  BY DEF WalletsOf, StaysOff
<1>7. mine[d] # None => mine[d] \in WalletsOf(Owner(d))'
  BY <1>2, <1>6 DEF Secured
<1>8. mine[d] # None /\ Handler(d) # "request" =>
        /\ walletLock'[mine[d]] = d
        /\ balance[d] = [main |-> wallets'[mine[d]].main, temp |-> wallets'[mine[d]].temp]
  <2>1. SUFFICES ASSUME mine[d] # None, Handler(d) # "request"
                 PROVE  /\ walletLock'[mine[d]] = d
                        /\ wallets'[mine[d]] = wallets[mine[d]]
    BY DEF Secured
  <2>2. mine[d] \in WalletIds /\ wallets[mine[d]] # None /\ walletLock[mine[d]] = d
    BY <2>1 DEF Secured, WalletsOf
  <2>. QED
    BY <2>2 DEF StaysOff
<1>9. mine[d] = None /\ Handler(d) \in {"create", "request"} /\ pc[d] = "write" =>
        WalletsOf(Owner(d))' = {}
  <2>1. SUFFICES ASSUME mine[d] = None, Handler(d) \in {"create", "request"},
                        pc[d] = "write", NEW w \in WalletIds,
                        wallets'[w] # None, wallets'[w].owner = Owner(d)
                 PROVE  FALSE
    BY <1>2 DEF WalletsOf
  <2>2. userLock[Owner(d)] = d /\ WalletsOf(Owner(d)) = {}
    BY <2>1 DEF Secured, ByUser
  <2>3. CASE wallets[w] = None
    BY <2>1, <2>2, <2>3 DEF StaysOff
  <2>4. CASE wallets[w] # None
    BY <2>1, <2>2, <2>4 DEF StaysOff, WalletsOf
  <2>. QED
    BY <2>3, <2>4
<1>10. Handler(d) \in ByRequest /\ pc[d] \in {"selectRequest", "insert", "write"} =>
         /\ call[d].request \in usedRequests'
         /\ row[d].wallet \in WalletsOf(row[d].user)'
  BY <1>1 DEF Secured, StaysOff, WalletsOf
<1>11. mine[d] = None => balance[d] = Zero
  BY DEF Secured
<1>12. Handler(d) \in ByDecision /\ pc[d] = "write" => mine[d] # None
  BY DEF Secured
<1>. QED
  BY <1>1, <1>2, <1>4, <1>5, <1>7, <1>8, <1>9, <1>10, <1>11, <1>12 DEF Secured

-----------------------------------------------------------------------------
(* Steps that write no row. *)

LEMMA EndReleases ==
  ASSUME NEW c \in Clients, NEW outcome \in Ended, TypeOK, End(c, outcome)
  PROVE  /\ pc'[c] \notin Active
         /\ \A d \in Clients \ {c} :
              /\ \A u \in Users : userLock[u] = d => userLock'[u] = d
              /\ \A w \in WalletIds : walletLock[w] = d => walletLock'[w] = d
              /\ \A r \in RequestIds : requestLock[r] = d => requestLock'[r] = d
BY DEF End, TypeOK, SessionTypeOK, Ended, Active

LEMMA RollbackStaysOff ==
  ASSUME NEW c \in Clients, TypeOK, Rollback(c)
  PROVE  UNCHANGED db /\ StaysOff(c) /\ pc'[c] \notin Active
<1>1. UNCHANGED db /\ End(c, "failed")
  BY DEF Rollback
<1>. QED
  BY <1>1, EndReleases DEF StaysOff, db, Ended

LEMMA StartStaysOff ==
  ASSUME NEW c \in Clients, TypeOK, Control, AllSecured, Start(c)
  PROVE  UNCHANGED db /\ StaysOff(c) /\ (pc'[c] \in Active => Secured(c)')
<1>1. CASE Rollback(c)
  BY <1>1, RollbackStaysOff
<1>2. CASE ~Rollback(c)
  <2>1. PICK k \in CallsOf[c] :
          /\ call' = [call EXCEPT ![c] = k]
          /\ pc' = [pc EXCEPT ![c] = First(k.handler)]
          /\ UNCHANGED <<db, locks, row, dirty, mine, balance>>
    BY <1>2 DEF Start
  <2>2. UNCHANGED db /\ StaysOff(c)
    BY <2>1 DEF StaysOff, db, locks
  <2>3. pc[c] = "start" /\ mine[c] = None /\ balance[c] = Zero
    BY DEF Start, Control, ControlOf, Active
  <2>4. pc'[c] \in {"lockUser", "lockRequest", "readRequest", "lockWallet"}
    <3>1. k \in Call
      BY <2>1, CallsAssumption
    <3>. QED
      BY <2>1, <3>1 DEF First, Call, Handlers, TypeOK, SessionTypeOK
  <2>5. pc'[c] = "lockWallet" => Handler(c)' \in ByGame
    <3>1. k \in Call /\ call'[c] = k
      BY <2>1, CallsAssumption DEF TypeOK, SessionTypeOK
    <3>. QED
      BY <2>1, <3>1 DEF First, Call, Handlers, TypeOK, SessionTypeOK, Handler
  <2>6. Secured(c)'
    BY <2>1, <2>3, <2>4, <2>5 DEF Secured, ByUser, ByDecision, ByGame
  <2>. QED
    BY <2>2, <2>6
<1>. QED
  BY <1>1, <1>2

LEMMA LockUserStaysOff ==
  ASSUME NEW c \in Clients, TypeOK, Control, AllSecured, LockUser(c)
  PROVE  UNCHANGED db /\ StaysOff(c) /\ (pc'[c] \in Active => Secured(c)')
<1>1. CASE Rollback(c)
  BY <1>1, RollbackStaysOff
<1>2. CASE ~Rollback(c)
  <2>1. /\ pc[c] = "lockUser"
        /\ Blockers(c) = {}
        /\ userLock' = [userLock EXCEPT ![Owner(c)] = c]
        /\ pc' = [pc EXCEPT ![c] = IF Handler(c) = "request" THEN "readWallet"
                                                            ELSE "lockWallet"]
        /\ UNCHANGED <<db, walletLock, requestLock, locals>>
    BY <1>2 DEF LockUser, TakeUser
  <2>2. Running(c) /\ Secured(c) /\ Owner(c) \in Users
    BY <2>1, OwnerTypes DEF Control, ControlOf, AllSecured, Active
  <2>3. userLock[Owner(c)] \in {c, None}
    BY <2>1 DEF Blockers
  <2>4. StaysOff(c)
    BY <2>1, <2>3, NoneAssumption DEF StaysOff, db, TypeOK, SessionTypeOK
  <2>5. /\ userLock'[Owner(c)] = c
        /\ pc'[c] \in {"readWallet", "lockWallet"}
        /\ mine[c] = None
        /\ Handler(c) \in ByUser
    BY <2>1, <2>2 DEF TypeOK, SessionTypeOK, Running
  <2>6. Secured(c)'
    BY <2>1, <2>2, <2>5 DEF Secured, Handler, Owner, locals, ByUser, ByDecision,
      ByRequest
  <2>. QED
    BY <2>1, <2>4, <2>6
<1>. QED
  BY <1>1, <1>2

LEMMA ReadWalletStaysOff ==
  ASSUME NEW c \in Clients, TypeOK, Control, AllSecured, ReadWallet(c)
  PROVE  UNCHANGED db /\ StaysOff(c) /\ (pc'[c] \in Active => Secured(c)')
<1>1. /\ pc[c] = "readWallet"
      /\ pc' = [pc EXCEPT ![c] = "write"]
      /\ UNCHANGED <<db, locks, call, row, dirty, balance>>
      /\ \/ mine'[c] \in WalletsOf(Owner(c))
         \/ WalletsOf(Owner(c)) = {} /\ mine' = mine
  BY DEF ReadWallet, TypeOK, SessionTypeOK
<1>2. Running(c) /\ Secured(c)
  BY <1>1 DEF Control, ControlOf, AllSecured, Active
<1>3. StaysOff(c)
  BY <1>1 DEF StaysOff, db, locks
<1>4. /\ Handler(c) = "request"
      /\ mine[c] = None
      /\ userLock[Owner(c)] = c
      /\ balance[c] = Zero
  BY <1>1, <1>2 DEF Running, Secured, ByUser
<1>5. WalletsOf(Owner(c))' = WalletsOf(Owner(c))
  BY <1>1 DEF WalletsOf, Owner, db
<1>6. pc'[c] = "write" /\ Handler(c)' = "request" /\ Owner(c)' = Owner(c)
  BY <1>1, <1>4 DEF TypeOK, SessionTypeOK, Handler, Owner
<1>7. \/ mine'[c] \in WalletsOf(Owner(c))' /\ mine'[c] # None
      \/ mine'[c] = None /\ WalletsOf(Owner(c))' = {}
  <2>1. None \notin WalletsOf(Owner(c))
    BY NoneAssumption DEF WalletsOf
  <2>. QED
    BY <1>1, <1>4, <1>5, <2>1
<1>8. userLock'[Owner(c)'] = c /\ balance'[c] = Zero
  BY <1>1, <1>4, <1>6 DEF locks
<1>9. Secured(c)'
  BY <1>6, <1>7, <1>8 DEF Secured, ByUser, ByDecision, ByRequest
<1>. QED
  BY <1>1, <1>3, <1>9

LEMMA LockRequestStaysOff ==
  ASSUME NEW c \in Clients, TypeOK, Control, AllSecured, LockRequest(c)
  PROVE  UNCHANGED db /\ StaysOff(c) /\ (pc'[c] \in Active => Secured(c)')
<1>1. CASE Rollback(c)
  BY <1>1, RollbackStaysOff
<1>2. CASE ~Rollback(c)
  <2> DEFINE r == call[c].request
  <2>1. /\ pc[c] = "lockRequest"
        /\ Blockers(c) = {}
        /\ requests[r].status = "PENDING"
        /\ requestLock' = [requestLock EXCEPT ![r] = c]
        /\ row' = [row EXCEPT ![c] = requests[r]]
        /\ pc' = [pc EXCEPT ![c] = "lockWallet"]
        /\ UNCHANGED <<db, userLock, walletLock, call, dirty, mine, balance>>
    BY <1>2 DEF LockRequest, TakeRequest, Decidable
  <2>2. Running(c) /\ Secured(c) /\ r \in RequestIds
    BY <2>1, OwnerTypes DEF Control, ControlOf, AllSecured, Active
  <2>3. requestLock[r] \in {c, None}
    BY <2>1 DEF Blockers
  <2>4. StaysOff(c)
    BY <2>1, <2>3, NoneAssumption DEF StaysOff, db, TypeOK, SessionTypeOK
  <2>5. /\ requestLock'[r] = c
        /\ row'[c] = requests'[r]
        /\ pc'[c] = "lockWallet"
        /\ mine[c] = None
        /\ Handler(c) \in ByDecision
    BY <2>1, <2>2 DEF TypeOK, SessionTypeOK, Running, db
  <2>6. Secured(c)'
    BY <2>1, <2>2, <2>5 DEF Secured, Handler, db, ByUser, ByDecision, ByRequest
  <2>. QED
    BY <2>1, <2>4, <2>6
<1>. QED
  BY <1>1, <1>2

\* a request under decision has a wallet, so accept never makes one
LEMMA DecisionHasWallet ==
  ASSUME NEW c \in Clients, TypeOK, Control, RequestsHaveWallets, Secured(c),
         pc[c] \in {"lockWallet", "write"}, Handler(c) \in ByDecision
  PROVE  row[c].wallet \in WalletsOf(Owner(c))
<1>1. row[c] # None /\ call[c].request \in RequestIds
  BY OwnerTypes, NoneAssumption DEF Control, ControlOf, Running, Active
<1>2. requests[call[c].request] = row[c]
  BY DEF Secured
<1>. QED
  BY <1>1, <1>2 DEF RequestsHaveWallets, Owner

LEMMA LockWalletStaysOff ==
  ASSUME NEW c \in Clients, TypeOK, Control, AllSecured, RequestsHaveWallets,
         LockWallet(c)
  PROVE  UNCHANGED db /\ StaysOff(c) /\ (pc'[c] \in Active => Secured(c)')
<1>. /\ pc[c] = "lockWallet" /\ Running(c) /\ Secured(c)
     /\ Blockers(c) = {}
     /\ Handler(c) \in {"create", "transfer"} \cup ByDecision \cup ByGame
     /\ mine[c] = None
  BY DEF LockWallet, Control, ControlOf, Running, AllSecured, Active
<1>1. CASE Rollback(c)
  BY <1>1, RollbackStaysOff
<1> DEFINE Locked(w) ==
      /\ walletLock' = [walletLock EXCEPT ![w] = c]
      /\ mine' = [mine EXCEPT ![c] = w]
      /\ balance' = [balance EXCEPT ![c] = Balances(w)]
      /\ pc' = [pc EXCEPT ![c] = "write"]
      /\ UNCHANGED <<db, userLock, requestLock, call, row, dirty>>
<1>2. CASE \E w \in WalletsOf(Owner(c)) : Locked(w)
  <2>1. PICK w \in WalletsOf(Owner(c)) : Locked(w)
    BY <1>2
  <2>2. w \in WalletIds /\ w # None /\ walletLock[w] \in {c, None}
    BY NoneAssumption DEF WalletsOf, Blockers
  <2>3. StaysOff(c)
    BY <2>1, <2>2, NoneAssumption DEF StaysOff, db, TypeOK, SessionTypeOK
  <2>4. /\ pc'[c] = "write"
        /\ mine'[c] = w
        /\ walletLock'[w] = c
        /\ balance'[c] = [main |-> wallets'[w].main, temp |-> wallets'[w].temp]
        /\ Handler(c)' = Handler(c)
        /\ Owner(c)' = Owner(c)
        /\ w \in WalletsOf(Owner(c))'
    BY <2>1, <2>2 DEF TypeOK, SessionTypeOK, db, Handler, Owner, WalletsOf
  <2>5. /\ userLock' = userLock /\ requestLock' = requestLock
        /\ requests' = requests /\ row' = row /\ call' = call
    BY <2>1 DEF db
  <2>6. Secured(c)'
    BY <2>2, <2>4, <2>5 DEF Secured, ByUser, ByDecision, ByRequest, ByGame
  <2>. QED
    BY <2>1, <2>3, <2>6
<1>3. CASE /\ WalletsOf(Owner(c)) = {}
           /\ Handler(c) \in {"create"} \cup ByDecision
           /\ pc' = [pc EXCEPT ![c] = "write"]
           /\ UNCHANGED <<db, locks, locals>>
  <2>1. Handler(c) = "create"
    BY <1>3, DecisionHasWallet
  <2>2. StaysOff(c)
    BY <1>3 DEF StaysOff, db, locks
  <2>3. /\ pc'[c] = "write" /\ mine'[c] = None /\ balance'[c] = balance[c]
        /\ Handler(c)' = Handler(c)
        /\ Owner(c)' = Owner(c)
        /\ WalletsOf(Owner(c))' = {}
    BY <1>3 DEF TypeOK, SessionTypeOK, db, locals, Handler, Owner, WalletsOf
  <2>4. Secured(c)'
    BY <1>3, <2>1, <2>3 DEF Secured, locks, ByUser, ByDecision, ByRequest
  <2>. QED
    BY <1>3, <2>2, <2>4
<1>. QED
  BY <1>1, <1>2, <1>3 DEF LockWallet, TakeWallet, ByDecision

LEMMA ReadRequestStaysOff ==
  ASSUME NEW c \in Clients, TypeOK, Control, AllSecured, RequestsHaveWallets,
         ReadRequest(c)
  PROVE  UNCHANGED db /\ StaysOff(c) /\ (pc'[c] \in Active => Secured(c)')
<1>1. CASE Rollback(c)
  BY <1>1, RollbackStaysOff
<1>2. CASE ~Rollback(c)
  <2> DEFINE k == call[c]
             seen == requests[k.request]
             entity == [seen EXCEPT
               !.amount = IF k.amount # None THEN k.amount ELSE @,
               !.type = IF k.type # None THEN k.type ELSE @]
  <2>1. /\ pc[c] = "readRequest"
        /\ seen # None
        /\ row' = [row EXCEPT ![c] = IF k.handler = "edit" THEN entity ELSE seen]
        /\ pc' = [pc EXCEPT ![c] =
             IF k.handler = "edit" THEN "selectRequest" ELSE "write"]
        /\ UNCHANGED <<db, locks, call, dirty, mine, balance>>
    BY <1>2 DEF ReadRequest
  <2>2. Running(c) /\ Secured(c) /\ k.request \in RequestIds
    BY <2>1, OwnerTypes DEF Control, ControlOf, AllSecured, Active
  <2>3. seen \in Request
    BY <2>1, <2>2 DEF TypeOK, DbTypeOK
  <2>4. row'[c].wallet = seen.wallet /\ row'[c].user = seen.user
    BY <2>1, <2>3 DEF TypeOK, SessionTypeOK, Request
  <2>5. k.request \in usedRequests /\ seen.wallet \in WalletsOf(seen.user)
    BY <2>1, <2>2 DEF RequestsHaveWallets
  <2>6. row'[c].wallet \in WalletsOf(row[c].user)'
    BY <2>1, <2>4, <2>5 DEF WalletsOf, db
  <2>7. /\ pc'[c] \in {"selectRequest", "write"}
        /\ Handler(c)' \in ByRequest
        /\ mine'[c] = None
        /\ balance'[c] = Zero
    BY <2>1, <2>2 DEF TypeOK, SessionTypeOK, Running, Secured, Handler
  <2>8. StaysOff(c)
    BY <2>1 DEF StaysOff, db, locks
  <2>9. Secured(c)'
    BY <2>1, <2>5, <2>6, <2>7 DEF Secured, ByUser, ByDecision, ByRequest, db
  <2>. QED
    BY <2>1, <2>8, <2>9
<1>. QED
  BY <1>1, <1>2

LEMMA SelectRequestStaysOff ==
  ASSUME NEW c \in Clients, TypeOK, Control, AllSecured, SelectRequest(c)
  PROVE  UNCHANGED db /\ StaysOff(c) /\ (pc'[c] \in Active => Secured(c)')
<1>1. /\ pc[c] = "selectRequest" /\ Running(c) /\ Secured(c)
      /\ mine[c] = None /\ Handler(c) = "edit"
  BY DEF SelectRequest, Control, ControlOf, AllSecured, Running, Active
<1>2. CASE End(c, "done") /\ UNCHANGED db
  BY <1>2, EndReleases DEF StaysOff, db, Ended
<1>3. CASE /\ pc'[c] \in {"insert", "write"}
           /\ UNCHANGED <<db, locks, call, row, mine, balance>>
  <2>1. StaysOff(c)
    BY <1>3 DEF StaysOff, db, locks
  <2>2. /\ Handler(c)' = "edit" /\ mine'[c] = None /\ balance'[c] = Zero
        /\ call[c].request \in usedRequests
        /\ row'[c].wallet \in WalletsOf(row[c].user)'
    BY <1>1, <1>3 DEF Secured, Handler, WalletsOf, db, ByRequest
  <2>3. Secured(c)'
    BY <1>3, <2>2 DEF Secured, ByUser, ByDecision, ByRequest, db
  <2>. QED
    BY <1>3, <2>1, <2>3
<1>. QED
  BY <1>2, <1>3 DEF SelectRequest, locals, TypeOK, SessionTypeOK

-----------------------------------------------------------------------------
(* Chains of ledger entries. *)

LEMMA ChainExtends ==
  ASSUME NEW s \in Seq(Entry), NEW b, NEW e \in Entry, Chained(s, b),
         e.before = b, e.after = Signed(e, b)
  PROVE  Chained(Append(s, e), e.after)
<1> DEFINE n == Len(s)
           t == Append(s, e)
<1>1. /\ n \in Nat
      /\ Len(t) = n + 1
      /\ t # << >>
      /\ \A i \in 1..n : t[i] = s[i]
      /\ t[n + 1] = e
  OBVIOUS
<1>2. ASSUME NEW i \in 1..(n + 1)
      PROVE  t[i].after = Signed(t[i], t[i].before)
  <2>1. CASE i \in 1..n
    BY <1>1, <2>1 DEF Chained, Signed
  <2>2. CASE i = n + 1
    BY <1>1, <2>2 DEF Signed
  <2>. QED
    BY <1>1, <2>1, <2>2
<1>3. ASSUME NEW i \in 1..(n + 1)
      PROVE  t[i].before = IF i = 1 THEN 0 ELSE t[i - 1].after
  <2>1. CASE i \in 1..n
    <3>1. s[i].before = IF i = 1 THEN 0 ELSE s[i - 1].after
      BY <2>1 DEF Chained
    <3>2. i # 1 => i - 1 \in 1..n
      BY <1>1, <2>1
    <3>. QED
      BY <1>1, <2>1, <3>1, <3>2
  <2>2. CASE i = n + 1
    <3>1. b = IF s = << >> THEN 0 ELSE s[n].after
      BY DEF Chained
    <3>2. s = << >> <=> n = 0
      OBVIOUS
    <3>3. n # 0 => n \in 1..n /\ i - 1 = n
      BY <1>1, <2>2
    <3>4. t[i].before = b
      BY <1>1, <2>2
    <3>5. CASE n = 0
      BY <2>2, <3>1, <3>2, <3>4, <3>5
    <3>6. CASE n # 0
      <4>1. i # 1 /\ t[i - 1] = s[n]
        BY <1>1, <2>2, <3>3, <3>6
      <4>. QED
        BY <3>1, <3>2, <3>4, <3>6, <4>1
    <3>. QED
      BY <3>5, <3>6
  <2>. QED
    BY <1>1, <2>1, <2>2
<1>4. e.after = IF t = << >> THEN 0 ELSE t[Len(t)].after
  BY <1>1
<1>. HIDE DEF t
<1>. QED
  BY <1>1, <1>2, <1>3, <1>4 DEF Chained

LEMMA DetachedChained ==
  ASSUME NEW s \in Seq(Entry), NEW b, NEW r, Chained(s, b)
  PROVE  Chained(Detached(s, r), b)
<1> DEFINE n == Len(s)
           t == Detached(s, r)
<1>1. /\ t \in Seq(Entry) /\ Len(t) = n /\ n \in Nat
      /\ \A i \in 1..n : /\ t[i].before = s[i].before /\ t[i].after = s[i].after
                         /\ t[i].amount = s[i].amount /\ t[i].type = s[i].type
  BY DetachedEntries
<1>. HIDE DEF t
<1>2. t = << >> <=> s = << >>
  BY <1>1
<1>3. \A i \in 1..n : t[i].after = Signed(t[i], t[i].before)
  BY <1>1 DEF Chained, Signed
<1>4. \A i \in 1..n : t[i].before = IF i = 1 THEN 0 ELSE t[i - 1].after
  <2>1. ASSUME NEW i \in 1..n
        PROVE  t[i].before = IF i = 1 THEN 0 ELSE t[i - 1].after
    <3>1. i # 1 => i - 1 \in 1..n
      BY <1>1
    <3>. QED
      BY <1>1, <3>1 DEF Chained
  <2>. QED
    BY <2>1
<1>5. b = IF t = << >> THEN 0 ELSE t[n].after
  <2>1. s # << >> => n \in 1..n
    OBVIOUS
  <2>. QED
    BY <1>1, <1>2, <2>1 DEF Chained
<1>6. Len(t) = n
  BY <1>1
<1>7. Chained(t, b)
  BY <1>3, <1>4, <1>5, <1>6 DEF Chained
<1>. QED
  BY <1>7 DEF t

-----------------------------------------------------------------------------
(* What a handler that writes a wallet holds. *)

Visible(w) == IF wallets[w] = None THEN Zero
            ELSE [main |-> wallets[w].main, temp |-> wallets[w].temp]

\* the wallet w is there and c has locked it, or is missing and c has locked
\* the user it will belong to
Holds(c, w) ==
  \/ wallets[w] # None /\ wallets[w].owner = Owner(c) /\ walletLock[w] = c
  \/ wallets[w] = None /\ WalletsOf(Owner(c)) = {} /\ userLock[Owner(c)] = c

LEMMA WriterHolds ==
  ASSUME NEW c \in Clients, TypeOK, Control, Secured(c), pc[c] = "write",
         Handler(c) \in {"create", "transfer", "accept", "acceptOwn"} \cup ByGame,
         NEW w \in Target(c)
  PROVE  w \in WalletIds /\ Holds(c, w) /\ balance[c] = Visible(w)
<1>1. Running(c)
  BY DEF Control, ControlOf, Active
<1>2. CASE mine[c] # None
  BY <1>2 DEF Target, Secured, WalletsOf, Holds, Visible, ByGame
<1>3. CASE mine[c] = None
  <2>1. Handler(c) = "create"
    BY <1>1, <1>3 DEF Running, Secured, ByDecision
  <2>2. WalletsOf(Owner(c)) = {} /\ userLock[Owner(c)] = c /\ balance[c] = Zero
    BY <1>3, <2>1 DEF Secured, ByUser
  <2>. QED
    BY <1>3, <2>2 DEF Target, Holds, Visible
<1>. QED
  BY <1>2, <1>3

LEMMA SaveKeepsOwners ==
  ASSUME NEW c \in Clients, NEW w \in WalletIds, NEW main \in Nat, NEW temp \in Nat,
         TypeOK, Control, pc[c] \in Active, OneWalletPerOwner, Holds(c, w),
         SaveWallet(c, w, main, temp)
  PROVE  /\ OneWalletPerOwner'
         /\ wallets'[w] # None /\ wallets'[w].owner = Owner(c)
         /\ \A v \in WalletIds : wallets[v] # None =>
              wallets'[v] # None /\ wallets'[v].owner = wallets[v].owner
         /\ \A v \in WalletIds : wallets[v] # None /\ wallets'[v] # wallets[v] =>
              walletLock[v] = c
         /\ \A v \in WalletIds : wallets[v] = None /\ wallets'[v] # None =>
              userLock[wallets'[v].owner] = c
<1>1. /\ wallets'[w] # None /\ wallets'[w].owner = Owner(c)
      /\ \A v \in WalletIds \ {w} : wallets'[v] = wallets[v]
  <2>1. wallets' = [wallets EXCEPT ![w] =
          [owner |-> Owner(c), main |-> main, temp |-> temp]]
    BY DEF SaveWallet
  <2>2. [owner |-> Owner(c), main |-> main, temp |-> temp] \in Wallet
    BY OwnerTypes DEF Wallet
  <2>. QED
    BY <2>1, <2>2, NoneAssumption DEF TypeOK, DbTypeOK
<1>2. ASSUME NEW v \in WalletIds \ {w}, wallets[v] # None
      PROVE  wallets[v].owner # Owner(c)
  BY <1>2 DEF Holds, OneWalletPerOwner, WalletsOf
<1>3. OneWalletPerOwner'
  BY <1>1, <1>2 DEF OneWalletPerOwner
<1>4. \A v \in WalletIds : wallets[v] # None => wallets'[v].owner = wallets[v].owner
  BY <1>1 DEF Holds
<1>. QED
  BY <1>1, <1>3, <1>4 DEF Holds

LEMMA SaveKeepsBalances ==
  ASSUME NEW c \in Clients, NEW w \in WalletIds, NEW main \in Nat, NEW temp \in Nat,
         TypeOK, Control, pc[c] \in Active, SaveWallet(c, w, main, temp),
         LedgerExplainsBalances,
         BalancesInRange, main <= Limit, temp <= Limit,
         \A v \in WalletIds \ {w} : ledger'[v] = ledger[v],
         Chained(ledger'[w]["MAIN"], main),
         Chained(ledger'[w]["TEMPORARY_WINNING"], temp)
  PROVE  LedgerExplainsBalances' /\ BalancesInRange'
<1> DEFINE saved == [owner |-> Owner(c), main |-> main, temp |-> temp]
<1>0. saved \in Wallet /\ saved # None
  BY OwnerTypes, NoneAssumption DEF Wallet
<1>1. wallets'[w] = saved /\ \A v \in WalletIds \ {w} : wallets'[v] = wallets[v]
  BY DEF SaveWallet, TypeOK, DbTypeOK
<1>2. BalancesInRange'
  BY <1>1, LimitAssumption DEF BalancesInRange
<1>3. ASSUME NEW v \in WalletIds
      PROVE  LET shown == IF wallets'[v] = None THEN Zero
                                                ELSE [main |-> wallets'[v].main,
                                                      temp |-> wallets'[v].temp]
             IN /\ Chained(ledger'[v]["MAIN"], shown.main)
                /\ Chained(ledger'[v]["TEMPORARY_WINNING"], shown.temp)
  <2>1. CASE v = w
    BY <1>0, <1>1, <2>1
  <2>2. CASE v # w
    BY <1>1, <2>2 DEF LedgerExplainsBalances
  <2>. QED
    BY <2>1, <2>2
<1>. QED
  BY <1>2, <1>3 DEF LedgerExplainsBalances

\* an entry from the balance shown to the balance saved
LEMMA PostChains ==
  ASSUME NEW w \in WalletIds, NEW b \in Buckets, NEW e \in Entry, TypeOK,
         NEW shown, Chained(ledger[w][b], shown),
         e.before = shown, e.after = Signed(e, e.before), Post(w, b, e)
  PROVE  /\ Chained(ledger'[w][b], e.after)
         /\ \A o \in Buckets \ {b} : ledger'[w][o] = ledger[w][o]
         /\ \A v \in WalletIds \ {w} : ledger'[v] = ledger[v]
<1>1. ledger[w][b] \in Seq(Entry)
  BY DEF TypeOK, DbTypeOK
<1>2. Chained(Append(ledger[w][b], e), e.after)
  BY <1>1, ChainExtends
<1>3. /\ ledger'[w][b] = Append(ledger[w][b], e)
      /\ \A o \in Buckets \ {b} : ledger'[w][o] = ledger[w][o]
      /\ \A v \in WalletIds \ {w} : ledger'[v] = ledger[v]
  BY DEF Post, TypeOK, DbTypeOK
<1>. QED
  BY <1>2, <1>3

LEMMA RequestsKeepWallets ==
  ASSUME RequestsHaveWallets, usedRequests \subseteq usedRequests',
         \A v \in WalletIds : wallets[v] # None =>
           wallets'[v] # None /\ wallets'[v].owner = wallets[v].owner,
         \A r \in RequestIds : requests'[r] # requests[r] /\ requests'[r] # None =>
           /\ r \in usedRequests'
           /\ requests'[r].wallet \in WalletIds
           /\ wallets'[requests'[r].wallet] # None
           /\ wallets'[requests'[r].wallet].owner = requests'[r].user
  PROVE  RequestsHaveWallets'
BY DEF RequestsHaveWallets, WalletsOf

-----------------------------------------------------------------------------
(* The writes. *)

Tables ==
  /\ RequestsHaveWallets
  /\ OneWalletPerOwner
  /\ LedgerExplainsBalances
  /\ BalancesInRange

\* a step of c that ends its handler and keeps the tables sound
Commits(c) == StaysOff(c) /\ pc'[c] \notin Active /\ Tables'

LEMMA EntryChains ==
  ASSUME NEW w \in WalletIds, LedgerExplainsBalances
  PROVE  /\ Chained(ledger[w]["MAIN"], Visible(w).main)
         /\ Chained(ledger[w]["TEMPORARY_WINNING"], Visible(w).temp)
BY DEF LedgerExplainsBalances, Visible

\* a handler that saves one wallet it holds and no request
LEMMA SaveCommits ==
  ASSUME NEW c \in Clients, NEW w \in WalletIds, NEW main \in Nat, NEW temp \in Nat,
         TypeOK, Control, Tables, pc[c] \in Active, Holds(c, w),
         SaveWallet(c, w, main, temp), End(c, "done"),
         UNCHANGED <<requests, usedRequests>>,
         main <= Limit, temp <= Limit,
         \A v \in WalletIds \ {w} : ledger'[v] = ledger[v],
         Chained(ledger'[w]["MAIN"], main),
         Chained(ledger'[w]["TEMPORARY_WINNING"], temp)
  PROVE  Commits(c)
<1>1. /\ OneWalletPerOwner'
      /\ \A v \in WalletIds : wallets[v] # None =>
           wallets'[v] # None /\ wallets'[v].owner = wallets[v].owner
      /\ \A v \in WalletIds : wallets[v] # None /\ wallets'[v] # wallets[v] =>
           walletLock[v] = c
      /\ \A v \in WalletIds : wallets[v] = None /\ wallets'[v] # None =>
           userLock[wallets'[v].owner] = c
  BY SaveKeepsOwners DEF Tables
<1>2. LedgerExplainsBalances' /\ BalancesInRange'
  BY SaveKeepsBalances DEF Tables
<1>3. RequestsHaveWallets'
  BY <1>1, RequestsKeepWallets DEF Tables
<1>4. StaysOff(c) /\ pc'[c] \notin Active
  BY <1>1, EndReleases DEF StaysOff, Ended
<1>. QED
  BY <1>1, <1>2, <1>3, <1>4 DEF Commits, Tables

LEMMA CreateWriteCommits ==
  ASSUME NEW c \in Clients, TypeOK, Control, AllSecured, Tables, CreateWrite(c)
  PROVE  Commits(c)
<1> DEFINE before == balance[c].main
           after == before + Amount(c)
           e == NewEntry("CREDIT", "ADMIN_ADD", Amount(c), before, after, None)
<1>1. /\ pc[c] = "write" /\ Handler(c) = "create" /\ ~Refused(c)
      /\ Secured(c) /\ End(c, "done")
      /\ UNCHANGED <<requests, usedRequests>>
  BY DEF CreateWrite, Writing, AllSecured, Active
<1>2. PICK w \in Target(c) :
        /\ SaveWallet(c, w, after, balance[c].temp)
        /\ \/ Post(w, "MAIN", e)
           \/ Amount(c) = 0 /\ UNCHANGED ledger
  BY DEF CreateWrite
<1>3. w \in WalletIds /\ Holds(c, w) /\ balance[c] = Visible(w)
  BY <1>1, WriterHolds
<1>4. /\ before \in Nat /\ Amount(c) \in Nat /\ balance[c].temp \in Nat
      /\ after \in Nat /\ after <= Limit
  BY <1>1, WritingTypes, LimitAssumption DEF Refused
<1>5. balance[c].temp <= Limit
  BY <1>3, LimitAssumption DEF Tables, BalancesInRange, Visible, Zero
<1>6. e \in Entry /\ e.before = before /\ e.after = after /\ e.after = Signed(e, e.before)
  BY <1>4 DEF NewEntry, Entry, Sources, Signed
<1>7. /\ Chained(ledger[w]["MAIN"], before)
      /\ Chained(ledger[w]["TEMPORARY_WINNING"], balance[c].temp)
  BY <1>3, EntryChains DEF Tables
<1>. HIDE DEF e, after, before
<1>8. /\ Chained(ledger'[w]["MAIN"], after)
      /\ Chained(ledger'[w]["TEMPORARY_WINNING"], balance[c].temp)
      /\ \A v \in WalletIds \ {w} : ledger'[v] = ledger[v]
  <2>1. CASE Post(w, "MAIN", e)
    BY <1>3, <1>6, <1>7, <2>1, PostChains DEF Buckets
  <2>2. CASE Amount(c) = 0 /\ UNCHANGED ledger
    BY <1>4, <1>7, <2>2 DEF after
  <2>. QED
    BY <1>2, <2>1, <2>2
<1>. QED
  BY <1>1, <1>2, <1>3, <1>4, <1>5, <1>8, SaveCommits DEF Active

LEMMA BetWriteCommits ==
  ASSUME NEW c \in Clients, TypeOK, Control, AllSecured, Tables, BetWrite(c)
  PROVE  Commits(c)
<1> DEFINE w == mine[c]
           before == balance[c].main
           after == before - Amount(c)
           e == NewEntry("DEBIT", "GAME_ENTRY", Amount(c), before, after, None)
<1>1. /\ pc[c] = "write" /\ Handler(c) = "bet" /\ Handler(c) \in ByGame /\ ~Refused(c)
      /\ Secured(c) /\ End(c, "done")
      /\ UNCHANGED <<requests, usedRequests>>
      /\ SaveWallet(c, w, after, balance[c].temp) /\ Post(w, "MAIN", e)
  BY DEF BetWrite, Writing, AllSecured, Active, ByGame
<1>2. w \in WalletIds /\ w \in Target(c)
  BY <1>1, WritingTypes, NoneAssumption DEF Target
<1>3. Holds(c, w) /\ balance[c] = Visible(w)
  BY <1>1, <1>2, WriterHolds
<1>4. before <= Limit /\ balance[c].temp <= Limit
  BY <1>2, <1>3, LimitAssumption DEF Tables, BalancesInRange, Visible, Zero
<1>5. /\ before \in Nat /\ Amount(c) \in Nat /\ balance[c].temp \in Nat
      /\ after \in Nat /\ after <= Limit
  <2>1. before \in Nat /\ Amount(c) \in Nat /\ balance[c].temp \in Nat
    BY <1>1, WritingTypes
  <2>2. ~(before < Amount(c))
    BY <1>1 DEF Refused
  <2>. QED
    BY <1>4, <2>1, <2>2, LimitAssumption
<1>6. e \in Entry /\ e.before = before /\ e.after = after /\ e.after = Signed(e, e.before)
  BY <1>5 DEF NewEntry, Entry, Sources, Signed
<1>7. /\ Chained(ledger[w]["MAIN"], before)
      /\ Chained(ledger[w]["TEMPORARY_WINNING"], balance[c].temp)
  BY <1>2, <1>3, EntryChains DEF Tables
<1>. HIDE DEF e, after, before, w
<1>8. /\ Chained(ledger'[w]["MAIN"], after)
      /\ Chained(ledger'[w]["TEMPORARY_WINNING"], balance[c].temp)
      /\ \A v \in WalletIds \ {w} : ledger'[v] = ledger[v]
  BY <1>1, <1>2, <1>6, <1>7, PostChains DEF Buckets
<1>. QED
  BY <1>1, <1>2, <1>3, <1>4, <1>5, <1>8, SaveCommits DEF Active

LEMMA WinWriteCommits ==
  ASSUME NEW c \in Clients, TypeOK, Control, AllSecured, Tables, WinWrite(c)
  PROVE  Commits(c)
<1> DEFINE w == mine[c]
           before == balance[c].temp
           after == before + Amount(c)
           e == NewEntry("CREDIT", "GAME_WIN", Amount(c), before, after, None)
<1>1. /\ pc[c] = "write" /\ Handler(c) = "win" /\ Handler(c) \in ByGame /\ ~Refused(c)
      /\ Secured(c) /\ End(c, "done")
      /\ UNCHANGED <<requests, usedRequests>>
      /\ SaveWallet(c, w, balance[c].main, after) /\ Post(w, "TEMPORARY_WINNING", e)
  BY DEF WinWrite, Writing, AllSecured, Active, ByGame
<1>2. w \in WalletIds /\ w \in Target(c)
  BY <1>1, WritingTypes, NoneAssumption DEF Target
<1>3. Holds(c, w) /\ balance[c] = Visible(w)
  BY <1>1, <1>2, WriterHolds
<1>4. balance[c].main <= Limit
  BY <1>2, <1>3, LimitAssumption DEF Tables, BalancesInRange, Visible, Zero
<1>5. /\ before \in Nat /\ Amount(c) \in Nat /\ balance[c].main \in Nat
      /\ after \in Nat /\ after <= Limit
  BY <1>1, WritingTypes, LimitAssumption DEF Refused
<1>6. e \in Entry /\ e.before = before /\ e.after = after /\ e.after = Signed(e, e.before)
  BY <1>5 DEF NewEntry, Entry, Sources, Signed
<1>7. /\ Chained(ledger[w]["MAIN"], balance[c].main)
      /\ Chained(ledger[w]["TEMPORARY_WINNING"], before)
  BY <1>2, <1>3, EntryChains DEF Tables
<1>. HIDE DEF e, after, before, w
<1>8. /\ Chained(ledger'[w]["MAIN"], balance[c].main)
      /\ Chained(ledger'[w]["TEMPORARY_WINNING"], after)
      /\ \A v \in WalletIds \ {w} : ledger'[v] = ledger[v]
  BY <1>1, <1>2, <1>6, <1>7, PostChains DEF Buckets
<1>. QED
  BY <1>1, <1>2, <1>3, <1>4, <1>5, <1>8, SaveCommits DEF Active

LEMMA TransferWriteCommits ==
  ASSUME NEW c \in Clients, TypeOK, Control, AllSecured, Tables, TransferWrite(c)
  PROVE  Commits(c)
<1> DEFINE w == mine[c]
           temp == balance[c].temp
           before == balance[c].main
           after == before + temp
           out == NewEntry("DEBIT", "GAME_WIN", temp, temp, 0, None)
           in == NewEntry("CREDIT", "GAME_WIN", temp, before, after, None)
<1>1. /\ pc[c] = "write" /\ Handler(c) = "transfer" /\ ~Refused(c)
      /\ Secured(c) /\ End(c, "done")
      /\ UNCHANGED <<requests, usedRequests>>
      /\ SaveWallet(c, w, after, 0)
      /\ ledger' = [ledger EXCEPT
           ![w]["TEMPORARY_WINNING"] = Append(@, out), ![w]["MAIN"] = Append(@, in)]
  BY DEF TransferWrite, Writing, AllSecured, Active
<1>2. w \in WalletIds /\ w \in Target(c)
  BY <1>1, WritingTypes, NoneAssumption DEF Target
<1>3. Holds(c, w) /\ balance[c] = Visible(w)
  BY <1>1, <1>2, WriterHolds
<1>4. before \in Nat /\ temp \in Nat /\ after \in Nat /\ after <= Limit
  BY <1>1, WritingTypes, LimitAssumption DEF Refused
<1>5. /\ in \in Entry /\ in.before = before /\ in.after = after
      /\ in.after = Signed(in, in.before)
      /\ out \in Entry /\ out.before = temp /\ out.after = 0
      /\ out.after = Signed(out, out.before)
  BY <1>4 DEF NewEntry, Entry, Sources, Signed
<1>6. /\ Chained(ledger[w]["MAIN"], before)
      /\ Chained(ledger[w]["TEMPORARY_WINNING"], temp)
  BY <1>2, <1>3, EntryChains DEF Tables
<1>7. /\ ledger[w]["MAIN"] \in Seq(Entry)
      /\ ledger[w]["TEMPORARY_WINNING"] \in Seq(Entry)
  BY <1>2 DEF TypeOK, DbTypeOK, Buckets
<1>. HIDE DEF in, out, after, before, temp, w
<1>8. /\ Chained(Append(ledger[w]["MAIN"], in), after)
      /\ Chained(Append(ledger[w]["TEMPORARY_WINNING"], out), 0)
  BY <1>5, <1>6, <1>7, ChainExtends
<1>9. /\ ledger'[w]["MAIN"] = Append(ledger[w]["MAIN"], in)
      /\ ledger'[w]["TEMPORARY_WINNING"] = Append(ledger[w]["TEMPORARY_WINNING"], out)
      /\ \A v \in WalletIds \ {w} : ledger'[v] = ledger[v]
  BY <1>1, <1>2 DEF TypeOK, DbTypeOK, Buckets
<1>10. 0 \in Nat /\ 0 <= Limit
  BY LimitAssumption
<1>. QED
  BY <1>1, <1>2, <1>3, <1>4, <1>8, <1>9, <1>10, SaveCommits DEF Active

LEMMA AcceptWriteCommits ==
  ASSUME NEW c \in Clients, TypeOK, Control, AllSecured, Tables, AcceptWrite(c)
  PROVE  Commits(c)
<1> DEFINE r == call[c].request
           before == balance[c].main
           temp == balance[c].temp
           after == IF IsCredit(c) THEN before + Amount(c) ELSE before - Amount(c)
           e == IF IsCredit(c)
                THEN NewEntry("CREDIT", "ADMIN_ADD", Amount(c), before, after, r)
                ELSE NewEntry("DEBIT", "WITHDRAW", Amount(c), before, after, r)
<1>1. /\ pc[c] = "write" /\ Handler(c) \in {"accept", "acceptOwn"}
      /\ Handler(c) \in ByDecision /\ ~Refused(c)
      /\ Secured(c) /\ End(c, "done") /\ UNCHANGED usedRequests
  BY DEF AcceptWrite, Writing, AllSecured, Active, ByDecision
<1>2. PICK w \in Target(c) :
        /\ SaveWallet(c, w, after, temp)
        /\ requests' = [requests EXCEPT ![r] =
             [row[c] EXCEPT !.wallet = w, !.status = "ACCEPTED"]]
        /\ Post(w, "MAIN", e)
  BY DEF AcceptWrite
<1>3. w \in WalletIds /\ Holds(c, w) /\ balance[c] = Visible(w)
  BY <1>1, WriterHolds
<1>4. before <= Limit /\ temp <= Limit
  BY <1>3, LimitAssumption DEF Tables, BalancesInRange, Visible, Zero
<1>5. /\ r \in RequestIds /\ row[c] \in Request
      /\ before \in Nat /\ Amount(c) \in Nat /\ temp \in Nat
  BY <1>1, WritingTypes
<1>6. after \in Nat /\ after <= Limit
  <2>1. IF IsCredit(c) THEN ~(before + Amount(c) > Limit) ELSE ~(before < Amount(c))
    BY <1>1 DEF Refused
  <2>. QED
    BY <1>4, <1>5, <2>1, LimitAssumption
<1>7. e \in Entry /\ e.before = before /\ e.after = after /\ e.after = Signed(e, e.before)
  BY <1>5, <1>6 DEF NewEntry, Entry, Sources, Signed
<1>8. /\ Chained(ledger[w]["MAIN"], before)
      /\ Chained(ledger[w]["TEMPORARY_WINNING"], temp)
  BY <1>3, EntryChains DEF Tables
<1>. HIDE DEF e, after, before, temp
<1>9. /\ Chained(ledger'[w]["MAIN"], after)
      /\ Chained(ledger'[w]["TEMPORARY_WINNING"], temp)
      /\ \A v \in WalletIds \ {w} : ledger'[v] = ledger[v]
  BY <1>2, <1>3, <1>7, <1>8, PostChains DEF Buckets
<1>10. /\ OneWalletPerOwner'
       /\ wallets'[w] # None /\ wallets'[w].owner = Owner(c)
       /\ \A v \in WalletIds : wallets[v] # None =>
            wallets'[v] # None /\ wallets'[v].owner = wallets[v].owner
       /\ \A v \in WalletIds : wallets[v] # None /\ wallets'[v] # wallets[v] =>
            walletLock[v] = c
       /\ \A v \in WalletIds : wallets[v] = None /\ wallets'[v] # None =>
            userLock[wallets'[v].owner] = c
  BY <1>1, <1>2, <1>3, <1>5, <1>6, SaveKeepsOwners DEF Tables, Active
<1>11. LedgerExplainsBalances' /\ BalancesInRange'
  BY <1>1, <1>2, <1>3, <1>4, <1>5, <1>6, <1>9, SaveKeepsBalances DEF Tables, Active
<1>12. requestLock[r] = c /\ requests[r] = row[c] /\ row[c] # None
  BY <1>1, <1>5, NoneAssumption DEF Secured
<1>13. /\ requests'[r].wallet = w
       /\ requests'[r].user = row[c].user
       /\ \A q \in RequestIds \ {r} : requests'[q] = requests[q]
  BY <1>2, <1>3, <1>5 DEF TypeOK, DbTypeOK, Request
<1>14. r \in usedRequests /\ Owner(c) = row[c].user
  BY <1>5, <1>12 DEF Tables, RequestsHaveWallets, Owner
<1>15. RequestsHaveWallets'
  BY <1>1, <1>3, <1>10, <1>13, <1>14, RequestsKeepWallets DEF Tables
<1>16. StaysOff(c) /\ pc'[c] \notin Active
  BY <1>1, <1>10, <1>12, <1>13, EndReleases DEF StaysOff, Ended
<1>. QED
  BY <1>10, <1>11, <1>15, <1>16 DEF Commits, Tables

\* a handler that writes requests only
LEMMA RequestCommits ==
  ASSUME NEW c \in Clients, NEW r \in RequestIds, TypeOK, Tables, End(c, "done"),
         UNCHANGED <<wallets, ledger>>, usedRequests \subseteq usedRequests',
         \A q \in RequestIds \ {r} : requests'[q] = requests[q],
         requests'[r] # requests[r] =>
           requests[r] = None \/ requestLock[r] \in {c, None},
         requests'[r] # requests[r] /\ requests'[r] # None =>
           /\ r \in usedRequests'
           /\ requests'[r].wallet \in WalletsOf(requests'[r].user)
  PROVE  Commits(c)
<1>1. OneWalletPerOwner' /\ LedgerExplainsBalances' /\ BalancesInRange'
  BY DEF Tables, OneWalletPerOwner, LedgerExplainsBalances, BalancesInRange
<1>2. RequestsHaveWallets'
  BY DEF Tables, RequestsHaveWallets, WalletsOf
<1>3. StaysOff(c) /\ pc'[c] \notin Active
  BY EndReleases DEF StaysOff, Ended
<1>. QED
  BY <1>1, <1>2, <1>3 DEF Commits, Tables

LEMMA RequestWriteCommits ==
  ASSUME NEW c \in Clients, TypeOK, Control, AllSecured, Tables, RequestWrite(c)
  PROVE  Commits(c)
<1>1. /\ pc[c] = "write" /\ Handler(c) = "request" /\ Secured(c)
      /\ End(c, "done") /\ UNCHANGED ledger
  BY DEF RequestWrite, Writing, AllSecured, Active
<1>2. PICK w \in Target(c), r \in RequestIds \ usedRequests :
        /\ \/ mine[c] = None /\ SaveWallet(c, w, 0, 0)
           \/ mine[c] # None /\ UNCHANGED wallets
        /\ requests' = [requests EXCEPT ![r] =
             [user |-> Owner(c), wallet |-> w, type |-> call[c].type,
              amount |-> Amount(c), status |-> "PENDING"]]
        /\ usedRequests' = usedRequests \cup {r}
  BY DEF RequestWrite
<1>3. /\ requests[r] = None
      /\ r \in usedRequests'
      /\ requests'[r].wallet = w /\ requests'[r].user = Owner(c)
      /\ \A q \in RequestIds \ {r} : requests'[q] = requests[q]
  BY <1>2 DEF Tables, RequestsHaveWallets, TypeOK, DbTypeOK
<1>4. w \in WalletIds
  BY <1>1, <1>2, WritingTypes
<1>5. CASE mine[c] # None
  <2>1. w \in WalletsOf(Owner(c)) /\ UNCHANGED wallets
    BY <1>1, <1>2, <1>5 DEF Target, Secured
  <2>. QED
    BY <1>1, <1>2, <1>3, <2>1, RequestCommits
<1>6. CASE mine[c] = None
  <2>1. SaveWallet(c, w, 0, 0) /\ wallets[w] = None
    BY <1>2, <1>6 DEF Target
  <2>2. Holds(c, w)
    BY <1>1, <1>6, <2>1 DEF Secured, Holds, ByUser
  <2>3. /\ OneWalletPerOwner'
        /\ wallets'[w] # None /\ wallets'[w].owner = Owner(c)
        /\ \A v \in WalletIds : wallets[v] # None =>
             wallets'[v] # None /\ wallets'[v].owner = wallets[v].owner
        /\ \A v \in WalletIds : wallets[v] # None /\ wallets'[v] # wallets[v] =>
             walletLock[v] = c
        /\ \A v \in WalletIds : wallets[v] = None /\ wallets'[v] # None =>
             userLock[wallets'[v].owner] = c
    BY <1>1, <1>4, <2>1, <2>2, SaveKeepsOwners DEF Tables, Active
  <2>4. /\ Chained(ledger'[w]["MAIN"], 0)
        /\ Chained(ledger'[w]["TEMPORARY_WINNING"], 0)
    BY <1>1, <1>4, <2>1, EntryChains DEF Visible, Zero, Tables
  <2>5. LedgerExplainsBalances' /\ BalancesInRange'
    BY <1>1, <1>4, <2>1, <2>4, SaveKeepsBalances, LimitAssumption DEF Tables, Active
  <2>6. RequestsHaveWallets'
    BY <1>2, <1>3, <1>4, <2>3, RequestsKeepWallets DEF Tables
  <2>7. StaysOff(c) /\ pc'[c] \notin Active
    BY <1>1, <1>2, <1>3, <2>3, EndReleases DEF StaysOff, Ended
  <2>. QED
    BY <2>3, <2>5, <2>6, <2>7 DEF Commits, Tables
<1>. QED
  BY <1>5, <1>6

LEMMA RejectWriteCommits ==
  ASSUME NEW c \in Clients, TypeOK, Control, AllSecured, Tables, RejectWrite(c)
  PROVE  Commits(c)
<1> DEFINE r == call[c].request
<1>1. /\ pc[c] = "write" /\ Handler(c) \in ByDecision /\ Secured(c)
      /\ End(c, "done") /\ UNCHANGED <<wallets, usedRequests, ledger>>
      /\ requests' = [requests EXCEPT ![r] = [row[c] EXCEPT !.status = "REJECTED"]]
  BY DEF RejectWrite, Writing, AllSecured, Active, ByDecision
<1>2. r \in RequestIds /\ row[c] \in Request /\ row[c] # None
  BY <1>1, WritingTypes, NoneAssumption
<1>3. requestLock[r] = c /\ requests[r] = row[c]
  BY <1>1 DEF Secured
<1>4. r \in usedRequests /\ row[c].wallet \in WalletsOf(row[c].user)
  BY <1>2, <1>3 DEF Tables, RequestsHaveWallets
<1>5. /\ requests'[r].wallet = row[c].wallet /\ requests'[r].user = row[c].user
      /\ \A q \in RequestIds \ {r} : requests'[q] = requests[q]
  BY <1>1, <1>2 DEF TypeOK, DbTypeOK, Request
<1>. QED
  BY <1>1, <1>2, <1>3, <1>4, <1>5, RequestCommits

LEMMA EditWriteCommits ==
  ASSUME NEW c \in Clients, TypeOK, Control, AllSecured, Tables, EditWrite(c)
  PROVE  Commits(c)
<1> DEFINE r == call[c].request
           new(f) == IF f \in dirty[c] THEN row[c][f] ELSE requests[r][f]
           edited == [requests[r] EXCEPT !.amount = new("amount"),
                        !.type = new("type"), !.status = new("status")]
<1>1. /\ pc[c] = "write" /\ Handler(c) \in ByRequest /\ ~Refused(c)
      /\ Blockers(c) = {} /\ End(c, "done")
      /\ UNCHANGED <<wallets, usedRequests, actions, ledger>>
  BY DEF EditWrite, Writing, ByRequest
<1>2. r \in RequestIds
  BY <1>1, WritingTypes
<1>3. requestLock[r] \in {c, None}
  BY <1>1 DEF Blockers, RequestsWritten
<1>4. \/ requests' = [requests EXCEPT ![r] = edited] /\ requests[r] # None
      \/ UNCHANGED requests
  BY DEF EditWrite
<1>5. requests[r] # None =>
        edited.user = requests[r].user /\ edited.wallet = requests[r].wallet
  BY <1>2 DEF TypeOK, DbTypeOK, Request
<1>. HIDE DEF edited
<1>6. requests'[r] # requests[r] =>
        /\ requests[r] # None
        /\ requests'[r].user = requests[r].user
        /\ requests'[r].wallet = requests[r].wallet
  BY <1>2, <1>4, <1>5 DEF TypeOK, DbTypeOK
<1>7. \A q \in RequestIds \ {r} : requests'[q] = requests[q]
  BY <1>4 DEF TypeOK, DbTypeOK
<1>8. requests'[r] # requests[r] =>
        /\ r \in usedRequests'
        /\ requests'[r].wallet \in WalletsOf(requests'[r].user)
  BY <1>1, <1>2, <1>6 DEF Tables, RequestsHaveWallets
<1>. QED
  BY <1>1, <1>2, <1>3, <1>7, <1>8, RequestCommits

LEMMA EditInsertCommits ==
  ASSUME NEW c \in Clients, TypeOK, Control, AllSecured, Tables, EditInsert(c),
         ~Rollback(c)
  PROVE  Commits(c)
<1> DEFINE r == call[c].request
<1>1. /\ pc[c] = "insert" /\ Secured(c) /\ requests[r] = None
      /\ requests' = [requests EXCEPT ![r] = row[c]]
      /\ End(c, "done")
      /\ UNCHANGED <<wallets, usedRequests, actions, ledger>>
  BY DEF EditInsert, AllSecured, Active
<1>2. r \in RequestIds /\ Handler(c) = "edit"
  BY <1>1, OwnerTypes DEF Active, Control, ControlOf, Running
<1>3. r \in usedRequests /\ row[c].wallet \in WalletsOf(row[c].user)
  BY <1>1, <1>2 DEF Secured, ByRequest
<1>4. requests'[r] = row[c] /\ \A q \in RequestIds \ {r} : requests'[q] = requests[q]
  BY <1>1, <1>2 DEF TypeOK, DbTypeOK
<1>. QED
  BY <1>1, <1>2, <1>3, <1>4, RequestCommits

LEMMA DeleteWriteCommits ==
  ASSUME NEW c \in Clients, TypeOK, Control, AllSecured, Tables, DeleteWrite(c)
  PROVE  Commits(c)
<1> DEFINE r == call[c].request
<1>1. /\ pc[c] = "write" /\ Handler(c) \in ByRequest /\ ~Refused(c)
      /\ Blockers(c) = {} /\ End(c, "done")
      /\ UNCHANGED <<wallets, usedRequests>>
      /\ requests' = [requests EXCEPT ![r] = None]
      /\ ledger' = [w \in WalletIds |-> [b \in Buckets |-> Detached(ledger[w][b], r)]]
  BY DEF DeleteWrite, Writing, ByRequest
<1>2. r \in RequestIds
  BY <1>1, WritingTypes
<1>3. requestLock[r] \in {c, None}
  BY <1>1 DEF Blockers, RequestsWritten
<1>4. requests'[r] = None /\ \A q \in RequestIds \ {r} : requests'[q] = requests[q]
  BY <1>1, <1>2 DEF TypeOK, DbTypeOK
<1>5. OneWalletPerOwner' /\ BalancesInRange'
  BY <1>1 DEF Tables, OneWalletPerOwner, BalancesInRange
<1>6. LedgerExplainsBalances'
  <2>1. ASSUME NEW w \in WalletIds
        PROVE  /\ Chained(ledger'[w]["MAIN"], Visible(w).main)
               /\ Chained(ledger'[w]["TEMPORARY_WINNING"], Visible(w).temp)
    <3>1. \A b \in Buckets : ledger[w][b] \in Seq(Entry)
      BY DEF TypeOK, DbTypeOK
    <3>2. /\ Chained(ledger[w]["MAIN"], Visible(w).main)
          /\ Chained(ledger[w]["TEMPORARY_WINNING"], Visible(w).temp)
      BY EntryChains DEF Tables
    <3>3. \A b \in Buckets : ledger'[w][b] = Detached(ledger[w][b], r)
      BY <1>1
    <3>. QED
      BY <3>1, <3>2, <3>3, DetachedChained DEF Buckets
  <2>. QED
    BY <1>1, <2>1 DEF LedgerExplainsBalances, Visible
<1>7. RequestsHaveWallets'
  BY <1>1, <1>2, <1>4 DEF Tables, RequestsHaveWallets, WalletsOf
<1>8. StaysOff(c) /\ pc'[c] \notin Active
  BY <1>1, <1>3, <1>4, EndReleases DEF StaysOff, Ended
<1>. QED
  BY <1>5, <1>6, <1>7, <1>8 DEF Commits, Tables

-----------------------------------------------------------------------------
(* The inductive invariant. *)

IInv == TypeOK /\ Control /\ AllSecured /\ Tables

LEMMA SafetyInit == Init => IInv
<1>. SUFFICES ASSUME Init PROVE IInv
  OBVIOUS
<1>1. AllSecured
  BY DEF Init, AllSecured, Active
<1>2. LedgerExplainsBalances
  BY DEF Init, LedgerExplainsBalances, Chained, Zero, Buckets
<1>3. RequestsHaveWallets /\ OneWalletPerOwner /\ BalancesInRange
  BY DEF Init, RequestsHaveWallets, OneWalletPerOwner, BalancesInRange
<1>. QED
  BY <1>1, <1>2, <1>3, TypeInit DEF IInv, Tables

\* a step that writes no row keeps the tables
LEMMA ReadsKeepTables ==
  ASSUME Tables, UNCHANGED db
  PROVE  Tables'
BY DEF Tables, db, RequestsHaveWallets, WalletsOf, OneWalletPerOwner,
  LedgerExplainsBalances, BalancesInRange

LEMMA StepStaysOff ==
  ASSUME NEW c \in Clients, IInv, Start(c) \/ Step(c) \/ Crash(c) \/ DeadlockVictim(c)
  PROVE  StaysOff(c) /\ Tables' /\ (pc'[c] \in Active => Secured(c)')
<1>. USE DEF IInv
<1>. RequestsHaveWallets
  BY DEF Tables
<1>1. CASE Rollback(c)
  BY <1>1, RollbackStaysOff, ReadsKeepTables
<1>2. CASE Start(c)
  BY <1>2, StartStaysOff, ReadsKeepTables
<1>3. CASE LockUser(c)
  BY <1>3, LockUserStaysOff, ReadsKeepTables
<1>4. CASE ReadWallet(c)
  BY <1>4, ReadWalletStaysOff, ReadsKeepTables
<1>5. CASE LockRequest(c)
  BY <1>5, LockRequestStaysOff, ReadsKeepTables
<1>6. CASE LockWallet(c)
  BY <1>6, LockWalletStaysOff, ReadsKeepTables
<1>7. CASE ReadRequest(c)
  BY <1>7, ReadRequestStaysOff, ReadsKeepTables
<1>8. CASE SelectRequest(c)
  BY <1>8, SelectRequestStaysOff, ReadsKeepTables
<1>9. CASE Write(c) /\ ~Rollback(c)
  <2>1. Commits(c)
    BY <1>9, CreateWriteCommits, TransferWriteCommits, RequestWriteCommits,
       AcceptWriteCommits, RejectWriteCommits, BetWriteCommits, WinWriteCommits,
       EditWriteCommits, EditInsertCommits, DeleteWriteCommits DEF Write
  <2>. QED
    BY <2>1 DEF Commits
<1>. QED
  BY <1>1, <1>2, <1>3, <1>4, <1>5, <1>6, <1>7, <1>8, <1>9
     DEF Step, Refuse, Crash, DeadlockVictim

LEMMA SafetyStep == IInv /\ [Next]_vars => IInv'
<1>. SUFFICES ASSUME IInv, [Next]_vars PROVE IInv'
  OBVIOUS
<1>1. ASSUME NEW c \in Clients, Start(c) \/ Step(c) \/ Crash(c) \/ DeadlockVictim(c)
      PROVE  IInv'
  <2>1. TypeOK' /\ Control' /\ OthersKeepLocals(c)
    BY <1>1, StepKeeps DEF IInv
  <2>2. StaysOff(c) /\ Tables' /\ (pc'[c] \in Active => Secured(c)')
    BY <1>1, StepStaysOff
  <2>3. ASSUME NEW d \in Clients, pc'[d] \in Active
        PROVE  Secured(d)'
    <3>1. CASE d = c
      BY <2>2, <2>3, <3>1
    <3>2. CASE d # c
      <4>1. pc[d] \in Active
        BY <2>1, <2>3, <3>2 DEF OthersKeepLocals, Local
      <4>. QED
        BY <2>1, <2>2, <3>2, <4>1, OthersStaySecured DEF IInv, AllSecured
    <3>. QED
      BY <3>1, <3>2
  <2>. QED
    BY <2>1, <2>2, <2>3 DEF IInv, AllSecured
<1>2. CASE UNCHANGED vars
  <2>1. TypeOK' /\ Control'
    BY <1>2, Stuttering DEF IInv
  <2>2. Tables'
    BY <1>2, ReadsKeepTables DEF IInv, vars
  <2>3. AllSecured'
    BY <1>2 DEF IInv, AllSecured, Secured, Handler, Owner, WalletsOf, vars, db, locks,
      locals
  <2>. QED
    BY <2>1, <2>2, <2>3 DEF IInv
<1>. QED
  BY <1>1, <1>2 DEF Next, Terminating

LEMMA Safety == Spec => []IInv
BY SafetyInit, SafetyStep, PTL DEF Spec

\* Whatever the handlers interleave, an owner never has two wallets.
THEOREM OneWallet == Spec => []OneWalletPerOwner
<1>1. IInv => OneWalletPerOwner
  BY DEF IInv, Tables
<1>. QED
  BY <1>1, Safety, PTL

\* No balance update is ever lost: the ledger of each bucket always leads from
\* zero to the balance the wallet shows.
THEOREM LedgerExplains == Spec => []LedgerExplainsBalances
<1>1. IInv => LedgerExplainsBalances
  BY DEF IInv, Tables
<1>. QED
  BY <1>1, Safety, PTL

\* No balance leaves 0..Limit.
THEOREM BalancesStayInRange == Spec => []BalancesInRange
<1>1. IInv => BalancesInRange
  BY DEF IInv, Tables
<1>. QED
  BY <1>1, Safety, PTL

\* What a handler computes its writes from is current when it commits.
THEOREM CopiesStayCurrent == Spec => []CopiesAreCurrent
<1>1. IInv => CopiesAreCurrent
  BY DEF IInv, Tables, AllSecured, RequestsHaveWallets, CopiesAreCurrent
<1>. QED
  BY <1>1, Safety, PTL

=============================================================================
