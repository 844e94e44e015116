--------------------------- MODULE FunTargetProofs ---------------------------
(***************************************************************************)
(* Theorems about FunTarget, for every set of players, rounds, keys,       *)
(* clients and calls.                                                      *)
(***************************************************************************)
EXTENDS FunTarget, FunTargetPayoutProofs

-----------------------------------------------------------------------------
(* The inductive invariant.                                                *)

Columns == {"mode", "minBet", "maxBet", "denominations", "joker", "multiplier",
            "frequency", "house", "winning"}
Share == [player : Players, cents : Nat \ {0}]
Copy == [main : Nat, temp : Nat, cents : Nat \ {0}]
Payment == UNION {[S -> Nat \ {0}] : S \in SUBSET Players}
Entry == [action : {"GENERATED", "FINALIZED"}, number : Numbers]

Tables ==
  /\ config \in Config
  /\ Checked(config)
  /\ rounds \in [Rounds -> Round \cup {None}]
  /\ due \subseteq Rounds
  /\ schedules \in [Rounds -> Schedule \cup {None}]
  /\ bets \in [Players -> [Keys -> Bet \cup {None}]]
  /\ accounts \in [Players -> Account]
  /\ credits \in [Rounds -> Seq(Payment)]
  /\ audit \in [Rounds -> Seq(Entry)]

Locals ==
  /\ roundLock \in [Rounds -> Clients \cup {None}]
  /\ walletLock \in [Players -> Clients \cup {None}]
  /\ pc \in [Clients -> Steps \cup Ended \cup {"start"}]
  /\ call = [c \in Clients |-> call[c]]
  /\ entity = [c \in Clients |-> entity[c]]
  /\ joker \in [Clients -> Schedule \cup {None}]
  /\ stakes = [c \in Clients |-> stakes[c]]
  /\ owed \in [Clients -> Seq(Share)]
  /\ held \in [Clients -> [Players -> Copy \cup {None}]]
  /\ dirty = [c \in Clients |-> dirty[c]]

\* the statements of each handler, as a set
StepsOf(h) ==
  CASE h = "configure" -> {"readConfig", "selectConfig", "write"}
    [] h = "create" -> {"readConfig", "write"}
    [] h = "open" -> {"lockRound", "readSchedule", "readConfig", "write"}
    [] h = "close" -> {"readRound", "selectRound", "write"}
    [] h = "generate" -> {"lockRound", "write"}
    [] h \in {"finalize", "publish"} ->
         {"lockRound", "readBets", "readConfig", "lockWinner", "write"}
    [] h = "schedule" -> {"lockRound", "readSchedule", "selectSchedule", "write"}
    [] h = "cancel" -> {"readSchedule", "readRound", "selectSchedule", "write"}
    [] h = "bet" -> {"readBet", "lockRound", "readConfig", "lockWallet", "write"}

\* the handlers that lock the round, and the calls that have it locked
Lockers == {"open", "generate", "finalize", "publish", "schedule", "bet"}
Running(c) == pc[c] \in Steps
PastLock(c) ==
  /\ Running(c)
  /\ Handler(c) \in Lockers
  /\ pc[c] \notin {"readBet", "lockRound"}

Control(c) == Running(c) =>
  /\ IsCall(call[c])
  /\ Admissible(call[c])
  /\ pc[c] \in StepsOf(Handler(c))

\* A locked round is as its handler found it.
RoundHeld(c) == PastLock(c) =>
  /\ roundLock[RoundOf(c)] = c
  /\ rounds[RoundOf(c)] # None
  /\ Ready(c, rounds[RoundOf(c)])

\* what a change gives to the columns of the configuration has their types
Column(f) ==
  CASE f = "mode" -> Modes
    [] f = "denominations" -> SUBSET Nat
    [] f = "joker" -> BOOLEAN
    [] f \in {"minBet", "maxBet"} -> Nat
    [] f \in {"multiplier", "frequency"} -> Nat \ {0}
    [] f \in {"house", "winning"} -> 0..Whole
Fits(change) ==
  /\ DOMAIN change \subseteq Columns
  /\ \A f \in DOMAIN change : change[f] = Undefined \/ change[f] \in Column(f)

\* what each handler has in hand for the row it will write
ToConfigure(c) == pc[c] # "readConfig" => DOMAIN entity[c] = Columns /\ Fits(entity[c])
ToCreate(c) == pc[c] = "write" =>
  /\ entity[c] \in Round
  /\ entity[c].status = "UPCOMING"
  /\ entity[c].number = None
  /\ ~entity[c].finalized
ToOpen(c) == pc[c] # "lockRound" =>
  /\ entity[c].joker \in BOOLEAN
  /\ entity[c].multiplier \in Nat \ {0}
  /\ entity[c] = IF pc[c] = "write"
                 THEN [rounds[RoundOf(c)] EXCEPT
                         !.status = "OPEN", !.joker = entity[c].joker,
                         !.multiplier = entity[c].multiplier]
                 ELSE rounds[RoundOf(c)]
ToSettle(c) == pc[c] # "lockRound" =>
  /\ entity[c].number \in Numbers
  /\ entity[c] = [rounds[RoundOf(c)] EXCEPT !.number = entity[c].number]
  /\ Handler(c) = "finalize" => entity[c] = rounds[RoundOf(c)]
ToBet(c) == pc[c] \notin {"readBet", "lockRound"} => entity[c] \in Round
ToSchedule(c) ==
  /\ pc[c] = "readSchedule" => entity[c] \in Round
  /\ pc[c] \in {"selectSchedule", "write"} => entity[c] \in Schedule
  /\ pc[c] = "selectSchedule" => schedules[RoundOf(c)] # None
ToCancel(c) == pc[c] # "readSchedule" =>
  entity[c] \in Schedule /\ schedules[RoundOf(c)] # None
ToClose(c) == pc[c] # "readRound" =>
  /\ rounds[RoundOf(c)] # None
  /\ entity[c] \in Round
  /\ entity[c].status = "CLOSED"
ToSave(c) == dirty[c] # {} =>
  /\ Running(c)
  /\ pc[c] = "write"
  /\ dirty[c] \subseteq DOMAIN entity[c]
  /\ \A f \in dirty[c] : entity[c][f] # Undefined

\* What each handler will write is of the type of the row it will write.
EntityOK(c) ==
  /\ Running(c) =>
       /\ Handler(c) = "configure" => ToConfigure(c)
       /\ Handler(c) = "create" => ToCreate(c)
       /\ Handler(c) = "open" => ToOpen(c)
       /\ Handler(c) \in {"generate", "finalize", "publish"} => ToSettle(c)
       /\ Handler(c) = "bet" => ToBet(c)
       /\ Handler(c) = "schedule" => ToSchedule(c)
       /\ Handler(c) = "cancel" => ToCancel(c)
       /\ Handler(c) = "close" => ToClose(c)
  /\ entity[c] \in Round \cup Schedule \cup {None} \/ DOMAIN entity[c] = Columns
  /\ ToSave(c)

\* What a payout or a bet is about to move.
MoneyOK(c) ==
  /\ DOMAIN stakes[c].winners \subseteq Players
  /\ Running(c) /\ Handler(c) \in {"finalize", "publish"} /\ pc[c] = "readConfig" =>
       /\ stakes[c].total \in Nat
       /\ DOMAIN stakes[c].winners # {}
       /\ stakes[c].winners \in Stakes(DOMAIN stakes[c].winners)
  /\ Running(c) /\ pc[c] = "lockWinner" => owed[c] # << >>
  /\ Running(c) /\ Handler(c) = "bet" /\ pc[c] = "write" =>
       /\ held[c][call[c].player] # None
       /\ held[c][call[c].player].cents = call[c].amount
       /\ CanBet(held[c][call[c].player], call[c].amount)

\* A wallet that a handler has a copy of is locked by it, and is as the copy says.
HeldOK(c) == \A p \in Players : held[c][p] # None =>
  /\ Running(c)
  /\ walletLock[p] = c
  /\ held[c][p].main = accounts[p].main
  /\ held[c][p].temp = accounts[p].temp

Session(c) ==
  Control(c) /\ RoundHeld(c) /\ EntityOK(c) /\ MoneyOK(c) /\ HeldOK(c)

\* Only a client that has locked a round, and works on it, holds its lock.
LockOwners == \A r \in Rounds, c \in Clients :
  roundLock[r] = c => PastLock(c) /\ RoundOf(c) = r

IInv ==
  /\ Tables
  /\ Locals
  /\ LockOwners
  /\ \A c \in Clients : Session(c)
  /\ BalancesExplained

-----------------------------------------------------------------------------
(* Control.                                                                *)

\* where a handler goes on
After(h, s) ==
  CASE s = "lockRound" ->
         (CASE h \in {"open", "schedule"} -> "readSchedule"
            [] h = "generate" -> "write"
            [] h \in {"finalize", "publish"} -> "readBets"
            [] h = "bet" -> "readConfig")
    [] s = "readConfig" ->
         (CASE h = "configure" -> "selectConfig"
            [] h \in {"create", "open"} -> "write"
            [] h \in {"finalize", "publish"} -> "lockWinner"
            [] h = "bet" -> "lockWallet")
    [] s = "readRound" -> (CASE h = "close" -> "selectRound"
                             [] h = "cancel" -> "selectSchedule")
    [] s = "readSchedule" -> (CASE h = "open" -> "readConfig"
                                [] h = "schedule" -> "selectSchedule"
                                [] h = "cancel" -> "readRound")
    [] s = "readBets" -> "readConfig"
    [] s = "readBet" -> "lockRound"
    [] OTHER -> "write"

LEMMA FollowGoes ==
  ASSUME NEW c \in Clients, Running(c), Control(c), Follow(c), pc[c] # "write"
  PROVE  GoTo(c, After(Handler(c), pc[c]))
<1> DEFINE h == Handler(c)
           s == pc[c]
<1>1. PICK i \in DOMAIN Path(h) : Path(h)[i] = s /\ GoTo(c, Path(h)[i + 1])
  BY DEF Follow
<1>2. h \in Handlers /\ s \in StepsOf(h) /\ s # "write"
  BY DEF Control, IsCall, Handler
<1> SUFFICES Path(h)[i + 1] = After(h, s)
  BY <1>1
<1> HIDE DEF h, s
<1>3. CASE h = "configure"
  BY <1>1, <1>2, <1>3 DEF Path, StepsOf, After
<1>4. CASE h = "create"
  BY <1>1, <1>2, <1>4 DEF Path, StepsOf, After
<1>5. CASE h = "open"
  BY <1>1, <1>2, <1>5 DEF Path, StepsOf, After
<1>6. CASE h = "close"
  BY <1>1, <1>2, <1>6 DEF Path, StepsOf, After
<1>7. CASE h = "generate"
  BY <1>1, <1>2, <1>7 DEF Path, StepsOf, After
<1>8. CASE h \in {"finalize", "publish"}
  BY <1>1, <1>2, <1>8 DEF Path, StepsOf, After
<1>9. CASE h = "schedule"
  BY <1>1, <1>2, <1>9 DEF Path, StepsOf, After
<1>10. CASE h = "cancel"
  BY <1>1, <1>2, <1>10 DEF Path, StepsOf, After
<1>11. CASE h = "bet"
  BY <1>1, <1>2, <1>11 DEF Path, StepsOf, After
<1> QED BY <1>1, <1>2, <1>3, <1>4, <1>5, <1>6, <1>7, <1>8, <1>9, <1>10, <1>11 DEF Handlers

-----------------------------------------------------------------------------
(* A step of one client and the sessions of the others.                    *)

\* the other clients' locals stay as they are
Frame(c) == \A d \in Clients \ {c} :
  /\ pc'[d] = pc[d] /\ call'[d] = call[d] /\ entity'[d] = entity[d]
  /\ joker'[d] = joker[d] /\ stakes'[d] = stakes[d] /\ owed'[d] = owed[d]
  /\ held'[d] = held[d] /\ dirty'[d] = dirty[d]

\* their locks, and what they have locked
LocksKept(c) ==
  /\ \A r \in Rounds : roundLock'[r] \in {roundLock[r], c, None}
  /\ \A r \in Rounds, d \in Clients \ {c} : roundLock[r] = d => roundLock'[r] = d
  /\ \A p \in Players, d \in Clients \ {c} : walletLock[p] = d => walletLock'[p] = d
RowsKept(c) ==
  /\ \A r \in Rounds, d \in Clients \ {c} : roundLock[r] = d => rounds'[r] = rounds[r]
  /\ \A p \in Players, d \in Clients \ {c} : walletLock[p] = d => accounts'[p] = accounts[p]
  /\ \A r \in Rounds : rounds[r] # None => rounds'[r] # None
  /\ \A r \in Rounds : schedules[r] # None => schedules'[r] # None
  /\ due \subseteq due'

LEMMA RoundIsRound ==
  ASSUME NEW c \in Clients, Control(c), Running(c),
         Handler(c) \notin {"configure", "create"}
  PROVE  RoundOf(c) \in Rounds
BY DEF Control, IsCall, RoundOf, Handler

LEMMA OtherSession ==
  ASSUME Locals, NEW c, NEW d \in Clients \ {c}, Session(d),
         Frame(c), LocksKept(c), RowsKept(c)
  PROVE  Session(d)'
<1>1. /\ pc'[d] = pc[d] /\ call'[d] = call[d] /\ entity'[d] = entity[d]
      /\ joker'[d] = joker[d] /\ stakes'[d] = stakes[d] /\ owed'[d] = owed[d]
      /\ held'[d] = held[d] /\ dirty'[d] = dirty[d]
  BY DEF Frame
<1>2. /\ Running(d)' <=> Running(d)
      /\ Handler(d)' = Handler(d)
      /\ RoundOf(d)' = RoundOf(d)
      /\ PastLock(d)' <=> PastLock(d)
  BY <1>1 DEF Running, Handler, RoundOf, PastLock
<1>3. PastLock(d) => RoundOf(d) \in Rounds
  BY RoundIsRound DEF PastLock, Lockers, Session
<1>4. PastLock(d) => /\ roundLock'[RoundOf(d)] = d
                     /\ rounds'[RoundOf(d)] = rounds[RoundOf(d)]
  BY <1>3 DEF LocksKept, RowsKept, Session, RoundHeld
<1>5. Control(d)'
  BY <1>1, <1>2 DEF Control, Session
<1>6. RoundHeld(d)'
  <2> SUFFICES ASSUME PastLock(d)
               PROVE  roundLock'[RoundOf(d)] = d /\ rounds'[RoundOf(d)] # None
                        /\ Ready(d, rounds[RoundOf(d)])'
    BY <1>2, <1>4 DEF RoundHeld
  <2>1. Ready(d, rounds[RoundOf(d)]) /\ Handler(d) \in Lockers
    BY DEF Session, RoundHeld, PastLock
  <2>2. Ready(d, rounds[RoundOf(d)])'
    <3> DEFINE q == rounds[RoundOf(d)]
    <3>1. q' = q /\ due \subseteq due'
      BY <1>2, <1>4 DEF RowsKept
    <3>2. BodyFits(d, q)' <=> BodyFits(d, q)
      BY <1>1, <3>1 DEF BodyFits
    <3> HIDE DEF q
    <3> SUFFICES ASSUME Ready(d, q) PROVE Ready(d, q)'
      BY <2>1 DEF q
    <3>3. CASE Handler(d) = "open"
      BY <1>2, <3>1, <3>3 DEF Ready
    <3>4. CASE Handler(d) \in {"schedule", "bet", "finalize"}
      BY <1>2, <3>1, <3>4 DEF Ready
    <3>5. CASE Handler(d) \in {"generate", "publish"}
      BY <1>2, <3>1, <3>2, <3>5 DEF Ready
    <3> QED BY <2>1, <3>3, <3>4, <3>5 DEF Lockers
  <2> QED BY <1>4, <2>2 DEF Session, RoundHeld
<1>7. EntityOK(d)'
  <2> DEFINE q == rounds[RoundOf(d)]
             p == schedules[RoundOf(d)]
  <2>1. EntityOK(d)
    BY DEF Session
  <2>2. Running(d) /\ Handler(d) \in {"cancel", "close", "schedule"} =>
          (q # None => q' # None) /\ (p # None => p' # None)
    BY <1>2, RoundIsRound DEF Session, RowsKept
  <2>3. ToSave(d)'
    BY <1>1, <1>2, <2>1 DEF EntityOK, ToSave
  <2>4. ASSUME Running(d), Handler(d) \in {"open", "generate", "finalize", "publish"}
        PROVE  /\ ToOpen(d) => ToOpen(d)'
               /\ ToSettle(d) => ToSettle(d)'
    <3>1. CASE pc[d] = "lockRound"
      BY <1>1, <3>1 DEF ToOpen, ToSettle
    <3>2. CASE pc[d] # "lockRound"
      <4>1. pc[d] # "readBet"
        BY <2>4 DEF Session, Control, StepsOf
      <4>2. q' = q
        BY <1>2, <1>4, <2>4, <3>2, <4>1 DEF PastLock, Lockers
      <4> QED BY <1>1, <1>2, <4>2 DEF ToOpen, ToSettle
    <3> QED BY <3>1, <3>2
  <2>5. /\ ToConfigure(d) => ToConfigure(d)'
        /\ ToCreate(d) => ToCreate(d)'
        /\ ToBet(d) => ToBet(d)'
    BY <1>1, <1>2 DEF ToConfigure, ToCreate, ToBet, Fits, Column
  <2>6. Running(d) /\ Handler(d) \in {"cancel", "close", "schedule"} =>
          /\ ToSchedule(d) => ToSchedule(d)'
          /\ ToCancel(d) => ToCancel(d)'
          /\ ToClose(d) => ToClose(d)'
    BY <1>1, <1>2, <2>2 DEF ToSchedule, ToCancel, ToClose
  <2> QED BY <1>1, <1>2, <2>1, <2>3, <2>4, <2>5, <2>6 DEF EntityOK
<1>8. MoneyOK(d)'
  BY <1>1, <1>2 DEF MoneyOK, Session
<1>9. HeldOK(d)'
  BY <1>1, <1>2 DEF HeldOK, Session, LocksKept, RowsKept
<1> QED BY <1>5, <1>6, <1>7, <1>8, <1>9 DEF Session

\* A step of c keeps the invariant if it keeps the others' rows and locks, and c
\* itself is in order after it.
LEMMA StepOf ==
  ASSUME IInv, NEW c \in Clients, Frame(c), LocksKept(c), RowsKept(c),
         Tables', Locals', Session(c)', BalancesExplained',
         \A r \in Rounds : roundLock'[r] = c => PastLock(c)' /\ RoundOf(c)' = r
  PROVE  IInv'
<1>1. \A d \in Clients : Session(d)'
  BY OtherSession DEF IInv
<1>2. LockOwners'
  <2> SUFFICES ASSUME NEW r \in Rounds, NEW d \in Clients, roundLock'[r] = d
               PROVE  PastLock(d)' /\ RoundOf(d)' = r
    BY DEF LockOwners
  <2>1. CASE d # c
    <3>1. roundLock[r] = d
      BY <2>1, NoneAssumption DEF LocksKept
    <3>2. PastLock(d) /\ RoundOf(d) = r
      BY <3>1 DEF IInv, LockOwners
    <3> QED BY <2>1, <3>2 DEF Frame, PastLock, Running, Handler, RoundOf
  <2> QED BY <2>1
<1> QED BY <1>1, <1>2 DEF IInv

-----------------------------------------------------------------------------
(* Sums over the tables.                                                   *)

LEMMA SpentType ==
  ASSUME NEW table \in [Players -> [Keys -> Bet \cup {None}]], NEW p \in Players
  PROVE  Spent(table, p) \in Nat
<1> DEFINE D == {j \in Keys : table[p][j] # None}
           f == [k \in D |-> table[p][k].amount]
<1>1. IsFiniteSet(D)
  BY FS_Subset, PlayersAssumption
<1>2. \A i \in D : f[i] \in Nat
  BY DEF Bet
<1>3. SumFunctionOnSet(f, D) \in Nat
  <2> HIDE DEF D, f
  <2> QED BY <1>1, <1>2, SumNat
<1>4. SumFunction(f) = SumFunctionOnSet(f, D)
  BY SumIsOverDomain
<1> QED BY <1>3, <1>4 DEF Spent

\* a new bet is added to what its player has spent
LEMMA SpentMore ==
  ASSUME NEW table \in [Players -> [Keys -> Bet \cup {None}]],
         NEW next \in [Players -> [Keys -> Bet \cup {None}]],
         NEW p \in Players, NEW k \in Keys, table[p][k] = None, next[p][k] # None,
         \A j \in Keys \ {k} : next[p][j] = table[p][j]
  PROVE  Spent(next, p) = Spent(table, p) + next[p][k].amount
<1> DEFINE D == {j \in Keys : table[p][j] # None}
           f == [j \in D |-> table[p][j].amount]
           E == {j \in Keys : next[p][j] # None}
           g == [j \in E |-> next[p][j].amount]
           amount == next[p][k].amount
<1>1. IsFiniteSet(D) /\ IsFiniteSet(E) /\ k \notin D
  BY FS_Subset, PlayersAssumption
<1>2. E = D \cup {k}
  OBVIOUS
<1>3. /\ \A i \in D : f[i] \in Int /\ g[i] = f[i]
      /\ \A i \in D \cup {k} : g[i] \in Int
      /\ g[k] = amount /\ amount \in Int
  BY <1>1, <1>2 DEF Bet
<1>4. SumFunction(f) = SumFunctionOnSet(f, D) /\ SumFunction(g) = SumFunctionOnSet(g, E)
  BY SumIsOverDomain
<1>5. SumFunctionOnSet(g, D \cup {k}) = amount + SumFunctionOnSet(f, D)
  <2> HIDE DEF D, E, f, g, amount
  <2>1. SumFunctionOnSet(g, D \cup {k}) = g[k] + SumFunctionOnSet(g, D)
    BY <1>1, <1>3, SumAdd
  <2>2. SumFunctionOnSet(g, D) = SumFunctionOnSet(f, D)
    BY <1>1, <1>3, SumSame
  <2> QED BY <1>3, <2>1, <2>2
<1>6. Spent(table, p) = SumFunction(f) /\ Spent(next, p) = SumFunction(g)
  BY DEF Spent
<1>7. Spent(table, p) \in Nat
  BY SpentType
<1> HIDE DEF D, E, f, g, amount
<1>8. Spent(next, p) = Spent(table, p) + amount
  BY <1>2, <1>3, <1>4, <1>5, <1>6, <1>7
<1> QED BY <1>8 DEF amount

\* what a round has paid a player
PaidIn(payments, p) ==
  SumFunction([i \in {j \in DOMAIN payments : p \in DOMAIN payments[j]} |-> payments[i][p]])

LEMMA PaidToIs ==
  \A p \in Players : PaidTo(p) = SumFunctionOnSet([r \in Rounds |-> PaidIn(credits[r], p)], Rounds)
BY SumIsOverDomain DEF PaidTo, PaidIn

LEMMA PaidInType ==
  ASSUME NEW h \in Seq(Payment), NEW p \in Players
  PROVE  PaidIn(h, p) \in Nat
<1> DEFINE D == {j \in DOMAIN h : p \in DOMAIN h[j]}
           f == [i \in D |-> h[i][p]]
<1>1. IsFiniteSet(D)
  BY FS_Interval, FS_Subset
<1>2. \A i \in D : f[i] \in Nat
  BY DEF Payment
<1>3. SumFunctionOnSet(f, D) \in Nat
  <2> HIDE DEF D, f
  <2> QED BY <1>1, <1>2, SumNat
<1>4. SumFunction(f) = SumFunctionOnSet(f, D)
  BY SumIsOverDomain
<1> QED BY <1>3, <1>4 DEF PaidIn

LEMMA PaidToType ==
  ASSUME credits \in [Rounds -> Seq(Payment)], NEW p \in Players
  PROVE  PaidTo(p) \in Nat
<1> DEFINE f == [r \in Rounds |-> PaidIn(credits[r], p)]
<1>1. \A r \in Rounds : f[r] \in Nat
  BY PaidInType
<1>2. PaidTo(p) = SumFunctionOnSet(f, Rounds)
  BY PaidToIs
<1> HIDE DEF f
<1> QED BY <1>1, <1>2, SumNat, PlayersAssumption

LEMMA PaidMore ==
  ASSUME NEW h \in Seq(Payment), NEW pay \in Payment, NEW p \in Players
  PROVE  PaidIn(Append(h, pay), p) = PaidIn(h, p) + IF p \in DOMAIN pay THEN pay[p] ELSE 0
<1> DEFINE D == {j \in DOMAIN h : p \in DOMAIN h[j]}
           f == [i \in D |-> h[i][p]]
           n == Len(h) + 1
           a == Append(h, pay)
           E == {j \in DOMAIN a : p \in DOMAIN a[j]}
           g == [i \in E |-> a[i][p]]
<1>0. DOMAIN h = 1..Len(h) /\ Len(h) \in Nat
  OBVIOUS
<1>1. /\ IsFiniteSet(D)
      /\ DOMAIN a = DOMAIN h \cup {n} /\ n \notin DOMAIN h
      /\ a[n] = pay /\ \A i \in DOMAIN h : a[i] = h[i]
  <2>1. IsFiniteSet(D)
    <3>1. IsFiniteSet(1..Len(h)) /\ D \subseteq 1..Len(h)
      BY <1>0, FS_Interval
    <3> HIDE DEF D
    <3> QED BY <3>1, FS_Subset
  <2>2. DOMAIN a = 1..n /\ a[n] = pay /\ \A i \in 1..Len(h) : a[i] = h[i]
    OBVIOUS
  <2> QED BY <1>0, <2>1, <2>2
<1>2. \A i \in D : f[i] \in Int /\ h[i][p] = f[i]
  BY DEF Payment
<1>3. E = IF p \in DOMAIN pay THEN D \cup {n} ELSE D
  <2> HIDE DEF a, n
  <2> QED BY <1>1
<1>4. \A i \in D : g[i] = f[i]
  <2> HIDE DEF a, n
  <2> QED BY <1>1, <1>3
<1>5. PaidIn(h, p) = SumFunctionOnSet(f, D) /\ PaidIn(a, p) = SumFunctionOnSet(g, E)
  BY SumIsOverDomain DEF PaidIn
<1>6. SumFunctionOnSet(g, D) = SumFunctionOnSet(f, D) /\ PaidIn(h, p) \in Nat
  <2>1. PaidIn(h, p) \in Nat
    BY PaidInType
  <2> HIDE DEF D, E, f, g, a, n
  <2> QED BY <1>1, <1>2, <1>4, <2>1, SumSame
<1>7. CASE p \in DOMAIN pay
  <2>1. g[n] = pay[p] /\ pay[p] \in Nat
    BY <1>1, <1>3, <1>7 DEF Payment
  <2>2. n \notin D
    BY <1>1
  <2>3. \A i \in D \cup {n} : g[i] \in Int
    <3> HIDE DEF D, E, f, g, a, n
    <3>1. \A i \in D : g[i] \in Int
      BY <1>2, <1>4
    <3>2. g[n] \in Int
      BY <2>1
    <3> QED BY <3>1, <3>2
  <2> HIDE DEF D, E, f, g, a, n
  <2>4. SumFunctionOnSet(g, D \cup {n}) = g[n] + SumFunctionOnSet(g, D)
    BY <1>1, <2>2, <2>3, SumAdd
  <2> QED BY <1>3, <1>5, <1>6, <1>7, <2>1, <2>4 DEF a
<1>8. CASE p \notin DOMAIN pay
  <2> HIDE DEF D, E, f, g, a, n
  <2> QED BY <1>3, <1>5, <1>6, <1>8 DEF a
<1> QED BY <1>7, <1>8

\* a payout of one round is added to what its winners have been paid
LEMMA PaidToMore ==
  ASSUME credits \in [Rounds -> Seq(Payment)], NEW r \in Rounds, NEW pay \in Payment,
         credits' = [credits EXCEPT ![r] = Append(@, pay)], NEW p \in Players
  PROVE  PaidTo(p)' = PaidTo(p) + IF p \in DOMAIN pay THEN pay[p] ELSE 0
<1> DEFINE f == [s \in Rounds |-> PaidIn(credits[s], p)]
           g == [s \in Rounds |-> PaidIn(credits'[s], p)]
           more == IF p \in DOMAIN pay THEN pay[p] ELSE 0
<1>1. credits' \in [Rounds -> Seq(Payment)] /\ credits'[r] = Append(credits[r], pay)
      /\ \A s \in Rounds \ {r} : credits'[s] = credits[s]
  OBVIOUS
<1>2. \A s \in Rounds : f[s] \in Int /\ g[s] \in Int
  <2>1. \A s \in Rounds : PaidIn(credits[s], p) \in Nat
    BY PaidInType
  <2>2. \A s \in Rounds : PaidIn(credits'[s], p) \in Nat
    BY <1>1, PaidInType
  <2> QED BY <2>1, <2>2
<1>3. \A s \in Rounds \ {r} : g[s] = f[s]
  BY <1>1
<1>4. g[r] = f[r] + more
  BY <1>1, PaidMore
<1>5. more \in Nat
  BY DEF Payment
<1>6. PaidTo(p) = SumFunctionOnSet(f, Rounds) /\ PaidTo(p)' = SumFunctionOnSet(g, Rounds)
  BY PaidToIs, SumIsOverDomain DEF PaidTo, PaidIn
<1>7. SumFunctionOnSet(f, Rounds) \in Int
  BY <1>6, PaidToType
<1>8. SumFunctionOnSet(g, Rounds) = SumFunctionOnSet(f, Rounds) + (g[r] - f[r])
  <2> HIDE DEF f, g, more
  <2> QED BY <1>2, <1>3, SumChange, PlayersAssumption
<1> HIDE DEF f, g, more
<1> QED BY <1>2, <1>4, <1>5, <1>6, <1>7, <1>8 DEF more

-----------------------------------------------------------------------------
(* The initial states.                                                     *)

LEMMA InitOK == Init => IInv
<1> SUFFICES ASSUME Init PROVE IInv
  OBVIOUS
<1>1. \A c \in Clients : /\ pc[c] = "start" /\ entity[c] = None /\ stakes[c] = NoStakes
                         /\ held[c] = NoWallets /\ dirty[c] = {} /\ ~Running(c)
  BY DEF Init, Running, Steps
<1>2. Tables
  <2>1. accounts \in [Players -> Account]
    <3>1. \A p \in Players : Opening[p] - Spent(Bets0, p) \in Nat
      BY SpentType, DatabaseAssumption
    <3> QED BY <3>1 DEF Init, Account
  <2>2. credits \in [Rounds -> Seq(Payment)] /\ audit \in [Rounds -> Seq(Entry)]
    BY DEF Init
  <2> QED BY <2>1, <2>2, DatabaseAssumption DEF Init, Tables
<1>3. Locals
  BY DEF Init, Locals, NoWallets
<1>4. LockOwners
  BY NoneAssumption DEF Init, LockOwners
<1>5. ASSUME NEW c \in Clients PROVE Session(c)
  <2>1. Control(c) /\ RoundHeld(c) /\ EntityOK(c)
    BY <1>1 DEF Control, RoundHeld, PastLock, EntityOK, ToSave
  <2>2. MoneyOK(c) /\ HeldOK(c)
    BY <1>1 DEF MoneyOK, HeldOK, NoStakes, NoWallets
  <2> QED BY <2>1, <2>2 DEF Session
<1>6. BalancesExplained
  <2> SUFFICES ASSUME NEW p \in Players
               PROVE  accounts[p].main + accounts[p].temp + Spent(bets, p)
                        = Opening[p] + PaidTo(p)
    BY DEF BalancesExplained
  <2>1. PaidTo(p) = 0
    <3> DEFINE f == [r \in Rounds |-> PaidIn(credits[r], p)]
    <3>1. \A r \in Rounds : f[r] = 0
      <4> SUFFICES ASSUME NEW r \in Rounds PROVE PaidIn(<< >>, p) = 0
        BY DEF Init
      <4>1. {j \in DOMAIN << >> : p \in DOMAIN << >>[j]} = {}
        OBVIOUS
      <4> QED BY <4>1, SumIsOverDomain, SumEmpty DEF PaidIn
    <3>2. PaidTo(p) = SumFunctionOnSet(f, Rounds)
      BY PaidToIs
    <3> HIDE DEF f
    <3>3. SumFunctionOnSet(f, Rounds) = 0 * Cardinality(Rounds)
      BY <3>1, SumConstant, PlayersAssumption
    <3> QED BY <3>2, <3>3, FS_CardinalityType, PlayersAssumption
  <2>2. Spent(bets, p) \in Nat /\ Opening[p] \in Nat
    BY SpentType, DatabaseAssumption DEF Init
  <2> QED BY <2>1, <2>2 DEF Init
<1> QED BY <1>2, <1>3, <1>4, <1>5, <1>6 DEF IInv

-----------------------------------------------------------------------------
(* The end of a handler.                                                   *)

LEMMA EndKeeps ==
  ASSUME Locals, NEW c \in Clients, NEW outcome \in Ended, End(c, outcome)
  PROVE  /\ Locals'
         /\ Frame(c)
         /\ LocksKept(c)
         /\ Session(c)'
         /\ \A r \in Rounds : roundLock'[r] # c
<1>1. outcome \notin Steps /\ None \notin Clients /\ c # None
  BY NoneAssumption DEF Ended, Steps
<1>2. /\ pc'[c] = outcome /\ entity'[c] = None /\ stakes'[c] = NoStakes
      /\ held'[c] = NoWallets /\ dirty'[c] = {} /\ owed'[c] = << >>
  BY DEF End, Locals
<1>3. ~Running(c)' /\ ~PastLock(c)'
  BY <1>1, <1>2 DEF Running, PastLock
<1>4. Locals'
  <2>1. /\ roundLock' \in [Rounds -> Clients \cup {None}]
        /\ walletLock' \in [Players -> Clients \cup {None}]
        /\ pc' \in [Clients -> Steps \cup Ended \cup {"start"}]
    BY DEF End, Locals
  <2>2. /\ call' = [d \in Clients |-> call'[d]]
        /\ entity' = [d \in Clients |-> entity'[d]]
        /\ stakes' = [d \in Clients |-> stakes'[d]]
        /\ dirty' = [d \in Clients |-> dirty'[d]]
    BY DEF End, Locals
  <2>3. joker' \in [Clients -> Schedule \cup {None}]
    BY DEF End, Locals
  <2>4. owed' \in [Clients -> Seq(Share)]
    <3>1. << >> \in Seq(Share)
      OBVIOUS
    <3> QED BY <3>1 DEF End, Locals
  <2>5. held' \in [Clients -> [Players -> Copy \cup {None}]]
    BY DEF End, Locals, NoWallets
  <2> QED BY <2>1, <2>2, <2>3, <2>4, <2>5 DEF Locals
<1>5. Frame(c)
  BY DEF End, Locals, Frame
<1>6. LocksKept(c)
  BY DEF End, LocksKept
<1>7. \A r \in Rounds : roundLock'[r] # c
  BY <1>1 DEF End
<1>8. Session(c)'
  <2>1. Control(c)' /\ RoundHeld(c)'
    BY <1>3 DEF Control, RoundHeld
  <2>2. EntityOK(c)'
    BY <1>2, <1>3 DEF EntityOK, ToSave
  <2>3. MoneyOK(c)'
    <3>1. DOMAIN NoStakes.winners = {}
      BY DEF NoStakes
    <3>2. pc'[c] # "lockWinner"
      BY <1>1, <1>2 DEF Steps
    <3> QED BY <1>2, <1>3, <3>1, <3>2 DEF MoneyOK
  <2>4. HeldOK(c)'
    BY <1>2 DEF HeldOK, NoWallets
  <2> QED BY <2>1, <2>2, <2>3, <2>4 DEF Session
<1> QED BY <1>4, <1>5, <1>6, <1>7, <1>8

\* A handler that ends having written nothing.
LEMMA EndOK ==
  ASSUME IInv, NEW c \in Clients, NEW outcome \in Ended, End(c, outcome), UNCHANGED db
  PROVE  IInv'
<1>1. /\ Locals' /\ Frame(c) /\ LocksKept(c) /\ Session(c)'
      /\ \A r \in Rounds : roundLock'[r] # c
  BY EndKeeps DEF IInv
<1>2. Tables' /\ BalancesExplained'
  BY DEF IInv, Tables, BalancesExplained, PaidTo, db
<1>3. RowsKept(c)
  BY DEF RowsKept, db
<1> QED BY <1>1, <1>2, <1>3, StepOf

LEMMA RollbackOK ==
  ASSUME IInv, NEW c \in Clients, Rollback(c)
  PROVE  IInv'
BY EndOK DEF Rollback, Ended

-----------------------------------------------------------------------------
(* The reads.                                                              *)

\* where a client past its round's lock, or not yet at it, goes on in its handler
\* with new locals
LEMMA Quiet ==
  ASSUME IInv, NEW c \in Clients, Running(c), NEW s \in StepsOf(Handler(c)),
         GoTo(c, s), UNCHANGED <<db, locks, call, held>>, Frame(c),
         s \in {"readBet", "lockRound"} <=> pc[c] \in {"readBet", "lockRound"},
         Locals', EntityOK(c)', MoneyOK(c)'
  PROVE  IInv'
<1>1. Handler(c) \in Handlers /\ s \in Steps
  BY DEF IInv, Session, Control, IsCall, Handler, Handlers, StepsOf, Steps
<1>2. /\ pc'[c] = s /\ call'[c] = call[c] /\ held'[c] = held[c]
      /\ Running(c)' /\ Handler(c)' = Handler(c) /\ RoundOf(c)' = RoundOf(c)
      /\ PastLock(c)' <=> PastLock(c)
  BY <1>1 DEF GoTo, IInv, Locals, Running, Handler, RoundOf, PastLock
<1>3. Tables' /\ BalancesExplained'
  BY DEF IInv, Tables, BalancesExplained, PaidTo, db
<1>4. LocksKept(c) /\ RowsKept(c)
  BY DEF LocksKept, RowsKept, db, locks
<1>5. Control(c)'
  BY <1>2 DEF Control, IInv, Session
<1>6. RoundHeld(c)'
  <2>1. Ready(c, rounds[RoundOf(c)])' <=> Ready(c, rounds[RoundOf(c)])
    BY <1>2 DEF Ready, BodyFits, db
  <2> QED BY <1>2, <2>1 DEF RoundHeld, IInv, Session, db, locks
<1>7. HeldOK(c)'
  BY <1>2 DEF HeldOK, IInv, Session, db, locks
<1>8. \A r \in Rounds : roundLock'[r] = c => PastLock(c)' /\ RoundOf(c)' = r
  BY <1>2 DEF IInv, LockOwners, locks
<1> QED BY <1>2, <1>3, <1>4, <1>5, <1>6, <1>7, <1>8, StepOf DEF Session

\* the next statement is one of the handler's
LEMMA AfterIsNext ==
  ASSUME NEW c \in Clients, Running(c), Control(c), pc[c] # "write"
  PROVE  After(Handler(c), pc[c]) \in StepsOf(Handler(c)) /\ Handler(c) \in Handlers
BY DEF Control, IsCall, Handler, Handlers, StepsOf, After

\* where a client that reads is, and what its session is
LEMMA Reading ==
  ASSUME IInv, NEW c \in Clients, pc[c] \in Steps \ {"write"}
  PROVE  /\ Locals /\ Running(c) /\ Control(c) /\ RoundHeld(c)
         /\ EntityOK(c) /\ MoneyOK(c) /\ HeldOK(c)
         /\ dirty[c] = {}
         /\ pc[c] \in StepsOf(Handler(c)) /\ Handler(c) \in Handlers
         /\ After(Handler(c), pc[c]) \in StepsOf(Handler(c))
         /\ Follow(c) => GoTo(c, After(Handler(c), pc[c]))
<1>1. Locals /\ Session(c) /\ Running(c)
  BY DEF IInv, Running
<1>2. dirty[c] = {}
  BY <1>1 DEF Session, EntityOK, ToSave
<1> QED BY <1>1, <1>2, AfterIsNext, FollowGoes DEF Session, Control

LEMMA ReadRoundOK ==
  ASSUME IInv, NEW c \in Clients, ReadRound(c)
  PROVE  IInv'
<1> DEFINE q == rounds[RoundOf(c)]
           e == IF Handler(c) = "close" THEN [q EXCEPT !.status = "CLOSED"]
                                        ELSE [entity[c] EXCEPT !.active = FALSE]
           s == After(Handler(c), "readRound")
<1>1. SUFFICES ASSUME q # None, Ready(c, q), entity' = [entity EXCEPT ![c] = e], Follow(c),
                      UNCHANGED <<db, locks, call, joker, stakes, owed, held, dirty>>
               PROVE  IInv'
  BY RollbackOK DEF ReadRound
<1>2. pc[c] = "readRound" /\ pc[c] \in Steps \ {"write"}
  BY DEF ReadRound, Steps
<1>3. Handler(c) \in {"close", "cancel"}
  BY <1>2, Reading DEF StepsOf, Handlers
<1>4. s \in StepsOf(Handler(c)) /\ GoTo(c, s) /\ s \in {"selectRound", "selectSchedule"}
  BY <1>1, <1>2, <1>3, Reading DEF After
<1>5. /\ pc'[c] = s /\ entity'[c] = e /\ dirty'[c] = {} /\ call'[c] = call[c]
      /\ Handler(c)' = Handler(c) /\ RoundOf(c)' = RoundOf(c) /\ stakes'[c] = stakes[c]
      /\ RoundOf(c) \in Rounds /\ q \in Round
  BY <1>1, <1>2, <1>3, <1>4, Reading, RoundIsRound
     DEF GoTo, IInv, Locals, Tables, Handler, RoundOf
<1>6. Locals' /\ Frame(c)
  <2>1. s \in Steps
    BY <1>4 DEF Steps
  <2> HIDE DEF s, e
  <2>2. Locals'
    BY <1>1, <1>2, <1>4, <2>1, Reading DEF Locals, GoTo, locks
  <2>3. Frame(c)
    BY <1>1, <1>2, <1>4, Reading DEF Locals, GoTo, Frame
  <2> QED BY <2>2, <2>3
<1>7. EntityOK(c)'
  <2>1. ToSave(c)'
    BY <1>5 DEF ToSave
  <2>2. CASE Handler(c) = "close"
    <3>1. e \in Round /\ e.status = "CLOSED" /\ rounds'[RoundOf(c)] = q
      BY <1>1, <1>5, <2>2 DEF Round, Statuses, db
    <3>2. ToClose(c)'
      BY <1>1, <1>5, <3>1 DEF ToClose
    <3> QED BY <1>5, <2>1, <2>2, <3>1, <3>2 DEF EntityOK
  <2>3. CASE Handler(c) = "cancel"
    <3>1. entity[c] \in Schedule /\ schedules[RoundOf(c)] # None
      BY <1>2, <2>3, Reading DEF EntityOK, ToCancel
    <3>2. e \in Schedule /\ schedules'[RoundOf(c)] = schedules[RoundOf(c)]
      BY <1>1, <2>3, <3>1 DEF Schedule, db
    <3>3. ToCancel(c)'
      BY <1>5, <3>1, <3>2 DEF ToCancel
    <3> QED BY <1>5, <2>1, <2>3, <3>2, <3>3 DEF EntityOK
  <2> QED BY <1>3, <2>2, <2>3
<1>8. MoneyOK(c)'
  BY <1>2, <1>3, <1>4, <1>5, Reading DEF MoneyOK
<1> HIDE DEF s, e
<1> QED BY <1>1, <1>2, <1>4, <1>6, <1>7, <1>8, Quiet, Reading

LEMMA ReadScheduleToOpenOK ==
  ASSUME IInv, NEW c \in Clients, ReadScheduleToOpen(c)
  PROVE  IInv'
<1> DEFINE p == schedules[RoundOf(c)]
           j == IF p # None /\ p.active THEN p ELSE None
<1>1. /\ pc[c] = "readSchedule" /\ Handler(c) = "open"
      /\ joker' = [joker EXCEPT ![c] = j] /\ Follow(c)
      /\ UNCHANGED <<db, locks, call, entity, stakes, owed, held, dirty>>
      /\ pc[c] \in Steps \ {"write"}
  BY DEF ReadScheduleToOpen, Steps
<1>2. GoTo(c, "readConfig") /\ "readConfig" \in StepsOf(Handler(c)) /\ "readConfig" \in Steps
  BY <1>1, Reading DEF After, StepsOf, Steps
<1>3. /\ pc'[c] = "readConfig" /\ entity'[c] = entity[c] /\ dirty'[c] = {}
      /\ Handler(c)' = "open" /\ RoundOf(c)' = RoundOf(c)
  BY <1>1, <1>2, Reading DEF GoTo, Locals, Handler, RoundOf
<1>4. j \in Schedule \cup {None}
  BY <1>1, Reading, RoundIsRound DEF IInv, Tables
<1>5. Locals' /\ Frame(c)
  <2> HIDE DEF j
  <2>1. Locals'
    BY <1>1, <1>2, <1>4, Reading DEF Locals, GoTo, locks
  <2>2. Frame(c)
    BY <1>1, <1>2, Reading DEF Locals, GoTo, Frame
  <2> QED BY <2>1, <2>2
<1>6. EntityOK(c)'
  <2>1. ToSave(c)'
    BY <1>3 DEF ToSave
  <2>2. ToOpen(c) /\ Running(c)
    BY <1>1, Reading DEF EntityOK
  <2>3. ToOpen(c)'
    BY <1>1, <1>3, <2>2 DEF ToOpen, db
  <2> QED BY <1>1, <1>3, <2>1, <2>3, Reading DEF EntityOK
<1>7. MoneyOK(c)'
  BY <1>1, <1>3, Reading DEF MoneyOK
<1> HIDE DEF j
<1> QED BY <1>1, <1>2, <1>5, <1>6, <1>7, Quiet, Reading

LEMMA ReadScheduleToMakeOK ==
  ASSUME IInv, NEW c \in Clients, ReadScheduleToMake(c)
  PROVE  IInv'
<1> DEFINE p == schedules[RoundOf(c)]
           e == [multiplier |-> call[c].multiplier, active |-> TRUE]
           s == IF p = None THEN "write" ELSE "selectSchedule"
<1>1. SUFFICES ASSUME pc[c] = "readSchedule", Handler(c) = "schedule",
                      entity' = [entity EXCEPT ![c] = e],
                      IF p = None THEN GoTo(c, "write") ELSE Follow(c),
                      UNCHANGED <<db, locks, call, joker, stakes, owed, held, dirty>>
               PROVE  IInv'
  BY RollbackOK DEF ReadScheduleToMake
<1>2. pc[c] \in Steps \ {"write"}
  BY <1>1 DEF Steps
<1>3. GoTo(c, s) /\ s \in StepsOf(Handler(c)) /\ s \in Steps
  BY <1>1, <1>2, Reading DEF After, StepsOf, Steps
<1>4. /\ pc'[c] = s /\ entity'[c] = e /\ dirty'[c] = {}
      /\ Handler(c)' = "schedule" /\ RoundOf(c)' = RoundOf(c)
  BY <1>1, <1>2, <1>3, Reading DEF GoTo, Locals, Handler, RoundOf
<1>5. e \in Schedule
  BY <1>1, <1>2, Reading DEF Control, IsCall, Admissible, Handler, Schedule
<1>6. Locals' /\ Frame(c)
  <2> HIDE DEF s, e
  <2>1. Locals'
    BY <1>1, <1>2, <1>3, Reading DEF Locals, GoTo, locks
  <2>2. Frame(c)
    BY <1>1, <1>2, <1>3, Reading DEF Locals, GoTo, Frame
  <2> QED BY <2>1, <2>2
<1>7. EntityOK(c)'
  <2>1. ToSave(c)'
    BY <1>4 DEF ToSave
  <2>2. ToSchedule(c)'
    BY <1>1, <1>4, <1>5 DEF ToSchedule, db
  <2> HIDE DEF e
  <2> QED BY <1>4, <1>5, <2>1, <2>2 DEF EntityOK
<1>8. MoneyOK(c)'
  BY <1>1, <1>2, <1>4, Reading DEF MoneyOK
<1> HIDE DEF s, e
<1> QED BY <1>1, <1>2, <1>3, <1>6, <1>7, <1>8, Quiet, Reading DEF s

LEMMA ReadScheduleToCancelOK ==
  ASSUME IInv, NEW c \in Clients, ReadScheduleToCancel(c)
  PROVE  IInv'
<1> DEFINE p == schedules[RoundOf(c)]
<1>1. SUFFICES ASSUME pc[c] = "readSchedule", Handler(c) = "cancel", p # None,
                      entity' = [entity EXCEPT ![c] = p], Follow(c),
                      UNCHANGED <<db, locks, call, joker, stakes, owed, held, dirty>>
               PROVE  IInv'
  BY RollbackOK DEF ReadScheduleToCancel
<1>2. pc[c] \in Steps \ {"write"}
  BY <1>1 DEF Steps
<1>3. GoTo(c, "readRound") /\ "readRound" \in StepsOf(Handler(c)) /\ "readRound" \in Steps
  BY <1>1, <1>2, Reading DEF After, StepsOf, Steps
<1>4. /\ pc'[c] = "readRound" /\ entity'[c] = p /\ dirty'[c] = {}
      /\ Handler(c)' = "cancel" /\ RoundOf(c)' = RoundOf(c)
  BY <1>1, <1>2, <1>3, Reading DEF GoTo, Locals, Handler, RoundOf
<1>5. p \in Schedule
  BY <1>1, <1>2, Reading, RoundIsRound DEF IInv, Tables
<1>6. Locals' /\ Frame(c)
  <2>1. Locals'
    BY <1>1, <1>2, <1>3, Reading DEF Locals, GoTo, locks
  <2>2. Frame(c)
    BY <1>1, <1>2, <1>3, Reading DEF Locals, GoTo, Frame
  <2> QED BY <2>1, <2>2
<1>7. EntityOK(c)'
  <2>1. ToSave(c)'
    BY <1>4 DEF ToSave
  <2>2. ToCancel(c)'
    BY <1>1, <1>4, <1>5 DEF ToCancel, db
  <2> QED BY <1>4, <1>5, <2>1, <2>2 DEF EntityOK
<1>8. MoneyOK(c)'
  BY <1>1, <1>2, <1>4, Reading DEF MoneyOK
<1> QED BY <1>1, <1>2, <1>3, <1>6, <1>7, <1>8, Quiet, Reading

\* a change gives every column a value of its type, or undefined
LEMMA ChangesFit ==
  ASSUME NEW cfg \in Config, NEW k, IsCall(k), Admissible(k)
  PROVE  DOMAIN Assign(cfg, k.change) = Columns /\ Fits(Assign(cfg, k.change))
<1> DEFINE new == Assign(cfg, k.change)
           given == Assign(Config0, Given(k.change))
<1>1. DOMAIN cfg = Columns /\ DOMAIN Config0 = Columns
  BY DatabaseAssumption DEF Config, Columns
<1>2. DOMAIN new = Columns
  BY <1>1 DEF Assign
<1>3. \A f \in Columns : cfg[f] \in Column(f) /\ given[f] \in Column(f)
  <2>1. given \in Config
    BY DEF IsCall
  <2>2. ASSUME NEW row \in Config PROVE \A f \in Columns : row[f] \in Column(f)
    BY DEF Config, Columns, Column
  <2> HIDE DEF given
  <2> QED BY <2>1, <2>2
<1>4. ASSUME NEW f \in Columns PROVE new[f] = Undefined \/ new[f] \in Column(f)
  <2>1. CASE f \notin DOMAIN k.change
    BY <1>1, <1>3, <2>1 DEF Assign
  <2>2. CASE f \in DOMAIN k.change /\ k.change[f] # Undefined
    <3>1. given[f] = k.change[f] /\ new[f] = k.change[f]
      BY <1>1, <2>2 DEF Assign, Given
    <3> HIDE DEF new, given
    <3> QED BY <1>3, <3>1
  <2>3. CASE f \in DOMAIN k.change /\ k.change[f] = Undefined
    BY <1>1, <2>3 DEF Assign
  <2> QED BY <2>1, <2>2, <2>3
<1> HIDE DEF new
<1> QED BY <1>2, <1>4 DEF Fits, new

LEMMA ReadConfigToChangeOK ==
  ASSUME IInv, NEW c \in Clients, ReadConfigToChange(c)
  PROVE  IInv'
<1> DEFINE e == Assign(config, call[c].change)
<1>1. SUFFICES ASSUME pc[c] = "readConfig", Handler(c) = "configure",
                      entity' = [entity EXCEPT ![c] = e], Follow(c),
                      UNCHANGED <<db, locks, call, joker, stakes, owed, held, dirty>>
               PROVE  IInv'
  BY RollbackOK DEF ReadConfigToChange, ReadingConfig
<1>2. pc[c] \in Steps \ {"write"}
  BY <1>1 DEF Steps
<1>3. /\ GoTo(c, "selectConfig")
      /\ "selectConfig" \in StepsOf(Handler(c)) /\ "selectConfig" \in Steps
  BY <1>1, <1>2, Reading DEF After, StepsOf, Steps
<1>4. /\ pc'[c] = "selectConfig" /\ entity'[c] = e /\ dirty'[c] = {}
      /\ Handler(c)' = "configure"
  BY <1>1, <1>2, <1>3, Reading DEF GoTo, Locals, Handler
<1>5. DOMAIN e = Columns /\ Fits(e)
  BY <1>2, ChangesFit, Reading DEF Control, IInv, Tables
<1> HIDE DEF e
<1>6. Locals' /\ Frame(c)
  <2>1. Locals'
    BY <1>1, <1>2, <1>3, Reading DEF Locals, GoTo, locks
  <2>2. Frame(c)
    BY <1>1, <1>2, <1>3, Reading DEF Locals, GoTo, Frame
  <2> QED BY <2>1, <2>2
<1>7. EntityOK(c)'
  <2>1. ToSave(c)'
    BY <1>4 DEF ToSave
  <2>2. ToConfigure(c)'
    BY <1>4, <1>5 DEF ToConfigure, Fits, Column
  <2> QED BY <1>4, <1>5, <2>1, <2>2 DEF EntityOK
<1>8. MoneyOK(c)'
  BY <1>1, <1>2, <1>4, Reading DEF MoneyOK
<1> QED BY <1>1, <1>2, <1>3, <1>6, <1>7, <1>8, Quiet, Reading

LEMMA ReadConfigToCreateOK ==
  ASSUME IInv, NEW c \in Clients, ReadConfigToCreate(c)
  PROVE  IInv'
<1> DEFINE e == [status |-> "UPCOMING", mode |-> config.mode, joker |-> FALSE,
                 multiplier |-> 1, number |-> None, finalized |-> FALSE]
<1>1. /\ pc[c] = "readConfig" /\ Handler(c) = "create"
      /\ entity' = [entity EXCEPT ![c] = e] /\ Follow(c)
      /\ UNCHANGED <<db, locks, call, joker, stakes, owed, held, dirty>>
      /\ pc[c] \in Steps \ {"write"}
  BY DEF ReadConfigToCreate, ReadingConfig, Steps
<1>2. GoTo(c, "write") /\ "write" \in StepsOf(Handler(c)) /\ "write" \in Steps
  BY <1>1, Reading DEF After, StepsOf, Steps
<1>3. /\ pc'[c] = "write" /\ entity'[c] = e /\ dirty'[c] = {} /\ Handler(c)' = "create"
  BY <1>1, <1>2, Reading DEF GoTo, Locals, Handler
<1>4. e \in Round
  BY DEF IInv, Tables, Config, Round, Statuses
<1>5. Locals' /\ Frame(c)
  <2> HIDE DEF e
  <2>1. Locals'
    BY <1>1, <1>2, Reading DEF Locals, GoTo, locks
  <2>2. Frame(c)
    BY <1>1, <1>2, Reading DEF Locals, GoTo, Frame
  <2> QED BY <2>1, <2>2
<1>6. EntityOK(c)'
  <2>1. ToSave(c)'
    BY <1>3 DEF ToSave
  <2>2. ToCreate(c)'
    BY <1>3, <1>4 DEF ToCreate
  <2> HIDE DEF e
  <2> QED BY <1>3, <1>4, <2>1, <2>2 DEF EntityOK
<1>7. MoneyOK(c)'
  BY <1>1, <1>3, Reading DEF MoneyOK
<1> QED BY <1>1, <1>2, <1>5, <1>6, <1>7, Quiet, Reading

LEMMA ReadConfigToOpenOK ==
  ASSUME IInv, NEW c \in Clients, ReadConfigToOpen(c)
  PROVE  IInv'
<1> DEFINE q == rounds[RoundOf(c)]
           j == joker[c]
           plays == config.joker /\ (j # None \/ RoundOf(c) % config.frequency = 0)
           multiplier == IF j # None THEN j.multiplier ELSE config.multiplier
           m == IF plays THEN multiplier ELSE entity[c].multiplier
           e == [entity[c] EXCEPT !.status = "OPEN", !.joker = plays, !.multiplier = m]
<1>0. entity' = [entity EXCEPT ![c] = e]
  BY DEF ReadConfigToOpen
<1> HIDE DEF e
<1>1. /\ pc[c] = "readConfig" /\ Handler(c) = "open"
      /\ entity' = [entity EXCEPT ![c] = e] /\ Follow(c)
      /\ UNCHANGED <<db, locks, call, joker, stakes, owed, held, dirty>>
      /\ pc[c] \in Steps \ {"write"}
  BY <1>0 DEF ReadConfigToOpen, ReadingConfig, Steps
<1>2. GoTo(c, "write") /\ "write" \in StepsOf(Handler(c)) /\ "write" \in Steps
  BY <1>1, Reading DEF After, StepsOf, Steps
<1>3. /\ pc'[c] = "write" /\ entity'[c] = e /\ dirty'[c] = {}
      /\ Handler(c)' = "open" /\ RoundOf(c)' = RoundOf(c)
  BY <1>1, <1>2, Reading DEF GoTo, Locals, Handler, RoundOf
<1>4. entity[c] = q /\ q \in Round
  <2>1. ToOpen(c) /\ RoundOf(c) \in Rounds /\ PastLock(c)
    BY <1>1, Reading, RoundIsRound DEF EntityOK, PastLock, Lockers
  <2> QED BY <1>1, <2>1, Reading DEF ToOpen, RoundHeld, IInv, Tables
<1>5. plays \in BOOLEAN /\ m \in Nat \ {0}
  BY <1>1, <1>4, Reading DEF Locals, IInv, Tables, Config, Round, Schedule
<1>6. e \in Round /\ e.joker = plays /\ e.multiplier = m
      /\ e = [q EXCEPT !.status = "OPEN", !.joker = plays, !.multiplier = m]
  <2> HIDE DEF plays, m, q
  <2> QED BY <1>4, <1>5 DEF Round, Statuses, e
<1> HIDE DEF plays, m
<1>7. Locals' /\ Frame(c)
  <2>1. Locals'
    BY <1>1, <1>2, Reading DEF Locals, GoTo, locks
  <2>2. Frame(c)
    BY <1>1, <1>2, Reading DEF Locals, GoTo, Frame
  <2> QED BY <2>1, <2>2
<1>8. EntityOK(c)'
  <2>1. ToSave(c)'
    BY <1>3 DEF ToSave
  <2>2. rounds'[RoundOf(c)] = q
    BY <1>1 DEF db
  <2>3. ToOpen(c)'
    BY <1>3, <1>5, <1>6, <2>2 DEF ToOpen
  <2> QED BY <1>3, <1>6, <2>1, <2>3 DEF EntityOK
<1>9. MoneyOK(c)'
  BY <1>1, <1>3, Reading DEF MoneyOK
<1> QED BY <1>1, <1>2, <1>7, <1>8, <1>9, Quiet, Reading

\* a statement that only looks, and has its handler go on
LEMMA LookOK ==
  ASSUME IInv, NEW c \in Clients, Handler(c) = "bet", pc[c] \in {"readBet", "readConfig"},
         Follow(c), UNCHANGED <<db, locks, locals>>
  PROVE  IInv'
<1> DEFINE s == After("bet", pc[c])
<1>1. /\ pc[c] \in Steps \ {"write"}
      /\ UNCHANGED <<call, entity, joker, stakes, owed, held, dirty>>
  BY DEF Steps, locals
<1>2. GoTo(c, s) /\ s \in StepsOf("bet") /\ s \in {"lockRound", "lockWallet"} /\ s \in Steps
      /\ (pc[c] = "readBet" <=> s = "lockRound")
  BY <1>1, Reading DEF After, StepsOf, Steps
<1>3. /\ pc'[c] = s /\ Handler(c)' = "bet"
  BY <1>1, <1>2, Reading DEF GoTo, Locals, Handler
<1> HIDE DEF s
<1>4. Locals' /\ Frame(c)
  <2>1. Locals'
    BY <1>1, <1>2, Reading DEF Locals, GoTo, locks
  <2>2. Frame(c)
    BY <1>1, <1>2, Reading DEF Locals, GoTo, Frame
  <2> QED BY <2>1, <2>2
<1>5. EntityOK(c)'
  <2>1. ToSave(c)' /\ entity'[c] = entity[c]
    BY <1>1, Reading DEF ToSave
  <2>2. ToBet(c)'
    BY <1>1, <1>2, <1>3, <2>1, Reading DEF ToBet, EntityOK
  <2> QED BY <1>1, <1>3, <2>1, <2>2, Reading DEF EntityOK
<1>6. MoneyOK(c)'
  BY <1>1, <1>2, <1>3, Reading DEF MoneyOK
<1> QED BY <1>1, <1>2, <1>4, <1>5, <1>6, Quiet, Reading

LEMMA ReadBetOK ==
  ASSUME IInv, NEW c \in Clients, ReadBet(c)
  PROVE  IInv'
<1>1. pc[c] = "readBet" /\ pc[c] \in Steps \ {"write"}
  BY DEF ReadBet, Steps
<1>2. Handler(c) = "bet"
  BY <1>1, Reading DEF StepsOf, Handlers
<1> QED BY <1>1, <1>2, LookOK, EndOK DEF ReadBet, Ended

LEMMA ReadConfigToBetOK ==
  ASSUME IInv, NEW c \in Clients, ReadConfigToBet(c)
  PROVE  IInv'
BY LookOK, RollbackOK DEF ReadConfigToBet, ReadingConfig

LEMMA SelectOK ==
  ASSUME IInv, NEW c \in Clients, Select(c)
  PROVE  IInv'
<1> DEFINE changed == {f \in DOMAIN entity[c] :
                         entity[c][f] \notin {Undefined, Stored(c)[f]}}
<1>1. SUFFICES ASSUME dirty' = [dirty EXCEPT ![c] = changed], Follow(c),
                      UNCHANGED <<db, locks, call, entity, joker, stakes, owed, held>>
               PROVE  IInv'
  BY EndOK DEF Select, Ended
<1>2. /\ pc[c] \in {"selectConfig", "selectRound", "selectSchedule"}
      /\ pc[c] \in Steps \ {"write"}
  BY DEF Select, Steps
<1>3. Handler(c) \in {"configure", "close", "schedule", "cancel"}
  BY <1>2, Reading DEF StepsOf, Handlers
<1>4. GoTo(c, "write") /\ "write" \in StepsOf(Handler(c)) /\ "write" \in Steps
  BY <1>1, <1>2, <1>3, Reading DEF After, StepsOf, Steps
<1>5. /\ pc'[c] = "write" /\ entity'[c] = entity[c] /\ dirty'[c] = changed
      /\ Handler(c)' = Handler(c) /\ RoundOf(c)' = RoundOf(c) /\ Running(c)'
  BY <1>1, <1>2, <1>4, Reading DEF GoTo, Locals, Handler, RoundOf, Running
<1>6. changed \subseteq DOMAIN entity[c] /\ \A f \in changed : entity[c][f] # Undefined
  OBVIOUS
<1> HIDE DEF changed
<1>7. Locals' /\ Frame(c)
  <2>1. Locals'
    BY <1>1, <1>2, <1>4, Reading DEF Locals, GoTo, locks
  <2>2. Frame(c)
    BY <1>1, <1>2, <1>4, Reading DEF Locals, GoTo, Frame
  <2> QED BY <2>1, <2>2
<1>8. EntityOK(c)'
  <2>1. ToSave(c)'
    BY <1>5, <1>6 DEF ToSave
  <2>2. EntityOK(c) /\ Running(c)
    BY <1>2, Reading
  <2>3. Handler(c) = "configure" => ToConfigure(c)'
    BY <1>2, <1>3, <1>5, <2>2, Reading DEF EntityOK, ToConfigure, StepsOf, Fits, Column
  <2>4. Handler(c) = "close" => ToClose(c)'
    BY <1>1, <1>2, <1>3, <1>5, <2>2 DEF EntityOK, ToClose, db
  <2>5. Handler(c) = "schedule" => ToSchedule(c)'
    <3>1. Handler(c) = "schedule" => pc[c] = "selectSchedule"
      BY <1>2, Reading DEF StepsOf
    <3> QED BY <1>1, <1>5, <2>2, <3>1 DEF EntityOK, ToSchedule
  <2>6. Handler(c) = "cancel" => ToCancel(c)'
    BY <1>1, <1>2, <1>3, <1>5, <2>2 DEF EntityOK, ToCancel, db
  <2> QED BY <1>3, <1>5, <2>1, <2>2, <2>3, <2>4, <2>5, <2>6 DEF EntityOK
<1>9. MoneyOK(c)'
  BY <1>1, <1>2, <1>3, <1>5, Reading DEF MoneyOK
<1> QED BY <1>1, <1>2, <1>4, <1>7, <1>8, <1>9, Quiet, Reading

\* stakes are sums of cents
LEMMA StakesType ==
  ASSUME NEW table \in [Players -> [Keys -> Bet \cup {None}]], NEW p \in Players,
         NEW r, NEW n
  PROVE  Stake(table, p, r) \in Nat /\ StakeOn(table, p, r, n) \in Nat
<1>1. ASSUME NEW D, D \subseteq Keys, \A j \in D : table[p][j] # None
      PROVE  SumFunction([k \in D |-> table[p][k].amount]) \in Nat
  <2> DEFINE f == [k \in D |-> table[p][k].amount]
  <2>1. IsFiniteSet(D)
    BY <1>1, FS_Subset, PlayersAssumption
  <2>2. \A k \in D : table[p][k] \in Bet
    BY <1>1
  <2>3. \A k \in D : f[k] \in Nat
    BY <2>2 DEF Bet
  <2>4. SumFunction(f) = SumFunctionOnSet(f, D)
    BY SumIsOverDomain
  <2> HIDE DEF f
  <2>5. SumFunctionOnSet(f, D) \in Nat
    BY <2>1, <2>3, SumNat
  <2> QED BY <2>4, <2>5 DEF f
<1>2. Stake(table, p, r) \in Nat
  <2> DEFINE D == {j \in Keys : table[p][j] # None /\ table[p][j].round = r}
  <2>1. D \subseteq Keys /\ \A j \in D : table[p][j] # None
    OBVIOUS
  <2> HIDE DEF D
  <2>2. SumFunction([k \in D |-> table[p][k].amount]) \in Nat
    BY <1>1, <2>1
  <2> QED BY <2>2 DEF Stake, D
<1>3. StakeOn(table, p, r, n) \in Nat
  <2> DEFINE D == {j \in Keys : /\ table[p][j] # None
                                /\ table[p][j].round = r
                                /\ table[p][j].number = n}
  <2>1. D \subseteq Keys /\ \A j \in D : table[p][j] # None
    OBVIOUS
  <2> HIDE DEF D
  <2>2. SumFunction([k \in D |-> table[p][k].amount]) \in Nat
    BY <1>1, <2>1
  <2> QED BY <2>2 DEF StakeOn, D
<1> QED BY <1>2, <1>3

LEMMA ReadBetsOK ==
  ASSUME IInv, NEW c \in Clients, ReadBets(c)
  PROVE  IInv'
<1> DEFINE r == RoundOf(c)
           on(p) == StakeOn(bets, p, r, entity[c].number)
           winners == {p \in Players : on(p) > 0}
           total == SumFunction([p \in Players |-> Stake(bets, p, r)])
           sum == [total |-> total, winners |-> [p \in winners |-> on(p)]]
           s == IF winners = {} THEN "write" ELSE "readConfig"
<1>1. /\ pc[c] = "readBets"
      /\ stakes' = [stakes EXCEPT ![c] = sum]
      /\ UNCHANGED <<db, locks, call, entity, joker, owed, held, dirty>>
      /\ pc[c] \in Steps \ {"write"}
      /\ IF winners = {} THEN GoTo(c, "write") ELSE Follow(c)
  BY DEF ReadBets, Steps
<1>2. Handler(c) \in {"finalize", "publish"}
  BY <1>1, Reading DEF StepsOf, Handlers
<1>3. GoTo(c, s) /\ s \in StepsOf(Handler(c)) /\ s \in Steps
  BY <1>1, <1>2, Reading DEF After, StepsOf, Steps
<1>4. /\ pc'[c] = s /\ entity'[c] = entity[c] /\ dirty'[c] = {} /\ stakes'[c] = sum
      /\ Handler(c)' = Handler(c) /\ RoundOf(c)' = RoundOf(c)
  BY <1>1, <1>3, Reading DEF GoTo, Locals, Handler, RoundOf
<1>5. /\ total \in Nat
      /\ winners \subseteq Players
      /\ [p \in winners |-> on(p)] \in Stakes(winners)
  <2>1. \A p \in Players : on(p) \in Nat /\ Stake(bets, p, r) \in Nat
    BY StakesType DEF IInv, Tables
  <2>2. total \in Nat
    <3> DEFINE f == [p \in Players |-> Stake(bets, p, r)]
    <3>1. \A p \in Players : f[p] \in Nat
      BY <2>1
    <3>2. SumFunction(f) = SumFunctionOnSet(f, Players)
      BY SumIsOverDomain
    <3> HIDE DEF f
    <3> QED BY <3>1, <3>2, SumNat, PlayersAssumption DEF f
  <2>3. \A p \in winners : on(p) \in Nat \ {0}
    BY <2>1
  <2> HIDE DEF on, total
  <2> QED BY <2>2, <2>3 DEF Stakes
<1> HIDE DEF on, total
<1>6. sum.total = total /\ sum.winners = [p \in winners |-> on(p)]
      /\ DOMAIN sum.winners = winners
  OBVIOUS
<1> HIDE DEF sum, winners, s
<1>7. Locals' /\ Frame(c)
  <2>1. Locals'
    BY <1>1, <1>3, Reading DEF Locals, GoTo, locks
  <2>2. Frame(c)
    BY <1>1, <1>3, Reading DEF Locals, GoTo, Frame
  <2> QED BY <2>1, <2>2
<1>8. EntityOK(c)'
  <2>1. ToSave(c)'
    BY <1>4 DEF ToSave
  <2>2. ToSettle(c) /\ Running(c)
    BY <1>1, <1>2, Reading DEF EntityOK
  <2>3. ToSettle(c)'
    BY <1>1, <1>4, <2>2 DEF ToSettle, db
  <2> QED BY <1>1, <1>2, <1>4, <2>1, <2>3, Reading DEF EntityOK
<1>9. MoneyOK(c)'
  <2>1. s # "lockWinner" /\ (s = "readConfig" => winners # {})
    BY DEF s
  <2> QED BY <1>2, <1>4, <1>5, <1>6, <2>1 DEF MoneyOK
<1>10. s \notin {"readBet", "lockRound"}
  BY DEF s
<1> QED BY <1>1, <1>3, <1>7, <1>8, <1>9, <1>10, Quiet, Reading

\* the shares of a payout, in some order
LEMMA OrderedShares ==
  ASSUME NEW D, D \subseteq Players, NEW pay \in [D -> Nat],
         NEW order \in SetToSeqs({p \in DOMAIN pay : pay[p] > 0})
  PROVE  /\ [i \in DOMAIN order |-> [player |-> order[i], cents |-> pay[order[i]]]]
              \in Seq(Share)
         /\ order # << >> =>
              [i \in DOMAIN order |-> [player |-> order[i], cents |-> pay[order[i]]]] # << >>
<1> DEFINE W == {p \in DOMAIN pay : pay[p] > 0}
           n == Cardinality(W)
           shares == [i \in DOMAIN order |-> [player |-> order[i], cents |-> pay[order[i]]]]
<1>1. n \in Nat
  <2>1. IsFiniteSet(W)
    BY FS_Subset, PlayersAssumption
  <2> HIDE DEF W
  <2> QED BY <2>1, FS_CardinalityType
<1>2. order \in [1..n -> W]
  BY DEF SetToSeqs
<1>3. \A w \in W : w \in Players /\ pay[w] \in Nat \ {0}
  OBVIOUS
<1> HIDE DEF n, W
<1>4. \A i \in 1..n : order[i] \in Players /\ pay[order[i]] \in Nat \ {0}
  BY <1>2, <1>3
<1>5. DOMAIN order = 1..n
  BY <1>2
<1>6. shares \in [1..n -> Share]
  BY <1>4, <1>5 DEF Share
<1>7. shares \in Seq(Share) /\ Len(shares) = n
  BY <1>1, <1>6
<1>8. n = 0 => order = << >>
  BY <1>2
<1>9. Len(<< >>) = 0
  OBVIOUS
<1> HIDE DEF shares
<1> QED BY <1>7, <1>8, <1>9 DEF shares

\* what a payout has in hand
LEMMA Settling ==
  ASSUME IInv, NEW c \in Clients, Handler(c) \in {"finalize", "publish", "generate"},
         pc[c] \in Steps \ {"lockRound"}
  PROVE  /\ RoundOf(c) \in Rounds /\ rounds[RoundOf(c)] \in Round
         /\ roundLock[RoundOf(c)] = c
         /\ Ready(c, rounds[RoundOf(c)])
         /\ entity[c].number \in Numbers
         /\ entity[c] = [rounds[RoundOf(c)] EXCEPT !.number = entity[c].number]
         /\ entity[c] \in Round
<1>1. Running(c) /\ Session(c)
  BY DEF IInv, Running
<1>2. pc[c] # "readBet"
  BY <1>1 DEF Session, Control, StepsOf
<1>3. PastLock(c)
  BY <1>1, <1>2 DEF PastLock, Lockers
<1>4. RoundOf(c) \in Rounds
  BY <1>1, RoundIsRound DEF Session
<1>5. /\ rounds[RoundOf(c)] \in Round /\ roundLock[RoundOf(c)] = c
      /\ Ready(c, rounds[RoundOf(c)])
  BY <1>1, <1>3, <1>4 DEF IInv, Tables, Session, RoundHeld
<1>6. /\ entity[c].number \in Numbers
      /\ entity[c] = [rounds[RoundOf(c)] EXCEPT !.number = entity[c].number]
  BY <1>1 DEF Session, EntityOK, ToSettle
<1> DEFINE n == entity[c].number
           e == [rounds[RoundOf(c)] EXCEPT !.number = n]
<1>7. n \in Numbers /\ entity[c] = e
  BY <1>6
<1>8. e \in Round
  <2> HIDE DEF n
  <2> QED BY <1>5, <1>7 DEF Round
<1> QED BY <1>4, <1>5, <1>6, <1>7, <1>8

LEMMA ReadConfigToPayOK ==
  ASSUME IInv, NEW c \in Clients, ReadConfigToPay(c)
  PROVE  IInv'
<1> DEFINE multiplier == IF entity[c].joker THEN entity[c].multiplier ELSE 1
           D == DOMAIN stakes[c].winners
<1>0. PICK pool \in Pools(stakes[c].total, config.winning, multiplier) :
        \E pay \in Payouts(pool, stakes[c].winners) :
        \E order \in SetToSeqs({p \in DOMAIN pay : pay[p] > 0}) :
          /\ owed' = [owed EXCEPT ![c] =
               [i \in DOMAIN order |-> [player |-> order[i], cents |-> pay[order[i]]]]]
          /\ GoTo(c, IF order = << >> THEN "write" ELSE "lockWinner")
  BY DEF ReadConfigToPay
<1>00. PICK pay \in Payouts(pool, stakes[c].winners) :
        \E order \in SetToSeqs({p \in DOMAIN pay : pay[p] > 0}) :
          /\ owed' = [owed EXCEPT ![c] =
               [i \in DOMAIN order |-> [player |-> order[i], cents |-> pay[order[i]]]]]
          /\ GoTo(c, IF order = << >> THEN "write" ELSE "lockWinner")
  BY <1>0
<1>1. PICK order \in SetToSeqs({p \in DOMAIN pay : pay[p] > 0}) :
        /\ owed' = [owed EXCEPT ![c] =
             [i \in DOMAIN order |-> [player |-> order[i], cents |-> pay[order[i]]]]]
        /\ GoTo(c, IF order = << >> THEN "write" ELSE "lockWinner")
  BY <1>00
<1>2. /\ pc[c] = "readConfig" /\ Handler(c) \in {"finalize", "publish"}
      /\ UNCHANGED <<db, locks, call, entity, joker, stakes, held, dirty>>
      /\ pc[c] \in Steps \ {"write"} /\ pc[c] \in Steps \ {"lockRound"}
  BY DEF ReadConfigToPay, ReadingConfig, Steps
<1> DEFINE shares == [i \in DOMAIN order |-> [player |-> order[i], cents |-> pay[order[i]]]]
           s == IF order = << >> THEN "write" ELSE "lockWinner"
<1>3. /\ GoTo(c, s) /\ s \in StepsOf(Handler(c)) /\ s \in Steps
      /\ owed' = [owed EXCEPT ![c] = shares]
  BY <1>1, <1>2 DEF StepsOf, Steps
<1>4. /\ pc'[c] = s /\ entity'[c] = entity[c] /\ dirty'[c] = {} /\ owed'[c] = shares
      /\ Handler(c)' = Handler(c) /\ RoundOf(c)' = RoundOf(c) /\ stakes'[c] = stakes[c]
  BY <1>1, <1>2, <1>3, Reading DEF GoTo, Locals, Handler, RoundOf
<1>5. shares \in Seq(Share) /\ (order # << >> => shares # << >>)
  <2>1. /\ D \subseteq Players /\ D # {} /\ stakes[c].winners \in Stakes(D)
        /\ stakes[c].total \in Nat
    BY <1>2, Reading DEF MoneyOK
  <2>2. multiplier \in Nat \ {0}
    <3>1. entity[c] \in Round
      BY <1>2, Settling
    <3> QED BY <3>1 DEF Round
  <2>3. config.winning \in Nat
    BY DEF IInv, Tables, Config
  <2> HIDE DEF multiplier, D
  <2>4. pool \in Nat
    BY <2>1, <2>2, <2>3, PoolsBounded
  <2>5. IsFiniteSet(D)
    BY <2>1, FS_Subset, PlayersAssumption
  <2>6. pay \in [D -> Nat]
    BY <2>1, <2>4, <2>5, PayoutsPayThePool
  <2> QED BY <2>1, <2>6, OrderedShares
<1> HIDE DEF shares
<1>6. Locals' /\ Frame(c)
  <2> HIDE DEF s
  <2>1. Locals'
    BY <1>2, <1>3, <1>5, Reading DEF Locals, GoTo, locks
  <2>2. Frame(c)
    BY <1>2, <1>3, Reading DEF Locals, GoTo, Frame
  <2> QED BY <2>1, <2>2
<1>7. EntityOK(c)'
  <2>1. ToSave(c)'
    BY <1>4 DEF ToSave
  <2>2. ToSettle(c) /\ Running(c)
    BY <1>2, Reading DEF EntityOK
  <2>3. ToSettle(c)'
    BY <1>2, <1>4, <2>2 DEF ToSettle, db
  <2> QED BY <1>2, <1>4, <2>1, <2>3, Reading DEF EntityOK
<1>8. MoneyOK(c)'
  BY <1>2, <1>4, <1>5, Reading DEF MoneyOK
<1>9. s \notin {"readBet", "lockRound"}
  OBVIOUS
<1> HIDE DEF s
<1> QED BY <1>2, <1>3, <1>6, <1>7, <1>8, <1>9, Quiet, Reading

LEMMA LockRoundOK ==
  ASSUME IInv, NEW c \in Clients, LockRound(c)
  PROVE  IInv'
<1> DEFINE r == RoundOf(c)
           q == rounds[r]
           h == Handler(c)
<1>1. SUFFICES ASSUME q # None, Ready(c, q), TakeRound(c), Follow(c), NEW n \in Results(c, q),
                      entity' = [entity EXCEPT ![c] = [q EXCEPT !.number = n]],
                      UNCHANGED <<db, walletLock, call, joker, stakes, owed, held, dirty>>
               PROVE  IInv'
  BY RollbackOK DEF LockRound
<1> DEFINE e == [q EXCEPT !.number = n]
           s == After(h, "lockRound")
<1>2. pc[c] = "lockRound" /\ Blockers(c) = {} /\ pc[c] \in Steps \ {"write"}
  BY DEF LockRound, Steps
<1>3. h \in Lockers /\ r \in Rounds /\ q \in Round
  <2>1. h \in Lockers
    BY <1>2, Reading DEF StepsOf, Handlers, Lockers
  <2>2. r \in Rounds
    BY <1>2, <2>1, Reading, RoundIsRound DEF Lockers
  <2> QED BY <1>1, <2>1, <2>2 DEF IInv, Tables
<1>4. /\ GoTo(c, s) /\ s \in StepsOf(h) /\ s \in Steps
      /\ s \notin {"readBet", "lockRound", "lockWinner"}
      /\ s = "write" => h = "generate"
      /\ s = "readConfig" => h = "bet"
  BY <1>1, <1>2, <1>3, Reading DEF After, Steps, Lockers
<1>5. /\ pc'[c] = s /\ entity'[c] = e /\ dirty'[c] = {} /\ call'[c] = call[c]
      /\ stakes'[c] = stakes[c] /\ held'[c] = held[c]
      /\ Handler(c)' = h /\ RoundOf(c)' = r /\ rounds' = rounds
  BY <1>1, <1>2, <1>4, Reading DEF GoTo, Locals, Handler, RoundOf, db
<1>6. Running(c)' /\ PastLock(c)'
  BY <1>3, <1>4, <1>5 DEF Running, PastLock
<1>7. roundLock[r] \in {c, None} /\ roundLock' = [roundLock EXCEPT ![r] = c]
      /\ roundLock'[r] = c
  BY <1>1, <1>2, <1>3, Reading DEF Blockers, TakeRound, Locals
<1>8. /\ e \in Round
      /\ h \in {"open", "finalize"} => e = q
      /\ h \in {"generate", "finalize", "publish"} => e.number \in Numbers
      /\ e = [q EXCEPT !.number = e.number]
  <2>1. q = [q EXCEPT !.number = q.number]
    BY <1>3 DEF Round
  <2>2. /\ h \in {"generate", "publish"} => n \in Numbers
        /\ h \notin {"generate", "publish"} => n = q.number
        /\ h = "finalize" => q.number # None
    <3>1. CASE h \in {"generate", "publish"}
      <4>1. BodyFits(c, q)
        BY <1>1, <3>1 DEF Ready
      <4>2. q.mode \in {"MANUAL", "RANDOM"}
        BY <1>3 DEF Round, Modes
      <4> HIDE DEF q
      <4> QED BY <1>1, <3>1, <4>1, <4>2 DEF Results, BodyFits
    <3>2. CASE h = "finalize"
      BY <1>1, <3>2 DEF Results, Ready
    <3>3. CASE h \notin {"generate", "publish", "finalize"}
      BY <1>1, <3>3 DEF Results
    <3> QED BY <3>1, <3>2, <3>3
  <2>3. n \in Numbers \cup {None} /\ q.number \in Numbers \cup {None}
    BY <1>3, <2>2 DEF Round
  <2>4. e \in Round /\ e.number = n
    <3> HIDE DEF q
    <3> QED BY <1>3, <2>3 DEF Round
  <2> QED BY <2>1, <2>2, <2>3, <2>4
<1> HIDE DEF e, s
<1>9. Locals' /\ Frame(c)
  <2>1. roundLock' \in [Rounds -> Clients \cup {None}]
    BY <1>2, <1>7, Reading DEF Locals
  <2>2. Locals'
    BY <1>1, <1>2, <1>4, <2>1, Reading DEF Locals, GoTo
  <2>3. Frame(c)
    BY <1>1, <1>2, <1>4, Reading DEF Locals, GoTo, Frame
  <2> QED BY <2>2, <2>3
<1>10. Control(c)'
  BY <1>2, <1>4, <1>5, Reading DEF Control
<1>11. RoundHeld(c)'
  <2>1. Ready(c, q)'
    BY <1>1, <1>5 DEF Ready, BodyFits, db
  <2> QED BY <1>1, <1>5, <1>7, <2>1 DEF RoundHeld
<1>12. EntityOK(c)'
  <2>1. ToSave(c)'
    BY <1>5 DEF ToSave
  <2>2. h = "open" => ToOpen(c)'
    BY <1>4, <1>5, <1>8 DEF ToOpen, Round
  <2>3. h \in {"generate", "finalize", "publish"} => ToSettle(c)'
    BY <1>5, <1>8 DEF ToSettle
  <2>4. h = "bet" => ToBet(c)'
    BY <1>5, <1>8 DEF ToBet
  <2>5. h = "schedule" => s = "readSchedule"
    BY DEF s, After
  <2>6. h = "schedule" => ToSchedule(c)'
    BY <1>5, <1>8, <2>5 DEF ToSchedule
  <2> QED BY <1>3, <1>5, <1>8, <2>1, <2>2, <2>3, <2>4, <2>6 DEF EntityOK, Lockers
<1>13. MoneyOK(c)' /\ HeldOK(c)'
  <2>1. MoneyOK(c)'
    BY <1>2, <1>4, <1>5, Reading DEF MoneyOK
  <2>2. HeldOK(c)'
    BY <1>1, <1>2, <1>5, <1>6, Reading DEF HeldOK, db
  <2> QED BY <2>1, <2>2
<1>14. LocksKept(c) /\ RowsKept(c)
  <2>1. LocksKept(c)
    BY <1>1, <1>2, <1>7, NoneAssumption, Reading DEF LocksKept, Locals
  <2> QED BY <1>1, <2>1 DEF RowsKept, db
<1>15. Tables' /\ BalancesExplained'
  BY <1>1 DEF IInv, Tables, BalancesExplained, PaidTo, db
<1>16. \A x \in Rounds : roundLock'[x] = c => PastLock(c)' /\ RoundOf(c)' = x
  <2>1. ~PastLock(c)
    BY <1>2 DEF PastLock
  <2>2. \A x \in Rounds : roundLock[x] # c
    BY <2>1 DEF IInv, LockOwners
  <2> QED BY <1>2, <1>5, <1>6, <1>7, <2>2, Reading DEF Locals
<1> QED BY <1>9, <1>10, <1>11, <1>12, <1>13, <1>14, <1>15, <1>16, StepOf DEF Session

-----------------------------------------------------------------------------
(* Locking wallets.                                                        *)

\* a copy is taken of a wallet no one else has locked
LEMMA Taking ==
  ASSUME IInv, NEW c \in Clients, pc[c] \in {"lockWinner", "lockWallet"},
         NEW p \in Players, NEW cents \in Nat \ {0}, walletLock[p] \in {c, None},
         TakeWallet(c, p, cents), UNCHANGED <<db, roundLock, call>>,
         NEW s \in Steps, s \notin {"readBet", "lockRound"}, GoTo(c, s), s \in StepsOf(Handler(c))
  PROVE  /\ walletLock' \in [Players -> Clients \cup {None}]
         /\ held' \in [Clients -> [Players -> Copy \cup {None}]]
         /\ held'[c][p] = [main |-> accounts[p].main, temp |-> accounts[p].temp,
                           cents |-> cents]
         /\ \A d \in Clients \ {c} : held'[d] = held[d]
         /\ LocksKept(c) /\ RowsKept(c) /\ Control(c)' /\ RoundHeld(c)' /\ HeldOK(c)'
         /\ Tables' /\ BalancesExplained'
         /\ \A r \in Rounds : roundLock'[r] = c => PastLock(c)' /\ RoundOf(c)' = r
<1> DEFINE copy == [main |-> accounts[p].main, temp |-> accounts[p].temp, cents |-> cents]
<1>1. pc[c] \in Steps \ {"write"} /\ pc[c] \notin {"readBet", "lockRound"}
  BY DEF Steps
<1>2. copy \in Copy
  BY DEF IInv, Tables, Account, Copy
<1>3. /\ walletLock' = [walletLock EXCEPT ![p] = c]
      /\ held' = [held EXCEPT ![c][p] = copy]
  BY DEF TakeWallet
<1> HIDE DEF copy
<1>4. /\ walletLock' \in [Players -> Clients \cup {None}]
      /\ held' \in [Clients -> [Players -> Copy \cup {None}]]
      /\ walletLock'[p] = c
      /\ held'[c][p] = copy
      /\ \A o \in Players \ {p} : held'[c][o] = held[c][o] /\ walletLock'[o] = walletLock[o]
      /\ \A d \in Clients \ {c} : held'[d] = held[d]
  BY <1>2, <1>3 DEF IInv, Locals
<1>5. /\ pc'[c] = s /\ Running(c)' /\ call'[c] = call[c]
      /\ Handler(c)' = Handler(c) /\ RoundOf(c)' = RoundOf(c)
      /\ PastLock(c)' <=> PastLock(c)
  BY <1>1, Reading DEF GoTo, Locals, Running, Handler, RoundOf, PastLock
<1>6. LocksKept(c) /\ RowsKept(c)
  BY <1>4, NoneAssumption DEF LocksKept, RowsKept, db
<1>7. Control(c)' /\ RoundHeld(c)'
  <2>1. Control(c)'
    BY <1>1, <1>5, Reading DEF Control
  <2>2. Ready(c, rounds[RoundOf(c)])' <=> Ready(c, rounds[RoundOf(c)])
    BY <1>5 DEF Ready, BodyFits, db
  <2>3. RoundHeld(c)'
    BY <1>1, <1>5, <2>2, Reading DEF RoundHeld, db
  <2> QED BY <2>1, <2>3
<1>8. HeldOK(c)'
  <2> SUFFICES ASSUME NEW o \in Players, held'[c][o] # None
               PROVE  /\ Running(c)' /\ walletLock'[o] = c
                      /\ held'[c][o].main = accounts'[o].main
                      /\ held'[c][o].temp = accounts'[o].temp
    BY DEF HeldOK
  <2>1. accounts' = accounts
    BY DEF db
  <2>2. CASE o = p
    BY <1>4, <1>5, <2>1, <2>2 DEF copy
  <2>3. CASE o # p
    BY <1>1, <1>4, <1>5, <2>1, <2>3, Reading DEF HeldOK
  <2> QED BY <2>2, <2>3
<1>9. Tables' /\ BalancesExplained'
  <2>1. /\ config' = config /\ rounds' = rounds /\ due' = due /\ schedules' = schedules
        /\ bets' = bets /\ accounts' = accounts /\ credits' = credits /\ audit' = audit
    BY DEF db
  <2>2. Tables'
    BY <2>1 DEF IInv, Tables
  <2>3. BalancesExplained'
    BY <2>1 DEF IInv, BalancesExplained, PaidTo
  <2> QED BY <2>2, <2>3
<1>10. \A r \in Rounds : roundLock'[r] = c => PastLock(c)' /\ RoundOf(c)' = r
  BY <1>5 DEF IInv, LockOwners
<1> QED BY <1>4, <1>6, <1>7, <1>8, <1>9, <1>10 DEF copy

LEMMA LockWalletOK ==
  ASSUME IInv, NEW c \in Clients, LockWallet(c)
  PROVE  IInv'
<1> DEFINE p == call[c].player
           cents == call[c].amount
<1>1. SUFFICES ASSUME CanBet(accounts[p], cents), TakeWallet(c, p, cents), Follow(c),
                      UNCHANGED <<db, roundLock, call, entity, joker, stakes, owed, dirty>>
               PROVE  IInv'
  BY RollbackOK DEF LockWallet
<1>2. pc[c] = "lockWallet" /\ Blockers(c) = {} /\ pc[c] \in Steps \ {"write"}
  BY DEF LockWallet, Steps
<1>3. Handler(c) = "bet"
  BY <1>2, Reading DEF StepsOf, Handlers
<1>4. p \in Players /\ cents \in Nat \ {0}
  BY <1>2, <1>3, Reading DEF Control, IsCall, Admissible, Handler
<1>5. GoTo(c, "write") /\ "write" \in StepsOf(Handler(c)) /\ "write" \in Steps
  BY <1>1, <1>2, <1>3, Reading DEF After, StepsOf, Steps
<1>6. walletLock[p] \in {c, None}
  BY <1>2 DEF Blockers
<1> HIDE DEF p, cents
<1>7. /\ walletLock' \in [Players -> Clients \cup {None}]
      /\ held' \in [Clients -> [Players -> Copy \cup {None}]]
      /\ held'[c][p] = [main |-> accounts[p].main, temp |-> accounts[p].temp,
                        cents |-> cents]
      /\ \A d \in Clients \ {c} : held'[d] = held[d]
      /\ LocksKept(c) /\ RowsKept(c) /\ Control(c)' /\ RoundHeld(c)' /\ HeldOK(c)'
      /\ Tables' /\ BalancesExplained'
      /\ \A r \in Rounds : roundLock'[r] = c => PastLock(c)' /\ RoundOf(c)' = r
  <2>1. pc[c] \in {"lockWinner", "lockWallet"} /\ "write" \notin {"readBet", "lockRound"}
    BY <1>2
  <2> QED BY <1>1, <1>4, <1>5, <1>6, <2>1, Taking
<1>8. Locals'
  BY <1>1, <1>2, <1>5, <1>7, Reading DEF Locals, GoTo
<1>9. Frame(c)
  BY <1>1, <1>2, <1>5, <1>7, Reading DEF Locals, GoTo, Frame
<1>10. /\ pc'[c] = "write" /\ entity'[c] = entity[c] /\ dirty'[c] = {}
       /\ call'[c] = call[c] /\ Handler(c)' = "bet" /\ stakes'[c] = stakes[c]
  BY <1>1, <1>2, <1>3, <1>5, Reading DEF GoTo, Locals, Handler
<1>11. EntityOK(c)'
  <2>1. ToSave(c)'
    BY <1>10 DEF ToSave
  <2>2. ToBet(c)'
    BY <1>2, <1>3, <1>10, Reading DEF EntityOK, ToBet
  <2> QED BY <1>2, <1>10, <2>1, <2>2, Reading DEF EntityOK
<1>12. MoneyOK(c)'
  <2>1. held'[c][p] # None /\ held'[c][p].cents = cents /\ CanBet(held'[c][p], cents)
    <3>1. held'[c][p] \in [main : Nat, temp : Nat, cents : Nat]
      BY <1>4, <1>7 DEF IInv, Tables, Account
    <3> QED BY <1>1, <1>7, <3>1, NoneAssumption DEF CanBet
  <2> QED BY <1>2, <1>10, <2>1, Reading DEF MoneyOK, p, cents
<1> QED BY <1>7, <1>8, <1>9, <1>11, <1>12, StepOf DEF Session

LEMMA LockWinnerOK ==
  ASSUME IInv, NEW c \in Clients, LockWinner(c)
  PROVE  IInv'
<1> DEFINE w == Head(owed[c])
           s == IF Len(owed[c]) = 1 THEN "write" ELSE "lockWinner"
<1>1. SUFFICES ASSUME TakeWallet(c, w.player, w.cents),
                      owed' = [owed EXCEPT ![c] = Tail(@)], GoTo(c, s),
                      UNCHANGED <<db, roundLock, call, entity, joker, stakes, dirty>>
               PROVE  IInv'
  BY RollbackOK DEF LockWinner
<1>2. pc[c] = "lockWinner" /\ Blockers(c) = {} /\ pc[c] \in Steps \ {"write"}
  BY DEF LockWinner, Steps
<1>3. Handler(c) \in {"finalize", "publish"}
  BY <1>2, Reading DEF StepsOf, Handlers
<1>4. owed[c] \in Seq(Share) /\ owed[c] # << >>
  BY <1>2, Reading DEF Locals, MoneyOK
<1>5. w \in Share /\ Tail(owed[c]) \in Seq(Share)
  BY <1>4
<1>6. w.player \in Players /\ w.cents \in Nat \ {0}
  BY <1>5 DEF Share
<1>7. s \in StepsOf(Handler(c)) /\ s \in Steps /\ s \notin {"readBet", "lockRound"}
  BY <1>3 DEF StepsOf, Steps
<1>8. s = "lockWinner" => Tail(owed[c]) # << >>
  <2> DEFINE o == owed[c]
  <2>1. o \in Seq(Share) /\ o # << >>
    BY <1>4
  <2> HIDE DEF o
  <2>2. Len(o) \in Nat \ {0} /\ Len(Tail(o)) = Len(o) - 1
    BY <2>1
  <2>3. ASSUME NEW t, t = << >> PROVE Len(t) = 0
    BY <2>3
  <2>4. s = "lockWinner" => Len(o) # 1
    BY DEF o
  <2>5. s = "lockWinner" => Tail(o) # << >>
    BY <2>2, <2>3, <2>4
  <2> QED BY <2>5 DEF o
<1>9. walletLock[w.player] \in {c, None}
  BY <1>2 DEF Blockers
<1>10. owed' = [owed EXCEPT ![c] = Tail(owed[c])]
  BY <1>1
<1> HIDE DEF w, s
<1>11. /\ walletLock' \in [Players -> Clients \cup {None}]
       /\ held' \in [Clients -> [Players -> Copy \cup {None}]]
       /\ \A d \in Clients \ {c} : held'[d] = held[d]
       /\ LocksKept(c) /\ RowsKept(c) /\ Control(c)' /\ RoundHeld(c)' /\ HeldOK(c)'
       /\ Tables' /\ BalancesExplained'
       /\ \A r \in Rounds : roundLock'[r] = c => PastLock(c)' /\ RoundOf(c)' = r
  <2>1. pc[c] \in {"lockWinner", "lockWallet"}
    BY <1>2
  <2> QED BY <1>1, <1>6, <1>7, <1>9, <2>1, Taking
<1>12. Locals'
  <2>1. owed' \in [Clients -> Seq(Share)]
    BY <1>2, <1>5, <1>10, Reading DEF Locals
  <2> QED BY <1>1, <1>2, <1>7, <1>11, <2>1, Reading DEF Locals, GoTo
<1>13. Frame(c)
  BY <1>1, <1>2, <1>7, <1>10, <1>11, Reading DEF Locals, GoTo, Frame
<1>14. /\ pc'[c] = s /\ entity'[c] = entity[c] /\ dirty'[c] = {}
       /\ Handler(c)' = Handler(c) /\ RoundOf(c)' = RoundOf(c)
       /\ stakes'[c] = stakes[c] /\ owed'[c] = Tail(owed[c])
  BY <1>1, <1>2, <1>10, Reading DEF GoTo, Locals, Handler, RoundOf
<1>15. EntityOK(c)'
  <2>1. ToSave(c)'
    BY <1>14 DEF ToSave
  <2>2. ToSettle(c) /\ Running(c)
    BY <1>2, <1>3, Reading DEF EntityOK
  <2>3. ToSettle(c)'
    BY <1>1, <1>2, <1>14, <2>2 DEF ToSettle, db
  <2> QED BY <1>2, <1>3, <1>14, <2>1, <2>3, Reading DEF EntityOK
<1>16. MoneyOK(c)'
  <2>1. s # "readConfig"
    BY DEF s
  <2> QED BY <1>2, <1>3, <1>8, <1>14, <2>1, Reading DEF MoneyOK
<1> QED BY <1>11, <1>12, <1>13, <1>15, <1>16, StepOf DEF Session

-----------------------------------------------------------------------------
(* The writes.                                                             *)

\* what a client that writes has in hand
LEMMA Writer ==
  ASSUME IInv, NEW c \in Clients, NEW hs, Writing(c, hs)
  PROVE  /\ Locals /\ Running(c) /\ Control(c) /\ RoundHeld(c)
         /\ EntityOK(c) /\ MoneyOK(c) /\ HeldOK(c)
         /\ pc[c] = "write" /\ Handler(c) \in hs /\ Blockers(c) = {}
         /\ Handler(c) \notin {"configure", "create"} => RoundOf(c) \in Rounds
BY RoundIsRound DEF IInv, Session, Writing, Running, Steps

\* the others' rows are kept if no one else has locked the round that is written
\* and the wallets are written by the client that has locked them
LEMMA WriteOK ==
  ASSUME IInv, NEW c \in Clients, End(c, "done"), Tables', BalancesExplained', RowsKept(c)
  PROVE  IInv'
<1>1. "done" \in Ended
  BY DEF Ended
<1>2. /\ Locals' /\ Frame(c) /\ LocksKept(c) /\ Session(c)'
      /\ \A r \in Rounds : roundLock'[r] # c
  BY <1>1, EndKeeps DEF IInv
<1> QED BY <1>2, StepOf

\* a round is written that no one else has locked
LEMMA RoundWritten ==
  ASSUME IInv, NEW c \in Clients, End(c, "done"), NEW r \in Rounds, NEW q \in Round,
         SaveRound(r, q), roundLock[r] \in {c, None},
         UNCHANGED <<config, due, schedules, bets>>,
         audit' \in [Rounds -> Seq(Entry)], credits' \in [Rounds -> Seq(Payment)],
         accounts' \in [Players -> Account], BalancesExplained',
         \A p \in Players, d \in Clients \ {c} : walletLock[p] = d => accounts'[p] = accounts[p]
  PROVE  IInv'
<1>1. rounds' \in [Rounds -> Round \cup {None}] /\ q # None
      /\ \A x \in Rounds : rounds'[x] = IF x = r THEN q ELSE rounds[x]
  BY NoneAssumption DEF SaveRound, IInv, Tables
<1>2. Tables'
  BY <1>1 DEF IInv, Tables
<1>3. RowsKept(c)
  BY <1>1, NoneAssumption DEF RowsKept
<1> QED BY <1>2, <1>3, WriteOK

LEMMA RowsTyped ==
  /\ IInv => credits \in [Rounds -> Seq(Payment)] /\ audit \in [Rounds -> Seq(Entry)]
             /\ accounts \in [Players -> Account] /\ BalancesExplained
BY DEF IInv, Tables

LEMMA MergedRound ==
  ASSUME NEW q \in Round, NEW e \in Round, NEW S
  PROVE  [f \in DOMAIN q |-> IF f \in S THEN e[f] ELSE q[f]] \in Round
BY DEF Round

LEMMA MergedSchedule ==
  ASSUME NEW q \in Schedule, NEW e \in Schedule, NEW S
  PROVE  [f \in DOMAIN q |-> IF f \in S THEN e[f] ELSE q[f]] \in Schedule
BY DEF Schedule

LEMMA MergedConfig ==
  ASSUME NEW cfg \in Config, NEW e, Fits(e), NEW S, S \subseteq DOMAIN e,
         \A f \in S : e[f] # Undefined
  PROVE  [f \in DOMAIN cfg |-> IF f \in S THEN e[f] ELSE cfg[f]] \in Config
<1> DEFINE m == [f \in DOMAIN cfg |-> IF f \in S THEN e[f] ELSE cfg[f]]
<1>1. DOMAIN cfg = Columns /\ \A f \in Columns : cfg[f] \in Column(f)
  BY DEF Config, Columns, Column
<1>2. DOMAIN m = Columns /\ \A f \in Columns : m[f] \in Column(f)
  BY <1>1 DEF Fits
<1> DEFINE row == [mode |-> m.mode, minBet |-> m.minBet, maxBet |-> m.maxBet,
                   denominations |-> m.denominations, joker |-> m.joker,
                   multiplier |-> m.multiplier, frequency |-> m.frequency,
                   house |-> m.house, winning |-> m.winning]
<1>3. m = [f \in Columns |-> m[f]]
  BY <1>2
<1> HIDE DEF m
<1>4. m = row
  BY <1>3 DEF Columns
<1>5. row \in Config
  BY <1>2 DEF Config, Columns, Column
<1> QED BY <1>4, <1>5 DEF m

LEMMA ConfigWriteOK ==
  ASSUME IInv, NEW c \in Clients, ConfigWrite(c)
  PROVE  IInv'
<1>1. SUFFICES ASSUME Checked(Merged(c)), config' = Merged(c), End(c, "done"),
                      UNCHANGED <<rounds, due, schedules, bets, accounts, credits, audit>>
               PROVE  IInv'
  BY RollbackOK DEF ConfigWrite
<1>2. Writing(c, {"configure"})
  BY DEF ConfigWrite
<1>3. /\ Handler(c) = "configure" /\ pc[c] = "write" /\ ToConfigure(c) /\ ToSave(c)
  BY <1>2, Writer DEF EntityOK
<1>4. Fits(entity[c]) /\ dirty[c] \subseteq DOMAIN entity[c]
      /\ \A f \in dirty[c] : entity[c][f] # Undefined
  BY <1>3 DEF ToConfigure, ToSave
<1>5. Merged(c) = [f \in DOMAIN config |-> IF f \in dirty[c] THEN entity[c][f] ELSE config[f]]
  BY <1>3 DEF Merged, Stored
<1>6. config \in Config
  BY DEF IInv, Tables
<1>7. config' \in Config
  BY <1>1, <1>4, <1>5, <1>6, MergedConfig
<1>8. Tables'
  BY <1>1, <1>7 DEF IInv, Tables
<1>9. BalancesExplained' /\ RowsKept(c)
  BY <1>1 DEF IInv, BalancesExplained, PaidTo, RowsKept
<1> QED BY <1>1, <1>8, <1>9, WriteOK

LEMMA CreateWriteOK ==
  ASSUME IInv, NEW c \in Clients, CreateWrite(c)
  PROVE  IInv'
<1>1. PICK r \in Rounds : rounds[r] = None /\ SaveRound(r, entity[c])
  BY DEF CreateWrite
<1>2. /\ Writing(c, {"create"}) /\ End(c, "done")
      /\ UNCHANGED <<config, due, schedules, bets, accounts, credits, audit>>
  BY DEF CreateWrite
<1>3. entity[c] \in Round
  BY <1>2, Writer DEF EntityOK, ToCreate
<1>4. roundLock[r] \in {c, None}
  <2> SUFFICES ASSUME roundLock[r] \in Clients PROVE FALSE
    BY DEF IInv, Locals
  <2> DEFINE d == roundLock[r]
  <2>1. PastLock(d) /\ RoundOf(d) = r /\ Session(d)
    BY DEF IInv, LockOwners
  <2> QED BY <1>1, <2>1 DEF Session, RoundHeld
<1>5. BalancesExplained'
  BY <1>2 DEF IInv, BalancesExplained, PaidTo
<1> QED BY <1>1, <1>2, <1>3, <1>4, <1>5, RoundWritten, RowsTyped

\* the handlers that write the round they have locked
LEMMA OpenWriteOK ==
  ASSUME IInv, NEW c \in Clients, OpenWrite(c)
  PROVE  IInv'
<1>1. /\ Writing(c, {"open"}) /\ End(c, "done") /\ SaveRound(RoundOf(c), entity[c])
      /\ UNCHANGED <<config, due, schedules, bets, accounts, credits, audit>>
  BY DEF OpenWrite
<1>2. RoundOf(c) \in Rounds /\ PastLock(c)
  BY <1>1, Writer DEF PastLock, Lockers
<1>3. rounds[RoundOf(c)] \in Round /\ roundLock[RoundOf(c)] = c
  BY <1>1, <1>2, Writer DEF RoundHeld, IInv, Tables
<1>4. entity[c] \in Round
  <2> DEFINE q == rounds[RoundOf(c)]
             j == entity[c].joker
             m == entity[c].multiplier
             e == [q EXCEPT !.status = "OPEN", !.joker = j, !.multiplier = m]
  <2>1. j \in BOOLEAN /\ m \in Nat \ {0} /\ entity[c] = e
    <3>1. ToOpen(c) /\ pc[c] = "write"
      BY <1>1, Writer DEF EntityOK
    <3>2. "write" # "lockRound"
      OBVIOUS
    <3> QED BY <3>1, <3>2 DEF ToOpen
  <2>2. e \in Round
    <3> HIDE DEF q, j, m
    <3>1. q \in Round
      BY <1>3 DEF q
    <3> QED BY <2>1, <3>1 DEF Round, Statuses
  <2> QED BY <2>1, <2>2
<1>5. BalancesExplained'
  BY <1>1 DEF IInv, BalancesExplained, PaidTo
<1> QED BY <1>1, <1>2, <1>3, <1>4, <1>5, RoundWritten, RowsTyped

\* the update of a round that another has locked waits for it
LEMMA CloseWriteOK ==
  ASSUME IInv, NEW c \in Clients, CloseWrite(c)
  PROVE  IInv'
<1> DEFINE q == rounds[RoundOf(c)]
<1>1. /\ Writing(c, {"close"}) /\ End(c, "done") /\ SaveRound(RoundOf(c), Merged(c))
      /\ UNCHANGED <<config, due, schedules, bets, accounts, credits, audit>>
  BY DEF CloseWrite
<1>2. /\ RoundOf(c) \in Rounds /\ pc[c] = "write" /\ Handler(c) = "close"
      /\ Blockers(c) = {} /\ ToClose(c)
  BY <1>1, Writer DEF EntityOK
<1>3. roundLock[RoundOf(c)] \in {c, None}
  BY <1>2 DEF Blockers
<1>4. entity[c] \in Round /\ q \in Round
  BY <1>2 DEF ToClose, IInv, Tables
<1>5. Merged(c) = [f \in DOMAIN q |-> IF f \in dirty[c] THEN entity[c][f] ELSE q[f]]
  BY <1>2 DEF Merged, Stored
<1>6. Merged(c) \in Round
  <2> HIDE DEF q
  <2> QED BY <1>4, <1>5, MergedRound
<1>7. BalancesExplained'
  BY <1>1 DEF IInv, BalancesExplained, PaidTo
<1> QED BY <1>1, <1>2, <1>3, <1>6, <1>7, RoundWritten, RowsTyped

LEMMA AuditTyped ==
  ASSUME IInv, NEW r \in Rounds, NEW steps \in Seq({"GENERATED", "FINALIZED"}),
         NEW n \in Numbers, Audited(r, steps, n)
  PROVE  audit' \in [Rounds -> Seq(Entry)]
<1> DEFINE more == [i \in DOMAIN steps |-> [action |-> steps[i], number |-> n]]
<1>1. more \in Seq(Entry)
  <2>1. Len(steps) \in Nat /\ DOMAIN steps = 1..Len(steps)
        /\ \A i \in 1..Len(steps) : steps[i] \in {"GENERATED", "FINALIZED"}
    OBVIOUS
  <2>2. more \in [1..Len(steps) -> Entry]
    BY <2>1 DEF Entry
  <2> QED BY <2>1, <2>2
<1>2. audit \in [Rounds -> Seq(Entry)] /\ audit' = [audit EXCEPT ![r] = @ \o more]
  BY DEF Audited, IInv, Tables
<1> HIDE DEF more
<1>3. audit[r] \o more \in Seq(Entry)
  BY <1>1, <1>2
<1> QED BY <1>2, <1>3

LEMMA GenerateWriteOK ==
  ASSUME IInv, NEW c \in Clients, GenerateWrite(c)
  PROVE  IInv'
<1>1. /\ Writing(c, {"generate"}) /\ End(c, "done") /\ SaveRound(RoundOf(c), entity[c])
      /\ Audited(RoundOf(c), <<"GENERATED">>, entity[c].number)
      /\ UNCHANGED <<config, due, schedules, bets, accounts, credits>>
  BY DEF GenerateWrite
<1>2. Handler(c) = "generate" /\ pc[c] \in Steps \ {"lockRound"}
  BY <1>1, Writer DEF Steps
<1>3. /\ RoundOf(c) \in Rounds /\ roundLock[RoundOf(c)] = c
      /\ entity[c] \in Round /\ entity[c].number \in Numbers
  BY <1>2, Settling
<1>4. <<"GENERATED">> \in Seq({"GENERATED", "FINALIZED"})
  OBVIOUS
<1>5. audit' \in [Rounds -> Seq(Entry)]
  BY <1>1, <1>3, <1>4, AuditTyped
<1>6. BalancesExplained'
  BY <1>1 DEF IInv, BalancesExplained, PaidTo
<1> QED BY <1>1, <1>3, <1>5, <1>6, RoundWritten, RowsTyped

LEMMA ScheduleWritten ==
  ASSUME IInv, NEW c \in Clients, End(c, "done"), NEW r \in Rounds, NEW p \in Schedule,
         schedules' = [schedules EXCEPT ![r] = p],
         UNCHANGED <<config, rounds, due, bets, accounts, credits, audit>>
  PROVE  IInv'
<1>1. Tables'
  BY DEF IInv, Tables
<1>2. RowsKept(c)
  BY NoneAssumption DEF RowsKept, IInv, Tables
<1>3. BalancesExplained'
  BY DEF IInv, BalancesExplained, PaidTo
<1> QED BY <1>1, <1>2, <1>3, WriteOK

LEMMA ScheduleWritesOK ==
  ASSUME IInv, NEW c \in Clients, ScheduleWrite(c) \/ CancelWrite(c)
  PROVE  IInv'
<1> DEFINE p == schedules[RoundOf(c)]
           merged == [f \in DOMAIN p |-> IF f \in dirty[c] THEN entity[c][f] ELSE p[f]]
           new == IF Handler(c) = "schedule" /\ p = None THEN entity[c] ELSE merged
<1>1. /\ Writing(c, {"schedule", "cancel"}) /\ End(c, "done")
      /\ UNCHANGED <<config, rounds, due, bets, accounts, credits, audit>>
      /\ \/ /\ Handler(c) = "schedule"
            /\ schedules' = [schedules EXCEPT ![RoundOf(c)] =
                 IF @ = None THEN entity[c] ELSE Merged(c)]
         \/ /\ Handler(c) = "cancel"
            /\ schedules' = [schedules EXCEPT ![RoundOf(c)] = Merged(c)]
  BY DEF ScheduleWrite, CancelWrite, Writing
<1>2. /\ Handler(c) \in {"schedule", "cancel"} /\ RoundOf(c) \in Rounds
      /\ pc[c] = "write" /\ ToSave(c)
      /\ Handler(c) = "schedule" => ToSchedule(c)
      /\ Handler(c) = "cancel" => ToCancel(c)
  BY <1>1, Writer DEF EntityOK
<1>3. entity[c] \in Schedule /\ (Handler(c) = "cancel" => p # None)
  BY <1>2 DEF ToSchedule, ToCancel
<1>4. p \in Schedule \cup {None}
  BY <1>2 DEF IInv, Tables
<1>5. Merged(c) = merged
  BY <1>2 DEF Merged, Stored
<1>6. p # None => merged \in Schedule
  <2> HIDE DEF p
  <2> QED BY <1>3, <1>4, MergedSchedule
<1> HIDE DEF merged
<1>7. schedules' = [schedules EXCEPT ![RoundOf(c)] = new] /\ new \in Schedule
  BY <1>1, <1>2, <1>3, <1>5, <1>6
<1> HIDE DEF new
<1> QED BY <1>1, <1>2, <1>7, ScheduleWritten

\* A payout credits the wallets it has locked, as they were when it locked them.
LEMMA SettleWriteOK ==
  ASSUME IInv, NEW c \in Clients, SettleWrite(c)
  PROVE  IInv'
<1> DEFINE r == RoundOf(c)
           paid == {p \in Players : held[c][p] # None}
           pay == [p \in paid |-> held[c][p].cents]
           e == [entity[c] EXCEPT !.status = "COMPLETED", !.finalized = TRUE]
           steps == IF Handler(c) = "publish" THEN <<"GENERATED", "FINALIZED">>
                                              ELSE <<"FINALIZED">>
<1>1. /\ Writing(c, {"finalize", "publish"}) /\ End(c, "done") /\ SaveRound(r, e)
      /\ Audited(r, steps, entity[c].number)
      /\ accounts' = [p \in Players |->
           IF p \in paid THEN [main |-> held[c][p].main,
                               temp |-> held[c][p].temp + held[c][p].cents]
                         ELSE accounts[p]]
      /\ credits' = [credits EXCEPT ![r] = IF paid = {} THEN @ ELSE Append(@, pay)]
      /\ UNCHANGED <<config, due, schedules, bets>>
  BY DEF SettleWrite
<1>2. Handler(c) \in {"finalize", "publish"} /\ pc[c] \in Steps \ {"lockRound"}
  BY <1>1, Writer DEF Steps
<1>3. /\ r \in Rounds /\ roundLock[r] = c
      /\ entity[c] \in Round /\ entity[c].number \in Numbers
  BY <1>2, Settling
<1>4. e \in Round
  BY <1>3 DEF Round, Statuses
<1>5. audit' \in [Rounds -> Seq(Entry)]
  <2>1. steps \in Seq({"GENERATED", "FINALIZED"})
    <3>1. <<"GENERATED", "FINALIZED">> \in Seq({"GENERATED", "FINALIZED"})
      OBVIOUS
    <3>2. <<"FINALIZED">> \in Seq({"GENERATED", "FINALIZED"})
      OBVIOUS
    <3> QED BY <3>1, <3>2
  <2> HIDE DEF steps, r
  <2> QED BY <1>1, <1>3, <2>1, AuditTyped
<1>6. \A p \in paid : /\ held[c][p] \in Copy
                      /\ walletLock[p] = c
                      /\ held[c][p].main = accounts[p].main
                      /\ held[c][p].temp = accounts[p].temp
  <2>1. Locals /\ HeldOK(c)
    BY <1>1, Writer
  <2> QED BY <2>1 DEF HeldOK, Locals
<1>7. accounts' \in [Players -> Account]
  <2>1. \A p \in paid : /\ held[c][p].main \in Nat
                        /\ held[c][p].temp + held[c][p].cents \in Nat
    BY <1>6 DEF Copy
  <2>2. accounts \in [Players -> Account]
    BY RowsTyped
  <2> HIDE DEF paid
  <2> QED BY <1>1, <2>1, <2>2 DEF Account
<1>8. pay \in Payment
  <2>1. \A p \in paid : pay[p] \in Nat \ {0}
    BY <1>6 DEF Copy
  <2>2. pay \in [paid -> Nat \ {0}] /\ paid \in SUBSET Players
    BY <2>1
  <2> QED BY <2>2 DEF Payment
<1>9. credits' \in [Rounds -> Seq(Payment)]
  <2> HIDE DEF pay, paid, r
  <2> QED BY <1>1, <1>3, <1>8, RowsTyped
<1>10. \A p \in Players, d \in Clients \ {c} : walletLock[p] = d => accounts'[p] = accounts[p]
  BY <1>1, <1>6
<1>11. BalancesExplained'
  <2> SUFFICES ASSUME NEW p \in Players
               PROVE  accounts'[p].main + accounts'[p].temp + Spent(bets', p)
                        = Opening[p] + PaidTo(p)'
    BY DEF BalancesExplained
  <2> DEFINE more == IF p \in paid THEN held[c][p].cents ELSE 0
  <2>1. PaidTo(p)' = PaidTo(p) + more
    <3>1. CASE paid = {}
      <4>1. credits' = credits
        <5> HIDE DEF paid, r
        <5> QED BY <1>1, <1>3, <3>1, RowsTyped
      <4>2. PaidTo(p)' = PaidTo(p)
        BY <4>1 DEF PaidTo
      <4>3. PaidTo(p) \in Int
        BY RowsTyped, PaidToType
      <4> QED BY <3>1, <4>2, <4>3
    <3>2. CASE paid # {}
      <4>1. credits' = [credits EXCEPT ![r] = Append(@, pay)]
        BY <1>1, <3>2
      <4>2. more = IF p \in DOMAIN pay THEN pay[p] ELSE 0
        OBVIOUS
      <4> HIDE DEF pay, r, more, paid
      <4>3. PaidTo(p)' = PaidTo(p) + IF p \in DOMAIN pay THEN pay[p] ELSE 0
        BY <1>3, <1>8, <4>1, PaidToMore, RowsTyped
      <4> QED BY <4>2, <4>3
    <3> QED BY <3>1, <3>2
  <2>2. accounts'[p].main + accounts'[p].temp = accounts[p].main + accounts[p].temp + more
    <3>1. CASE p \in paid
      <4>1. accounts'[p] = [main |-> held[c][p].main, temp |-> held[c][p].temp + held[c][p].cents]
        BY <1>1, <3>1
      <4>2. held[c][p].cents \in Nat /\ accounts[p].main \in Nat /\ accounts[p].temp \in Nat
        BY <1>6, <3>1, RowsTyped DEF Copy, Account
      <4> HIDE DEF paid
      <4> QED BY <1>6, <3>1, <4>1, <4>2
    <3>2. CASE p \notin paid
      <4>1. accounts'[p] = accounts[p]
        BY <1>1, <3>2
      <4>2. accounts[p].main \in Nat /\ accounts[p].temp \in Nat
        BY RowsTyped DEF Account
      <4> HIDE DEF paid
      <4> QED BY <3>2, <4>1, <4>2
    <3> QED BY <3>1, <3>2
  <2>3. more \in Nat
    BY <1>6 DEF Copy
  <2>4. accounts[p].main + accounts[p].temp + Spent(bets, p) = Opening[p] + PaidTo(p)
    BY RowsTyped DEF BalancesExplained
  <2>5. Spent(bets, p) \in Nat /\ bets' = bets /\ Opening[p] \in Nat
    BY <1>1, SpentType, DatabaseAssumption DEF IInv, Tables
  <2>6. /\ accounts[p].main \in Nat /\ accounts[p].temp \in Nat
        /\ accounts'[p].main \in Nat /\ accounts'[p].temp \in Nat
    BY <1>7, RowsTyped DEF Account
  <2>7. PaidTo(p) \in Int
    BY RowsTyped, PaidToType
  <2> DEFINE a == accounts[p].main + accounts[p].temp
             b == accounts'[p].main + accounts'[p].temp
             spent == Spent(bets, p)
             o == Opening[p]
             x == PaidTo(p)
  <2>8. /\ a \in Int /\ spent \in Int /\ o \in Int /\ x \in Int
        /\ b = a + more /\ a + spent = o + x /\ PaidTo(p)' = x + more
    BY <2>1, <2>2, <2>4, <2>5, <2>6, <2>7
  <2> HIDE DEF more, a, spent, o, x
  <2>9. b + spent = o + PaidTo(p)'
    BY <2>3, <2>8
  <2> QED BY <2>5, <2>9 DEF spent, o
<1> HIDE DEF e, r
<1> QED BY <1>1, <1>3, <1>4, <1>5, <1>7, <1>9, <1>10, <1>11, RoundWritten

\* a bet is written together with the wallet that paid for it
LEMMA BetWritten ==
  ASSUME IInv, NEW c \in Clients, End(c, "done"),
         NEW p \in Players, NEW k \in Keys, NEW b \in Bet, NEW next \in Account,
         bets[p][k] = None, walletLock[p] = c,
         next.main + next.temp = accounts[p].main + accounts[p].temp - b.amount,
         accounts' = [accounts EXCEPT ![p] = next],
         bets' = [bets EXCEPT ![p][k] = b],
         UNCHANGED <<config, rounds, due, schedules, credits, audit>>
  PROVE  IInv'
<1>1. /\ bets \in [Players -> [Keys -> Bet \cup {None}]]
      /\ accounts \in [Players -> Account] /\ BalancesExplained
  BY DEF IInv, Tables
<1>2. /\ bets' \in [Players -> [Keys -> Bet \cup {None}]]
      /\ accounts' \in [Players -> Account]
      /\ bets'[p][k] = b /\ b # None /\ accounts'[p] = next
      /\ \A j \in Keys \ {k} : bets'[p][j] = bets[p][j]
      /\ \A o \in Players \ {p} : bets'[o] = bets[o] /\ accounts'[o] = accounts[o]
  BY <1>1, NoneAssumption
<1>3. Tables'
  BY <1>2 DEF IInv, Tables
<1>4. RowsKept(c)
  BY <1>2 DEF RowsKept
<1>5. BalancesExplained'
  <2> SUFFICES ASSUME NEW o \in Players
               PROVE  accounts'[o].main + accounts'[o].temp + Spent(bets', o)
                        = Opening[o] + PaidTo(o)'
    BY DEF BalancesExplained
  <2>1. /\ accounts[o].main + accounts[o].temp + Spent(bets, o) = Opening[o] + PaidTo(o)
        /\ PaidTo(o)' = PaidTo(o)
    BY <1>1 DEF BalancesExplained, PaidTo
  <2>2. CASE o = p
    <3>1. Spent(bets', p) = Spent(bets, p) + b.amount
      <4>1. bets'[p][k] # None /\ bets'[p][k].amount = b.amount
        BY <1>2
      <4>2. Spent(bets', p) = Spent(bets, p) + bets'[p][k].amount
        BY <1>1, <1>2, <4>1, SpentMore, Zenon
      <4> QED BY <4>1, <4>2
    <3>2. Spent(bets, p) \in Nat /\ b.amount \in Nat
      BY <1>1, SpentType DEF Bet
    <3>3. accounts[p].main \in Nat /\ accounts[p].temp \in Nat
          /\ next.main \in Nat /\ next.temp \in Nat
      BY <1>1 DEF Account
    <3>4. next.main + next.temp + Spent(bets', p)
            = accounts[p].main + accounts[p].temp + Spent(bets, p)
      BY <3>1, <3>2, <3>3
    <3> QED BY <1>2, <2>1, <2>2, <3>4
  <2>3. CASE o # p
    <3>1. Spent(bets', o) = Spent(bets, o)
      BY <1>2, <2>3 DEF Spent
    <3> QED BY <1>2, <2>1, <2>3, <3>1
  <2> QED BY <2>2, <2>3
<1> QED BY <1>3, <1>4, <1>5, WriteOK

\* A bet takes its amount from the wallet as it was when it was locked.
LEMMA BetWriteOK ==
  ASSUME IInv, NEW c \in Clients, BetWrite(c)
  PROVE  IInv'
<1> DEFINE p == call[c].player
           k == call[c].key
           wallet == held[c][p]
           b == [round |-> call[c].round, number |-> call[c].number,
                 amount |-> call[c].amount]
           next == [main |-> wallet.main - wallet.cents, temp |-> wallet.temp]
<1>1. SUFFICES ASSUME Unused(p, k), accounts' = [accounts EXCEPT ![p] = next],
                      bets' = [bets EXCEPT ![p][k] = b], End(c, "done"),
                      UNCHANGED <<config, rounds, due, schedules, credits, audit>>
               PROVE  IInv'
  BY RollbackOK DEF BetWrite
<1>2. Writing(c, {"bet"})
  BY DEF BetWrite
<1>3. /\ Locals /\ Control(c) /\ Running(c) /\ MoneyOK(c) /\ HeldOK(c)
      /\ Handler(c) = "bet" /\ pc[c] = "write"
  BY <1>2, Writer
<1>4. p \in Players /\ k \in Keys /\ b \in Bet
  BY <1>3 DEF Control, IsCall, Admissible, Handler, Bet
<1>5. /\ wallet \in Copy /\ wallet.cents = b.amount /\ wallet.main >= b.amount
      /\ walletLock[p] = c
      /\ wallet.main = accounts[p].main /\ wallet.temp = accounts[p].temp
  <2>1. held[c][p] # None /\ wallet.cents = call[c].amount /\ CanBet(wallet, call[c].amount)
    BY <1>3 DEF MoneyOK
  <2>2. held[c][p] \in Copy \cup {None} /\ b.amount = call[c].amount
    BY <1>3, <1>4 DEF Locals
  <2> HIDE DEF p, b
  <2> QED BY <1>3, <1>4, <2>1, <2>2 DEF HeldOK, CanBet
<1>6. b.amount \in Nat /\ wallet.main \in Nat /\ wallet.temp \in Nat
  BY <1>4, <1>5 DEF Bet, Copy
<1>7. next.main = wallet.main - b.amount /\ next.temp = wallet.temp
  BY <1>5
<1>8. wallet.main - b.amount \in Nat
  BY <1>5, <1>6
<1>9. next \in Account
  BY <1>5, <1>6, <1>8 DEF Account
<1>10. bets[p][k] = None
  BY <1>1 DEF Unused
<1> HIDE DEF p, k, b, next, wallet
<1>11. next.main + next.temp = accounts[p].main + accounts[p].temp - b.amount
  BY <1>5, <1>6, <1>7
<1> QED BY <1>1, <1>4, <1>5, <1>9, <1>10, <1>11, BetWritten

-----------------------------------------------------------------------------
(* The start of a handler, the clock and the wallet service.               *)

LEMMA StartOK ==
  ASSUME IInv, NEW c \in Clients, Start(c)
  PROVE  IInv'
<1>1. SUFFICES ASSUME NEW k \in CallsOf[c], Admissible(k),
                      call' = [call EXCEPT ![c] = k], GoTo(c, Path(k.handler)[1]),
                      UNCHANGED <<db, locks, entity, joker, stakes, owed, held, dirty>>
               PROVE  IInv'
  BY RollbackOK DEF Start
<1> DEFINE s == Path(k.handler)[1]
<1>2. pc[c] = "start" /\ ~Running(c) /\ Locals /\ Session(c)
  BY DEF Start, IInv, Running, Steps
<1>3. IsCall(k)
  BY CallsAssumption
<1>4. s \in StepsOf(k.handler) /\ s \in Steps /\ s \notin {"write", "lockWinner"}
      /\ (k.handler \in Lockers => s \in {"readBet", "lockRound"})
      /\ (k.handler \in {"configure", "create"} => s = "readConfig")
      /\ (k.handler = "close" => s = "readRound")
      /\ (k.handler = "cancel" => s = "readSchedule")
      /\ (k.handler = "bet" => s = "readBet")
      /\ (k.handler \in Lockers \ {"bet"} => s = "lockRound")
  BY <1>3 DEF IsCall, Handlers, Path, StepsOf, Steps, Lockers
<1> HIDE DEF s
<1>5. /\ pc'[c] = s /\ call'[c] = k /\ Handler(c)' = k.handler /\ Running(c)'
      /\ entity'[c] = entity[c] /\ dirty'[c] = dirty[c] /\ held'[c] = held[c]
      /\ stakes'[c] = stakes[c] /\ GoTo(c, s)
  BY <1>1, <1>2, <1>4 DEF GoTo, Locals, Handler, Running, s
<1>6. ~PastLock(c)' /\ ~PastLock(c)
  BY <1>2, <1>4, <1>5 DEF PastLock
<1>7. Locals'
  BY <1>1, <1>2, <1>4, <1>5 DEF Locals, GoTo, locks
<1>8. Frame(c)
  BY <1>1, <1>2, <1>5 DEF Frame, GoTo, Locals
<1>9. LocksKept(c) /\ RowsKept(c)
  BY <1>1 DEF LocksKept, RowsKept, db, locks
<1>10. Tables' /\ BalancesExplained'
  BY <1>1 DEF IInv, Tables, BalancesExplained, PaidTo, db
<1>11. Control(c)' /\ RoundHeld(c)'
  BY <1>1, <1>3, <1>4, <1>5, <1>6 DEF Control, RoundHeld, Admissible
<1>12. EntityOK(c)'
  <2>1. dirty[c] = {}
    BY <1>2 DEF Session, EntityOK, ToSave
  <2>2. ToSave(c)'
    BY <1>5, <2>1 DEF ToSave
  <2>3. /\ k.handler = "configure" => ToConfigure(c)'
        /\ k.handler = "create" => ToCreate(c)'
        /\ k.handler = "open" => ToOpen(c)'
        /\ k.handler \in {"generate", "finalize", "publish"} => ToSettle(c)'
        /\ k.handler = "bet" => ToBet(c)'
        /\ k.handler = "schedule" => ToSchedule(c)'
        /\ k.handler = "cancel" => ToCancel(c)'
        /\ k.handler = "close" => ToClose(c)'
    BY <1>4, <1>5 DEF ToConfigure, ToCreate, ToOpen, ToSettle, ToBet, ToSchedule,
                      ToCancel, ToClose, Lockers
  <2> QED BY <1>2, <1>5, <2>2, <2>3 DEF Session, EntityOK
<1>13. MoneyOK(c)' /\ HeldOK(c)'
  <2>1. HeldOK(c)'
    BY <1>2, <1>5 DEF Session, HeldOK
  <2>2. k.handler \in {"finalize", "publish"} => s = "lockRound"
    BY <1>4 DEF Lockers
  <2>3. MoneyOK(c)'
    BY <1>2, <1>4, <1>5, <2>2 DEF Session, MoneyOK
  <2> QED BY <2>1, <2>3
<1>14. \A r \in Rounds : roundLock'[r] # c
  BY <1>1, <1>6 DEF IInv, LockOwners, locks
<1> QED BY <1>7, <1>8, <1>9, <1>10, <1>11, <1>12, <1>13, <1>14, StepOf DEF Session

\* what is no step of a client leaves the clients alone
LEMMA Outside ==
  ASSUME IInv, UNCHANGED <<locks, pc, locals>>, RowsKept(None), Tables', BalancesExplained'
  PROVE  IInv'
<1>1. /\ roundLock' = roundLock /\ walletLock' = walletLock /\ pc' = pc /\ call' = call
      /\ entity' = entity /\ joker' = joker /\ stakes' = stakes /\ owed' = owed
      /\ held' = held /\ dirty' = dirty
  BY DEF locks, locals
<1>2. Locals'
  BY <1>1 DEF IInv, Locals
<1>3. LockOwners'
  BY <1>1 DEF IInv, LockOwners, PastLock, Running, Handler, RoundOf
<1>4. Frame(None) /\ LocksKept(None)
  BY <1>1 DEF Frame, LocksKept
<1>5. \A c \in Clients : c \in Clients \ {None}
  BY NoneAssumption
<1>6. \A c \in Clients : Session(c)'
  BY <1>4, <1>5, OtherSession DEF IInv
<1> QED BY <1>2, <1>3, <1>6 DEF IInv

LEMMA TickOK ==
  ASSUME IInv, NEW r \in Rounds, Tick(r)
  PROVE  IInv'
<1>1. Tables' /\ BalancesExplained' /\ RowsKept(None)
  BY DEF Tick, IInv, Tables, BalancesExplained, PaidTo, RowsKept
<1> QED BY <1>1, Outside DEF Tick

LEMMA TransferOK ==
  ASSUME IInv, NEW p \in Players, Transfer(p)
  PROVE  IInv'
<1> DEFINE main == accounts[p].main + accounts[p].temp
<1>1. /\ walletLock[p] = None
      /\ accounts' = [accounts EXCEPT ![p] = [main |-> main, temp |-> 0]]
      /\ UNCHANGED <<config, rounds, due, schedules, bets, credits, audit>>
      /\ UNCHANGED <<locks, pc, locals>>
  BY DEF Transfer
<1>2. accounts \in [Players -> Account] /\ BalancesExplained
  BY RowsTyped
<1>3. main \in Nat /\ \A o \in Players : accounts[o].main \in Nat /\ accounts[o].temp \in Nat
  BY <1>2 DEF Account
<1> HIDE DEF main
<1>4. accounts' \in [Players -> Account]
  BY <1>1, <1>2, <1>3 DEF Account
<1>5. Tables'
  BY <1>1, <1>4 DEF IInv, Tables
<1>6. \A o \in Players : accounts'[o].main + accounts'[o].temp = accounts[o].main + accounts[o].temp
  BY <1>1, <1>2, <1>3 DEF main
<1>7. BalancesExplained'
  <2>1. \A o \in Players : PaidTo(o)' = PaidTo(o) /\ Spent(bets', o) = Spent(bets, o)
    BY <1>1 DEF PaidTo
  <2> QED BY <1>2, <1>6, <2>1 DEF BalancesExplained
<1>8. RowsKept(None)
  BY <1>1, <1>2, NoneAssumption DEF RowsKept
<1> QED BY <1>1, <1>5, <1>7, <1>8, Outside

-----------------------------------------------------------------------------
(* The invariant and what it gives.                                        *)

LEMMA NextOK == IInv /\ [Next]_vars => IInv'
<1> SUFFICES ASSUME IInv, [Next]_vars PROVE IInv'
  OBVIOUS
<1>1. CASE UNCHANGED vars
  <2>1. /\ UNCHANGED <<locks, pc, locals>>
        /\ UNCHANGED <<config, rounds, due, schedules, bets, accounts, credits, audit>>
    BY <1>1 DEF vars, db
  <2>2. RowsKept(None) /\ Tables' /\ BalancesExplained'
    BY <2>1 DEF IInv, Tables, BalancesExplained, PaidTo, RowsKept
  <2> QED BY <2>1, <2>2, Outside
<1>2. ASSUME NEW c \in Clients, Read(c) PROVE IInv'
  BY <1>2, LockRoundOK, ReadRoundOK, ReadScheduleToOpenOK, ReadScheduleToMakeOK,
     ReadScheduleToCancelOK, ReadConfigToChangeOK, ReadConfigToCreateOK,
     ReadConfigToOpenOK, ReadConfigToBetOK, ReadConfigToPayOK, ReadBetOK, ReadBetsOK,
     LockWinnerOK, LockWalletOK, SelectOK DEF Read
<1>3. ASSUME NEW c \in Clients, Write(c) PROVE IInv'
  BY <1>3, ConfigWriteOK, CreateWriteOK, OpenWriteOK, CloseWriteOK, GenerateWriteOK,
     SettleWriteOK, ScheduleWritesOK, BetWriteOK DEF Write
<1>4. ASSUME NEW c \in Clients, Crash(c) \/ DeadlockVictim(c) PROVE IInv'
  BY <1>4, RollbackOK DEF Crash, DeadlockVictim
<1> QED BY <1>1, <1>2, <1>3, <1>4, StartOK, TickOK, TransferOK DEF Next, Step, Terminating

LEMMA Invariant == Spec => []IInv
BY InitOK, NextOK, PTL DEF Spec

LEMMA InvariantTypes == IInv => TypeOK
<1> SUFFICES ASSUME IInv PROVE TypeOK
  OBVIOUS
<1>1. DbTypeOK
  <2>1. ASSUME NEW r \in Rounds, NEW i \in DOMAIN credits[r]
        PROVE  /\ DOMAIN credits[r][i] \subseteq Players
               /\ \A p \in DOMAIN credits[r][i] : credits[r][i][p] \in Nat \ {0}
    <3>1. credits[r] \in Seq(Payment)
      BY DEF IInv, Tables
    <3>2. credits[r][i] \in Payment
      BY <3>1
    <3> QED BY <3>2 DEF Payment
  <2> QED BY <2>1 DEF IInv, Tables, DbTypeOK, Entry
<1>2. SessionTypeOK
  <2>1. DOMAIN config = Columns
    BY DEF IInv, Tables, Config, Columns
  <2>2. /\ roundLock \in [Rounds -> Clients \cup {None}]
        /\ walletLock \in [Players -> Clients \cup {None}]
        /\ pc \in [Clients -> Steps \cup Ended \cup {"start"}]
        /\ joker \in [Clients -> Schedule \cup {None}]
    BY DEF IInv, Locals
  <2>3. owed \in [Clients -> Seq([player : Players, cents : Nat \ {0}])]
    BY DEF IInv, Locals, Share
  <2>4. held \in [Clients -> [Players ->
          [main : Nat, temp : Nat, cents : Nat \ {0}] \cup {None}]]
    BY DEF IInv, Locals, Copy
  <2>5. ASSUME NEW c \in Clients
        PROVE  /\ pc[c] \in Steps => IsCall(call[c])
               /\ \/ entity[c] \in Round \cup Schedule \cup {None}
                  \/ DOMAIN entity[c] = DOMAIN config
               /\ DOMAIN stakes[c].winners \subseteq Players
               /\ dirty[c] # {} => dirty[c] \subseteq DOMAIN entity[c]
    <3>1. Control(c) /\ EntityOK(c) /\ MoneyOK(c)
      BY DEF IInv, Session
    <3>2. ToSave(c) /\ (\/ entity[c] \in Round \cup Schedule \cup {None}
                        \/ DOMAIN entity[c] = Columns)
      BY <3>1 DEF EntityOK
    <3> QED BY <2>1, <3>1, <3>2 DEF Control, Running, ToSave, MoneyOK
  <2> QED BY <2>2, <2>3, <2>4, <2>5 DEF SessionTypeOK
<1> QED BY <1>1, <1>2 DEF TypeOK

\* Every variable has its type, and what each handler has read and will save is
\* of the type of the row it saves it to.
THEOREM TypeCorrect == Spec => []TypeOK
BY Invariant, InvariantTypes, PTL

\* A wallet holds what it was opened with and what its player has won, less what
\* the bets took: every bet is debited once and every payout credited once.
THEOREM WalletsExplained == Spec => []BalancesExplained
<1>1. IInv => BalancesExplained
  BY DEF IInv
<1> QED BY <1>1, Invariant, PTL

-----------------------------------------------------------------------------
(* Bets.                                                                   *)

\* what is true of a handler that takes a bet
Taken(c, p, k) ==
  /\ bets[p][k] = None
  /\ bets' = [bets EXCEPT ![p][k] = [round |-> call[c].round, number |-> call[c].number,
                                     amount |-> call[c].amount]]
  /\ rounds[call[c].round].status = "OPEN"
  /\ accounts[p].temp = 0

LEMMA OnlyBetsTakeBets ==
  ASSUME IInv, [Next]_vars, bets' # bets
  PROVE  \E c \in Clients, p \in Players, k \in Keys : Taken(c, p, k)
<1>1. PICK c \in Clients : BetWrite(c)
  <2>1. ~UNCHANGED vars
    BY DEF vars, db
  <2>2. ASSUME NEW c \in Clients PROVE ~Read(c) /\ ~Crash(c) /\ ~DeadlockVictim(c) /\ ~Start(c)
    BY <2>1 DEF Read, Crash, DeadlockVictim, Start, LockRound, ReadRound,
       ReadScheduleToOpen, ReadScheduleToMake, ReadScheduleToCancel, ReadConfigToChange,
       ReadConfigToCreate, ReadConfigToOpen, ReadConfigToBet, ReadConfigToPay, ReadBet,
       ReadBets, LockWinner, LockWallet, Select, Rollback, db
  <2>3. ASSUME NEW c \in Clients PROVE Write(c) => BetWrite(c)
    BY DEF Write, ConfigWrite, CreateWrite, OpenWrite, CloseWrite, GenerateWrite,
       SettleWrite, ScheduleWrite, CancelWrite, Rollback, db
  <2>4. ASSUME NEW r \in Rounds PROVE ~Tick(r)
    BY DEF Tick
  <2>5. ASSUME NEW p \in Players PROVE ~Transfer(p)
    BY DEF Transfer
  <2> QED BY <2>1, <2>2, <2>3, <2>4, <2>5 DEF Next, Step, Terminating
<1> DEFINE p == call[c].player
           k == call[c].key
<1>2. /\ Writing(c, {"bet"}) /\ Unused(p, k)
      /\ bets' = [bets EXCEPT ![p][k] =
           [round |-> call[c].round, number |-> call[c].number, amount |-> call[c].amount]]
  BY <1>1 DEF BetWrite, Rollback, db
<1>3. /\ Control(c) /\ Running(c) /\ RoundHeld(c) /\ MoneyOK(c) /\ HeldOK(c)
      /\ Handler(c) = "bet" /\ pc[c] = "write"
  BY <1>2, Writer
<1>4. p \in Players /\ k \in Keys
  BY <1>3 DEF Control, IsCall, Handler
<1>5. rounds[call[c].round].status = "OPEN"
  <2>1. PastLock(c)
    BY <1>3 DEF PastLock, Lockers
  <2> QED BY <1>3, <2>1 DEF RoundHeld, Ready, RoundOf
<1>6. accounts[p].temp = 0
  <2>1. held[c][p] # None /\ held[c][p].temp = 0
    BY <1>3 DEF MoneyOK, CanBet
  <2> HIDE DEF p
  <2> QED BY <1>3, <1>4, <2>1 DEF HeldOK
<1>7. bets[p][k] = None
  BY <1>2 DEF Unused
<1>8. Taken(c, p, k)
  BY <1>2, <1>5, <1>6, <1>7 DEF Taken
<1> QED BY <1>4, <1>8

\* A bet is taken only while its round is open, and is never changed or removed.
THEOREM BetsTakenWhileOpen == Spec => BetsOnlyWhileOpen
<1> DEFINE Fine == \A p \in Players, k \in Keys : bets'[p][k] # bets[p][k] =>
                     /\ bets[p][k] = None
                     /\ rounds[bets'[p][k].round].status = "OPEN"
<1>1. IInv /\ [Next]_vars => [Fine]_vars
  <2> SUFFICES ASSUME IInv, [Next]_vars PROVE Fine
    OBVIOUS
  <2>1. CASE bets' = bets
    BY <2>1
  <2>2. CASE bets' # bets
    <3>1. PICK c \in Clients, o \in Players, j \in Keys : Taken(c, o, j)
      BY <2>2, OnlyBetsTakeBets
    <3> DEFINE b == [round |-> call[c].round, number |-> call[c].number,
                     amount |-> call[c].amount]
    <3>2. bets[o][j] = None /\ bets' = [bets EXCEPT ![o][j] = b]
          /\ rounds[b.round].status = "OPEN"
      BY <3>1 DEF Taken
    <3>3. bets \in [Players -> [Keys -> Bet \cup {None}]]
      BY DEF IInv, Tables
    <3> HIDE DEF b
    <3> QED BY <3>2, <3>3
  <2> QED BY <2>1, <2>2
<1> QED BY <1>1, Invariant, PTL DEF Spec, BetsOnlyWhileOpen

\* No bet is taken from a wallet that holds winnings.
THEOREM BetsNotOverWinnings == Spec => NoBetOverWinnings
<1> DEFINE Fine == \A p \in Players : Spent(bets', p) > Spent(bets, p) => accounts[p].temp = 0
<1>1. IInv /\ [Next]_vars => [Fine]_vars
  <2> SUFFICES ASSUME IInv, [Next]_vars, NEW p \in Players, Spent(bets', p) > Spent(bets, p)
               PROVE  accounts[p].temp = 0
    OBVIOUS
  <2>1. bets \in [Players -> [Keys -> Bet \cup {None}]]
    BY DEF IInv, Tables
  <2>2. Spent(bets, p) \in Nat
    BY <2>1, SpentType
  <2>3. bets'[p] # bets[p]
    BY <2>2 DEF Spent
  <2>4. PICK c \in Clients, o \in Players, j \in Keys : Taken(c, o, j)
    BY <2>3, OnlyBetsTakeBets
  <2> QED BY <2>1, <2>3, <2>4 DEF Taken
<1> QED BY <1>1, Invariant, PTL DEF Spec, NoBetOverWinnings

=============================================================================
