------------------------------ MODULE FunTarget ------------------------------
(***************************************************************************)
(* The Fun Target game: rounds that are created, opened, bet on, closed,   *)
(* given a winning number and paid out, by the handlers of                 *)
(* src/fun-target/fun-target.service.ts.  Handlers interleave at every     *)
(* statement that reads, locks or commits; see WalletService for how a     *)
(* PostgreSQL transaction is modelled.  Some handlers lock the round they  *)
(* change, and some (close, cancelSchedule, updateConfig) read a row,      *)
(* change the entity in memory and save it with no lock in between.        *)
(***************************************************************************)
EXTENDS FunTargetPayout, SequencesExt

CONSTANTS
  Players,     \* ids of the users that have a wallet
  Rounds,      \* round numbers, in the order of the sequence that gives them
  Keys,        \* idempotency keys
  Numbers,     \* the numbers of the wheel, 1..9 in the code
  Clients,     \* HTTP calls, each handled once (a retry is another call)
  CallsOf,     \* the calls each client may make
  Limit,       \* the wallet limit
  Opening,     \* each player's main balance before the first bet
  Config0,     \* the database the calls start on: the row of fun_target_config,
  Rounds0,     \* the rounds,
  Bets0,       \* and their bets
  Undefined,   \* no request body (only a caller inside the process has none),
               \* or a field the body leaves out
  Empty,       \* the request body {}
  None

Modes == {"MANUAL", "RANDOM"}
Statuses == {"UPCOMING", "OPEN", "CLOSED", "COMPLETED"}
Handlers == {"configure", "create", "open", "close", "generate", "finalize",
             "publish", "schedule", "cancel", "bet"}

Config == [mode : Modes, minBet : Nat, maxBet : Nat, denominations : SUBSET Nat,
           joker : BOOLEAN, multiplier : Nat \ {0}, frequency : Nat \ {0},
           house : 0..Whole, winning : 0..Whole]
Round == [status : Statuses, mode : Modes, joker : BOOLEAN,
          multiplier : Nat \ {0}, number : Numbers \cup {None},
          finalized : BOOLEAN]
\* what the API shows of a round, with what its joker multiplies the pool by
RoundView == [status : Statuses, number : Numbers \cup {None},
              factor : (Nat \ {0}) \cup {None}]
Schedule == [multiplier : Nat \ {0}, active : BOOLEAN]
Bet == [round : Rounds, number : Numbers, amount : Nat \ {0}]
Account == [main : Nat, temp : Nat]

Stake(table, p, r) ==
  SumFunction([k \in {j \in Keys : table[p][j] # None /\ table[p][j].round = r} |->
                 table[p][k].amount])
StakeOn(table, p, r, n) ==
  SumFunction([k \in {j \in Keys : /\ table[p][j] # None
                                   /\ table[p][j].round = r
                                   /\ table[p][j].number = n} |-> table[p][k].amount])
Spent(table, p) ==
  SumFunction([k \in {j \in Keys : table[p][j] # None} |-> table[p][k].amount])

\* mutant: the DTO has the fields the body gives, and no others
AssignGiven(row, change) ==
  [f \in DOMAIN row |->
     IF f \in DOMAIN change /\ change[f] # Undefined THEN change[f] ELSE row[f]]

\* Object.assign(entity, dto) copies every property the DTO has.  The DTO of a
\* request has them all: it is an instance of its class, whose fields (the build's
\* target is ES2023) start out as undefined, so what the body leaves out is
\* overwritten with undefined.
Assign(row, change) ==
  [f \in DOMAIN row |-> IF f \in DOMAIN change THEN change[f] ELSE row[f]]

\* what a change of the configuration gives a value to
Given(change) == [f \in {g \in DOMAIN change : change[g] # Undefined} |-> change[f]]

\* the CHECK constraints of fun_target_config
Checked(cfg) == cfg.minBet <= cfg.maxBet /\ cfg.house + cfg.winning = Whole

\* a call names what its handler takes, of the types the request is validated for
IsCall(k) ==
  /\ k.handler \in Handlers
  /\ k.handler \notin {"configure", "create"} => k.round \in Rounds
  /\ k.handler = "bet" =>
       /\ k.player \in Players /\ k.key \in Keys
       /\ k.number \in Numbers /\ k.amount \in Nat
  /\ k.handler = "schedule" => k.multiplier \in Nat
  /\ k.handler \in {"generate", "publish"} => k.body \in Numbers \cup {Undefined, Empty}
  /\ DOMAIN k.change \subseteq DOMAIN Config0
  /\ k.handler = "configure" => DOMAIN k.change = DOMAIN Config0
  /\ Assign(Config0, Given(k.change)) \in Config

ASSUME RoundsAssumption == Rounds \subseteq Nat \ {0} /\ Numbers \subseteq Nat \ {0}
ASSUME PlayersAssumption ==
  /\ Players \subseteq Nat
  /\ IsFiniteSet(Players)
  /\ IsFiniteSet(Keys)
  /\ IsFiniteSet(Rounds)
\* the tables as the handlers leave them, in rounds whose result is still to come
ASSUME DatabaseAssumption ==
  /\ Opening \in [Players -> Nat]
  /\ Config0 \in Config
  /\ Checked(Config0)
  /\ Rounds0 \in [Rounds -> Round \cup {None}]
  /\ \A r \in Rounds : Rounds0[r] # None =>
       /\ Rounds0[r].status # "COMPLETED"
       /\ Rounds0[r].number = None
       /\ ~Rounds0[r].finalized
  /\ Bets0 \in [Players -> [Keys -> Bet \cup {None}]]
  /\ \A p \in Players : Opening[p] >= Spent(Bets0, p)
ASSUME CallsAssumption == \A c \in Clients : \A k \in CallsOf[c] : IsCall(k)
ASSUME LimitAssumption == Limit \in Nat
ASSUME NoneAssumption ==
  /\ None \notin Nat \cup Clients \cup Round \cup Bet \cup Schedule
  /\ None \notin [main : Nat, temp : Nat, cents : Nat]
  /\ None \notin RoundView
  /\ Undefined \notin Nat \cup Modes \cup BOOLEAN

VARIABLES
  config,     \* the row of fun_target_config
  rounds,     \* fun_target_rounds, None where there is no row
  due,        \* the rounds whose scheduled time has come
  schedules,  \* fun_target_joker_schedules: one row per round at most
  bets,       \* fun_target_bets, by the unique user and idempotency key
  accounts,   \* each player's wallet
  credits,    \* the GAME_WIN transactions of each round, one function per payout
  audit,      \* fun_target_result_audit
  roundLock,  \* the client holding each row FOR UPDATE, or None
  walletLock,
  pc,         \* where each client is in its handler
  call,       \* the call it makes
  entity,     \* the row it has read and will save
  joker,      \* the schedule it has read
  stakes,     \* the bets it has summed: all of them, and each winner's
  owed,       \* the winners it still has to credit, with their payouts
  held,       \* its copies of the wallets it has locked
  dirty       \* the columns save() found changed

db == <<config, rounds, due, schedules, bets, accounts, credits, audit>>
locks == <<roundLock, walletLock>>
locals == <<call, entity, joker, stakes, owed, held, dirty>>
vars == <<db, locks, pc, locals>>

Ended == {"done", "failed"}
Steps == {"readConfig", "selectConfig", "lockRound", "readRound", "selectRound",
          "readSchedule", "selectSchedule", "readBets", "lockWinner", "readBet",
          "lockWallet", "write"}
NoStakes == [total |-> 0, winners |-> << >>]
NoWallets == [p \in Players |-> None]

\* the statements of each handler, in order
Path(h) ==
  CASE h = "configure" -> <<"readConfig", "selectConfig", "write">>
    [] h = "create" -> <<"readConfig", "write">>
    [] h = "open" -> <<"lockRound", "readSchedule", "readConfig", "write">>
    [] h = "close" -> <<"readRound", "selectRound", "write">>
    [] h = "generate" -> <<"lockRound", "write">>
    [] h \in {"finalize", "publish"} ->
         <<"lockRound", "readBets", "readConfig", "lockWinner", "write">>
    [] h = "schedule" ->
         <<"lockRound", "readSchedule", "selectSchedule", "write">>
    [] h = "cancel" -> <<"readSchedule", "readRound", "selectSchedule", "write">>
    [] h = "bet" -> <<"readBet", "lockRound", "readConfig", "lockWallet", "write">>

Init ==
  /\ config = Config0
  /\ rounds = Rounds0
  /\ due = {r \in Rounds : Rounds0[r] # None}
  /\ schedules = [r \in Rounds |-> None]
  /\ bets = Bets0
  /\ accounts = [p \in Players |-> [main |-> Opening[p] - Spent(Bets0, p), temp |-> 0]]
  /\ credits = [r \in Rounds |-> << >>]
  /\ audit = [r \in Rounds |-> << >>]
  /\ roundLock = [r \in Rounds |-> None]
  /\ walletLock = [p \in Players |-> None]
  /\ pc = [c \in Clients |-> "start"]
  /\ call = [c \in Clients |-> None]
  /\ entity = [c \in Clients |-> None]
  /\ joker = [c \in Clients |-> None]
  /\ stakes = [c \in Clients |-> NoStakes]
  /\ owed = [c \in Clients |-> << >>]
  /\ held = [c \in Clients |-> NoWallets]
  /\ dirty = [c \in Clients |-> {}]

-----------------------------------------------------------------------------
(* Checks.                                                                 *)

Handler(c) == call[c].handler
RoundOf(c) == call[c].round

\* the checks of updateConfig: Number(undefined) is NaN, which is never greater
\* and never makes 100
Valid(cfg) ==
  /\ Undefined \notin {cfg.minBet, cfg.maxBet} => cfg.minBet <= cfg.maxBet
  /\ Undefined \notin {cfg.house, cfg.winning}
  /\ cfg.house + cfg.winning = Whole

\* denominationRestrictions is never written, so it keeps its default, true
Accepts(cfg, amount) ==
  /\ amount \in cfg.minBet..cfg.maxBet
  /\ amount \in cfg.denominations

\* mutant: the request body is not validated
Unvalidated(k) == TRUE

\* the validation of the request bodies, before any query
Admissible(k) ==
  /\ k.handler = "bet" => k.amount > 0
  /\ k.handler = "schedule" => k.multiplier > 0
  /\ \A f \in DOMAIN k.change \cap {"minBet", "maxBet", "multiplier", "frequency"} :
       k.change[f] # Undefined => k.change[f] > 0

\* a number is required in manual mode and any body refused in random mode
BodyFits(c, q) ==
  IF q.mode = "MANUAL" THEN call[c].body \in Numbers ELSE call[c].body = Undefined

\* mutant: finalize does not look at finalizedAt, nor publish at the number
Unsettled(c, q) ==
  CASE Handler(c) = "open" -> q.status = "UPCOMING" /\ RoundOf(c) \in due
    [] Handler(c) \in {"schedule", "cancel"} -> q.status = "UPCOMING"
    [] Handler(c) \in {"close", "bet"} -> q.status = "OPEN"
    [] Handler(c) = "finalize" -> q.status \in {"CLOSED", "COMPLETED"} /\ q.number # None
    [] OTHER -> q.status = "CLOSED" /\ BodyFits(c, q)

\* what each handler requires of the round it reads
Ready(c, q) ==
  CASE Handler(c) = "open" -> q.status = "UPCOMING" /\ RoundOf(c) \in due
    [] Handler(c) \in {"schedule", "cancel"} -> q.status = "UPCOMING"
    [] Handler(c) \in {"close", "bet"} -> q.status = "OPEN"
    [] Handler(c) = "finalize" ->
         q.status = "CLOSED" /\ q.number # None /\ ~q.finalized
    [] Handler(c) \in {"generate", "publish"} ->
         q.status = "CLOSED" /\ q.number = None /\ BodyFits(c, q)

\* the numbers a result may get: randomInt(1, 10), or the number submitted
Results(c, q) ==
  IF Handler(c) \notin {"generate", "publish"} THEN {q.number}
  ELSE IF q.mode = "RANDOM" THEN Numbers ELSE {call[c].body}

\* the other transaction that holds the row c's next statement needs
Blockers(c) ==
  (CASE pc[c] = "lockRound" -> {roundLock[RoundOf(c)]}
     [] pc[c] = "lockWallet" -> {walletLock[call[c].player]}
     [] pc[c] = "lockWinner" -> {walletLock[Head(owed[c]).player]}
     [] pc[c] = "write" /\ Handler(c) = "close" -> {roundLock[RoundOf(c)]}
     [] OTHER -> {}) \ {c, None}

Deadlocked(c) == \E S \in SUBSET Clients :
  c \in S /\ \A d \in S : Blockers(d) \cap S # {}

-----------------------------------------------------------------------------
(* The transactions.                                                       *)

\* commit or roll back: locks are released and the handler's locals are gone
End(c, outcome) ==
  /\ pc' = [pc EXCEPT ![c] = outcome]
  /\ roundLock' = [r \in Rounds |-> IF roundLock[r] = c THEN None ELSE roundLock[r]]
  /\ walletLock' = [p \in Players |-> IF walletLock[p] = c THEN None ELSE walletLock[p]]
  /\ call' = [call EXCEPT ![c] = None]
  /\ entity' = [entity EXCEPT ![c] = None]
  /\ joker' = [joker EXCEPT ![c] = None]
  /\ stakes' = [stakes EXCEPT ![c] = NoStakes]
  /\ owed' = [owed EXCEPT ![c] = << >>]
  /\ held' = [held EXCEPT ![c] = NoWallets]
  /\ dirty' = [dirty EXCEPT ![c] = {}]

\* mutant: a failing handler keeps its locks
Abandon(c) ==
  /\ pc' = [pc EXCEPT ![c] = "failed"]
  /\ UNCHANGED <<db, locks, locals>>
Rollback(c) == End(c, "failed") /\ UNCHANGED db

GoTo(c, step) == pc' = [pc EXCEPT ![c] = step]
Follow(c) ==
  LET path == Path(Handler(c))
  IN \E i \in DOMAIN path : path[i] = pc[c] /\ GoTo(c, path[i + 1])

Start(c) ==
  /\ pc[c] = "start"
  /\ \E k \in CallsOf[c] :
       \/ /\ Admissible(k)
          /\ call' = [call EXCEPT ![c] = k]
          /\ GoTo(c, Path(k.handler)[1])
          /\ UNCHANGED <<db, locks, entity, joker, stakes, owed, held, dirty>>
       \/ ~Admissible(k) /\ Rollback(c)

\* mutant: the round is read without FOR UPDATE
SeeRound(c) == UNCHANGED roundLock
TakeRound(c) == roundLock' = [roundLock EXCEPT ![RoundOf(c)] = c]

\* the first query of open, generate, finalize, publish and scheduleJoker and the
\* second of placeBet, with the checks that follow it and the number drawn
LockRound(c) ==
  LET q == rounds[RoundOf(c)]
      ready == q # None /\ Ready(c, q)
  IN /\ pc[c] = "lockRound"
     /\ Blockers(c) = {}
     /\ \/ /\ ready
           /\ TakeRound(c)
           /\ \E n \in Results(c, q) :
                entity' = [entity EXCEPT ![c] = [q EXCEPT !.number = n]]
           /\ Follow(c)
           /\ UNCHANGED <<db, walletLock, call, joker, stakes, owed, held, dirty>>
        \/ ~ready /\ Rollback(c)

\* close and cancelSchedule read the round without locking it, and change the
\* entity they are going to save
ReadRound(c) ==
  LET q == rounds[RoundOf(c)]
      ready == q # None /\ Ready(c, q)
  IN /\ pc[c] = "readRound"
     /\ \/ /\ ready
           /\ entity' = [entity EXCEPT ![c] =
                IF Handler(c) = "close" THEN [q EXCEPT !.status = "CLOSED"]
                                        ELSE [@ EXCEPT !.active = FALSE]]
           /\ Follow(c)
           /\ UNCHANGED <<db, locks, call, joker, stakes, owed, held, dirty>>
        \/ ~ready /\ Rollback(c)

\* the schedule that decides an opening round's joker
ReadScheduleToOpen(c) ==
  LET s == schedules[RoundOf(c)] IN
  /\ pc[c] = "readSchedule"
  /\ Handler(c) = "open"
  /\ joker' = [joker EXCEPT ![c] = IF s # None /\ s.active THEN s ELSE None]
  /\ Follow(c)
  /\ UNCHANGED <<db, locks, call, entity, stakes, owed, held, dirty>>

\* a schedule to make, or to activate again
ReadScheduleToMake(c) ==
  LET s == schedules[RoundOf(c)]
      busy == s # None /\ s.active
  IN /\ pc[c] = "readSchedule"
     /\ Handler(c) = "schedule"
     /\ \/ /\ ~busy
           /\ entity' = [entity EXCEPT ![c] =
                [multiplier |-> call[c].multiplier, active |-> TRUE]]
           /\ IF s = None THEN GoTo(c, "write") ELSE Follow(c)
           /\ UNCHANGED <<db, locks, call, joker, stakes, owed, held, dirty>>
        \/ busy /\ Rollback(c)

ReadScheduleToCancel(c) ==
  LET s == schedules[RoundOf(c)] IN
  /\ pc[c] = "readSchedule"
  /\ Handler(c) = "cancel"
  /\ \/ /\ s # None
        /\ entity' = [entity EXCEPT ![c] = s]
        /\ Follow(c)
        /\ UNCHANGED <<db, locks, call, joker, stakes, owed, held, dirty>>
     \/ s = None /\ Rollback(c)

-----------------------------------------------------------------------------
(* Reading the configuration.                                              *)

ReadingConfig(c, h) == pc[c] = "readConfig" /\ Handler(c) \in h

ReadConfigToChange(c) ==
  LET cfg == Assign(config, call[c].change) IN
  /\ ReadingConfig(c, {"configure"})
  /\ \/ /\ Valid(cfg)
        /\ entity' = [entity EXCEPT ![c] = cfg]
        /\ Follow(c)
        /\ UNCHANGED <<db, locks, call, joker, stakes, owed, held, dirty>>
     \/ ~Valid(cfg) /\ Rollback(c)

\* a new round takes its result mode from the configuration
ReadConfigToCreate(c) ==
  /\ ReadingConfig(c, {"create"})
  /\ entity' = [entity EXCEPT ![c] =
       [status |-> "UPCOMING", mode |-> config.mode, joker |-> FALSE,
        multiplier |-> 1, number |-> None, finalized |-> FALSE]]
  /\ Follow(c)
  /\ UNCHANGED <<db, locks, call, joker, stakes, owed, held, dirty>>

\* the joker plays if it is enabled and either scheduled or this round's turn
ReadConfigToOpen(c) ==
  LET s == joker[c]
      plays == config.joker /\ (s # None \/ RoundOf(c) % config.frequency = 0)
      multiplier == IF s # None THEN s.multiplier ELSE config.multiplier
      opened == [entity[c] EXCEPT !.status = "OPEN", !.joker = plays,
                                  !.multiplier = IF plays THEN multiplier ELSE @]
  IN /\ ReadingConfig(c, {"open"})
     /\ entity' = [entity EXCEPT ![c] = opened]
     /\ Follow(c)
     /\ UNCHANGED <<db, locks, call, joker, stakes, owed, held, dirty>>

ReadConfigToBet(c) ==
  /\ ReadingConfig(c, {"bet"})
  /\ \/ /\ Accepts(config, call[c].amount)
        /\ Follow(c)
        /\ UNCHANGED <<db, locks, locals>>
     \/ ~Accepts(config, call[c].amount) /\ Rollback(c)

\* the pool and its split, in the order the winners came from GROUP BY; a
\* winner whose share is no cent is skipped
ReadConfigToPay(c) ==
  LET multiplier == IF entity[c].joker THEN entity[c].multiplier ELSE 1 IN
  /\ ReadingConfig(c, {"finalize", "publish"})
  /\ \E pool \in Pools(stakes[c].total, config.winning, multiplier) :
     \E pay \in Payouts(pool, stakes[c].winners) :
     \E order \in SetToSeqs({p \in DOMAIN pay : pay[p] > 0}) :
       /\ owed' = [owed EXCEPT ![c] =
            [i \in DOMAIN order |-> [player |-> order[i], cents |-> pay[order[i]]]]]
       /\ GoTo(c, IF order = << >> THEN "write" ELSE "lockWinner")
  /\ UNCHANGED <<db, locks, call, entity, joker, stakes, held, dirty>>

-----------------------------------------------------------------------------
(* Bets and wallets.                                                       *)

\* an idempotency key that has its bet is answered with it
ReadBet(c) ==
  LET existing == bets[call[c].player][call[c].key] IN
  /\ pc[c] = "readBet"
  /\ \/ existing # None /\ End(c, "done") /\ UNCHANGED db
     \/ existing = None /\ Follow(c) /\ UNCHANGED <<db, locks, locals>>

\* creditWinningPayouts sums the round's bets, and has nothing to do if no one
\* bet on the number
ReadBets(c) ==
  LET r == RoundOf(c)
      on(p) == StakeOn(bets, p, r, entity[c].number)
      winners == {p \in Players : on(p) > 0}
      total == SumFunction([p \in Players |-> Stake(bets, p, r)])
  IN /\ pc[c] = "readBets"
     /\ stakes' = [stakes EXCEPT ![c] =
          [total |-> total, winners |-> [p \in winners |-> on(p)]]]
     /\ IF winners = {} THEN GoTo(c, "write") ELSE Follow(c)
     /\ UNCHANGED <<db, locks, call, entity, joker, owed, held, dirty>>

\* mutant: the wallet is read without FOR UPDATE
SeeWallet(c, p, cents) ==
  /\ UNCHANGED walletLock
  /\ held' = [held EXCEPT ![c][p] =
       [main |-> accounts[p].main, temp |-> accounts[p].temp, cents |-> cents]]
TakeWallet(c, p, cents) ==
  /\ walletLock' = [walletLock EXCEPT ![p] = c]
  /\ held' = [held EXCEPT ![c][p] =
       [main |-> accounts[p].main, temp |-> accounts[p].temp, cents |-> cents]]

\* one turn of the loop over the shares
LockWinner(c) ==
  LET w == Head(owed[c])
      fits == accounts[w.player].temp + w.cents <= Limit
  IN /\ pc[c] = "lockWinner"
     /\ Blockers(c) = {}
     /\ \/ /\ fits
           /\ TakeWallet(c, w.player, w.cents)
           /\ owed' = [owed EXCEPT ![c] = Tail(@)]
           /\ GoTo(c, IF Len(owed[c]) = 1 THEN "write" ELSE "lockWinner")
           /\ UNCHANGED <<db, roundLock, call, entity, joker, stakes, dirty>>
        \/ ~fits /\ Rollback(c)

\* mutant: the balance is not checked
Unfunded(account, amount) == account.temp = 0

CanBet(account, amount) == account.temp = 0 /\ account.main >= amount

LockWallet(c) ==
  LET p == call[c].player
      able == CanBet(accounts[p], call[c].amount)
  IN /\ pc[c] = "lockWallet"
     /\ Blockers(c) = {}
     /\ \/ /\ able
           /\ TakeWallet(c, p, call[c].amount)
           /\ Follow(c)
           /\ UNCHANGED <<db, roundLock, call, entity, joker, stakes, owed, dirty>>
        \/ ~able /\ Rollback(c)

-----------------------------------------------------------------------------
(* save(entity): the row is selected again, and the columns that differ    *)
(* from it are updated.                                                    *)

Stored(c) ==
  CASE Handler(c) = "configure" -> config
    [] Handler(c) = "close" -> rounds[RoundOf(c)]
    [] Handler(c) \in {"schedule", "cancel"} -> schedules[RoundOf(c)]

\* an undefined property is not a change; with no column to change there is no
\* UPDATE; closedAt always changes
Select(c) ==
  LET changed == {f \in DOMAIN entity[c] :
                    entity[c][f] \notin {Undefined, Stored(c)[f]}}
      same == changed = {} /\ Handler(c) # "close"
  IN /\ pc[c] \in {"selectConfig", "selectRound", "selectSchedule"}
     /\ \/ /\ ~same
           /\ dirty' = [dirty EXCEPT ![c] = changed]
           /\ Follow(c)
           /\ UNCHANGED <<db, locks, call, entity, joker, stakes, owed, held>>
        \/ same /\ End(c, "done") /\ UNCHANGED db

Merged(c) == [f \in DOMAIN Stored(c) |->
  IF f \in dirty[c] THEN entity[c][f] ELSE Stored(c)[f]]

-----------------------------------------------------------------------------
(* The writes of each handler, with its commit.                            *)

Writing(c, hs) == pc[c] = "write" /\ Handler(c) \in hs /\ Blockers(c) = {}

ConfigWrite(c) ==
  /\ Writing(c, {"configure"})
  /\ \/ /\ Checked(Merged(c))
        /\ config' = Merged(c)
        /\ End(c, "done")
        /\ UNCHANGED <<rounds, due, schedules, bets, accounts, credits, audit>>
     \/ ~Checked(Merged(c)) /\ Rollback(c)

SaveRound(r, q) == rounds' = [rounds EXCEPT ![r] = q]

\* the sequence gives the round its number; its time is in the future
CreateWrite(c) ==
  /\ Writing(c, {"create"})
  /\ \E r \in Rounds :
       /\ rounds[r] = None
       /\ \A s \in Rounds : s < r => rounds[s] # None
       /\ SaveRound(r, entity[c])
  /\ End(c, "done")
  /\ UNCHANGED <<config, due, schedules, bets, accounts, credits, audit>>

OpenWrite(c) ==
  /\ Writing(c, {"open"})
  /\ SaveRound(RoundOf(c), entity[c])
  /\ End(c, "done")
  /\ UNCHANGED <<config, due, schedules, bets, accounts, credits, audit>>

CloseWrite(c) ==
  /\ Writing(c, {"close"})
  /\ SaveRound(RoundOf(c), Merged(c))
  /\ End(c, "done")
  /\ UNCHANGED <<config, due, schedules, bets, accounts, credits, audit>>

Audited(r, steps, n) ==
  audit' = [audit EXCEPT ![r] = @ \o [i \in DOMAIN steps |->
    [action |-> steps[i], number |-> n]]]

GenerateWrite(c) ==
  /\ Writing(c, {"generate"})
  /\ SaveRound(RoundOf(c), entity[c])
  /\ Audited(RoundOf(c), <<"GENERATED">>, entity[c].number)
  /\ End(c, "done")
  /\ UNCHANGED <<config, due, schedules, bets, accounts, credits>>

\* finalize and publish: the winners' wallets, their transactions, the audit and
\* the round
SettleWrite(c) ==
  LET r == RoundOf(c)
      paid == {p \in Players : held[c][p] # None}
  IN /\ Writing(c, {"finalize", "publish"})
     /\ accounts' = [p \in Players |->
          IF p \in paid THEN [main |-> held[c][p].main,
                              temp |-> held[c][p].temp + held[c][p].cents]
                        ELSE accounts[p]]
     /\ credits' = [credits EXCEPT ![r] =
          IF paid = {} THEN @ ELSE Append(@, [p \in paid |-> held[c][p].cents])]
     /\ Audited(r, IF Handler(c) = "publish" THEN <<"GENERATED", "FINALIZED">>
                                             ELSE <<"FINALIZED">>, entity[c].number)
     /\ SaveRound(r, [entity[c] EXCEPT !.status = "COMPLETED", !.finalized = TRUE])
     /\ End(c, "done")
     /\ UNCHANGED <<config, due, schedules, bets>>

ScheduleWrite(c) ==
  /\ Writing(c, {"schedule"})
  /\ schedules' = [schedules EXCEPT ![RoundOf(c)] =
       IF @ = None THEN entity[c] ELSE Merged(c)]
  /\ End(c, "done")
  /\ UNCHANGED <<config, rounds, due, bets, accounts, credits, audit>>

CancelWrite(c) ==
  /\ Writing(c, {"cancel"})
  /\ schedules' = [schedules EXCEPT ![RoundOf(c)] = Merged(c)]
  /\ End(c, "done")
  /\ UNCHANGED <<config, rounds, due, bets, accounts, credits, audit>>

\* mutant: the index on user and idempotency key is not unique
Insertable(p, k) == TRUE
\* the unique index on user and idempotency key
Unused(p, k) == bets[p][k] = None

\* the debit, its transaction and the bet, or none of them
BetWrite(c) ==
  LET k == call[c]
      p == k.player
      wallet == held[c][p]
  IN /\ Writing(c, {"bet"})
     /\ \/ /\ Unused(p, k.key)
           /\ accounts' = [accounts EXCEPT ![p] =
                [main |-> wallet.main - wallet.cents, temp |-> wallet.temp]]
           /\ bets' = [bets EXCEPT ![p][k.key] =
                [round |-> k.round, number |-> k.number, amount |-> k.amount]]
           /\ End(c, "done")
           /\ UNCHANGED <<config, rounds, due, schedules, credits, audit>>
        \/ ~Unused(p, k.key) /\ Rollback(c)

-----------------------------------------------------------------------------
(* The clock, the wallet service, failures.                                *)

\* the scheduled time of a round comes
Tick(r) ==
  /\ rounds[r] # None
  /\ r \notin due
  /\ due' = due \cup {r}
  /\ UNCHANGED <<config, rounds, schedules, bets, accounts, credits, audit>>
  /\ UNCHANGED <<locks, pc, locals>>

\* transferTemporaryWinnings of the wallet service, which WalletService models
Transfer(p) ==
  LET main == accounts[p].main + accounts[p].temp IN
  /\ walletLock[p] = None
  /\ accounts[p].temp > 0
  /\ main <= Limit
  /\ accounts' = [accounts EXCEPT ![p] = [main |-> main, temp |-> 0]]
  /\ UNCHANGED <<config, rounds, due, schedules, bets, credits, audit>>
  /\ UNCHANGED <<locks, pc, locals>>

\* a crash or a lost connection rolls the transaction back, and PostgreSQL
\* aborts one of the transactions that wait for each other
Crash(c) == pc[c] \in Steps /\ Rollback(c)
DeadlockVictim(c) == pc[c] \in Steps /\ Deadlocked(c) /\ Rollback(c)

Read(c) ==
  \/ LockRound(c) \/ ReadRound(c) \/ ReadScheduleToOpen(c) \/ ReadScheduleToMake(c)
  \/ ReadScheduleToCancel(c) \/ ReadConfigToChange(c) \/ ReadConfigToCreate(c)
  \/ ReadConfigToOpen(c) \/ ReadConfigToBet(c) \/ ReadConfigToPay(c) \/ ReadBet(c)
  \/ ReadBets(c) \/ LockWinner(c) \/ LockWallet(c) \/ Select(c)

Write(c) ==
  \/ ConfigWrite(c) \/ CreateWrite(c) \/ OpenWrite(c) \/ CloseWrite(c)
  \/ GenerateWrite(c) \/ SettleWrite(c) \/ ScheduleWrite(c) \/ CancelWrite(c)
  \/ BetWrite(c)

Step(c) == Read(c) \/ Write(c)

\* every call has been answered
Terminating == (\A c \in Clients : pc[c] \in Ended) /\ UNCHANGED vars

Next ==
  \/ \E c \in Clients : Start(c) \/ Step(c) \/ Crash(c) \/ DeadlockVictim(c)
  \/ \E r \in Rounds : Tick(r)
  \/ \E p \in Players : Transfer(p)
  \/ Terminating

\* a started handler runs on, and the deadlock detector runs after its timeout
Fairness == \A c \in Clients : WF_vars(Step(c)) /\ WF_vars(DeadlockVictim(c))

Spec == Init /\ [][Next]_vars /\ Fairness

-----------------------------------------------------------------------------
(* What the game promises.                                                 *)

DbTypeOK ==
  /\ config \in Config
  /\ rounds \in [Rounds -> Round \cup {None}]
  /\ due \subseteq Rounds
  /\ schedules \in [Rounds -> Schedule \cup {None}]
  /\ bets \in [Players -> [Keys -> Bet \cup {None}]]
  /\ accounts \in [Players -> Account]
  /\ \A r \in Rounds : \A i \in DOMAIN credits[r] :
       /\ DOMAIN credits[r][i] \subseteq Players
       /\ \A p \in DOMAIN credits[r][i] : credits[r][i][p] \in Nat \ {0}
  /\ audit \in [Rounds -> Seq([action : {"GENERATED", "FINALIZED"}, number : Numbers])]

SessionTypeOK ==
  /\ roundLock \in [Rounds -> Clients \cup {None}]
  /\ walletLock \in [Players -> Clients \cup {None}]
  /\ pc \in [Clients -> Steps \cup Ended \cup {"start"}]
  /\ \A c \in Clients : pc[c] \in Steps => IsCall(call[c])
  /\ \A c \in Clients : \/ entity[c] \in Round \cup Schedule \cup {None}
                         \/ DOMAIN entity[c] = DOMAIN config
  /\ joker \in [Clients -> Schedule \cup {None}]
  /\ \A c \in Clients : DOMAIN stakes[c].winners \subseteq Players
  /\ owed \in [Clients -> Seq([player : Players, cents : Nat \ {0}])]
  /\ held \in [Clients -> [Players ->
       [main : Nat, temp : Nat, cents : Nat \ {0}] \cup {None}]]
  /\ \A c \in Clients : dirty[c] # {} => dirty[c] \subseteq DOMAIN entity[c]

\* Every variable has its type: rows of the tables, the locks and the locals of
\* the handlers.
TypeOK == DbTypeOK /\ SessionTypeOK

PaidTo(p) ==
  LET paid(r) == SumFunction([i \in {j \in DOMAIN credits[r] : p \in DOMAIN credits[r][j]}
                                |-> credits[r][i][p]])
  IN SumFunction([r \in Rounds |-> paid(r)])

\* Every cent of a wallet is explained by the bets and payouts there are: a bet
\* is debited exactly once however often it is sent, no debit is left without
\* its bet, and no payout is lost to a bet or a transfer made meanwhile.
BalancesExplained == \A p \in Players :
  accounts[p].main + accounts[p].temp + Spent(bets, p) = Opening[p] + PaidTo(p)

\* A round is paid out at most once, whichever of finalize and publish are called
\* and however often: both look at the round under its lock.
PaidOnce == \A r \in Rounds : Len(credits[r]) <= 1

Completed(r) == rounds[r] # None /\ rounds[r].status = "COMPLETED"

\* A payout is computed from all the bets of its round, and from no other: no bet
\* slips in after the bets were summed, and the shares are those of the stakes
\* the table shows, out of a pool of some winning allocation.
PayoutCountsEveryBet == \A r \in Rounds : Completed(r) =>
  LET n == rounds[r].number
      winners == {p \in Players : StakeOn(bets, p, r, n) > 0}
      onNumber == [p \in winners |-> StakeOn(bets, p, r, n)]
      total == SumFunction([p \in Players |-> Stake(bets, p, r)])
      factor == IF rounds[r].joker THEN rounds[r].multiplier ELSE 1
      pays == UNION {Payouts(pool, onNumber) : pool \in Pools(total, config.winning, factor)}
      positive == {[p \in {q \in DOMAIN pay : pay[q] > 0} |-> pay[p]] : pay \in pays}
  IN IF winners = {} THEN credits[r] = << >>
     ELSE \E pay \in positive :
       credits[r] = IF DOMAIN pay = {} THEN << >> ELSE <<pay>>

\* Bets change only while their round is open: a bet that waited for a round
\* being closed is not taken, and one taken is never changed or removed.
BetsOnlyWhileOpen == [][\A p \in Players, k \in Keys :
  bets'[p][k] # bets[p][k] =>
    /\ bets[p][k] = None
    /\ rounds[bets'[p][k].round].status = "OPEN"]_vars

\* No bet is debited from a wallet that holds untransferred winnings, even if a
\* payout credits them after the bet began.
NoBetOverWinnings == [][\A p \in Players :
  Spent(bets', p) > Spent(bets, p) => accounts[p].temp = 0]_vars

\* A winning number, once generated, is never changed or taken back.
ResultIsFinal == [][\A r \in Rounds :
  rounds[r] # None /\ rounds[r].number # None =>
    rounds'[r].number = rounds[r].number]_vars

\* The audit tells each round's result: one GENERATED entry from the moment there
\* is a number, one FINALIZED entry once the round is completed, no others.
AuditTellsResult == \A r \in Rounds :
  LET entry(action) == [action |-> action, number |-> rounds[r].number] IN
  audit[r] =
    IF rounds[r] = None \/ rounds[r].number = None THEN << >>
    ELSE IF Completed(r) THEN <<entry("GENERATED"), entry("FINALIZED")>>
    ELSE <<entry("GENERATED")>>

\* The joker a round opens with is the one scheduled for it: a schedule made or
\* changed while the round is being opened is not missed.
ScheduledJokerPlays == [][\A r \in Rounds :
  /\ rounds[r] # None /\ rounds[r].status = "UPCOMING"
  /\ rounds'[r].status = "OPEN" /\ rounds'[r].joker
  /\ schedules[r] # None /\ schedules[r].active
  => rounds'[r].multiplier = schedules[r].multiplier]_vars

\* An update of the configuration changes only what its body gives, although it
\* saves an entity read before other updates wrote: what the body leaves out is
\* undefined in that entity, and so never set back to what was read.
UpdateKeepsTheRest == [][\A c \in Clients :
  ConfigWrite(c) /\ pc'[c] = "done" =>
    \A f \in DOMAIN config : config'[f] # config[f] =>
      f \in DOMAIN Given(call[c].change)]_vars

\* Every call that started is answered: payouts that lock the same wallets in
\* different orders wait for each other until one of them is aborted.
EveryCallAnswered == \A c \in Clients : pc[c] \in Steps ~> pc[c] \in Ended

\* what the joker multiplies a round's pool by
Factor(q) == IF q.joker THEN q.multiplier ELSE 1

\* what a player sees of a round: the joker from the moment it opens
ShownRound(q) ==
  IF q = None THEN None
  ELSE [status |-> q.status, number |-> q.number,
        factor |-> IF q.status = "UPCOMING" THEN None ELSE Factor(q)]

Game == INSTANCE FunTargetContract WITH
  round <- [r \in Rounds |-> ShownRound(rounds[r])],
  bet <- bets,
  account <- accounts,
  Percent <- Config0.winning

\* While no round is closed twice and the winners' percentage stays, the handlers
\* behave as the atomic operations of the game: a payout that locks its winners
\* one by one, while they bet and transfer, pays all of them at once, from the
\* bets the table then has; and no failure leaves a half of anything.
ImplementsGame == Game!Spec

=============================================================================
