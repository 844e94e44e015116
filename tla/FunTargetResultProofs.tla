------------------------ MODULE FunTargetResultProofs ------------------------
(***************************************************************************)
(* The joker, the result and the payout of a round, for every set of       *)
(* players, rounds, keys, clients and calls in which no two calls close    *)
(* the same round, or, for the joker, cancel the same schedule: a second   *)
(* close can set a paid round back to CLOSED (the run double_close), and a *)
(* slow cancellation can, after others, save part of a schedule that has   *)
(* been made again since.                                                  *)
(***************************************************************************)
EXTENDS FunTargetProofs, FunTargetSummary

\* no round is closed by two calls
OneCloser == \A c, d \in Clients : \A k \in CallsOf[c], l \in CallsOf[d] :
  k.handler = "close" /\ l.handler = "close" /\ k.round = l.round => c = d

\* no call gives the winners another percentage
SamePercentage == \A c \in Clients : \A k \in CallsOf[c] :
  k.handler = "configure" /\ "winning" \in DOMAIN k.change =>
    k.change.winning \in {Config0.winning, Undefined}

\* no round's schedule is cancelled by two calls
OneCanceller == \A c, d \in Clients : \A k \in CallsOf[c], l \in CallsOf[d] :
  k.handler = "cancel" /\ l.handler = "cancel" /\ k.round = l.round => c = d

-----------------------------------------------------------------------------
(* The invariant of a round's result.                                      *)

ServesCall(c) == Running(c) => call[c] \in CallsOf[c]

\* A close that has read its round still finds it as it was.
StillOpen(c) == Running(c) /\ Handler(c) = "close" /\ pc[c] # "readRound" =>
  /\ rounds[RoundOf(c)].status = "OPEN"
  /\ entity[c] = [rounds[RoundOf(c)] EXCEPT !.status = "CLOSED"]

\* A round has a number only once it is closed, and payouts and a full audit
\* exactly when it is completed.
ResultOK(r) ==
  /\ rounds[r] # None /\ rounds[r].number # None =>
       rounds[r].status \in {"CLOSED", "COMPLETED"}
  /\ Completed(r) => rounds[r].number # None
  /\ ~Completed(r) => credits[r] = << >>
  /\ Len(credits[r]) <= 1

ResultInv ==
  /\ \A c \in Clients : ServesCall(c) /\ StillOpen(c)
  /\ \A r \in Rounds : ResultOK(r)
  /\ AuditTellsResult

-----------------------------------------------------------------------------
(* The invariant of a round's payout.                                      *)

\* what a payout sums from the bets
Summed(table, r, n) ==
  [total |-> SumFunction([p \in Players |-> Stake(table, p, r)]),
   winners |-> [p \in {o \in Players : StakeOn(table, o, r, n) > 0} |->
                  StakeOn(table, p, r, n)]]
Winners(pay) == {p \in DOMAIN pay : pay[p] > 0}
Shown(pay) == IF Winners(pay) = {} THEN << >> ELSE <<[p \in Winners(pay) |-> pay[p]]>>

Paying(c) == Running(c) /\ Handler(c) \in {"finalize", "publish"}

\* The stakes a payout has summed are those of the table.
StakesHand(c) == Paying(c) /\ pc[c] \in {"readConfig", "lockWinner", "write"} =>
  stakes[c] = Summed(bets, RoundOf(c), entity[c].number)

\* What it has given and has still to give are together one split of the pool.
Handed(c, pay) ==
  /\ \A p \in Players : held[c][p] # None =>
       p \in DOMAIN pay /\ held[c][p].cents = pay[p]
  /\ \A i \in DOMAIN owed[c] : owed[c][i].player \in DOMAIN pay
  /\ \A i \in DOMAIN owed[c] : owed[c][i].cents = pay[owed[c][i].player]
  /\ \A p \in DOMAIN pay : pay[p] > 0 =>
       held[c][p] # None \/ \E i \in DOMAIN owed[c] : owed[c][i].player = p
  /\ pc[c] = "write" => owed[c] = << >>
PayHand(c) == Paying(c) /\ pc[c] \in {"lockWinner", "write"} =>
  IF DOMAIN stakes[c].winners = {} THEN pc[c] = "write" /\ held[c] = NoWallets
  ELSE \E pool \in Pools(stakes[c].total, config.winning, Factor(entity[c])) :
       \E pay \in Payouts(pool, stakes[c].winners) : Handed(c, pay)

\* Before its first wallet a handler has a copy of none.
EmptyHands(c) == pc[c] \notin {"lockWinner", "write"} => held[c] = NoWallets

\* An update has nothing but what its body gives for the columns of the row.
ConfigHand(c) ==
  Running(c) /\ Handler(c) = "configure" /\ pc[c] # "readConfig" =>
    \A f \in Columns : entity[c][f] = call[c].change[f]
ConfigInv == \A c \in Clients : ConfigHand(c)

\* The percentage stays as it was.
Percentage(c) ==
  Running(c) /\ Handler(c) = "configure" /\ pc[c] # "readConfig" =>
    entity[c].winning \in {Config0.winning, Undefined}

\* A payout has checked that the winnings it has in hand fit their wallets.
LimitHand(c) == Paying(c) => \A p \in Players : held[c][p] # None =>
  held[c][p].temp + held[c][p].cents <= Limit

PayoutInv ==
  /\ config.winning = Config0.winning
  /\ \A c \in Clients : EmptyHands(c) /\ StakesHand(c) /\ PayHand(c)
  /\ PayoutCountsEveryBet

-----------------------------------------------------------------------------
(* The invariant of a round's schedule.                                    *)

\* c has a cancellation of round r before it, or under way
Cancels(c, r) ==
  \/ pc[c] = "start" /\ \E k \in CallsOf[c] : k.handler = "cancel" /\ k.round = r
  \/ Running(c) /\ Handler(c) = "cancel" /\ RoundOf(c) = r

\* No cancellation has come before another.
Uncancelled(c) == \A r \in Rounds :
  Cancels(c, r) /\ schedules[r] # None => schedules[r].active

\* A cancellation that has read the schedule still finds it as it was.
CancelHand(c) == Running(c) /\ Handler(c) = "cancel" /\ pc[c] # "readSchedule" =>
  entity[c] = IF pc[c] = "readRound" THEN schedules[RoundOf(c)]
              ELSE [schedules[RoundOf(c)] EXCEPT !.active = FALSE]

\* A schedule that is made, or made again, is not active meanwhile.
MakeHand(c) == Running(c) /\ Handler(c) = "schedule" /\ pc[c] \in {"selectSchedule", "write"} =>
  /\ entity[c].active
  /\ schedules[RoundOf(c)] # None => ~schedules[RoundOf(c)].active

\* An opening that has read the schedule knows the one that is active.
OpenHand(c) ==
  LET s == schedules[RoundOf(c)] IN
  Running(c) /\ Handler(c) = "open" /\ s # None /\ s.active =>
    /\ pc[c] = "readConfig" => joker[c] = s
    /\ pc[c] = "write" /\ entity[c].joker => entity[c].multiplier = s.multiplier

JokerInv == \A c \in Clients :
  ServesCall(c) /\ Uncancelled(c) /\ CancelHand(c) /\ MakeHand(c) /\ OpenHand(c)

-----------------------------------------------------------------------------
(* One client moves at a time.                                             *)

LEMMA EndFrames ==
  ASSUME Locals, NEW c \in Clients, NEW outcome \in Ended, End(c, outcome)
  PROVE  Frame(c) /\ pc'[c] = outcome /\ held'[c] = NoWallets
<1>1. Frame(c)
  BY EndKeeps
<1> QED BY <1>1 DEF End, Locals

LEMMA RollbackFrames ==
  ASSUME Locals, NEW c \in Clients, Rollback(c)
  PROVE  Frame(c) /\ UNCHANGED db /\ pc'[c] = "failed" /\ held'[c] = NoWallets
BY EndFrames DEF Rollback, Ended

LEMMA ReadFrames ==
  ASSUME IInv, NEW c \in Clients, Read(c)
  PROVE  Frame(c) /\ UNCHANGED db
<1>. Locals
  BY DEF IInv
<1>1. CASE Rollback(c)
  BY <1>1, RollbackFrames
<1>2. CASE End(c, "done") /\ UNCHANGED db
  BY <1>2, EndFrames DEF Ended
<1>3. CASE LockRound(c)
  BY <1>1, <1>3 DEF LockRound, Follow, GoTo, Frame, Locals, locals
<1>4. CASE ReadRound(c)
  BY <1>1, <1>4 DEF ReadRound, Follow, GoTo, Frame, Locals, locals
<1>5. CASE ReadScheduleToOpen(c) \/ ReadScheduleToMake(c) \/ ReadScheduleToCancel(c)
  BY <1>1, <1>5 DEF ReadScheduleToOpen, ReadScheduleToMake, ReadScheduleToCancel,
     Follow, GoTo, Frame, Locals, locals
<1>6. CASE \/ ReadConfigToChange(c) \/ ReadConfigToCreate(c) \/ ReadConfigToOpen(c)
           \/ ReadConfigToBet(c)
  BY <1>1, <1>6 DEF ReadConfigToChange, ReadConfigToCreate, ReadConfigToOpen,
     ReadConfigToBet, Follow, GoTo, Frame, Locals, locals
<1>7. CASE ReadConfigToPay(c)
  BY <1>7 DEF ReadConfigToPay, GoTo, Frame, Locals, locals
<1>8. CASE ReadBet(c) \/ ReadBets(c)
  BY <1>2, <1>8 DEF ReadBet, ReadBets, Follow, GoTo, Frame, Locals, locals
<1>9. CASE LockWinner(c) \/ LockWallet(c)
  BY <1>1, <1>9 DEF LockWinner, LockWallet, TakeWallet, Follow, GoTo, Frame, Locals, locals
<1>10. CASE Select(c)
  BY <1>2, <1>10 DEF Select, Follow, GoTo, Frame, Locals, locals
<1> QED BY <1>3, <1>4, <1>5, <1>6, <1>7, <1>8, <1>9, <1>10 DEF Read

LEMMA WriteEnds ==
  ASSUME IInv, NEW c \in Clients, Write(c)
  PROVE  /\ Rollback(c) \/ End(c, "done")
         /\ Frame(c) /\ pc'[c] \in Ended /\ held'[c] = NoWallets
<1>. Locals
  BY DEF IInv
<1>1. Rollback(c) \/ End(c, "done")
  BY DEF Write, ConfigWrite, CreateWrite, OpenWrite, CloseWrite, GenerateWrite,
     SettleWrite, ScheduleWrite, CancelWrite, BetWrite
<1> QED BY <1>1, RollbackFrames, EndFrames DEF Ended

LEMMA StartFrames ==
  ASSUME IInv, NEW c \in Clients, Start(c)
  PROVE  Frame(c) /\ UNCHANGED db
<1>. Locals
  BY DEF IInv
<1> QED BY RollbackFrames DEF Start, GoTo, Frame, Locals

\* a step that is none of a client's
Idle(c) ==
  /\ pc'[c] = pc[c] /\ call'[c] = call[c] /\ entity'[c] = entity[c]
  /\ stakes'[c] = stakes[c] /\ owed'[c] = owed[c] /\ held'[c] = held[c]
  /\ joker'[c] = joker[c]
Acts(c) == Start(c) \/ Step(c) \/ Crash(c) \/ DeadlockVictim(c)

LEMMA OneMoves ==
  ASSUME IInv, [Next]_vars, NEW c \in Clients
  PROVE  Idle(c) \/ Acts(c)
<1>. Locals
  BY DEF IInv
<1>1. ASSUME NEW d \in Clients \ {c}, Acts(d) PROVE Idle(c)
  <2>1. Frame(d)
    BY <1>1, ReadFrames, WriteEnds, StartFrames, RollbackFrames
       DEF Acts, Step, Crash, DeadlockVictim
  <2> QED BY <2>1 DEF Frame, Idle
<1>2. CASE UNCHANGED vars
  BY <1>2 DEF vars, locals, Idle
<1>3. ASSUME NEW r \in Rounds, Tick(r) PROVE Idle(c)
  BY <1>3 DEF Tick, locals, Idle
<1>4. ASSUME NEW p \in Players, Transfer(p) PROVE Idle(c)
  BY <1>4 DEF Transfer, locals, Idle
<1> QED BY <1>1, <1>2, <1>3, <1>4 DEF Next, Acts, Terminating

-----------------------------------------------------------------------------
(* The life of a round: what a step may do to it.                          *)

Generated(n) == [action |-> "GENERATED", number |-> n]
Finalized(n) == [action |-> "FINALIZED", number |-> n]

Kept(r) == rounds'[r] = rounds[r] /\ credits'[r] = credits[r] /\ audit'[r] = audit[r]
Becomes(r, q) == rounds'[r] = q /\ credits'[r] = credits[r] /\ audit'[r] = audit[r]

IsCreated(r) == \E q \in Round :
  /\ rounds[r] = None
  /\ q.status = "UPCOMING" /\ q.number = None /\ ~q.finalized /\ Becomes(r, q)
IsOpened(r) == \E q \in Round :
  /\ rounds[r] # None /\ rounds[r].status = "UPCOMING"
  /\ q.status = "OPEN" /\ q.number = rounds[r].number
  /\ q.finalized = rounds[r].finalized /\ Becomes(r, q)
IsClosed(c, r) ==
  /\ CloseWrite(c) /\ RoundOf(c) = r
  /\ rounds[r] # None /\ rounds[r].status = "OPEN"
  /\ \E s \in {"OPEN", "CLOSED"} : Becomes(r, [rounds[r] EXCEPT !.status = s])
IsDrawn(r) == \E n \in Numbers :
  /\ rounds[r] # None /\ rounds[r].status = "CLOSED" /\ rounds[r].number = None
  /\ rounds'[r] = [rounds[r] EXCEPT !.number = n]
  /\ credits'[r] = credits[r]
  /\ audit'[r] = audit[r] \o <<Generated(n)>>
Paid(c) == {p \in Players : held[c][p] # None}
IsSettled(c, r) ==
  LET n == entity[c].number IN
  /\ SettleWrite(c) /\ RoundOf(c) = r
  /\ rounds[r] # None /\ rounds[r].status = "CLOSED" /\ n \in Numbers
  /\ rounds'[r] = [rounds[r] EXCEPT !.number = n, !.status = "COMPLETED", !.finalized = TRUE]
  /\ credits'[r] = IF Paid(c) = {} THEN credits[r]
                   ELSE Append(credits[r], [p \in Paid(c) |-> held[c][p].cents])
  /\ \/ rounds[r].number = n /\ audit'[r] = audit[r] \o <<Finalized(n)>>
     \/ rounds[r].number = None /\ audit'[r] = audit[r] \o <<Generated(n), Finalized(n)>>

Life(r) ==
  \/ Kept(r) \/ IsCreated(r) \/ IsOpened(r) \/ IsDrawn(r)
  \/ \E c \in Clients : IsClosed(c, r) \/ IsSettled(c, r)

LEMMA SavedRound ==
  ASSUME IInv, NEW x \in Rounds, NEW q, SaveRound(x, q)
  PROVE  rounds'[x] = q /\ \A r \in Rounds \ {x} : rounds'[r] = rounds[r]
BY DEF SaveRound, IInv, Tables

LEMMA AuditedRound ==
  ASSUME IInv, NEW x \in Rounds, NEW n
  PROVE  /\ \A steps : Audited(x, steps, n) => \A r \in Rounds \ {x} : audit'[r] = audit[r]
         /\ Audited(x, <<"GENERATED">>, n) => audit'[x] = audit[x] \o <<Generated(n)>>
         /\ Audited(x, <<"FINALIZED">>, n) => audit'[x] = audit[x] \o <<Finalized(n)>>
         /\ Audited(x, <<"GENERATED", "FINALIZED">>, n) =>
              audit'[x] = audit[x] \o <<Generated(n), Finalized(n)>>
<1>1. audit \in [Rounds -> Seq(Entry)]
  BY RowsTyped
<1> DEFINE more(steps) == [i \in DOMAIN steps |-> [action |-> steps[i], number |-> n]]
<1>2. \A steps : Audited(x, steps, n) => audit' = [audit EXCEPT ![x] = @ \o more(steps)]
  BY DEF Audited
<1>3. more(<<"GENERATED">>) = <<Generated(n)>>
  BY DEF Generated
<1>4. more(<<"FINALIZED">>) = <<Finalized(n)>>
  BY DEF Finalized
<1>5. more(<<"GENERATED", "FINALIZED">>) = <<Generated(n), Finalized(n)>>
  BY DEF Generated, Finalized
<1> HIDE DEF more
<1> QED BY <1>1, <1>2, <1>3, <1>4, <1>5

LEMMA CreateLife ==
  ASSUME IInv, NEW c \in Clients, CreateWrite(c), NEW r \in Rounds
  PROVE  Life(r)
<1>1. /\ Writing(c, {"create"})
      /\ UNCHANGED <<config, due, schedules, bets, accounts, credits, audit>>
  BY DEF CreateWrite
<1>2. PICK x \in Rounds : rounds[x] = None /\ SaveRound(x, entity[c])
  BY DEF CreateWrite
<1>3. ToCreate(c) /\ pc[c] = "write"
  BY <1>1, Writer DEF EntityOK
<1>4. /\ entity[c] \in Round /\ entity[c].status = "UPCOMING"
      /\ entity[c].number = None /\ ~entity[c].finalized
  BY <1>3 DEF ToCreate
<1> QED BY <1>1, <1>2, <1>4, SavedRound DEF Life, Kept, IsCreated, Becomes

LEMMA OpenLife ==
  ASSUME IInv, NEW c \in Clients, OpenWrite(c), NEW r \in Rounds
  PROVE  Life(r)
<1> DEFINE x == RoundOf(c)
<1>1. /\ Writing(c, {"open"}) /\ SaveRound(x, entity[c])
      /\ UNCHANGED <<config, due, schedules, bets, accounts, credits, audit>>
  BY DEF OpenWrite
<1>2. /\ x \in Rounds /\ pc[c] = "write" /\ Handler(c) = "open"
      /\ ToOpen(c) /\ RoundHeld(c) /\ Running(c)
  BY <1>1, Writer DEF EntityOK
<1>3. rounds[x] # None /\ rounds[x].status = "UPCOMING"
  BY <1>2 DEF RoundHeld, PastLock, Lockers, Ready
<1>4. rounds[x] \in Round
  BY <1>2, <1>3 DEF IInv, Tables
<1>5. /\ entity[c].joker \in BOOLEAN /\ entity[c].multiplier \in Nat \ {0}
      /\ entity[c] = [rounds[x] EXCEPT !.status = "OPEN", !.joker = entity[c].joker,
                                        !.multiplier = entity[c].multiplier]
  BY <1>2 DEF ToOpen
<1> HIDE DEF x
<1>6. /\ entity[c] \in Round /\ entity[c].status = "OPEN"
      /\ entity[c].number = rounds[x].number
      /\ entity[c].finalized = rounds[x].finalized
  BY <1>4, <1>5 DEF Round, Statuses
<1>7. /\ rounds'[x] = entity[c] /\ credits' = credits /\ audit' = audit
      /\ \A z \in Rounds \ {x} : rounds'[z] = rounds[z]
  BY <1>1, <1>2, SavedRound
<1> QED BY <1>3, <1>6, <1>7 DEF Life, Kept, IsOpened, Becomes

LEMMA CloseLife ==
  ASSUME IInv, NEW c \in Clients, StillOpen(c), CloseWrite(c), NEW r \in Rounds
  PROVE  Life(r)
<1> DEFINE x == RoundOf(c)
           q == rounds[x]
<1>1. /\ Writing(c, {"close"}) /\ SaveRound(x, Merged(c))
      /\ UNCHANGED <<config, due, schedules, bets, accounts, credits, audit>>
  BY DEF CloseWrite
<1>2. /\ x \in Rounds /\ pc[c] = "write" /\ Handler(c) = "close"
      /\ ToClose(c) /\ Running(c)
  BY <1>1, Writer DEF EntityOK
<1>3. q # None /\ q \in Round
  BY <1>2 DEF ToClose, IInv, Tables
<1>4. q.status = "OPEN" /\ entity[c] = [q EXCEPT !.status = "CLOSED"]
  BY <1>2 DEF StillOpen
<1>5. Merged(c) = [f \in DOMAIN q |-> IF f \in dirty[c] THEN entity[c][f] ELSE q[f]]
  BY <1>2 DEF Merged, Stored
<1> HIDE DEF x, q
<1>6. \E s \in {"OPEN", "CLOSED"} : Merged(c) = [q EXCEPT !.status = s]
  <2> DEFINE s == IF "status" \in dirty[c] THEN "CLOSED" ELSE "OPEN"
  <2>1. Merged(c) = [q EXCEPT !.status = s]
    BY <1>3, <1>4, <1>5 DEF Round
  <2> QED BY <2>1
<1>7. /\ rounds'[x] = Merged(c) /\ credits' = credits /\ audit' = audit
      /\ \A z \in Rounds \ {x} : rounds'[z] = rounds[z]
  BY <1>1, <1>2, SavedRound
<1>8. CASE r = x
  BY <1>2, <1>3, <1>4, <1>6, <1>7, <1>8 DEF Life, IsClosed, Becomes, x, q
<1> QED BY <1>7, <1>8 DEF Life, Kept

LEMMA DrawLife ==
  ASSUME IInv, NEW c \in Clients, GenerateWrite(c), NEW r \in Rounds
  PROVE  Life(r)
<1> DEFINE x == RoundOf(c)
           n == entity[c].number
<1>1. /\ Writing(c, {"generate"}) /\ SaveRound(x, entity[c])
      /\ Audited(x, <<"GENERATED">>, n)
      /\ UNCHANGED <<config, due, schedules, bets, accounts, credits>>
  BY DEF GenerateWrite
<1>2. Handler(c) = "generate" /\ pc[c] \in Steps \ {"lockRound"}
  BY <1>1, Writer DEF Steps
<1>3. /\ x \in Rounds /\ rounds[x] \in Round /\ Ready(c, rounds[x]) /\ n \in Numbers
      /\ entity[c] = [rounds[x] EXCEPT !.number = n]
  BY <1>2, Settling
<1>4. rounds[x] # None /\ rounds[x].status = "CLOSED" /\ rounds[x].number = None
  BY <1>2, <1>3, NoneAssumption DEF Ready
<1> HIDE DEF x, n
<1>5. /\ rounds'[x] = entity[c] /\ credits' = credits
      /\ audit'[x] = audit[x] \o <<Generated(n)>>
      /\ \A z \in Rounds \ {x} : rounds'[z] = rounds[z] /\ audit'[z] = audit[z]
  BY <1>1, <1>3, SavedRound, AuditedRound
<1> QED BY <1>3, <1>4, <1>5 DEF Life, Kept, IsDrawn

LEMMA SettleLife ==
  ASSUME IInv, NEW c \in Clients, SettleWrite(c), NEW r \in Rounds
  PROVE  Life(r)
<1> DEFINE x == RoundOf(c)
           n == entity[c].number
           q == rounds[x]
           e == [entity[c] EXCEPT !.status = "COMPLETED", !.finalized = TRUE]
           pay == [p \in Paid(c) |-> held[c][p].cents]
<1>1. /\ Writing(c, {"finalize", "publish"}) /\ SaveRound(x, e)
      /\ Handler(c) = "publish" => Audited(x, <<"GENERATED", "FINALIZED">>, n)
      /\ Handler(c) = "finalize" => Audited(x, <<"FINALIZED">>, n)
      /\ credits' = [credits EXCEPT ![x] = IF Paid(c) = {} THEN @ ELSE Append(@, pay)]
  BY DEF SettleWrite, Paid
<1>2. Handler(c) \in {"finalize", "publish"} /\ pc[c] \in Steps \ {"lockRound"}
  BY <1>1, Writer DEF Steps
<1>3. /\ x \in Rounds /\ q \in Round /\ Ready(c, q) /\ n \in Numbers
      /\ entity[c] = [q EXCEPT !.number = n]
  BY <1>2, Settling
<1>4. /\ q # None /\ q.status = "CLOSED"
      /\ Handler(c) = "publish" => q.number = None
  BY <1>2, <1>3, NoneAssumption DEF Ready
<1>5. Handler(c) = "finalize" => q.number = n
  BY <1>1, <1>2, Writer DEF EntityOK, ToSettle
<1>6. credits \in [Rounds -> Seq(Payment)]
  BY RowsTyped
<1> HIDE DEF x, n, pay
<1>7. e = [q EXCEPT !.number = n, !.status = "COMPLETED", !.finalized = TRUE]
  BY <1>3 DEF Round
<1> HIDE DEF e
<1>8. /\ rounds'[x] = e
      /\ credits'[x] = IF Paid(c) = {} THEN credits[x] ELSE Append(credits[x], pay)
      /\ Handler(c) = "publish" => audit'[x] = audit[x] \o <<Generated(n), Finalized(n)>>
      /\ Handler(c) = "finalize" => audit'[x] = audit[x] \o <<Finalized(n)>>
      /\ \A z \in Rounds \ {x} : /\ rounds'[z] = rounds[z] /\ audit'[z] = audit[z]
                                  /\ credits'[z] = credits[z]
  BY <1>1, <1>2, <1>3, <1>6, SavedRound, AuditedRound
<1>9. CASE r = x
  <2>1. IsSettled(c, r)
    BY <1>2, <1>3, <1>4, <1>5, <1>7, <1>8, <1>9 DEF IsSettled, n, x, pay
  <2> QED BY <2>1 DEF Life
<1> QED BY <1>8, <1>9 DEF Life, Kept

\* A round is created, opened, closed, given its number and settled in this order.
LEMMA RoundsLive ==
  ASSUME IInv, \A c \in Clients : StillOpen(c), [Next]_vars, NEW r \in Rounds
  PROVE  Life(r)
<1>1. ASSUME UNCHANGED <<rounds, credits, audit>> PROVE Life(r)
  BY <1>1 DEF Life, Kept
<1>2. ASSUME UNCHANGED db PROVE Life(r)
  BY <1>1, <1>2 DEF db
<1>3. ASSUME NEW c \in Clients, Write(c) PROVE Life(r)
  <2>1. CASE Rollback(c)
    BY <1>2, <2>1 DEF Rollback
  <2>2. CASE ConfigWrite(c) \/ ScheduleWrite(c) \/ CancelWrite(c) \/ BetWrite(c)
    BY <1>1, <2>1, <2>2 DEF ConfigWrite, ScheduleWrite, CancelWrite, BetWrite
  <2> QED BY <1>3, <2>2, CreateLife, OpenLife, CloseLife, DrawLife, SettleLife DEF Write
<1>4. ASSUME NEW c \in Clients, Acts(c) PROVE Life(r)
  BY <1>2, <1>3, <1>4, ReadFrames, StartFrames DEF Acts, Step, Crash, DeadlockVictim, Rollback
<1>5. CASE UNCHANGED vars
  BY <1>2, <1>5 DEF vars
<1>6. ASSUME NEW x \in Rounds, Tick(x) PROVE Life(r)
  BY <1>1, <1>6 DEF Tick
<1>7. ASSUME NEW p \in Players, Transfer(p) PROVE Life(r)
  BY <1>1, <1>7 DEF Transfer
<1> QED BY <1>4, <1>5, <1>6, <1>7 DEF Next, Acts, Terminating

-----------------------------------------------------------------------------
(* The result of a round is kept.                                          *)

LEMMA ReadContinues ==
  ASSUME IInv, NEW c \in Clients, Read(c)
  PROVE  /\ pc[c] \in Steps \ {"write"}
         /\ pc'[c] \in Ended \/ call'[c] = call[c]
<1>. Locals
  BY DEF IInv
<1>1. ASSUME Rollback(c) PROVE pc'[c] \in Ended
  BY <1>1, RollbackFrames DEF Ended
<1>2. ASSUME End(c, "done") PROVE pc'[c] \in Ended
  BY <1>2, EndFrames DEF Ended
<1>3. pc[c] \in Steps \ {"write"}
  BY DEF Read, LockRound, ReadRound, ReadScheduleToOpen, ReadScheduleToMake,
     ReadScheduleToCancel, ReadConfigToChange, ReadConfigToCreate, ReadConfigToOpen,
     ReadConfigToBet, ReadConfigToPay, ReadingConfig, ReadBet, ReadBets, LockWinner,
     LockWallet, Select, Steps
<1>4. Rollback(c) \/ End(c, "done") \/ call' = call
  BY DEF Read, LockRound, ReadRound, ReadScheduleToOpen, ReadScheduleToMake,
     ReadScheduleToCancel, ReadConfigToChange, ReadConfigToCreate, ReadConfigToOpen,
     ReadConfigToBet, ReadConfigToPay, ReadBet, ReadBets, LockWinner,
     LockWallet, Select, locals
<1> QED BY <1>1, <1>2, <1>3, <1>4

LEMMA ServesOK ==
  ASSUME IInv, [Next]_vars, NEW c \in Clients, ServesCall(c)
  PROVE  ServesCall(c)'
<1>. Locals
  BY DEF IInv
<1>1. ASSUME pc'[c] \in Ended PROVE ServesCall(c)'
  BY <1>1 DEF ServesCall, Running, Ended, Steps
<1>2. CASE Idle(c)
  BY <1>2 DEF Idle, ServesCall, Running
<1>3. CASE Start(c)
  <2>1. CASE Rollback(c)
    BY <1>1, <2>1, RollbackFrames DEF Ended
  <2>2. CASE \E k \in CallsOf[c] : call' = [call EXCEPT ![c] = k]
    BY <2>2 DEF ServesCall, Running, Locals
  <2> QED BY <1>3, <2>1, <2>2 DEF Start
<1>4. CASE Read(c)
  <2>1. pc[c] \in Steps /\ (pc'[c] \in Ended \/ call'[c] = call[c])
    BY <1>4, ReadContinues
  <2> QED BY <1>1, <2>1 DEF ServesCall, Running
<1>5. CASE Write(c)
  BY <1>1, <1>5, WriteEnds
<1>6. CASE Crash(c) \/ DeadlockVictim(c)
  BY <1>1, <1>6, RollbackFrames DEF Crash, DeadlockVictim, Ended
<1> QED BY <1>2, <1>3, <1>4, <1>5, <1>6, OneMoves DEF Acts, Step

LEMMA StillOpenOK ==
  ASSUME OneCloser, IInv, ResultInv, [Next]_vars, NEW c \in Clients
  PROVE  StillOpen(c)'
<1>. Locals
  BY DEF IInv
<1> DEFINE r == RoundOf(c)
<1>1. ASSUME pc'[c] \in Ended PROVE StillOpen(c)'
  BY <1>1 DEF StillOpen, Running, Ended, Steps
<1>2. CASE Idle(c)
  <2> SUFFICES ASSUME Running(c), Handler(c) = "close", pc[c] # "readRound"
               PROVE  rounds'[r] = rounds[r]
    BY <1>2 DEF Idle, StillOpen, Running, Handler, RoundOf, ResultInv
  <2>1. r \in Rounds /\ rounds[r] # None /\ rounds[r].status = "OPEN"
    <3>1. Control(c) /\ EntityOK(c)
      BY DEF IInv, Session
    <3>2. ToClose(c)
      BY <3>1 DEF EntityOK
    <3> QED BY <3>1, <3>2, RoundIsRound DEF ToClose, StillOpen, ResultInv
  <2> HIDE DEF r
  <2>2. Life(r)
    BY <2>1, RoundsLive DEF ResultInv
  <2>3. ASSUME NEW d \in Clients, IsClosed(d, r) PROVE FALSE
    <3>1. CloseWrite(d) /\ RoundOf(d) = r
      BY <2>3 DEF IsClosed
    <3>2. Running(d) /\ Handler(d) = "close"
      BY <3>1, Writer DEF CloseWrite
    <3>3. call[c] \in CallsOf[c] /\ call[d] \in CallsOf[d]
      BY <3>2 DEF ResultInv, ServesCall
    <3>4. d = c
      BY <3>1, <3>2, <3>3 DEF OneCloser, Handler, RoundOf, r
    <3>5. pc'[c] \in Ended
      BY <3>1, <3>4, WriteEnds DEF Write
    <3> QED BY <1>2, <3>5 DEF Idle, Running, Ended, Steps
  <2>4. ~IsCreated(r) /\ ~IsOpened(r) /\ ~IsDrawn(r) /\ \A d \in Clients : ~IsSettled(d, r)
    BY <2>1 DEF IsCreated, IsOpened, IsDrawn, IsSettled
  <2> QED BY <2>2, <2>3, <2>4 DEF Life, Kept
<1>3. CASE Start(c)
  <2>1. CASE Rollback(c)
    BY <1>1, <2>1, RollbackFrames DEF Ended
  <2>2. CASE \E k \in CallsOf[c] : /\ call' = [call EXCEPT ![c] = k]
                                  /\ GoTo(c, Path(k.handler)[1])
    <3>1. PICK k \in CallsOf[c] : /\ call' = [call EXCEPT ![c] = k]
                                  /\ GoTo(c, Path(k.handler)[1])
      BY <2>2
    <3>2. call'[c] = k /\ pc'[c] = Path(k.handler)[1]
      BY <3>1 DEF Locals, GoTo
    <3>3. k.handler = "close" => pc'[c] = "readRound"
      BY <3>2 DEF Path
    <3> QED BY <3>2, <3>3 DEF StillOpen, Handler
  <2> QED BY <1>3, <2>1, <2>2 DEF Start
<1>4. CASE Read(c)
  <2>1. Running(c) /\ Control(c) /\ pc[c] # "write"
    BY <1>4, ReadContinues, Reading DEF Running
  <2>2. CASE pc'[c] \in Ended
    BY <1>1, <2>2
  <2>3. CASE call'[c] = call[c] /\ Handler(c) # "close"
    BY <2>3 DEF StillOpen, Handler
  <2>4. CASE call'[c] = call[c] /\ Handler(c) = "close" /\ pc'[c] \notin Ended
    <3>1. pc[c] \in {"readRound", "selectRound"}
      BY <2>1, <2>4 DEF Control, StepsOf
    <3>2. ReadRound(c) \/ Select(c)
      BY <1>4, <2>4, <3>1 DEF Read, LockRound, ReadScheduleToOpen, ReadScheduleToMake,
         ReadScheduleToCancel, ReadConfigToChange, ReadConfigToCreate, ReadConfigToOpen,
         ReadConfigToBet, ReadConfigToPay, ReadingConfig, ReadBet, ReadBets, LockWinner,
         LockWallet
    <3>3. rounds' = rounds
      BY <1>4, ReadFrames DEF db
    <3>4. ~Rollback(c) /\ ~End(c, "done")
      BY <2>4, RollbackFrames, EndFrames DEF Ended
    <3>5. CASE ReadRound(c)
      <4>1. /\ rounds[r].status = "OPEN"
            /\ entity' = [entity EXCEPT ![c] = [rounds[r] EXCEPT !.status = "CLOSED"]]
        BY <2>4, <3>4, <3>5 DEF ReadRound, Ready
      <4> QED BY <2>4, <3>3, <4>1 DEF StillOpen, RoundOf, Locals
    <3>6. CASE Select(c)
      <4>1. pc[c] # "readRound" /\ entity' = entity
        BY <3>4, <3>6 DEF Select
      <4> QED BY <2>1, <2>4, <3>3, <4>1 DEF ResultInv, StillOpen, Handler, RoundOf
    <3> QED BY <3>2, <3>5, <3>6
  <2> QED BY <1>4, <2>2, <2>3, <2>4, ReadContinues
<1>5. CASE Write(c)
  BY <1>1, <1>5, WriteEnds
<1>6. CASE Crash(c) \/ DeadlockVictim(c)
  BY <1>1, <1>6, RollbackFrames DEF Crash, DeadlockVictim, Ended
<1> QED BY <1>2, <1>3, <1>4, <1>5, <1>6, OneMoves DEF Acts, Step

\* what the audit of one round tells
AuditOK(r) == audit[r] =
  IF rounds[r] = None \/ rounds[r].number = None THEN << >>
  ELSE IF Completed(r)
    THEN <<Generated(rounds[r].number), Finalized(rounds[r].number)>>
    ELSE <<Generated(rounds[r].number)>>

LEMMA AuditIsOK == AuditTellsResult <=> \A r \in Rounds : AuditOK(r)
BY DEF AuditTellsResult, AuditOK, Generated, Finalized

LEMMA TwoEntries ==
  ASSUME NEW a, NEW b
  PROVE  << >> \o <<a, b>> = <<a, b>> /\ <<a>> \o <<b>> = <<a, b>>
<1>1. <<a>> \o <<b>> = <<a, b>>
  <2> DEFINE s == <<a>> \o <<b>>
  <2>1. <<a>> \in Seq({a, b}) /\ <<b>> \in Seq({a, b})
    OBVIOUS
  <2>2. s \in Seq({a, b}) /\ Len(s) = 2 /\ s[1] = a /\ s[2] = b
    BY <2>1
  <2> HIDE DEF s
  <2>3. s = <<a, b>>
    BY <2>2
  <2> QED BY <2>3 DEF s
<1>2. << >> \o <<a, b>> = <<a, b>>
  OBVIOUS
<1> QED BY <1>1, <1>2

LEMMA ResultLives ==
  ASSUME IInv, NEW r \in Rounds, ResultOK(r), AuditOK(r), Life(r)
  PROVE  /\ ResultOK(r)' /\ AuditOK(r)'
         /\ rounds[r] # None /\ rounds[r].number # None =>
              rounds'[r].number = rounds[r].number
<1>1. /\ rounds[r] \in Round \cup {None} /\ \A q \in Round : q # None
      /\ \A n \in Numbers : n # None
      /\ credits[r] \in Seq(Payment)
  BY NoneAssumption, RoundsAssumption DEF IInv, Tables
<1>2. CASE Kept(r)
  BY <1>2 DEF Kept, ResultOK, AuditOK, Completed
<1>3. CASE IsCreated(r)
  BY <1>1, <1>3 DEF IsCreated, Becomes, ResultOK, AuditOK, Completed
<1>4. CASE IsOpened(r)
  BY <1>1, <1>4 DEF IsOpened, Becomes, ResultOK, AuditOK, Completed
<1>5. ASSUME NEW c \in Clients, IsClosed(c, r)
      PROVE  /\ ResultOK(r)' /\ AuditOK(r)'
             /\ rounds[r].number # None => rounds'[r].number = rounds[r].number
  <2>1. PICK s \in {"OPEN", "CLOSED"} : Becomes(r, [rounds[r] EXCEPT !.status = s])
    BY <1>5 DEF IsClosed
  <2>2. /\ rounds[r] \in Round /\ rounds[r].status = "OPEN" /\ rounds[r].number = None
    BY <1>1, <1>5 DEF IsClosed, ResultOK
  <2> DEFINE q == [rounds[r] EXCEPT !.status = s]
  <2>3. q.number = None /\ q.status = s /\ q # None
    <3>1. q \in Round
      BY <2>2 DEF Round, Statuses
    <3> QED BY <1>1, <2>2, <3>1 DEF Round
  <2> HIDE DEF q
  <2>4. rounds'[r] = q /\ credits'[r] = credits[r] /\ audit'[r] = audit[r]
    BY <2>1 DEF Becomes, q
  <2> QED BY <2>2, <2>3, <2>4 DEF ResultOK, AuditOK, Completed
<1>6. CASE IsDrawn(r)
  <2>1. PICK n \in Numbers :
          /\ rounds[r] # None /\ rounds[r].status = "CLOSED" /\ rounds[r].number = None
          /\ rounds'[r] = [rounds[r] EXCEPT !.number = n]
          /\ credits'[r] = credits[r]
          /\ audit'[r] = audit[r] \o <<Generated(n)>>
    BY <1>6 DEF IsDrawn
  <2>2. /\ rounds'[r] \in Round /\ rounds'[r].number = n /\ rounds'[r].status = "CLOSED"
    BY <1>1, <2>1 DEF Round
  <2>3. audit[r] = << >> /\ credits[r] = << >>
    BY <2>1 DEF AuditOK, ResultOK, Completed
  <2>4. << >> \o <<Generated(n)>> = <<Generated(n)>>
    OBVIOUS
  <2> QED BY <1>1, <2>1, <2>2, <2>3, <2>4 DEF ResultOK, AuditOK, Completed
<1>7. ASSUME NEW c \in Clients, IsSettled(c, r)
      PROVE  /\ ResultOK(r)' /\ AuditOK(r)'
             /\ rounds[r].number # None => rounds'[r].number = rounds[r].number
  <2> DEFINE n == entity[c].number
             pay == [p \in Paid(c) |-> held[c][p].cents]
             q == [rounds[r] EXCEPT !.number = n, !.status = "COMPLETED", !.finalized = TRUE]
  <2>1. /\ rounds[r] # None /\ rounds[r].status = "CLOSED" /\ n \in Numbers
        /\ rounds'[r] = q
        /\ credits'[r] = IF Paid(c) = {} THEN credits[r] ELSE Append(credits[r], pay)
        /\ \/ rounds[r].number = n /\ audit'[r] = audit[r] \o <<Finalized(n)>>
           \/ /\ rounds[r].number = None
              /\ audit'[r] = audit[r] \o <<Generated(n), Finalized(n)>>
    BY <1>7 DEF IsSettled
  <2> HIDE DEF n
  <2>2. rounds'[r] \in Round /\ rounds'[r].number = n /\ rounds'[r].status = "COMPLETED"
    BY <1>1, <2>1 DEF Round, Statuses
  <2>3. /\ credits[r] = << >>
        /\ rounds[r].number = None => audit[r] = << >>
        /\ rounds[r].number = n => audit[r] = <<Generated(n)>>
    BY <1>1, <2>1 DEF AuditOK, ResultOK, Completed
  <2>4. /\ << >> \o <<Generated(n), Finalized(n)>> = <<Generated(n), Finalized(n)>>
        /\ <<Generated(n)>> \o <<Finalized(n)>> = <<Generated(n), Finalized(n)>>
    BY TwoEntries
  <2>5. audit'[r] = <<Generated(n), Finalized(n)>>
    BY <2>1, <2>3, <2>4
  <2> HIDE DEF pay, q
  <2>6. Len(credits'[r]) <= 1
    BY <2>1, <2>3
  <2> QED BY <1>1, <2>1, <2>2, <2>5, <2>6 DEF ResultOK, AuditOK, Completed
<1> QED BY <1>2, <1>3, <1>4, <1>5, <1>6, <1>7 DEF Life

LEMMA ResultInit == Init => ResultInv
<1> SUFFICES ASSUME Init PROVE ResultInv
  OBVIOUS
<1>1. \A c \in Clients : ServesCall(c) /\ StillOpen(c)
  BY DEF Init, ServesCall, StillOpen, Running, Steps
<1>2. \A r \in Rounds : ResultOK(r) /\ AuditOK(r)
  BY DatabaseAssumption DEF Init, ResultOK, AuditOK, Completed
<1> QED BY <1>1, <1>2, AuditIsOK DEF ResultInv

LEMMA ResultNext == OneCloser /\ IInv /\ ResultInv /\ [Next]_vars => ResultInv'
<1> SUFFICES ASSUME OneCloser, IInv, ResultInv, [Next]_vars PROVE ResultInv'
  OBVIOUS
<1>1. ASSUME NEW c \in Clients PROVE ServesCall(c)' /\ StillOpen(c)'
  BY ServesOK, StillOpenOK DEF ResultInv
<1>2. ASSUME NEW r \in Rounds PROVE ResultOK(r)' /\ AuditOK(r)'
  BY RoundsLive, ResultLives, AuditIsOK DEF ResultInv
<1>3. AuditTellsResult'
  BY <1>2 DEF AuditTellsResult, AuditOK, Generated, Finalized, Completed
<1> QED BY <1>1, <1>2, <1>3 DEF ResultInv

LEMMA ResultInvariant == ASSUME OneCloser PROVE Spec => []ResultInv
<1>1. IInv /\ ResultInv /\ [Next]_vars => ResultInv'
  BY ResultNext
<1> QED BY <1>1, ResultInit, Invariant, PTL DEF Spec

\* A round is paid out at most once, whatever calls settle it and whatever fails.
THEOREM RoundsPaidOnce == ASSUME OneCloser PROVE Spec => []PaidOnce
<1>1. ResultInv => PaidOnce
  BY DEF ResultInv, ResultOK, PaidOnce
<1> QED BY <1>1, ResultInvariant, PTL

\* The audit of a round tells its result, and that it was paid, exactly once.
THEOREM AuditTells == ASSUME OneCloser PROVE Spec => []AuditTellsResult
<1>1. ResultInv => AuditTellsResult
  BY DEF ResultInv
<1> QED BY <1>1, ResultInvariant, PTL

\* A number, once it is there, is never changed or taken back.
THEOREM ResultsStay == ASSUME OneCloser PROVE Spec => ResultIsFinal
<1> DEFINE Fine == \A r \in Rounds : rounds[r] # None /\ rounds[r].number # None =>
                     rounds'[r].number = rounds[r].number
<1>1. IInv /\ ResultInv /\ [Next]_vars => [Fine]_vars
  BY RoundsLive, ResultLives, AuditIsOK DEF ResultInv
<1> QED BY <1>1, ResultInvariant, Invariant, PTL DEF Spec, ResultIsFinal

-----------------------------------------------------------------------------
(* The winners' percentage stays.                                          *)

LEMMA PercentageKept ==
  ASSUME IInv, [Next]_vars, config.winning = Config0.winning,
         \A c \in Clients : Percentage(c)
  PROVE  config'.winning = Config0.winning
<1>1. ASSUME config' = config PROVE config'.winning = Config0.winning
  BY <1>1
<1>2. ASSUME UNCHANGED db PROVE config' = config
  BY <1>2 DEF db
<1>3. ASSUME NEW c \in Clients, Write(c) PROVE config'.winning = Config0.winning
  <2>1. CASE Rollback(c)
    BY <1>1, <1>2, <2>1 DEF Rollback
  <2>2. CASE \/ CreateWrite(c) \/ OpenWrite(c) \/ CloseWrite(c) \/ GenerateWrite(c)
             \/ SettleWrite(c) \/ ScheduleWrite(c) \/ CancelWrite(c)
    BY <1>1, <2>2 DEF CreateWrite, OpenWrite, CloseWrite, GenerateWrite, SettleWrite,
       ScheduleWrite, CancelWrite
  <2>3. CASE BetWrite(c)
    BY <1>1, <2>1, <2>3 DEF BetWrite
  <2>4. CASE ConfigWrite(c) /\ ~Rollback(c)
    <3>1. Writing(c, {"configure"}) /\ config' = Merged(c)
      BY <2>4 DEF ConfigWrite
    <3>2. Running(c) /\ Handler(c) = "configure" /\ pc[c] = "write" /\ ToSave(c)
      BY <3>1, Writer DEF EntityOK
    <3>3. config' = [f \in DOMAIN config |-> IF f \in dirty[c] THEN entity[c][f] ELSE config[f]]
      BY <3>1, <3>2 DEF Merged, Stored
    <3>4. "winning" \in DOMAIN config
      BY DEF IInv, Tables, Config
    <3>5. config'.winning = IF "winning" \in dirty[c] THEN entity[c].winning ELSE config.winning
      BY <3>3, <3>4
    <3> QED BY <3>2, <3>5 DEF ToSave, Percentage
  <2> QED BY <1>3, <2>1, <2>2, <2>3, <2>4 DEF Write
<1>4. ASSUME NEW c \in Clients, Acts(c) PROVE config'.winning = Config0.winning
  BY <1>1, <1>2, <1>3, <1>4, ReadFrames, StartFrames
     DEF Acts, Step, Crash, DeadlockVictim, Rollback
<1>5. CASE UNCHANGED vars
  BY <1>1, <1>2, <1>5 DEF vars
<1>6. ASSUME NEW r \in Rounds, Tick(r) PROVE config'.winning = Config0.winning
  BY <1>1, <1>6 DEF Tick
<1>7. ASSUME NEW p \in Players, Transfer(p) PROVE config'.winning = Config0.winning
  BY <1>1, <1>7 DEF Transfer
<1> QED BY <1>4, <1>5, <1>6, <1>7 DEF Next, Acts, Terminating

LEMMA PercentageIs ==
  ASSUME SamePercentage, IInv, NEW c \in Clients, ServesCall(c), ConfigHand(c)
  PROVE  Percentage(c)
<1> SUFFICES ASSUME Running(c), Handler(c) = "configure", pc[c] # "readConfig"
             PROVE  entity[c].winning \in {Config0.winning, Undefined}
  BY DEF Percentage
<1>1. call[c] \in CallsOf[c] /\ call[c].handler = "configure"
  BY DEF ServesCall, Handler
<1>2. IsCall(call[c]) /\ DOMAIN Config0 = Columns
  BY <1>1, CallsAssumption, DatabaseAssumption DEF Config, Columns
<1>3. "winning" \in DOMAIN call[c].change
  BY <1>1, <1>2 DEF IsCall, Columns
<1>4. call[c].change.winning \in {Config0.winning, Undefined}
  BY <1>1, <1>3 DEF SamePercentage
<1>5. entity[c].winning = call[c].change.winning
  BY DEF ConfigHand, Columns
<1> QED BY <1>4, <1>5

-----------------------------------------------------------------------------
(* What an update of the configuration writes.                             *)

LEMMA ConfigHandOK ==
  ASSUME IInv, [Next]_vars, NEW c \in Clients, ConfigHand(c)
  PROVE  ConfigHand(c)'
<1>. Locals
  BY DEF IInv
<1>1. ASSUME pc'[c] \in Ended PROVE ConfigHand(c)'
  BY <1>1 DEF ConfigHand, Running, Ended, Steps
<1>2. CASE Idle(c)
  BY <1>2 DEF Idle, ConfigHand, Running, Handler
<1>3. CASE Start(c)
  <2>1. CASE Rollback(c)
    BY <1>1, <2>1, RollbackFrames DEF Ended
  <2>2. CASE \E k \in CallsOf[c] : /\ call' = [call EXCEPT ![c] = k]
                                  /\ GoTo(c, Path(k.handler)[1])
    <3>1. PICK k \in CallsOf[c] : /\ call' = [call EXCEPT ![c] = k]
                                  /\ GoTo(c, Path(k.handler)[1])
      BY <2>2
    <3>2. call'[c] = k /\ pc'[c] = Path(k.handler)[1]
      BY <3>1 DEF Locals, GoTo
    <3>3. k.handler = "configure" => pc'[c] = "readConfig"
      BY <3>2 DEF Path
    <3> QED BY <3>2, <3>3 DEF ConfigHand, Handler
  <2> QED BY <1>3, <2>1, <2>2 DEF Start
<1>4. CASE Read(c)
  <2>1. Running(c) /\ Control(c) /\ pc[c] # "write"
    BY <1>4, ReadContinues, Reading DEF Running
  <2>2. CASE pc'[c] \in Ended
    BY <1>1, <2>2
  <2>3. CASE call'[c] = call[c] /\ Handler(c) # "configure"
    BY <2>3 DEF ConfigHand, Handler
  <2>4. CASE call'[c] = call[c] /\ Handler(c) = "configure" /\ pc'[c] \notin Ended
    <3>1. pc[c] \in {"readConfig", "selectConfig"}
      BY <2>1, <2>4 DEF Control, StepsOf
    <3>2. ReadConfigToChange(c) \/ Select(c)
      BY <1>4, <2>4, <3>1 DEF Read, LockRound, ReadRound, ReadScheduleToOpen,
         ReadScheduleToMake, ReadScheduleToCancel, ReadConfigToCreate, ReadConfigToOpen,
         ReadConfigToBet, ReadConfigToPay, ReadingConfig, ReadBet, ReadBets, LockWinner,
         LockWallet
    <3>3. ~Rollback(c) /\ ~End(c, "done")
      BY <2>4, RollbackFrames, EndFrames DEF Ended
    <3>4. CASE ReadConfigToChange(c)
      <4>1. entity'[c] = Assign(config, call[c].change)
        BY <3>3, <3>4 DEF ReadConfigToChange, Locals
      <4>2. DOMAIN config = Columns /\ DOMAIN Config0 = Columns
        BY DatabaseAssumption DEF IInv, Tables, Config, Columns
      <4>3. DOMAIN call[c].change = Columns
        BY <2>1, <2>4, <4>2 DEF Control, IsCall, Handler
      <4>4. \A f \in Columns : entity'[c][f] = call[c].change[f]
        BY <4>1, <4>2, <4>3 DEF Assign
      <4> QED BY <2>4, <4>4 DEF ConfigHand
    <3>5. CASE Select(c)
      <4>1. pc[c] # "readConfig" /\ entity' = entity
        BY <3>3, <3>5 DEF Select
      <4> QED BY <2>1, <2>4, <4>1 DEF ConfigHand, Handler
    <3> QED BY <3>2, <3>4, <3>5
  <2> QED BY <1>4, <2>2, <2>3, <2>4, ReadContinues
<1>5. CASE Write(c)
  BY <1>1, <1>5, WriteEnds
<1>6. CASE Crash(c) \/ DeadlockVictim(c)
  BY <1>1, <1>6, RollbackFrames DEF Crash, DeadlockVictim, Ended
<1> QED BY <1>2, <1>3, <1>4, <1>5, <1>6, OneMoves DEF Acts, Step

LEMMA ConfigInvariant == Spec => []ConfigInv
<1>1. Init => ConfigInv
  BY DEF Init, ConfigInv, ConfigHand, Running, Steps
<1>2. IInv /\ ConfigInv /\ [Next]_vars => ConfigInv'
  BY ConfigHandOK DEF ConfigInv
<1> QED BY <1>1, <1>2, Invariant, PTL DEF Spec

\* An update of the configuration changes only what its body gives, whatever other
\* updates wrote since it read the row it saves.
THEOREM UpdatesKeepTheRest == Spec => UpdateKeepsTheRest
<1> DEFINE Keeps == \A c \in Clients : ConfigWrite(c) /\ pc'[c] = "done" =>
                      \A f \in DOMAIN config : config'[f] # config[f] =>
                        f \in DOMAIN Given(call[c].change)
<1>1. ASSUME IInv, ConfigInv, [Next]_vars PROVE [Keeps]_vars
  <2> SUFFICES ASSUME NEW c \in Clients, ConfigWrite(c), pc'[c] = "done",
                      NEW f \in DOMAIN config, config'[f] # config[f]
               PROVE  f \in DOMAIN Given(call[c].change)
    OBVIOUS
  <2>. IInv /\ ConfigInv
    BY <1>1
  <2>1. ~Rollback(c)
    <3>1. Rollback(c) => pc'[c] = "failed"
      BY DEF Rollback, End, IInv, Locals
    <3> QED BY <3>1
  <2>2. Writing(c, {"configure"}) /\ config' = Merged(c)
    BY <2>1 DEF ConfigWrite
  <2>3. /\ Running(c) /\ Handler(c) = "configure" /\ pc[c] = "write"
        /\ ToSave(c) /\ IsCall(call[c])
    <3>1. Writing(c, {"configure"})
      BY <2>2
    <3>2. Running(c) /\ Handler(c) = "configure" /\ pc[c] = "write" /\ ToSave(c) /\ Control(c)
      BY <3>1, Writer DEF EntityOK
    <3> QED BY <3>2 DEF Control
  <2>4. config' = [g \in DOMAIN config |-> IF g \in dirty[c] THEN entity[c][g] ELSE config[g]]
    BY <2>2, <2>3 DEF Merged, Stored
  <2>5. f \in dirty[c] /\ entity[c][f] # Undefined
    BY <2>3, <2>4 DEF ToSave
  <2>6. DOMAIN config = Columns /\ DOMAIN Config0 = Columns
    <3>1. config \in Config /\ Config0 \in Config
      BY DatabaseAssumption DEF IInv, Tables
    <3> QED BY <3>1 DEF Config, Columns
  <2>7. f \in DOMAIN call[c].change
    BY <2>3, <2>6 DEF IsCall, Handler
  <2>8. call[c].change[f] # Undefined
    BY <2>3, <2>5, <2>6 DEF ConfigInv, ConfigHand
  <2> QED BY <2>7, <2>8 DEF Given
<1> QED BY <1>1, ConfigInvariant, Invariant, PTL DEF Spec, UpdateKeepsTheRest

-----------------------------------------------------------------------------
(* The bets of a round that is no longer open.                             *)

LEMMA BetsOfRound ==
  ASSUME IInv, [Next]_vars, NEW r \in Rounds, rounds[r].status # "OPEN"
  PROVE  /\ \A n : Summed(bets', r, n) = Summed(bets, r, n)
         /\ \A p \in Players :
              /\ Stake(bets', p, r) = Stake(bets, p, r)
              /\ \A n : StakeOn(bets', p, r, n) = StakeOn(bets, p, r, n)
<1>1. CASE bets' = bets
  BY <1>1
<1>2. CASE bets' # bets
  <2>1. PICK c \in Clients, p \in Players, k \in Keys : Taken(c, p, k)
    BY <1>2, OnlyBetsTakeBets
  <2> DEFINE b == [round |-> call[c].round, number |-> call[c].number,
                   amount |-> call[c].amount]
  <2>2. /\ bets[p][k] = None /\ bets' = [bets EXCEPT ![p][k] = b]
        /\ b.round # r
        /\ bets \in [Players -> [Keys -> Bet \cup {None}]]
    BY <2>1 DEF Taken, IInv, Tables
  <2> HIDE DEF b
  <2> DEFINE On(table, o, j) == table[o][j] # None /\ table[o][j].round = r
  <2>3. ASSUME NEW o \in Players, NEW j \in Keys
        PROVE  /\ On(bets', o, j) <=> On(bets, o, j)
               /\ On(bets', o, j) => bets'[o][j] = bets[o][j]
    BY <2>2
  <2>4. ASSUME NEW o \in Players
        PROVE  /\ Stake(bets', o, r) = Stake(bets, o, r)
               /\ \A n : StakeOn(bets', o, r, n) = StakeOn(bets, o, r, n)
    <3>1. {j \in Keys : On(bets', o, j)} = {j \in Keys : On(bets, o, j)}
      BY <2>3
    <3>2. [j \in {i \in Keys : On(bets', o, i)} |-> bets'[o][j].amount]
            = [j \in {i \in Keys : On(bets, o, i)} |-> bets[o][j].amount]
      BY <2>3, <3>1
    <3>3. ASSUME NEW n
          PROVE  {j \in Keys : On(bets', o, j) /\ bets'[o][j].number = n}
                   = {j \in Keys : On(bets, o, j) /\ bets[o][j].number = n}
      BY <2>3
    <3>4. ASSUME NEW n
          PROVE  [j \in {i \in Keys : On(bets', o, i) /\ bets'[o][i].number = n} |->
                    bets'[o][j].amount]
                 = [j \in {i \in Keys : On(bets, o, i) /\ bets[o][i].number = n} |->
                    bets[o][j].amount]
      BY <2>3, <3>3
    <3>5. Stake(bets', o, r) = Stake(bets, o, r)
      BY <3>2 DEF Stake
    <3>6. ASSUME NEW n PROVE StakeOn(bets', o, r, n) = StakeOn(bets, o, r, n)
      <4>1. \A table : StakeOn(table, o, r, n) =
              SumFunction([j \in {i \in Keys : On(table, o, i) /\ table[o][i].number = n} |->
                             table[o][j].amount])
        <5>1. ASSUME NEW table
              PROVE  {i \in Keys : On(table, o, i) /\ table[o][i].number = n}
                       = {i \in Keys : /\ table[o][i] # None
                                       /\ table[o][i].round = r
                                       /\ table[o][i].number = n}
          OBVIOUS
        <5> QED BY <5>1 DEF StakeOn
      <4> HIDE DEF On
      <4> QED BY <3>4, <4>1
    <3> QED BY <3>5, <3>6
  <2>5. ASSUME NEW n PROVE Summed(bets', r, n) = Summed(bets, r, n)
    <3>1. {o \in Players : StakeOn(bets', o, r, n) > 0}
            = {o \in Players : StakeOn(bets, o, r, n) > 0}
      BY <2>4
    <3>2. [p_1 \in Players |-> Stake(bets', p_1, r)] = [p_1 \in Players |-> Stake(bets, p_1, r)]
      BY <2>4
    <3>3. [o \in {x \in Players : StakeOn(bets', x, r, n) > 0} |-> StakeOn(bets', o, r, n)]
            = [o \in {x \in Players : StakeOn(bets, x, r, n) > 0} |-> StakeOn(bets, o, r, n)]
      BY <2>4, <3>1
    <3> QED BY <3>2, <3>3 DEF Summed
  <2> QED BY <2>4, <2>5
<1> QED BY <1>1, <1>2

LEMMA SummedType ==
  ASSUME NEW table \in [Players -> [Keys -> Bet \cup {None}]], NEW r, NEW n
  PROVE  /\ Summed(table, r, n).total \in Nat
         /\ DOMAIN Summed(table, r, n).winners
              = {p \in Players : StakeOn(table, p, r, n) > 0}
         /\ DOMAIN Summed(table, r, n).winners \subseteq Players
         /\ IsFiniteSet(DOMAIN Summed(table, r, n).winners)
         /\ Summed(table, r, n).winners \in Stakes(DOMAIN Summed(table, r, n).winners)
<1> DEFINE W == {p \in Players : StakeOn(table, p, r, n) > 0}
           f == [p \in Players |-> Stake(table, p, r)]
           on == [p \in W |-> StakeOn(table, p, r, n)]
<1>1. \A p \in Players : Stake(table, p, r) \in Nat /\ StakeOn(table, p, r, n) \in Nat
  BY StakesType
<1>2. SumFunction(f) \in Nat
  <2>1. (\A p \in Players : f[p] \in Nat) /\ DOMAIN f = Players
    BY <1>1
  <2> HIDE DEF f
  <2> QED BY <2>1, SumNat, SumIsOverDomain, PlayersAssumption
<1>3. W \subseteq Players /\ IsFiniteSet(W)
  BY FS_Subset, PlayersAssumption
<1>4. on \in Stakes(W) /\ DOMAIN on = W
  BY <1>1 DEF Stakes
<1>5. Summed(table, r, n) = [total |-> SumFunction(f), winners |-> on]
  BY DEF Summed
<1>6. Summed(table, r, n).total = SumFunction(f) /\ Summed(table, r, n).winners = on
  BY <1>5
<1> HIDE DEF f, on
<1> QED BY <1>2, <1>3, <1>4, <1>6

\* a payout of what was summed
LEMMA PayType ==
  ASSUME NEW table \in [Players -> [Keys -> Bet \cup {None}]], NEW r, NEW n,
         NEW q \in Round, NEW percent \in Nat,
         NEW pool \in Pools(Summed(table, r, n).total, percent, Factor(q)),
         DOMAIN Summed(table, r, n).winners # {},
         NEW pay \in Payouts(pool, Summed(table, r, n).winners)
  PROVE  /\ pay \in [DOMAIN Summed(table, r, n).winners -> Nat]
         /\ DOMAIN pay \subseteq Players
         /\ SumFunction(pay) = pool /\ pool \in Nat
<1> DEFINE total == Summed(table, r, n).total
           stake == Summed(table, r, n).winners
           D == DOMAIN stake
<1>1. total \in Nat /\ D \subseteq Players /\ IsFiniteSet(D) /\ stake \in Stakes(D)
  BY SummedType
<1>2. Factor(q) \in Nat \ {0}
  BY DEF Factor, Round
<1>3. /\ pool \in Pools(total, percent, Factor(q)) /\ D # {} /\ pay \in Payouts(pool, stake)
  OBVIOUS
<1> HIDE DEF total, stake
<1>4. pool \in Nat
  BY <1>1, <1>2, <1>3, PoolsBounded
<1>5. pay \in [D -> Nat] /\ SumFunction(pay) = pool
  BY <1>1, <1>3, <1>4, PayoutsPayThePool
<1> QED BY <1>1, <1>4, <1>5 DEF stake

-----------------------------------------------------------------------------
(* What a payout has in hand.                                              *)

LEMMA HandsEmpty ==
  ASSUME IInv, [Next]_vars, NEW c \in Clients, EmptyHands(c)
  PROVE  EmptyHands(c)'
<1>. Locals
  BY DEF IInv
<1> SUFFICES ASSUME pc'[c] \notin {"lockWinner", "write"}, held'[c] # NoWallets
             PROVE  FALSE
  BY DEF EmptyHands
<1>1. ~Rollback(c) /\ ~End(c, "done")
  BY RollbackFrames, EndFrames DEF Ended
<1>2. CASE Idle(c)
  BY <1>2 DEF Idle, EmptyHands
<1>3. CASE Start(c)
  <2>1. held' = held /\ pc[c] = "start"
    BY <1>1, <1>3 DEF Start
  <2> QED BY <2>1 DEF EmptyHands
<1>4. CASE Read(c)
  <2>1. pc[c] \in Steps \ {"write"}
    BY <1>4, ReadContinues
  <2>2. CASE LockWinner(c)
    <3>1. GoTo(c, IF Len(owed[c]) = 1 THEN "write" ELSE "lockWinner")
      BY <1>1, <2>2 DEF LockWinner
    <3> QED BY <3>1 DEF GoTo, Locals
  <2>3. CASE LockWallet(c)
    <3>1. Follow(c) /\ pc[c] = "lockWallet"
      BY <1>1, <2>3 DEF LockWallet
    <3>2. pc'[c] = "write"
      BY <2>1, <3>1, Reading DEF After, GoTo, Locals
    <3> QED BY <3>2
  <2>4. CASE ~LockWinner(c) /\ ~LockWallet(c)
    <3>1. held' = held /\ pc[c] # "lockWinner"
      BY <1>1, <1>4, <2>4 DEF Read, LockRound, ReadRound, ReadScheduleToOpen,
         ReadScheduleToMake, ReadScheduleToCancel, ReadConfigToChange, ReadConfigToCreate,
         ReadConfigToOpen, ReadConfigToBet, ReadConfigToPay, ReadingConfig, ReadBet,
         ReadBets, Select, locals
    <3> QED BY <2>1, <3>1 DEF EmptyHands
  <2> QED BY <2>2, <2>3, <2>4
<1>5. CASE Write(c)
  BY <1>5, WriteEnds
<1>6. CASE Crash(c) \/ DeadlockVictim(c)
  BY <1>1, <1>6 DEF Crash, DeadlockVictim
<1> QED BY <1>2, <1>3, <1>4, <1>5, <1>6, OneMoves DEF Acts, Step

LEMMA OrdersAreOnto ==
  ASSUME NEW S, IsFiniteSet(S), NEW order \in SetToSeqs(S)
  PROVE  /\ \A i \in DOMAIN order : order[i] \in S
         /\ \A x \in S : \E i \in DOMAIN order : order[i] = x
<1> DEFINE n == Cardinality(S)
<1>1. n \in Nat
  BY FS_CardinalityType
<1>2. order \in [1..n -> S] /\ \A i, j \in 1..n : i # j => order[i] # order[j]
  BY DEF SetToSeqs
<1>3. order \in Injection(1..n, S)
  BY <1>2 DEF Injection, IsInjective
<1>4. IsFiniteSet(1..n) /\ Cardinality(1..n) = n
  <2> HIDE DEF n
  <2> QED BY <1>1, FS_Interval
<1>5. order \in Surjection(1..n, S)
  BY <1>3, <1>4, FS_Injection
<1> QED BY <1>2, <1>5 DEF Surjection

LEMMA LockRoundHands ==
  ASSUME IInv, NEW c \in Clients, Paying(c), LockRound(c)
  PROVE  StakesHand(c)' /\ PayHand(c)'
<1>. Locals
  BY DEF IInv
<1>1. CASE Rollback(c)
  BY <1>1, RollbackFrames DEF StakesHand, PayHand, Paying, Running, Steps
<1>2. CASE ~Rollback(c)
  <2>1. Follow(c) /\ pc[c] = "lockRound" /\ pc[c] \in Steps \ {"write"}
    BY <1>2 DEF LockRound, Steps
  <2>2. pc'[c] = "readBets"
    BY <2>1, Reading DEF After, GoTo, Locals, Paying
  <2> QED BY <2>2 DEF StakesHand, PayHand
<1> QED BY <1>1, <1>2

LEMMA ReadBetsHands ==
  ASSUME IInv, NEW c \in Clients, Paying(c), EmptyHands(c), ReadBets(c)
  PROVE  StakesHand(c)' /\ PayHand(c)'
<1>. Locals
  BY DEF IInv
<1> DEFINE sum == Summed(bets, RoundOf(c), entity[c].number)
           W == {p \in Players : StakeOn(bets, p, RoundOf(c), entity[c].number) > 0}
<1>1. /\ pc[c] = "readBets" /\ pc[c] \in Steps \ {"write"}
      /\ stakes' = [stakes EXCEPT ![c] = sum]
      /\ IF W = {} THEN GoTo(c, "write") ELSE Follow(c)
      /\ UNCHANGED <<db, call, entity, held>>
  BY DEF ReadBets, Summed, Steps
<1>2. /\ stakes'[c] = sum /\ entity'[c] = entity[c] /\ call'[c] = call[c]
      /\ held'[c] = NoWallets /\ bets' = bets
      /\ pc'[c] = IF W = {} THEN "write" ELSE "readConfig"
  BY <1>1, Reading DEF After, GoTo, Locals, EmptyHands, db
<1>3. DOMAIN sum.winners = W
  BY SummedType DEF IInv, Tables
<1> HIDE DEF W
<1>4. StakesHand(c)'
  BY <1>2 DEF StakesHand, RoundOf
<1> HIDE DEF sum
<1>5. PayHand(c)'
  BY <1>2, <1>3 DEF PayHand
<1> QED BY <1>4, <1>5

LEMMA ReadConfigToPayHands ==
  ASSUME IInv, NEW c \in Clients, Paying(c), StakesHand(c), EmptyHands(c), ReadConfigToPay(c)
  PROVE  StakesHand(c)' /\ PayHand(c)'
<1>. Locals
  BY DEF IInv
<1> DEFINE sum == stakes[c]
           D == DOMAIN sum.winners
           q == entity[c]
           W(pay) == {p \in DOMAIN pay : pay[p] > 0}
<1>0. PICK pool \in Pools(sum.total, config.winning, Factor(q)) :
        \E pay \in Payouts(pool, sum.winners) :
        \E order \in SetToSeqs(W(pay)) :
          /\ owed' = [owed EXCEPT ![c] =
               [i \in DOMAIN order |-> [player |-> order[i], cents |-> pay[order[i]]]]]
          /\ GoTo(c, IF order = << >> THEN "write" ELSE "lockWinner")
  BY DEF ReadConfigToPay, Factor
<1>00. PICK pay \in Payouts(pool, sum.winners) :
        \E order \in SetToSeqs(W(pay)) :
          /\ owed' = [owed EXCEPT ![c] =
               [i \in DOMAIN order |-> [player |-> order[i], cents |-> pay[order[i]]]]]
          /\ GoTo(c, IF order = << >> THEN "write" ELSE "lockWinner")
  BY <1>0
<1>1. PICK order \in SetToSeqs(W(pay)) :
        /\ owed' = [owed EXCEPT ![c] =
             [i \in DOMAIN order |-> [player |-> order[i], cents |-> pay[order[i]]]]]
        /\ GoTo(c, IF order = << >> THEN "write" ELSE "lockWinner")
  BY <1>00
<1>2. /\ pc[c] = "readConfig" /\ Handler(c) \in {"finalize", "publish"}
      /\ pc[c] \in Steps \ {"write"} /\ pc[c] \in Steps \ {"lockRound"}
      /\ UNCHANGED <<db, call, entity, stakes, held>>
  BY DEF ReadConfigToPay, ReadingConfig, Steps
<1> DEFINE shares == [i \in DOMAIN order |-> [player |-> order[i], cents |-> pay[order[i]]]]
<1>3. /\ pc'[c] = (IF order = << >> THEN "write" ELSE "lockWinner")
      /\ owed'[c] = shares /\ held'[c] = NoWallets
      /\ entity'[c] = q /\ call'[c] = call[c] /\ stakes'[c] = sum
      /\ bets' = bets /\ config' = config
  BY <1>1, <1>2 DEF GoTo, Locals, EmptyHands, db
<1>4. sum = Summed(bets, RoundOf(c), q.number)
  BY <1>2 DEF StakesHand
<1>5. StakesHand(c)'
  BY <1>3, <1>4 DEF StakesHand, RoundOf
<1>6. D # {}
  BY <1>2, Reading DEF MoneyOK
<1>7. pay \in [D -> Nat] /\ D \subseteq Players
  <2>1. q \in Round /\ config.winning \in Nat
        /\ bets \in [Players -> [Keys -> Bet \cup {None}]]
    <3>1. q \in Round
      BY <1>2, Settling
    <3>2. config \in Config /\ bets \in [Players -> [Keys -> Bet \cup {None}]]
      BY DEF IInv, Tables
    <3> HIDE DEF q
    <3> QED BY <3>1, <3>2 DEF Config
  <2>2. sum.winners = Summed(bets, RoundOf(c), q.number).winners
        /\ sum.total = Summed(bets, RoundOf(c), q.number).total
    BY <1>4
  <2>3. pool \in Pools(Summed(bets, RoundOf(c), q.number).total, config.winning, Factor(q))
    BY <2>2
  <2>4. pay \in Payouts(pool, Summed(bets, RoundOf(c), q.number).winners)
    BY <2>2
  <2>5. DOMAIN Summed(bets, RoundOf(c), q.number).winners = D
    BY <2>2
  <2> HIDE DEF q, sum
  <2> QED BY <1>6, <2>1, <2>3, <2>4, <2>5, PayType
<1>8. /\ \A i \in DOMAIN order : order[i] \in W(pay)
      /\ \A p \in W(pay) : \E i \in DOMAIN order : order[i] = p
      /\ DOMAIN shares = DOMAIN order
  <2> HIDE DEF W
  <2>1. IsFiniteSet(W(pay))
    BY <1>7, FS_Subset, PlayersAssumption DEF W
  <2> QED BY <2>1, OrdersAreOnto
<1>9. Handed(c, pay)'
  <2>1. \A p \in Players : NoWallets[p] = None
    BY DEF NoWallets
  <2>2. \A i \in DOMAIN shares : /\ shares[i].player = order[i] /\ order[i] \in DOMAIN pay
                                /\ shares[i].cents = pay[order[i]]
    BY <1>8
  <2>3. \A p \in DOMAIN pay : pay[p] > 0 => \E i \in DOMAIN shares : shares[i].player = p
    BY <1>8, <2>2
  <2>4. order = << >> => shares = << >>
    OBVIOUS
  <2> HIDE DEF shares, W
  <2> QED BY <1>3, <2>1, <2>2, <2>3, <2>4 DEF Handed
<1>10. PayHand(c)'
  <2> HIDE DEF q, sum, shares
  <2> QED BY <1>3, <1>6, <1>9 DEF PayHand
<1> QED BY <1>5, <1>10

LEMMA LockWinnerHands ==
  ASSUME IInv, NEW c \in Clients, Paying(c), StakesHand(c), PayHand(c), LockWinner(c)
  PROVE  StakesHand(c)' /\ PayHand(c)'
<1>. Locals
  BY DEF IInv
<1>1. CASE Rollback(c)
  BY <1>1, RollbackFrames DEF StakesHand, PayHand, Paying, Running, Steps
<1>2. CASE ~Rollback(c)
  <2> DEFINE w == Head(owed[c])
             o == owed[c]
             sum == stakes[c]
             q == entity[c]
  <2>1. /\ pc[c] = "lockWinner" /\ pc[c] \in Steps \ {"write"}
        /\ TakeWallet(c, w.player, w.cents)
        /\ owed' = [owed EXCEPT ![c] = Tail(@)]
        /\ GoTo(c, IF Len(o) = 1 THEN "write" ELSE "lockWinner")
        /\ UNCHANGED <<db, call, entity, stakes>>
    BY <1>2 DEF LockWinner, Steps
  <2>2. /\ o \in Seq(Share) /\ o # << >>
    BY <2>1, Reading DEF Locals, MoneyOK
  <2>3. w \in Share /\ w = o[1] /\ 1 \in DOMAIN o
    BY <2>2
  <2>4. w.player \in Players
    BY <2>3 DEF Share
  <2>5. /\ pc'[c] = (IF Len(o) = 1 THEN "write" ELSE "lockWinner")
        /\ owed'[c] = Tail(o)
        /\ held'[c][w.player] = [main |-> accounts[w.player].main,
                                 temp |-> accounts[w.player].temp, cents |-> w.cents]
        /\ \A p \in Players \ {w.player} : held'[c][p] = held[c][p]
        /\ entity'[c] = q /\ call'[c] = call[c] /\ stakes'[c] = sum
        /\ bets' = bets /\ config' = config
    BY <2>1, <2>4 DEF TakeWallet, GoTo, Locals, db
  <2>6. StakesHand(c)'
    BY <2>1, <2>5 DEF StakesHand, RoundOf, Paying, Running, Handler
  <2>7. DOMAIN sum.winners # {} /\
        \E pool \in Pools(sum.total, config.winning, Factor(q)) :
        \E pay \in Payouts(pool, sum.winners) : Handed(c, pay)
    BY <2>1 DEF PayHand
  <2>8. PICK pool \in Pools(sum.total, config.winning, Factor(q)) :
          \E pay \in Payouts(pool, sum.winners) : Handed(c, pay)
    BY <2>7
  <2>9. PICK pay \in Payouts(pool, sum.winners) : Handed(c, pay)
    BY <2>8
  <2>10. /\ \A i \in DOMAIN Tail(o) : i + 1 \in DOMAIN o /\ Tail(o)[i] = o[i + 1]
         /\ \A i \in DOMAIN o : i = 1 \/ (i - 1 \in DOMAIN Tail(o) /\ Tail(o)[i - 1] = o[i])
         /\ Len(o) = 1 => Tail(o) = << >>
    <3> HIDE DEF o
    <3>1. /\ DOMAIN o = 1..Len(o) /\ Len(o) \in Nat \ {0}
          /\ DOMAIN Tail(o) = 1..(Len(o) - 1)
          /\ \A i \in 1..(Len(o) - 1) : Tail(o)[i] = o[i + 1]
      BY <2>2
    <3>2. Len(o) = 1 => Tail(o) = << >>
      <4>1. Tail(o) \in Seq(Share) /\ Len(Tail(o)) = Len(o) - 1
        BY <2>2
      <4>2. ASSUME NEW t \in Seq(Share), Len(t) = 0 PROVE t = << >>
        BY <4>2
      <4> QED BY <3>1, <4>1, <4>2
    <3>3. \A i \in 1..(Len(o) - 1) : i + 1 \in 1..Len(o)
      BY <3>1
    <3>4. \A i \in 1..Len(o) : i # 1 => i - 1 \in 1..(Len(o) - 1) /\ (i - 1) + 1 = i
      BY <3>1
    <3>5. \A i \in 1..Len(o) : i # 1 => Tail(o)[i - 1] = o[i]
      BY <3>1, <3>4
    <3> QED BY <3>1, <3>2, <3>3, <3>4, <3>5
  <2>11. Handed(c, pay)'
    <3> HIDE DEF o, w
    <3>1. /\ \A i \in DOMAIN o : o[i].player \in DOMAIN pay /\ o[i].cents = pay[o[i].player]
          /\ w.player \in DOMAIN pay /\ w.cents = pay[w.player]
      BY <2>3, <2>9 DEF Handed, o
    <3>6. DOMAIN pay \subseteq Players
      <4>1. DOMAIN sum.winners \subseteq Players
        BY <2>1, Reading DEF MoneyOK
      <4>2. DOMAIN pay = DOMAIN sum.winners
        <5> HIDE DEF sum
        <5> QED BY <2>9 DEF Payouts
      <4> QED BY <4>1, <4>2
    <3>2. \A p \in Players : held'[c][p] # None =>
            p \in DOMAIN pay /\ held'[c][p].cents = pay[p]
      <4>1. held'[c][w.player].cents = w.cents
        BY <2>5
      <4> QED BY <2>5, <2>9, <3>1, <4>1 DEF Handed
    <3>3. \A i \in DOMAIN owed'[c] : /\ owed'[c][i].player \in DOMAIN pay
                                    /\ owed'[c][i].cents = pay[owed'[c][i].player]
      BY <2>5, <2>10, <3>1
    <3>4. ASSUME NEW p \in DOMAIN pay, pay[p] > 0
          PROVE  held'[c][p] # None \/ \E i \in DOMAIN owed'[c] : owed'[c][i].player = p
      <4>1. CASE p = w.player
        <5>1. held'[c][p] \in Copy
          BY <2>3, <2>4, <2>5, <4>1, RowsTyped DEF Copy, Share, Account
        <5> QED BY <5>1, NoneAssumption DEF Copy
      <4>2. CASE p # w.player /\ held[c][p] # None
        <5>1. p \in Players
          BY <3>6
        <5> QED BY <2>5, <4>2, <5>1
      <4>3. CASE p # w.player /\ \E i \in DOMAIN o : o[i].player = p
        <5>1. PICK i \in DOMAIN o : o[i].player = p
          BY <4>3
        <5>2. i # 1
          BY <2>3, <4>3, <5>1
        <5>3. i - 1 \in DOMAIN Tail(o) /\ Tail(o)[i - 1] = o[i]
          BY <2>10, <5>2
        <5> QED BY <2>5, <5>1, <5>3
      <4> QED BY <2>9, <3>4, <4>1, <4>2, <4>3 DEF Handed, o
    <3>5. pc'[c] = "write" => owed'[c] = << >>
      BY <2>5, <2>10
    <3> QED BY <3>2, <3>3, <3>4, <3>5 DEF Handed
  <2>12. PayHand(c)'
    <3> HIDE DEF o, w, sum, q
    <3> QED BY <2>5, <2>7, <2>11 DEF PayHand
  <2> QED BY <2>6, <2>12
<1> QED BY <1>1, <1>2

LEMMA HandsOK ==
  ASSUME IInv, [Next]_vars, config'.winning = config.winning,
         NEW c \in Clients, EmptyHands(c), StakesHand(c), PayHand(c)
  PROVE  StakesHand(c)' /\ PayHand(c)'
<1>. Locals
  BY DEF IInv
<1>1. ASSUME pc'[c] \in Ended PROVE StakesHand(c)' /\ PayHand(c)'
  BY <1>1 DEF StakesHand, PayHand, Paying, Running, Ended, Steps
<1>2. CASE Idle(c)
  <2>1. /\ pc'[c] = pc[c] /\ entity'[c] = entity[c] /\ stakes'[c] = stakes[c]
        /\ Paying(c)' <=> Paying(c)
        /\ RoundOf(c)' = RoundOf(c)
    BY <1>2 DEF Idle, Paying, Running, Handler, RoundOf
  <2>2. StakesHand(c)'
    <3> SUFFICES ASSUME Paying(c), pc[c] \in {"readConfig", "lockWinner", "write"}
                 PROVE  stakes[c] = Summed(bets', RoundOf(c), entity[c].number)
      BY <2>1 DEF StakesHand
    <3>1. stakes[c] = Summed(bets, RoundOf(c), entity[c].number)
      BY DEF StakesHand
    <3>2. Handler(c) \in {"finalize", "publish"} /\ pc[c] \in Steps \ {"lockRound"}
      BY DEF Paying, Steps
    <3>3. RoundOf(c) \in Rounds /\ rounds[RoundOf(c)].status # "OPEN"
      BY <3>2, Settling DEF Ready
    <3> QED BY <3>1, <3>3, BetsOfRound
  <2>3. \A pay : Handed(c, pay)' <=> Handed(c, pay)
    BY <1>2 DEF Idle, Handed
  <2>4. PayHand(c)'
    BY <1>2, <2>1, <2>3 DEF PayHand, Idle
  <2> QED BY <2>2, <2>4
<1>3. CASE Start(c)
  <2>1. CASE Rollback(c)
    BY <1>1, <2>1, RollbackFrames DEF Ended
  <2>2. CASE \E k \in CallsOf[c] : /\ call' = [call EXCEPT ![c] = k]
                                  /\ GoTo(c, Path(k.handler)[1])
    <3>1. PICK k \in CallsOf[c] : /\ call' = [call EXCEPT ![c] = k]
                                  /\ GoTo(c, Path(k.handler)[1])
      BY <2>2
    <3>2. call'[c] = k /\ pc'[c] = Path(k.handler)[1]
      BY <3>1 DEF Locals, GoTo
    <3>3. k.handler \in {"finalize", "publish"} => pc'[c] = "lockRound"
      BY <3>2 DEF Path
    <3> QED BY <3>2, <3>3 DEF StakesHand, PayHand, Paying, Handler
  <2> QED BY <1>3, <2>1, <2>2 DEF Start
<1>4. CASE Read(c)
  <2>1. pc[c] \in Steps \ {"write"} /\ Running(c) /\ Control(c)
    BY <1>4, ReadContinues, Reading
  <2>2. CASE pc'[c] \in Ended
    BY <1>1, <2>2
  <2>3. CASE call'[c] = call[c] /\ ~Paying(c)
    BY <2>1, <2>3 DEF StakesHand, PayHand, Paying, Handler
  <2>4. CASE Paying(c)
    <3>1. pc[c] \in {"lockRound", "readBets", "readConfig", "lockWinner"}
      BY <2>1, <2>4 DEF Control, StepsOf, Paying
    <3>2. LockRound(c) \/ ReadBets(c) \/ ReadConfigToPay(c) \/ LockWinner(c)
      BY <1>4, <2>4, <3>1 DEF Paying, Read, ReadRound, ReadScheduleToOpen,
         ReadScheduleToMake, ReadScheduleToCancel, ReadConfigToChange, ReadConfigToCreate,
         ReadConfigToOpen, ReadConfigToBet, ReadingConfig, ReadBet, LockWallet, Select
    <3> QED BY <2>4, <3>2, LockRoundHands, ReadBetsHands, ReadConfigToPayHands, LockWinnerHands
  <2> QED BY <1>4, <2>2, <2>3, <2>4, ReadContinues
<1>5. CASE Write(c)
  BY <1>1, <1>5, WriteEnds
<1>6. CASE Crash(c) \/ DeadlockVictim(c)
  BY <1>1, <1>6, RollbackFrames DEF Crash, DeadlockVictim, Ended
<1> QED BY <1>2, <1>3, <1>4, <1>5, <1>6, OneMoves DEF Acts, Step

-----------------------------------------------------------------------------
(* A completed round has been paid from all its bets.                      *)

PaidAs(sum, q, paid) ==
  IF DOMAIN sum.winners = {} THEN paid = << >>
  ELSE \E pool \in Pools(sum.total, config.winning, Factor(q)) :
       \E pay \in Payouts(pool, sum.winners) : paid = Shown(pay)
CountsOK(r) == Completed(r) =>
  PaidAs(Summed(bets, r, rounds[r].number), rounds[r], credits[r])

LEMMA CountsAreOK == IInv => (PayoutCountsEveryBet <=> \A r \in Rounds : CountsOK(r))
<1> SUFFICES ASSUME IInv, NEW r \in Rounds
             PROVE  LET n == rounds[r].number
                        winners == {p \in Players : StakeOn(bets, p, r, n) > 0}
                        onNumber == [p \in winners |-> StakeOn(bets, p, r, n)]
                        total == SumFunction([p \in Players |-> Stake(bets, p, r)])
                        factor == IF rounds[r].joker THEN rounds[r].multiplier ELSE 1
                        pays == UNION {Payouts(pool, onNumber) :
                                         pool \in Pools(total, config.winning, factor)}
                        positive == {[p \in {q \in DOMAIN pay : pay[q] > 0} |-> pay[p]] :
                                       pay \in pays}
                    IN (IF winners = {} THEN credits[r] = << >>
                        ELSE \E pay \in positive :
                          credits[r] = IF DOMAIN pay = {} THEN << >> ELSE <<pay>>)
                       <=> PaidAs(Summed(bets, r, n), rounds[r], credits[r])
  BY DEF PayoutCountsEveryBet, CountsOK
<1> DEFINE n == rounds[r].number
           winners == {p \in Players : StakeOn(bets, p, r, n) > 0}
           onNumber == [p \in winners |-> StakeOn(bets, p, r, n)]
           total == SumFunction([p \in Players |-> Stake(bets, p, r)])
           factor == IF rounds[r].joker THEN rounds[r].multiplier ELSE 1
           pools == Pools(total, config.winning, factor)
           pays == UNION {Payouts(pool, onNumber) : pool \in pools}
           part(pay) == [p \in {q \in DOMAIN pay : pay[q] > 0} |-> pay[p]]
           positive == {part(pay) : pay \in pays}
           sum == Summed(bets, r, n)
<1>1. sum.total = total /\ sum.winners = onNumber /\ DOMAIN onNumber = winners
      /\ factor = Factor(rounds[r])
  BY DEF Summed, Factor
<1>2. \A pay : Shown(pay) = IF DOMAIN part(pay) = {} THEN << >> ELSE <<part(pay)>>
  BY DEF Shown, Winners
<1> HIDE DEF n, winners, onNumber, total, factor, part, sum
<1>3. (\E x \in positive : credits[r] = IF DOMAIN x = {} THEN << >> ELSE <<x>>)
      <=> \E pool \in pools : \E pay \in Payouts(pool, onNumber) :
            credits[r] = IF DOMAIN part(pay) = {} THEN << >> ELSE <<part(pay)>>
  OBVIOUS
<1>4. PaidAs(sum, rounds[r], credits[r]) <=>
        IF winners = {} THEN credits[r] = << >>
        ELSE \E pool \in pools : \E pay \in Payouts(pool, onNumber) : credits[r] = Shown(pay)
  BY <1>1 DEF PaidAs
<1>5. (IF winners = {} THEN credits[r] = << >>
       ELSE \E x \in positive : credits[r] = IF DOMAIN x = {} THEN << >> ELSE <<x>>)
      <=> PaidAs(sum, rounds[r], credits[r])
  BY <1>2, <1>3, <1>4
<1> QED BY <1>5 DEF n, winners, onNumber, total, factor, part, sum

LEMMA CountsLive ==
  ASSUME IInv, [Next]_vars, config'.winning = config.winning,
         \A c \in Clients : StakesHand(c) /\ PayHand(c),
         NEW r \in Rounds, ResultOK(r), CountsOK(r), Life(r)
  PROVE  CountsOK(r)'
<1>1. /\ rounds[r] \in Round \cup {None} /\ \A q \in Round : q # None
  BY NoneAssumption DEF IInv, Tables
<1>2. \A sum, q, paid : PaidAs(sum, q, paid)' <=> PaidAs(sum, q, paid)
  BY DEF PaidAs
<1>3. CASE Kept(r)
  <2> SUFFICES ASSUME Completed(r)
               PROVE  PaidAs(Summed(bets', r, rounds[r].number), rounds[r], credits[r])
    BY <1>2, <1>3 DEF Kept, CountsOK, Completed, PaidAs
  <2>1. rounds[r].status # "OPEN"
    BY DEF Completed
  <2> QED BY <2>1, BetsOfRound DEF CountsOK
<1>4. CASE IsCreated(r) \/ IsOpened(r)
  BY <1>4 DEF IsCreated, IsOpened, Becomes, CountsOK, Completed
<1>5. ASSUME NEW c \in Clients, IsClosed(c, r) PROVE CountsOK(r)'
  BY <1>1, <1>5 DEF IsClosed, Becomes, CountsOK, Completed, Round
<1>6. CASE IsDrawn(r)
  BY <1>1, <1>6 DEF IsDrawn, CountsOK, Completed, Round
<1>7. ASSUME NEW c \in Clients, IsSettled(c, r) PROVE CountsOK(r)'
  <2> DEFINE n == entity[c].number
             sum == stakes[c]
             q == rounds[r]
             paid == Paid(c)
             new == [q EXCEPT !.number = n, !.status = "COMPLETED", !.finalized = TRUE]
             credit == [p \in paid |-> held[c][p].cents]
  <2>1. /\ SettleWrite(c) /\ RoundOf(c) = r /\ q # None /\ q.status = "CLOSED"
        /\ rounds'[r] = new
        /\ credits'[r] = IF paid = {} THEN credits[r] ELSE Append(credits[r], credit)
    BY <1>7 DEF IsSettled
  <2>2. /\ Writing(c, {"finalize", "publish"}) /\ bets' = bets /\ config' = config
    BY <2>1 DEF SettleWrite
  <2>3. /\ Paying(c) /\ pc[c] = "write" /\ Running(c)
        /\ Handler(c) \in {"finalize", "publish"} /\ pc[c] \in Steps \ {"lockRound"}
    BY <2>2, Writer DEF Paying, Steps
  <2>4. /\ sum = Summed(bets, r, n)
        /\ IF DOMAIN sum.winners = {} THEN held[c] = NoWallets
           ELSE \E pool \in Pools(sum.total, config.winning, Factor(entity[c])) :
                \E pay \in Payouts(pool, sum.winners) : Handed(c, pay)
    BY <2>1, <2>3 DEF StakesHand, PayHand
  <2>5. credits[r] = << >>
    BY <2>1 DEF ResultOK, Completed
  <2>6. /\ q \in Round /\ entity[c] = [q EXCEPT !.number = n]
        /\ entity[c] \in Round
    BY <2>1, <2>3, Settling
  <2>7. Factor(new) = Factor(entity[c]) /\ new.number = n
    <3> HIDE DEF n
    <3> QED BY <2>6 DEF Factor, Round
  <2>8. \A p \in paid : held[c][p] # None /\ held[c][p].cents \in Nat \ {0}
    <3>1. held[c] \in [Players -> Copy \cup {None}]
      BY DEF IInv, Locals
    <3> QED BY <3>1 DEF Paid, Copy
  <2>9. CASE DOMAIN sum.winners = {}
    <3>1. paid = {}
      BY <2>4, <2>9 DEF Paid, NoWallets
    <3>2. credits'[r] = << >>
      BY <2>1, <2>5, <3>1
    <3>3. PaidAs(sum, new, credits'[r])
      BY <2>9, <3>2 DEF PaidAs
    <3> HIDE DEF sum, new
    <3> QED BY <1>2, <2>1, <2>2, <2>4, <2>7, <3>3 DEF CountsOK
  <2>10. CASE DOMAIN sum.winners # {}
    <3>1. PICK pool \in Pools(sum.total, config.winning, Factor(entity[c])) :
            \E pay \in Payouts(pool, sum.winners) : Handed(c, pay)
      BY <2>4, <2>10
    <3>2. PICK pay \in Payouts(pool, sum.winners) : Handed(c, pay)
      BY <3>1
    <3>3. DOMAIN pay \subseteq Players
      <4>1. DOMAIN pay = DOMAIN sum.winners
        <5> HIDE DEF sum
        <5> QED BY <3>2 DEF Payouts
      <4> QED BY <2>4, <4>1, SummedType DEF IInv, Tables
    <3>4. owed[c] = << >> /\ \A p \in DOMAIN pay : pay[p] > 0 => held[c][p] # None
      <4>1. owed[c] = << >>
        BY <2>3, <3>2 DEF Handed
      <4>2. DOMAIN owed[c] = {}
        BY <4>1
      <4> QED BY <3>2, <4>1, <4>2 DEF Handed
    <3>5. \A p \in Players : held[c][p] # None => p \in DOMAIN pay /\ held[c][p].cents = pay[p]
      BY <3>2 DEF Handed
    <3>6. paid = Winners(pay)
      BY <2>8, <3>3, <3>4, <3>5 DEF Paid, Winners
    <3>7. \A p \in paid : held[c][p].cents = pay[p]
      BY <3>5 DEF Paid
    <3> HIDE DEF paid
    <3>8. credit = [p \in Winners(pay) |-> pay[p]]
      BY <3>6, <3>7
    <3> HIDE DEF credit
    <3>9. credits'[r] = Shown(pay)
      <4>1. Append(<< >>, credit) = <<credit>>
        OBVIOUS
      <4> QED BY <2>1, <2>5, <3>6, <3>8, <4>1 DEF Shown
    <3>10. PaidAs(sum, new, credits'[r])
      <4> HIDE DEF sum, new
      <4> QED BY <2>7, <2>10, <3>9 DEF PaidAs
    <3> HIDE DEF sum, new
    <3> QED BY <1>2, <2>1, <2>2, <2>4, <2>7, <3>10 DEF CountsOK
  <2> QED BY <2>9, <2>10
<1> QED BY <1>3, <1>4, <1>5, <1>6, <1>7 DEF Life

LEMMA PayoutInit == Init => PayoutInv
<1> SUFFICES ASSUME Init PROVE PayoutInv
  OBVIOUS
<1>1. config.winning = Config0.winning
  BY DEF Init
<1>2. \A c \in Clients : EmptyHands(c) /\ StakesHand(c) /\ PayHand(c)
  BY DEF Init, EmptyHands, StakesHand, PayHand, Paying, Running, Steps
<1>3. \A r \in Rounds : ~Completed(r)
  BY DatabaseAssumption DEF Init, Completed
<1>4. PayoutCountsEveryBet
  BY <1>3 DEF PayoutCountsEveryBet
<1> QED BY <1>1, <1>2, <1>4 DEF PayoutInv

LEMMA PayoutNext ==
  OneCloser /\ SamePercentage /\ IInv /\ IInv' /\ ResultInv /\ ConfigInv /\ PayoutInv
    /\ [Next]_vars => PayoutInv'
<1> SUFFICES ASSUME OneCloser, SamePercentage, IInv, IInv', ResultInv, ConfigInv,
                    PayoutInv, [Next]_vars
             PROVE  PayoutInv'
  OBVIOUS
<1>1. config'.winning = Config0.winning /\ config'.winning = config.winning
  BY PercentageKept, PercentageIs DEF PayoutInv, ResultInv, ConfigInv
<1>2. ASSUME NEW c \in Clients
      PROVE  EmptyHands(c)' /\ StakesHand(c)' /\ PayHand(c)'
  BY <1>1, HandsEmpty, HandsOK DEF PayoutInv, ResultInv
<1>3. ASSUME NEW r \in Rounds PROVE CountsOK(r)'
  BY <1>1, CountsLive, CountsAreOK, RoundsLive DEF PayoutInv, ResultInv
<1>4. PayoutCountsEveryBet'
  <2>1. (PayoutCountsEveryBet <=> \A r \in Rounds : CountsOK(r))'
    BY CountsAreOK, PTL
  <2> QED BY <1>3, <2>1
<1> QED BY <1>1, <1>2, <1>4 DEF PayoutInv

LEMMA PayoutInvariant == ASSUME OneCloser, SamePercentage PROVE Spec => []PayoutInv
<1>1. IInv /\ IInv' /\ ResultInv /\ ConfigInv /\ PayoutInv /\ [Next]_vars => PayoutInv'
  BY PayoutNext
<1> QED BY <1>1, PayoutInit, ResultInvariant, ConfigInvariant, Invariant, PTL DEF Spec

\* A completed round has been paid by the split of a pool from all its bets, to
\* the cent, and every winner was credited the share of the table's stakes.
THEOREM PayoutsCount ==
  ASSUME OneCloser, SamePercentage PROVE Spec => []PayoutCountsEveryBet
<1>1. PayoutInv => PayoutCountsEveryBet
  BY DEF PayoutInv
<1> QED BY <1>1, PayoutInvariant, PTL

-----------------------------------------------------------------------------
(* What the summary of a completed round says.                             *)

CreditSum(list) == SumFunction([i \in DOMAIN list |-> SumFunction(list[i])])

LEMMA NoCredits == CreditSum(<< >>) = 0
<1> DEFINE g == [i \in DOMAIN << >> |-> SumFunction(<< >>[i])]
<1>1. DOMAIN g = {}
  OBVIOUS
<1>2. SumFunction(g) = 0
  <2> HIDE DEF g
  <2> QED BY <1>1, SumIsOverDomain, SumEmpty
<1> QED BY <1>2 DEF CreditSum

LEMMA OneCredit ==
  ASSUME NEW f, SumFunction(f) \in Int
  PROVE  CreditSum(<<f>>) = SumFunction(f)
<1> DEFINE g == [i \in DOMAIN <<f>> |-> SumFunction(<<f>>[i])]
<1>1. DOMAIN g = {1} /\ g[1] = SumFunction(f)
  OBVIOUS
<1>2. SumFunction(g) = SumFunction(f)
  <2> HIDE DEF g
  <2>1. SumFunctionOnSet(g, {} \cup {1}) = g[1] + SumFunctionOnSet(g, {})
    BY <1>1, FS_EmptySet, SumAdd
  <2>2. {} \cup {1} = {1} /\ SumFunctionOnSet(g, {}) = 0
    BY SumEmpty
  <2> QED BY <1>1, <2>1, <2>2, SumIsOverDomain
<1> QED BY <1>2 DEF CreditSum

LEMMA ShownSum ==
  ASSUME NEW D, IsFiniteSet(D), NEW pay \in [D -> Nat]
  PROVE  CreditSum(Shown(pay)) = SumFunction(pay)
<1> DEFINE W == Winners(pay)
           part == [p \in W |-> pay[p]]
<1>1. DOMAIN pay = D /\ W \subseteq D /\ IsFiniteSet(W)
  BY FS_Subset DEF Winners
<1>2. \A p \in D : pay[p] \in Nat
  OBVIOUS
<1>3. \A p \in D \ W : pay[p] = 0
  BY <1>1, <1>2 DEF Winners
<1>4. SumFunction(pay) = SumFunctionOnSet(pay, W)
  <2>1. SumFunctionOnSet(pay, D) = SumFunctionOnSet(pay, W)
    <3> HIDE DEF W
    <3> QED BY <1>1, <1>2, <1>3, SumOfZeros
  <2> QED BY <1>1, <2>1, SumIsOverDomain
<1>5. SumFunction(part) = SumFunctionOnSet(pay, W)
  <2>1. DOMAIN part = W /\ \A p \in W : pay[p] \in Int /\ part[p] = pay[p]
    BY <1>1, <1>2
  <2>2. SumFunctionOnSet(part, W) = SumFunctionOnSet(pay, W)
    <3> HIDE DEF part, W
    <3> QED BY <1>1, <2>1, SumSame
  <2> HIDE DEF part, W
  <2> QED BY <2>1, <2>2, SumIsOverDomain
<1>6. SumFunctionOnSet(pay, W) \in Int
  <2> HIDE DEF W
  <2>1. \A p \in W : pay[p] \in Int
    BY <1>1, <1>2
  <2> QED BY <1>1, <2>1, SumType
<1>7. CASE W = {}
  <2>1. CreditSum(Shown(pay)) = 0
    BY <1>7, NoCredits, OneCredit DEF Shown
  <2>2. SumFunctionOnSet(pay, W) = 0
    <3> HIDE DEF W
    <3> QED BY <1>7, SumEmpty
  <2> QED BY <1>4, <2>1, <2>2
<1>8. CASE W # {}
  <2>1. Shown(pay) = <<part>>
    BY <1>8 DEF Shown
  <2> HIDE DEF part
  <2> QED BY <1>4, <1>5, <1>6, <2>1, NoCredits, OneCredit
<1> QED BY <1>7, <1>8

LEMMA WinningSum ==
  ASSUME IInv, NEW r, NEW n
  PROVE  LET sum == SumFunction([p \in Players |-> StakeOn(bets, p, r, n)])
         IN  sum = 0 <=> DOMAIN Summed(bets, r, n).winners = {}
<1> DEFINE f == [p \in Players |-> StakeOn(bets, p, r, n)]
           W == DOMAIN Summed(bets, r, n).winners
<1>1. bets \in [Players -> [Keys -> Bet \cup {None}]]
  BY DEF IInv, Tables
<1>2. W = {p \in Players : StakeOn(bets, p, r, n) > 0}
  BY <1>1, SummedType
<1>3. DOMAIN f = Players /\ \A p \in Players : f[p] \in Nat /\ (p \in W <=> f[p] > 0)
  BY <1>1, <1>2, StakesType
<1> HIDE DEF f, W
<1>4. ASSUME W = {} PROVE SumFunction(f) = 0
  <2>1. {} \subseteq Players /\ \A p \in Players \ {} : f[p] = 0
    BY <1>3, <1>4
  <2>2. (\A p \in Players : f[p] \in Int) /\ IsFiniteSet(Players)
    BY <1>3, PlayersAssumption
  <2>3. SumFunctionOnSet(f, Players) = SumFunctionOnSet(f, {})
    BY <2>1, <2>2, SumOfZeros
  <2> QED BY <1>3, <2>3, SumIsOverDomain, SumEmpty
<1>5. ASSUME NEW p \in W PROVE SumFunction(f) # 0
  <2>1. p \in Players /\ f[p] > 0
    BY <1>1, <1>2, <1>3 DEF W
  <2>2. f[p] <= SumFunctionOnSet(f, Players) /\ SumFunctionOnSet(f, Players) \in Nat
    BY <1>3, <2>1, SumBoundsEach, SumNat, PlayersAssumption
  <2> QED BY <1>3, <2>1, <2>2, SumIsOverDomain
<1>6. SumFunction(f) = 0 <=> W = {}
  BY <1>4, <1>5
<1> QED BY <1>6 DEF f, W

LEMMA CountsAreShown ==
  ASSUME IInv, NEW r \in Rounds, ResultOK(r), CountsOK(r), Completed(r),
         NEW s, s.row = rounds[r], s.percent = config.winning, s.total = StakesIn(r),
         \A n \in Numbers : s.on[n] = StakesOn(r, n)
  PROVE  CreditSum(credits[r]) \in ReportedPayouts(s)
<1> DEFINE q == rounds[r]
           n == q.number
           sum == Summed(bets, r, n)
           total == SumFunction([p \in Players |-> Stake(bets, p, r)])
           on == SumFunction([p \in Players |-> StakeOn(bets, p, r, n)])
<1>1. n # None /\ PaidAs(sum, q, credits[r])
  BY DEF ResultOK, CountsOK
<1>2. bets \in [Players -> [Keys -> Bet \cup {None}]] /\ q \in Round /\ config.winning \in Nat
  <2>1. config \in Config /\ rounds[r] # None
    BY DEF IInv, Tables, Completed
  <2>2. config.winning \in Nat
    BY <2>1 DEF Config
  <2> QED BY <2>1, <2>2 DEF IInv, Tables
<1>3. on = 0 <=> DOMAIN sum.winners = {}
  BY WinningSum
<1>4. sum.total = total
  BY DEF Summed
<1>5. ReportedPayouts(s) = IF on = 0 THEN {0} ELSE Pools(total, config.winning, Factor(q))
  <2>1. q # None /\ n \in Numbers
    BY <1>1, <1>2 DEF Round, Completed
  <2>2. s.on[n] = on /\ s.total = total
    BY <2>1 DEF StakesOn, StakesIn
  <2> HIDE DEF on, total
  <2> QED BY <1>1, <2>1, <2>2 DEF ReportedPayouts
<1>6. IsFiniteSet(DOMAIN sum.winners)
  BY <1>2, SummedType
<1>7. CASE DOMAIN sum.winners = {}
  <2>1. credits[r] = << >>
    BY <1>1, <1>7 DEF PaidAs
  <2> HIDE DEF sum, on, total
  <2> QED BY <1>3, <1>5, <1>7, <2>1, NoCredits, OneCredit
<1>8. CASE DOMAIN sum.winners # {}
  <2>1. PICK pool \in Pools(sum.total, config.winning, Factor(q)) :
          \E pay \in Payouts(pool, sum.winners) : credits[r] = Shown(pay)
    <3> HIDE DEF sum, q
    <3> QED BY <1>1, <1>8 DEF PaidAs
  <2>2. PICK pay \in Payouts(pool, sum.winners) : credits[r] = Shown(pay)
    BY <2>1
  <2>3. pay \in [DOMAIN sum.winners -> Nat] /\ SumFunction(pay) = pool
    <3>1. Factor(q) \in Nat \ {0}
      BY <1>2 DEF Factor, Round
    <3>2. sum.total \in Nat /\ sum.winners \in Stakes(DOMAIN sum.winners)
      BY <1>2, SummedType
    <3> HIDE DEF sum, q
    <3>3. pool \in Nat
      BY <1>2, <2>1, <3>1, <3>2, PoolsBounded
    <3> QED BY <1>6, <1>8, <2>2, <3>2, <3>3, PayoutsPayThePool
  <2> HIDE DEF sum, on, total, q
  <2>4. CreditSum(credits[r]) = pool
    BY <1>6, <2>2, <2>3, ShownSum
  <2> QED BY <1>3, <1>4, <1>5, <1>8, <2>1, <2>4
<1> QED BY <1>7, <1>8

\* What a summary has read still is as it read it, once betting is over: the sums
\* of the bets, the joker and, of a finalized round, the whole row.
StillSo(s, r) ==
  /\ rounds[r] # None
  /\ rounds[r].status \in {"CLOSED", "COMPLETED"}
  /\ s.total = StakesIn(r)
  /\ \A n \in Numbers : s.on[n] = StakesOn(r, n)
  /\ s.next \in {"row", "done"} =>
       /\ s.shown # None
       /\ s.shown.joker = rounds[r].joker
       /\ s.shown.multiplier = rounds[r].multiplier
  /\ s.next = "done" /\ ~IsEstimate(s) => Completed(r) /\ s.row = rounds[r]

\* A round is finalized only when it is completed.
FinalOK(r) == rounds[r] # None /\ rounds[r].finalized => Completed(r)

SummaryInv ==
  /\ \A r \in Rounds : FinalOK(r)
  /\ summary # None =>
       /\ summary.round \in Rounds
       /\ summary.next \in {"config", "shown", "row", "done"}
       /\ summary.next # "config" => summary.percent = Config0.winning
       /\ summary.over => StillSo(summary, summary.round)

LEMMA FinalKept ==
  ASSUME NEW r \in Rounds, Life(r), FinalOK(r), IInv
  PROVE  FinalOK(r)'
<1>1. rounds[r] # None => rounds[r] \in Round
  BY DEF IInv, Tables
<1> QED BY <1>1 DEF Life, Kept, IsCreated, IsOpened, IsClosed, IsDrawn, IsSettled, Becomes,
           FinalOK, Completed, Round

LEMMA SoKept ==
  ASSUME IInv, [Next]_vars, NEW r \in Rounds, Life(r), NEW s, StillSo(s, r)
  PROVE  StillSo(s, r)'
<1>1. /\ rounds[r] # None /\ rounds[r] \in Round
      /\ rounds[r].status \in {"CLOSED", "COMPLETED"}
  BY DEF StillSo, IInv, Tables
<1>2. \/ rounds'[r] = rounds[r]
      \/ /\ rounds[r].status = "CLOSED"
         /\ rounds'[r] # None /\ rounds'[r].status \in {"CLOSED", "COMPLETED"}
         /\ rounds'[r].joker = rounds[r].joker /\ rounds'[r].multiplier = rounds[r].multiplier
  <2>1. ASSUME NEW q \in Round, rounds'[r] = q,
               q.status \in {"CLOSED", "COMPLETED"},
               q.joker = rounds[r].joker, q.multiplier = rounds[r].multiplier
        PROVE  /\ rounds'[r] # None /\ rounds'[r].status \in {"CLOSED", "COMPLETED"}
               /\ rounds'[r].joker = rounds[r].joker
               /\ rounds'[r].multiplier = rounds[r].multiplier
    BY <2>1, NoneAssumption
  <2>2. CASE Kept(r)
    BY <2>2 DEF Kept
  <2>3. ~IsCreated(r) /\ ~IsOpened(r)
    BY <1>1 DEF IsCreated, IsOpened
  <2>4. CASE IsDrawn(r)
    <3>1. PICK n \in Numbers : rounds'[r] = [rounds[r] EXCEPT !.number = n]
      BY <2>4 DEF IsDrawn
    <3>2. rounds[r].status = "CLOSED"
      BY <2>4 DEF IsDrawn
    <3> DEFINE q == [rounds[r] EXCEPT !.number = n]
    <3>3. /\ q \in Round /\ q.status = "CLOSED"
          /\ q.joker = rounds[r].joker /\ q.multiplier = rounds[r].multiplier
      BY <1>1, <3>2 DEF Round
    <3> QED BY <2>1, <3>1, <3>2, <3>3
  <2>5. CASE \E c \in Clients : IsClosed(c, r) \/ IsSettled(c, r)
    <3>1. PICK c \in Clients : IsClosed(c, r) \/ IsSettled(c, r)
      BY <2>5
    <3> DEFINE n == entity[c].number
               q == [rounds[r] EXCEPT !.number = n, !.status = "COMPLETED", !.finalized = TRUE]
    <3>2. rounds[r].status = "CLOSED" /\ n \in Numbers /\ rounds'[r] = q
      BY <1>1, <3>1 DEF IsClosed, IsSettled
    <3>3. /\ q \in Round /\ q.status = "COMPLETED"
          /\ q.joker = rounds[r].joker /\ q.multiplier = rounds[r].multiplier
      BY <1>1, <3>2 DEF Round, Statuses
    <3> QED BY <2>1, <3>2, <3>3
  <2> QED BY <2>2, <2>3, <2>4, <2>5 DEF Life
<1>3. StakesIn(r)' = StakesIn(r) /\ \A n \in Numbers : StakesOn(r, n)' = StakesOn(r, n)
  <2>1. \A p \in Players : /\ Stake(bets', p, r) = Stake(bets, p, r)
                           /\ \A n : StakeOn(bets', p, r, n) = StakeOn(bets, p, r, n)
    BY <1>1, BetsOfRound
  <2>2. [p \in Players |-> Stake(bets', p, r)] = [p \in Players |-> Stake(bets, p, r)]
    BY <2>1
  <2>3. ASSUME NEW n \in Numbers
        PROVE  [p \in Players |-> StakeOn(bets', p, r, n)]
                 = [p \in Players |-> StakeOn(bets, p, r, n)]
    BY <2>1
  <2> QED BY <2>2, <2>3 DEF StakesIn, StakesOn
<1>4. s.next = "done" /\ ~IsEstimate(s) => Completed(r)' /\ s.row = rounds'[r]
  BY <1>2 DEF StillSo, Completed
<1> QED BY <1>1, <1>2, <1>3, <1>4 DEF StillSo

LEMMA SummaryStep ==
  ASSUME IInv, ResultInv, PayoutInv, SummaryInv, [SummaryNext]_watched
  PROVE  SummaryInv'
<1>1. CASE [Next]_vars /\ UNCHANGED summary
  <2>1. \A r \in Rounds : Life(r)
    BY <1>1, RoundsLive DEF ResultInv
  <2>2. \A r \in Rounds : FinalOK(r)'
    BY <2>1, FinalKept DEF SummaryInv
  <2>3. summary # None /\ summary.over => StillSo(summary, summary.round)'
    BY <1>1, <2>1, SoKept DEF SummaryInv
  <2> QED BY <1>1, <2>2, <2>3 DEF SummaryInv
<1>2. CASE Summarize
  <2>1. UNCHANGED vars
    BY <1>2 DEF Summarize, SumBets, ReadShares, ReadShown, ReadResult
  <2>2. \A r \in Rounds : FinalOK(r)'
    BY <2>1 DEF SummaryInv, FinalOK, Completed, vars, db
  <2>3. CASE SumBets
    <3>1. PICK r \in Rounds :
            summary' = [round |-> r,
                        over |-> rounds[r] # None /\ rounds[r].status \in {"CLOSED", "COMPLETED"},
                        total |-> StakesIn(r), on |-> [n \in Numbers |-> StakesOn(r, n)],
                        percent |-> 0, shown |-> None, row |-> None, next |-> "config"]
      BY <2>3 DEF SumBets
    <3>2. /\ summary'.round = r /\ summary'.next = "config" /\ summary'.total = StakesIn(r)
          /\ summary'.on = [n \in Numbers |-> StakesOn(r, n)]
          /\ summary'.over => rounds[r] # None /\ rounds[r].status \in {"CLOSED", "COMPLETED"}
      BY <3>1
    <3>3. rounds' = rounds /\ StakesIn(r)' = StakesIn(r)
          /\ \A n \in Numbers : StakesOn(r, n)' = StakesOn(r, n)
      BY <2>1 DEF vars, db, StakesIn, StakesOn
    <3>4. ASSUME summary'.over PROVE StillSo(summary, r)'
      <4>1. /\ rounds'[r] # None /\ rounds'[r].status \in {"CLOSED", "COMPLETED"}
            /\ summary'.total = StakesIn(r)'
            /\ \A n \in Numbers : summary'.on[n] = StakesOn(r, n)'
        BY <3>2, <3>3, <3>4
      <4>2. summary'.next \notin {"row", "done"}
        BY <3>2
      <4> QED BY <4>1, <4>2 DEF StillSo
    <3> QED BY <2>2, <3>1, <3>2, <3>4 DEF SummaryInv
  <2>4. CASE ReadShares
    BY <2>1, <2>2, <2>4 DEF ReadShares, SummaryInv, PayoutInv, StillSo, StakesIn, StakesOn,
       vars, db
  <2>5. CASE ReadShown
    BY <2>1, <2>2, <2>5 DEF ReadShown, SummaryInv, StillSo, StakesIn, StakesOn, vars, db
  <2>6. CASE ReadResult
    BY <2>1, <2>2, <2>6 DEF ReadResult, SummaryInv, StillSo, FinalOK, IsEstimate, StakesIn,
       StakesOn, Completed, vars, db
  <2> QED BY <1>2, <2>3, <2>4, <2>5, <2>6 DEF Summarize
<1>3. CASE UNCHANGED watched
  BY <1>1, <1>3 DEF watched
<1> QED BY <1>1, <1>2, <1>3 DEF SummaryNext

LEMMA Watching == SummarySpec => Spec
<1>1. SummaryInit => Init
  BY DEF SummaryInit
<1>2. [SummaryNext]_watched => [Next]_vars
  BY DEF SummaryNext, watched, Summarize, SumBets, ReadShares, ReadShown, ReadResult
<1> QED BY <1>1, <1>2, PTL DEF SummarySpec, Spec

\* A summary that sums the bets once betting is over and says that its payout is no
\* estimate reports what the winners were credited, to the cent, and their joker,
\* whatever is drawn and paid between its four queries; the winners' percentage,
\* here, stays as it was.
THEOREM SummariesShow ==
  ASSUME OneCloser, SamePercentage PROVE SummarySpec => []SummaryShowsPayout
<1>1. SummaryInit => SummaryInv
  BY DatabaseAssumption DEF SummaryInit, Init, SummaryInv, FinalOK
<1>2. IInv /\ ResultInv /\ PayoutInv /\ SummaryInv => SummaryShowsPayout
  <2> SUFFICES ASSUME IInv, ResultInv, PayoutInv, SummaryInv,
                      Answered, summary.over, ~IsEstimate(summary)
               PROVE  LET r == summary.round IN
                      /\ CreditSum(credits[r]) \in ReportedPayouts(summary)
                      /\ JokerShown(summary) = [enabled |-> rounds[r].joker,
                                                multiplier |-> rounds[r].multiplier]
    BY DEF SummaryShowsPayout, CreditSum
  <2> DEFINE r == summary.round
  <2>1. /\ r \in Rounds /\ summary.percent = config.winning
        /\ StillSo(summary, r) /\ summary.next = "done"
    BY DEF SummaryInv, Answered, PayoutInv
  <2>2. Completed(r) /\ summary.row = rounds[r]
    BY <2>1 DEF StillSo
  <2>3. ResultOK(r) /\ CountsOK(r)
    BY <2>1, CountsAreOK DEF ResultInv, PayoutInv
  <2>4. CreditSum(credits[r]) \in ReportedPayouts(summary)
    BY <2>1, <2>2, <2>3, CountsAreShown DEF StillSo
  <2> QED BY <2>1, <2>4 DEF StillSo, JokerShown
<1>3. IInv /\ ResultInv /\ PayoutInv /\ SummaryInv /\ [SummaryNext]_watched => SummaryInv'
  BY SummaryStep
<1>4. SummarySpec => [](IInv /\ ResultInv /\ PayoutInv)
  BY Watching, Invariant, ResultInvariant, PayoutInvariant, PTL
<1> QED BY <1>1, <1>2, <1>3, <1>4, PTL DEF SummarySpec

-----------------------------------------------------------------------------
(* The schedule of a round, and the joker it opens with.                   *)

LEMMA SchedulesMove ==
  ASSUME IInv, [Next]_vars, NEW r \in Rounds, schedules'[r] # schedules[r]
  PROVE  \E c \in Clients : RoundOf(c) = r /\ (ScheduleWrite(c) \/ CancelWrite(c))
<1>1. ASSUME schedules' = schedules PROVE FALSE
  BY <1>1
<1>2. ASSUME UNCHANGED db PROVE FALSE
  BY <1>1, <1>2 DEF db
<1>3. PICK c \in Clients : Write(c)
  <2>1. ASSUME NEW c \in Clients, Acts(c) PROVE Write(c)
    BY <1>2, <2>1, ReadFrames, StartFrames DEF Acts, Step, Crash, DeadlockVictim, Rollback
  <2>2. ASSUME UNCHANGED vars PROVE FALSE
    BY <1>2, <2>2 DEF vars
  <2>3. ASSUME NEW x \in Rounds, Tick(x) PROVE FALSE
    BY <1>1, <2>3 DEF Tick
  <2>4. ASSUME NEW p \in Players, Transfer(p) PROVE FALSE
    BY <1>1, <2>4 DEF Transfer
  <2> QED BY <2>1, <2>2, <2>3, <2>4 DEF Next, Acts, Terminating
<1>4. ScheduleWrite(c) \/ CancelWrite(c)
  BY <1>1, <1>2, <1>3 DEF Write, ConfigWrite, CreateWrite, OpenWrite, CloseWrite,
     GenerateWrite, SettleWrite, BetWrite, Rollback
<1>5. schedules \in [Rounds -> Schedule \cup {None}]
  BY DEF IInv, Tables
<1>6. \E new : schedules' = [schedules EXCEPT ![RoundOf(c)] = new]
  BY <1>4 DEF ScheduleWrite, CancelWrite
<1> QED BY <1>4, <1>5, <1>6

LEMMA ReadGoes ==
  ASSUME IInv, NEW c \in Clients, Read(c)
  PROVE  pc'[c] # "start"
<1>. Locals
  BY DEF IInv
<1>1. ASSUME pc'[c] \in Ended PROVE pc'[c] # "start"
  BY <1>1 DEF Ended
<1>2. ASSUME NEW s, GoTo(c, s), s # "start" PROVE pc'[c] # "start"
  BY <1>2 DEF GoTo, Locals
<1>3. pc[c] \in Steps \ {"write"}
  BY ReadContinues
<1>4. Follow(c) => pc'[c] # "start"
  <2>1. After(Handler(c), pc[c]) \in StepsOf(Handler(c)) /\ Handler(c) \in Handlers
        /\ (Follow(c) => GoTo(c, After(Handler(c), pc[c])))
    BY <1>3, Reading
  <2>2. After(Handler(c), pc[c]) # "start"
    BY <2>1 DEF StepsOf, Handlers
  <2> QED BY <1>2, <2>1, <2>2
<1>5. Rollback(c) \/ End(c, "done") \/ Follow(c)
      \/ GoTo(c, "write") \/ GoTo(c, "lockWinner") \/ pc' = pc
  BY DEF Read, LockRound, ReadRound, ReadScheduleToOpen, ReadScheduleToMake,
     ReadScheduleToCancel, ReadConfigToChange, ReadConfigToCreate, ReadConfigToOpen,
     ReadConfigToBet, ReadConfigToPay, ReadBet, ReadBets, LockWinner, LockWallet, Select
<1> QED BY <1>1, <1>2, <1>3, <1>4, <1>5, RollbackFrames, EndFrames DEF Ended, Steps

\* Nobody comes to cancel who was not going to.
LEMMA CancelsBefore ==
  ASSUME IInv, [Next]_vars, NEW c \in Clients, NEW r, Cancels(c, r)'
  PROVE  Cancels(c, r)
<1>. Locals
  BY DEF IInv
<1>1. ASSUME pc'[c] \in Ended PROVE FALSE
  BY <1>1 DEF Cancels, Running, Ended, Steps
<1>2. CASE Idle(c)
  BY <1>2 DEF Idle, Cancels, Running, Handler, RoundOf
<1>3. CASE Start(c)
  <2>1. CASE Rollback(c)
    BY <1>1, <2>1, RollbackFrames DEF Ended
  <2>2. CASE \E k \in CallsOf[c] : call' = [call EXCEPT ![c] = k]
    <3>1. PICK k \in CallsOf[c] : call'[c] = k
      BY <2>2 DEF Locals
    <3>2. pc[c] = "start"
      BY <1>3 DEF Start
    <3> QED BY <3>1, <3>2 DEF Cancels, Handler, RoundOf
  <2> QED BY <1>3, <2>1, <2>2 DEF Start
<1>4. CASE Read(c)
  <2>1. pc[c] \in Steps /\ call'[c] = call[c] /\ pc'[c] # "start"
    BY <1>1, <1>4, ReadContinues, ReadGoes
  <2> QED BY <2>1 DEF Cancels, Running, Handler, RoundOf
<1>5. CASE Write(c)
  BY <1>1, <1>5, WriteEnds
<1>6. CASE Crash(c) \/ DeadlockVictim(c)
  BY <1>1, <1>6, RollbackFrames DEF Crash, DeadlockVictim, Ended
<1> QED BY <1>2, <1>3, <1>4, <1>5, <1>6, OneMoves DEF Acts, Step

\* the call of one who has a cancellation before it, or under way
LEMMA CancelsCall ==
  ASSUME NEW c \in Clients, ServesCall(c), NEW r, Cancels(c, r)
  PROVE  \E k \in CallsOf[c] : k.handler = "cancel" /\ k.round = r
BY DEF Cancels, ServesCall, Handler, RoundOf

\* what a step that writes a schedule does, given what the handlers have in hand
LEMMA ScheduleWriter ==
  ASSUME IInv, JokerInv, NEW c \in Clients, ScheduleWrite(c)
  PROVE  LET r == RoundOf(c) IN
         /\ r \in Rounds /\ roundLock[r] = c /\ entity[c].active
         /\ schedules[r] # None => ~schedules[r].active
         /\ schedules[r] = None => schedules'[r] = entity[c]
         /\ pc'[c] \in Ended
<1> DEFINE r == RoundOf(c)
<1>1. Writing(c, {"schedule"})
      /\ schedules' = [schedules EXCEPT ![r] = IF @ = None THEN entity[c] ELSE Merged(c)]
  BY DEF ScheduleWrite
<1>2. /\ r \in Rounds /\ Running(c) /\ RoundHeld(c)
      /\ pc[c] = "write" /\ Handler(c) = "schedule"
  BY <1>1, Writer
<1>3. roundLock[r] = c
  BY <1>2 DEF RoundHeld, PastLock, Lockers
<1>4. MakeHand(c)
  BY DEF JokerInv
<1>5. schedules \in [Rounds -> Schedule \cup {None}]
  BY DEF IInv, Tables
<1>6. pc'[c] \in Ended
  BY WriteEnds DEF Write
<1> HIDE DEF r
<1>7. schedules[r] = None => schedules'[r] = entity[c]
  BY <1>1, <1>2, <1>5
<1>8. entity[c].active /\ (schedules[r] # None => ~schedules[r].active)
  BY <1>2, <1>4 DEF MakeHand, r
<1> QED BY <1>2, <1>3, <1>6, <1>7, <1>8 DEF r

\* a cancellation past its first query
LEMMA Cancelling ==
  ASSUME IInv, JokerInv, NEW c \in Clients, Running(c), Handler(c) = "cancel",
         pc[c] # "readSchedule"
  PROVE  LET r == RoundOf(c) IN
         /\ r \in Rounds /\ Cancels(c, r)
         /\ schedules[r] \in Schedule /\ schedules[r] # None /\ schedules[r].active
<1> DEFINE r == RoundOf(c)
<1>1. Control(c) /\ EntityOK(c)
  BY DEF IInv, Session
<1>2. r \in Rounds /\ schedules[r] # None
  BY <1>1, RoundIsRound DEF EntityOK, ToCancel
<1>3. Cancels(c, r)
  BY DEF Cancels
<1>4. Uncancelled(c)
  BY DEF JokerInv
<1>5. schedules[r] \in Schedule \cup {None}
  BY <1>2 DEF IInv, Tables
<1> QED BY <1>2, <1>3, <1>4, <1>5 DEF Uncancelled

LEMMA CancelWriter ==
  ASSUME IInv, JokerInv, NEW c \in Clients, CancelWrite(c)
  PROVE  LET r == RoundOf(c) IN
         /\ r \in Rounds /\ Cancels(c, r)
         /\ schedules[r] # None /\ schedules[r].active
         /\ schedules'[r].active => schedules'[r] = schedules[r]
         /\ pc'[c] \in Ended
<1> DEFINE r == RoundOf(c)
           s == schedules[r]
<1>1. Writing(c, {"cancel"}) /\ schedules' = [schedules EXCEPT ![r] = Merged(c)]
  BY DEF CancelWrite
<1>2. Running(c) /\ pc[c] = "write" /\ Handler(c) = "cancel"
  BY <1>1, Writer
<1>3. r \in Rounds /\ Cancels(c, r) /\ s \in Schedule /\ s # None /\ s.active
  BY <1>2, Cancelling
<1>4. entity[c] = [s EXCEPT !.active = FALSE]
  BY <1>2 DEF JokerInv, CancelHand
<1>5. Merged(c) = [f \in DOMAIN s |-> IF f \in dirty[c] THEN entity[c][f] ELSE s[f]]
  BY <1>2 DEF Merged, Stored
<1>6. schedules \in [Rounds -> Schedule \cup {None}]
  BY DEF IInv, Tables
<1>7. pc'[c] \in Ended
  BY WriteEnds DEF Write
<1> HIDE DEF r, s
<1>8. schedules'[r] = [f \in DOMAIN s |-> IF f \in dirty[c] THEN entity[c][f] ELSE s[f]]
  BY <1>1, <1>3, <1>5, <1>6
<1>9. schedules'[r].active => schedules'[r] = s
  <2>1. DOMAIN s = {"multiplier", "active"}
    BY <1>3 DEF Schedule
  <2>2. entity[c].active = FALSE /\ entity[c].multiplier = s.multiplier
    BY <1>3, <1>4 DEF Schedule
  <2>3. schedules'[r].active => "active" \notin dirty[c]
    BY <1>8, <2>1, <2>2
  <2>4. "active" \notin dirty[c] =>
          \A f \in DOMAIN s : (IF f \in dirty[c] THEN entity[c][f] ELSE s[f]) = s[f]
    BY <2>1, <2>2
  <2>5. s = [f \in DOMAIN s |-> s[f]]
    BY <1>3 DEF Schedule
  <2> QED BY <1>8, <2>3, <2>4, <2>5
<1> QED BY <1>3, <1>7, <1>9 DEF r, s

LEMMA UncancelledOK ==
  ASSUME OneCanceller, IInv, JokerInv, [Next]_vars, NEW c \in Clients
  PROVE  Uncancelled(c)'
<1> SUFFICES ASSUME NEW r \in Rounds, Cancels(c, r)', schedules'[r] # None
             PROVE  schedules'[r].active
  BY DEF Uncancelled
<1>1. Cancels(c, r) /\ (schedules[r] # None => schedules[r].active)
  BY CancelsBefore DEF JokerInv, Uncancelled
<1>2. ASSUME NEW d \in Clients, RoundOf(d) = r, ScheduleWrite(d) PROVE schedules'[r].active
  BY <1>1, <1>2, ScheduleWriter
<1>3. ASSUME NEW d \in Clients, RoundOf(d) = r, CancelWrite(d) PROVE FALSE
  <2>1. Cancels(d, r) /\ pc'[d] \in Ended
    BY <1>3, CancelWriter
  <2>2. c = d
    BY <1>1, <2>1, CancelsCall DEF OneCanceller, JokerInv
  <2> QED BY <2>1, <2>2 DEF Cancels, Running, Ended, Steps
<1>4. CASE schedules'[r] = schedules[r]
  BY <1>1, <1>4
<1> QED BY <1>2, <1>3, <1>4, SchedulesMove

LEMMA CancelHandOK ==
  ASSUME OneCanceller, IInv, JokerInv, [Next]_vars, NEW c \in Clients
  PROVE  CancelHand(c)'
<1>. Locals
  BY DEF IInv
<1> DEFINE r == RoundOf(c)
<1>1. ASSUME pc'[c] \in Ended PROVE CancelHand(c)'
  BY <1>1 DEF CancelHand, Running, Ended, Steps
<1>2. CASE Idle(c)
  <2> SUFFICES ASSUME Running(c), Handler(c) = "cancel", pc[c] # "readSchedule"
               PROVE  schedules'[r] = schedules[r]
    BY <1>2 DEF Idle, CancelHand, Running, Handler, RoundOf, JokerInv
  <2>1. r \in Rounds /\ Cancels(c, r) /\ schedules[r] # None /\ schedules[r].active
    BY Cancelling
  <2>2. ASSUME NEW d \in Clients, RoundOf(d) = r, ScheduleWrite(d) PROVE FALSE
    BY <2>1, <2>2, ScheduleWriter
  <2>3. ASSUME NEW d \in Clients, RoundOf(d) = r, CancelWrite(d) PROVE FALSE
    <3>1. Cancels(d, r) /\ pc'[d] \in Ended
      BY <2>3, CancelWriter
    <3>2. c = d
      BY <2>1, <3>1, CancelsCall DEF OneCanceller, JokerInv
    <3> QED BY <1>2, <3>1, <3>2 DEF Idle, Running, Ended, Steps
  <2> HIDE DEF r
  <2> QED BY <2>1, <2>2, <2>3, SchedulesMove
<1>3. CASE Start(c)
  <2>1. CASE Rollback(c)
    BY <1>1, <2>1, RollbackFrames DEF Ended
  <2>2. CASE \E k \in CallsOf[c] : /\ call' = [call EXCEPT ![c] = k]
                                  /\ GoTo(c, Path(k.handler)[1])
    <3>1. PICK k \in CallsOf[c] : /\ call' = [call EXCEPT ![c] = k]
                                  /\ GoTo(c, Path(k.handler)[1])
      BY <2>2
    <3>2. call'[c] = k /\ pc'[c] = Path(k.handler)[1]
      BY <3>1 DEF Locals, GoTo
    <3>3. k.handler = "cancel" => pc'[c] = "readSchedule"
      BY <3>2 DEF Path
    <3> QED BY <3>2, <3>3 DEF CancelHand, Handler
  <2> QED BY <1>3, <2>1, <2>2 DEF Start
<1>4. CASE Read(c)
  <2>1. Running(c) /\ Control(c) /\ pc[c] \in Steps \ {"write"}
    BY <1>4, ReadContinues, Reading DEF Running
  <2>2. CASE pc'[c] \in Ended
    BY <1>1, <2>2
  <2>3. CASE call'[c] = call[c] /\ Handler(c) # "cancel"
    BY <2>3 DEF CancelHand, Handler
  <2>4. CASE call'[c] = call[c] /\ Handler(c) = "cancel" /\ pc'[c] \notin Ended
    <3>1. pc[c] \in {"readSchedule", "readRound", "selectSchedule"}
      BY <2>1, <2>4 DEF Control, StepsOf
    <3>2. ReadScheduleToCancel(c) \/ ReadRound(c) \/ Select(c)
      BY <1>4, <2>4, <3>1 DEF Read, LockRound, ReadScheduleToOpen, ReadScheduleToMake,
         ReadConfigToChange, ReadConfigToCreate, ReadConfigToOpen,
         ReadConfigToBet, ReadConfigToPay, ReadingConfig, ReadBet, ReadBets, LockWinner,
         LockWallet
    <3>3. schedules' = schedules /\ RoundOf(c)' = r
      BY <1>4, <2>4, ReadFrames DEF db, RoundOf
    <3>4. ~Rollback(c) /\ ~End(c, "done")
      BY <2>4, RollbackFrames, EndFrames DEF Ended
    <3>5. Follow(c) => pc'[c] = After(Handler(c), pc[c])
      BY <2>1, Reading DEF GoTo, Locals
    <3>6. CASE ReadScheduleToCancel(c)
      <4>1. /\ pc[c] = "readSchedule" /\ Follow(c)
            /\ entity' = [entity EXCEPT ![c] = schedules[r]]
        BY <3>4, <3>6 DEF ReadScheduleToCancel
      <4>2. pc'[c] = "readRound" /\ entity'[c] = schedules[r]
        BY <2>4, <3>5, <4>1 DEF After, Locals
      <4> QED BY <3>3, <4>2 DEF CancelHand
    <3>7. CASE ReadRound(c)
      <4>1. /\ pc[c] = "readRound" /\ Follow(c)
            /\ entity' = [entity EXCEPT ![c] = [entity[c] EXCEPT !.active = FALSE]]
        BY <2>4, <3>4, <3>7 DEF ReadRound
      <4>2. /\ pc'[c] = "selectSchedule"
            /\ entity'[c] = [entity[c] EXCEPT !.active = FALSE]
        BY <2>4, <3>5, <4>1 DEF After, Locals
      <4>3. entity[c] = schedules[r]
        BY <2>1, <2>4, <4>1 DEF JokerInv, CancelHand
      <4> QED BY <3>3, <4>2, <4>3 DEF CancelHand
    <3>8. CASE Select(c)
      <4>1. pc[c] = "selectSchedule" /\ Follow(c) /\ entity' = entity
        BY <3>1, <3>4, <3>8 DEF Select
      <4>2. pc'[c] = "write"
        BY <2>4, <3>5, <4>1 DEF After
      <4>3. entity[c] = [schedules[r] EXCEPT !.active = FALSE]
        BY <2>1, <2>4, <4>1 DEF JokerInv, CancelHand
      <4> QED BY <3>3, <4>1, <4>2, <4>3 DEF CancelHand
    <3> QED BY <3>2, <3>6, <3>7, <3>8
  <2> QED BY <1>4, <2>2, <2>3, <2>4, ReadContinues
<1>5. CASE Write(c)
  BY <1>1, <1>5, WriteEnds
<1>6. CASE Crash(c) \/ DeadlockVictim(c)
  BY <1>1, <1>6, RollbackFrames DEF Crash, DeadlockVictim, Ended
<1> QED BY <1>2, <1>3, <1>4, <1>5, <1>6, OneMoves DEF Acts, Step

LEMMA MakeHandOK ==
  ASSUME IInv, JokerInv, [Next]_vars, NEW c \in Clients
  PROVE  MakeHand(c)'
<1>. Locals
  BY DEF IInv
<1> DEFINE r == RoundOf(c)
<1>1. ASSUME pc'[c] \in Ended PROVE MakeHand(c)'
  BY <1>1 DEF MakeHand, Running, Ended, Steps
<1>2. CASE Idle(c)
  <2> SUFFICES ASSUME Running(c), Handler(c) = "schedule", pc[c] \in {"selectSchedule", "write"}
               PROVE  schedules'[r] # None => ~schedules'[r].active
    BY <1>2 DEF Idle, MakeHand, Running, Handler, RoundOf, JokerInv
  <2>1. entity[c].active /\ (schedules[r] # None => ~schedules[r].active)
    BY DEF JokerInv, MakeHand
  <2>2. roundLock[r] = c
    <3>1. PastLock(c) /\ RoundHeld(c)
      BY DEF PastLock, Lockers, IInv, Session
    <3> QED BY <3>1 DEF RoundHeld
  <2>3. ASSUME NEW d \in Clients, RoundOf(d) = r, ScheduleWrite(d) PROVE FALSE
    <3>1. roundLock[r] = d /\ pc'[d] \in Ended
      BY <2>3, ScheduleWriter
    <3> QED BY <1>2, <2>2, <3>1 DEF Idle, Running, Ended, Steps
  <2>4. ASSUME NEW d \in Clients, RoundOf(d) = r, CancelWrite(d) PROVE FALSE
    BY <2>1, <2>4, CancelWriter
  <2>5. r \in Rounds
    BY RoundIsRound DEF IInv, Session
  <2> HIDE DEF r
  <2> QED BY <2>1, <2>3, <2>4, <2>5, SchedulesMove
<1>3. CASE Start(c)
  <2>1. CASE Rollback(c)
    BY <1>1, <2>1, RollbackFrames DEF Ended
  <2>2. CASE \E k \in CallsOf[c] : /\ call' = [call EXCEPT ![c] = k]
                                  /\ GoTo(c, Path(k.handler)[1])
    <3>1. PICK k \in CallsOf[c] : /\ call' = [call EXCEPT ![c] = k]
                                  /\ GoTo(c, Path(k.handler)[1])
      BY <2>2
    <3>2. call'[c] = k /\ pc'[c] = Path(k.handler)[1]
      BY <3>1 DEF Locals, GoTo
    <3>3. k.handler = "schedule" => pc'[c] = "lockRound"
      BY <3>2 DEF Path
    <3> QED BY <3>2, <3>3 DEF MakeHand, Handler
  <2> QED BY <1>3, <2>1, <2>2 DEF Start
<1>4. CASE Read(c)
  <2>1. Running(c) /\ Control(c) /\ pc[c] \in Steps \ {"write"}
    BY <1>4, ReadContinues, Reading DEF Running
  <2>2. CASE pc'[c] \in Ended
    BY <1>1, <2>2
  <2>3. CASE call'[c] = call[c] /\ Handler(c) # "schedule"
    BY <2>3 DEF MakeHand, Handler
  <2>4. CASE call'[c] = call[c] /\ Handler(c) = "schedule" /\ pc'[c] \notin Ended
    <3>1. pc[c] \in {"lockRound", "readSchedule", "selectSchedule"}
      BY <2>1, <2>4 DEF Control, StepsOf
    <3>2. LockRound(c) \/ ReadScheduleToMake(c) \/ Select(c)
      BY <1>4, <2>4, <3>1 DEF Read, ReadRound, ReadScheduleToOpen, ReadScheduleToCancel,
         ReadConfigToChange, ReadConfigToCreate, ReadConfigToOpen,
         ReadConfigToBet, ReadConfigToPay, ReadingConfig, ReadBet, ReadBets, LockWinner,
         LockWallet
    <3>3. schedules' = schedules /\ RoundOf(c)' = r
      BY <1>4, <2>4, ReadFrames DEF db, RoundOf
    <3>4. ~Rollback(c) /\ ~End(c, "done")
      BY <2>4, RollbackFrames, EndFrames DEF Ended
    <3>5. Follow(c) => pc'[c] = After(Handler(c), pc[c])
      BY <2>1, Reading DEF GoTo, Locals
    <3>6. CASE LockRound(c)
      <4>1. pc[c] = "lockRound" /\ Follow(c)
        BY <3>4, <3>6 DEF LockRound
      <4>2. pc'[c] = "readSchedule"
        BY <2>4, <3>5, <4>1 DEF After
      <4> QED BY <4>2 DEF MakeHand
    <3>7. CASE ReadScheduleToMake(c)
      <4>1. /\ ~(schedules[r] # None /\ schedules[r].active)
            /\ entity' = [entity EXCEPT ![c] =
                 [multiplier |-> call[c].multiplier, active |-> TRUE]]
        BY <3>4, <3>7 DEF ReadScheduleToMake
      <4>2. entity'[c].active
        BY <4>1 DEF Locals
      <4> QED BY <3>3, <4>1, <4>2 DEF MakeHand
    <3>8. CASE Select(c)
      <4>1. pc[c] = "selectSchedule" /\ entity' = entity
        BY <3>1, <3>4, <3>8 DEF Select
      <4>2. entity[c].active /\ (schedules[r] # None => ~schedules[r].active)
        BY <2>1, <2>4, <4>1 DEF JokerInv, MakeHand
      <4> QED BY <3>3, <4>1, <4>2 DEF MakeHand
    <3> QED BY <3>2, <3>6, <3>7, <3>8
  <2> QED BY <1>4, <2>2, <2>3, <2>4, ReadContinues
<1>5. CASE Write(c)
  BY <1>1, <1>5, WriteEnds
<1>6. CASE Crash(c) \/ DeadlockVictim(c)
  BY <1>1, <1>6, RollbackFrames DEF Crash, DeadlockVictim, Ended
<1> QED BY <1>2, <1>3, <1>4, <1>5, <1>6, OneMoves DEF Acts, Step

LEMMA OpenHandOK ==
  ASSUME IInv, JokerInv, [Next]_vars, NEW c \in Clients
  PROVE  OpenHand(c)'
<1>. Locals
  BY DEF IInv
<1> DEFINE r == RoundOf(c)
<1>1. ASSUME pc'[c] \in Ended PROVE OpenHand(c)'
  BY <1>1 DEF OpenHand, Running, Ended, Steps
<1>2. CASE Idle(c)
  <2> SUFFICES ASSUME Running(c), Handler(c) = "open", pc[c] \in {"readConfig", "write"},
                      schedules'[r] # None, schedules'[r].active
               PROVE  schedules'[r] = schedules[r]
    BY <1>2 DEF Idle, OpenHand, Running, Handler, RoundOf, JokerInv
  <2>1. roundLock[r] = c
    <3>1. PastLock(c) /\ RoundHeld(c)
      BY DEF PastLock, Lockers, IInv, Session
    <3> QED BY <3>1 DEF RoundHeld
  <2>2. ASSUME NEW d \in Clients, RoundOf(d) = r, ScheduleWrite(d) PROVE FALSE
    <3>1. roundLock[r] = d /\ pc'[d] \in Ended
      BY <2>2, ScheduleWriter
    <3> QED BY <1>2, <2>1, <3>1 DEF Idle, Running, Ended, Steps
  <2>3. ASSUME NEW d \in Clients, RoundOf(d) = r, CancelWrite(d)
        PROVE  schedules'[r] = schedules[r]
    BY <2>3, CancelWriter
  <2>4. r \in Rounds
    BY RoundIsRound DEF IInv, Session
  <2> HIDE DEF r
  <2> QED BY <2>2, <2>3, <2>4, SchedulesMove
<1>3. CASE Start(c)
  <2>1. CASE Rollback(c)
    BY <1>1, <2>1, RollbackFrames DEF Ended
  <2>2. CASE \E k \in CallsOf[c] : /\ call' = [call EXCEPT ![c] = k]
                                  /\ GoTo(c, Path(k.handler)[1])
    <3>1. PICK k \in CallsOf[c] : /\ call' = [call EXCEPT ![c] = k]
                                  /\ GoTo(c, Path(k.handler)[1])
      BY <2>2
    <3>2. call'[c] = k /\ pc'[c] = Path(k.handler)[1]
      BY <3>1 DEF Locals, GoTo
    <3>3. k.handler = "open" => pc'[c] = "lockRound"
      BY <3>2 DEF Path
    <3> QED BY <3>2, <3>3 DEF OpenHand, Handler
  <2> QED BY <1>3, <2>1, <2>2 DEF Start
<1>4. CASE Read(c)
  <2>1. Running(c) /\ Control(c) /\ EntityOK(c) /\ RoundHeld(c) /\ pc[c] \in Steps \ {"write"}
    BY <1>4, ReadContinues, Reading DEF Running
  <2>2. CASE pc'[c] \in Ended
    BY <1>1, <2>2
  <2>3. CASE call'[c] = call[c] /\ Handler(c) # "open"
    BY <2>3 DEF OpenHand, Handler
  <2>4. CASE call'[c] = call[c] /\ Handler(c) = "open" /\ pc'[c] \notin Ended
    <3>1. pc[c] \in {"lockRound", "readSchedule", "readConfig"}
      BY <2>1, <2>4 DEF Control, StepsOf
    <3>2. LockRound(c) \/ ReadScheduleToOpen(c) \/ ReadConfigToOpen(c)
      BY <1>4, <2>4, <3>1 DEF Read, ReadRound, ReadScheduleToMake, ReadScheduleToCancel,
         ReadConfigToChange, ReadConfigToCreate,
         ReadConfigToBet, ReadConfigToPay, ReadingConfig, ReadBet, ReadBets, LockWinner,
         LockWallet, Select
    <3>3. schedules' = schedules /\ RoundOf(c)' = r
      BY <1>4, <2>4, ReadFrames DEF db, RoundOf
    <3>4. ~Rollback(c)
      BY <2>4, RollbackFrames DEF Ended
    <3>5. Follow(c) => pc'[c] = After(Handler(c), pc[c])
      BY <2>1, Reading DEF GoTo, Locals
    <3>6. CASE LockRound(c)
      <4>1. pc[c] = "lockRound" /\ Follow(c)
        BY <3>4, <3>6 DEF LockRound
      <4>2. pc'[c] = "readSchedule"
        BY <2>4, <3>5, <4>1 DEF After
      <4> QED BY <4>2 DEF OpenHand
    <3>7. CASE ReadScheduleToOpen(c)
      <4>1. pc[c] = "readSchedule" /\ Follow(c)
        BY <3>7 DEF ReadScheduleToOpen
      <4>2. pc'[c] = "readConfig"
        BY <2>4, <3>5, <4>1 DEF After
      <4>3. schedules[r] # None /\ schedules[r].active => joker'[c] = schedules[r]
        BY <3>7 DEF ReadScheduleToOpen, Locals
      <4> QED BY <3>3, <4>2, <4>3 DEF OpenHand
    <3>8. CASE ReadConfigToOpen(c)
      <4> SUFFICES ASSUME schedules[r] # None, schedules[r].active
                   PROVE  pc'[c] = "write" /\ entity'[c].multiplier
                            = IF entity'[c].joker THEN schedules[r].multiplier
                                                  ELSE entity'[c].multiplier
        BY <3>3 DEF OpenHand
      <4>1. pc[c] = "readConfig" /\ Follow(c)
        BY <3>8 DEF ReadConfigToOpen, ReadingConfig
      <4>2. pc'[c] = "write"
        BY <2>4, <3>5, <4>1 DEF After
      <4>3. joker[c] = schedules[r]
        BY <2>1, <2>4, <4>1 DEF JokerInv, OpenHand
      <4>4. entity[c] \in Round
        <5>1. r \in Rounds /\ PastLock(c)
          BY <2>1, <2>4, <4>1, RoundIsRound DEF PastLock, Lockers
        <5>2. rounds[r] # None /\ rounds[r] \in Round \cup {None} /\ entity[c] = rounds[r]
          BY <2>1, <2>4, <4>1, <5>1 DEF RoundHeld, EntityOK, ToOpen, IInv, Tables
        <5> QED BY <5>2
      <4> DEFINE plays == config.joker /\ (joker[c] # None \/ r % config.frequency = 0)
                 x == IF joker[c] # None THEN joker[c].multiplier ELSE config.multiplier
      <4>5. entity'[c] = [entity[c] EXCEPT !.status = "OPEN", !.joker = plays,
                            !.multiplier = IF plays THEN x ELSE @]
        BY <3>8 DEF ReadConfigToOpen, Locals
      <4>6. plays \in BOOLEAN /\ x = schedules[r].multiplier
        BY <4>3
      <4> HIDE DEF plays, x
      <4> QED BY <4>2, <4>4, <4>5, <4>6 DEF Round
    <3> QED BY <3>2, <3>6, <3>7, <3>8
  <2> QED BY <1>4, <2>2, <2>3, <2>4, ReadContinues
<1>5. CASE Write(c)
  BY <1>1, <1>5, WriteEnds
<1>6. CASE Crash(c) \/ DeadlockVictim(c)
  BY <1>1, <1>6, RollbackFrames DEF Crash, DeadlockVictim, Ended
<1> QED BY <1>2, <1>3, <1>4, <1>5, <1>6, OneMoves DEF Acts, Step

LEMMA JokerInit == Init => JokerInv
BY DEF Init, JokerInv, ServesCall, Uncancelled, CancelHand, MakeHand, OpenHand, Running, Steps

LEMMA JokerNext == OneCanceller /\ IInv /\ JokerInv /\ [Next]_vars => JokerInv'
BY ServesOK, UncancelledOK, CancelHandOK, MakeHandOK, OpenHandOK DEF JokerInv

LEMMA JokerInvariant == ASSUME OneCanceller PROVE Spec => []JokerInv
BY JokerInit, JokerNext, Invariant, PTL DEF Spec

\* Only the write of an opening opens a round.
LEMMA OpensRound ==
  ASSUME IInv, [Next]_vars, NEW r \in Rounds, rounds[r] # None,
         rounds[r].status = "UPCOMING", rounds'[r].status = "OPEN"
  PROVE  \E c \in Clients : OpenWrite(c) /\ RoundOf(c) = r
<1>1. ASSUME rounds' = rounds PROVE FALSE
  BY <1>1
<1>2. ASSUME UNCHANGED db PROVE FALSE
  BY <1>1, <1>2 DEF db
<1>3. PICK c \in Clients : Write(c)
  <2>1. ASSUME NEW c \in Clients, Acts(c) PROVE Write(c)
    BY <1>2, <2>1, ReadFrames, StartFrames DEF Acts, Step, Crash, DeadlockVictim, Rollback
  <2>2. ASSUME UNCHANGED vars PROVE FALSE
    BY <1>2, <2>2 DEF vars
  <2>3. ASSUME NEW x \in Rounds, Tick(x) PROVE FALSE
    BY <1>1, <2>3 DEF Tick
  <2>4. ASSUME NEW p \in Players, Transfer(p) PROVE FALSE
    BY <1>1, <2>4 DEF Transfer
  <2> QED BY <2>1, <2>2, <2>3, <2>4 DEF Next, Acts, Terminating
<1>4. CASE CreateWrite(c)
  <2>1. PICK x \in Rounds : rounds[x] = None /\ SaveRound(x, entity[c])
    BY <1>4 DEF CreateWrite
  <2>2. rounds'[r] = rounds[r]
    BY <2>1, SavedRound
  <2> QED BY <2>2
<1>5. CASE OpenWrite(c)
  <2>1. SaveRound(RoundOf(c), entity[c]) /\ Writing(c, {"open"})
    BY <1>5 DEF OpenWrite
  <2>2. RoundOf(c) \in Rounds
    BY <2>1, Writer
  <2>3. RoundOf(c) = r
    BY <2>1, <2>2, SavedRound
  <2> QED BY <1>5, <2>3
<1>6. CASE CloseWrite(c)
  <2> DEFINE x == RoundOf(c)
  <2>1. SaveRound(x, Merged(c)) /\ Writing(c, {"close"})
    BY <1>6 DEF CloseWrite
  <2>2. /\ x \in Rounds /\ pc[c] = "write" /\ Handler(c) = "close" /\ ToClose(c)
    BY <2>1, Writer DEF EntityOK
  <2>3. x = r
    BY <2>1, <2>2, SavedRound
  <2>4. entity[c].status = "CLOSED"
    BY <2>2 DEF ToClose
  <2>5. Merged(c) = [f \in DOMAIN rounds[r] |->
                       IF f \in dirty[c] THEN entity[c][f] ELSE rounds[r][f]]
    BY <2>2, <2>3 DEF Merged, Stored
  <2>6. rounds[r] \in Round
    BY DEF IInv, Tables
  <2>7. rounds'[r] = Merged(c)
    BY <2>1, <2>3, SavedRound
  <2>8. "status" \in DOMAIN rounds[r]
    BY <2>6 DEF Round
  <2>9. rounds'[r].status \in {"CLOSED", "UPCOMING"}
    BY <2>4, <2>5, <2>7, <2>8
  <2> QED BY <2>9
<1>7. CASE GenerateWrite(c) \/ SettleWrite(c)
  <2>1. \E q : SaveRound(RoundOf(c), q)
    BY <1>7 DEF GenerateWrite, SettleWrite
  <2>2. Writing(c, {"generate", "finalize", "publish"})
    BY <1>7 DEF GenerateWrite, SettleWrite, Writing
  <2>3. /\ RoundOf(c) \in Rounds /\ Ready(c, rounds[RoundOf(c)])
        /\ Handler(c) \in {"generate", "finalize", "publish"}
    BY <2>2, Writer, Settling DEF Steps
  <2>4. rounds[RoundOf(c)].status = "CLOSED"
    BY <2>3 DEF Ready
  <2>5. RoundOf(c) = r
    BY <2>1, <2>3, SavedRound
  <2> QED BY <2>4, <2>5
<1>8. CASE ConfigWrite(c) \/ ScheduleWrite(c) \/ CancelWrite(c) \/ BetWrite(c)
  BY <1>1, <1>2, <1>8 DEF ConfigWrite, ScheduleWrite, CancelWrite, BetWrite, Rollback
<1> QED BY <1>3, <1>4, <1>5, <1>6, <1>7, <1>8 DEF Write

\* If no two calls cancel the same round's schedule, a round that opens with a
\* joker and an active schedule has the multiplier of that schedule: none that is
\* made, or made again with another multiplier, during the opening is missed.
THEOREM JokersPlay == ASSUME OneCanceller PROVE Spec => ScheduledJokerPlays
<1> DEFINE Fine == \A r \in Rounds :
             /\ rounds[r] # None /\ rounds[r].status = "UPCOMING"
             /\ rounds'[r].status = "OPEN" /\ rounds'[r].joker
             /\ schedules[r] # None /\ schedules[r].active
             => rounds'[r].multiplier = schedules[r].multiplier
<1>1. IInv /\ JokerInv /\ [Next]_vars => [Fine]_vars
  <2> SUFFICES ASSUME IInv, JokerInv, [Next]_vars, NEW r \in Rounds,
                      rounds[r] # None, rounds[r].status = "UPCOMING",
                      rounds'[r].status = "OPEN", rounds'[r].joker,
                      schedules[r] # None, schedules[r].active
               PROVE  rounds'[r].multiplier = schedules[r].multiplier
    OBVIOUS
  <2>1. PICK c \in Clients : OpenWrite(c) /\ RoundOf(c) = r
    BY OpensRound
  <2>2. SaveRound(r, entity[c]) /\ Writing(c, {"open"})
    BY <2>1 DEF OpenWrite
  <2>3. Running(c) /\ pc[c] = "write" /\ Handler(c) = "open"
    BY <2>2, Writer
  <2>4. rounds'[r] = entity[c]
    BY <2>2, SavedRound
  <2> QED BY <2>1, <2>3, <2>4 DEF JokerInv, OpenHand
<1> QED BY <1>1, Invariant, JokerInvariant, PTL DEF Spec, ScheduledJokerPlays

-----------------------------------------------------------------------------
(* The arithmetic and the sums of the game's contract are those of the     *)
(* handlers.                                                               *)

LEMMA GameSums == \A f : Game!SumFunction(f) = SumFunction(f)
BY DEF SumFunction, SumFunctionOnSet, FoldFunctionOnSet, MapThenFoldSet,
   Game!SumFunction, Game!SumFunctionOnSet, Game!FoldFunctionOnSet, Game!MapThenFoldSet

LEMMA GamePools ==
  \A total, percent, multiplier :
    Game!Pools(total, percent, multiplier) = Pools(total, percent, multiplier)
BY DEF Pools, Allocations, Whole, Game!Pools, Game!Allocations, Game!Whole

LEMMA GamePayouts ==
  \A pool, given : Game!Payouts(pool, given) = Payouts(pool, given)
<1>1. \A pool, given : /\ Game!FloorShares(pool, given) = FloorShares(pool, given)
                       /\ Game!Remainders(pool, given) = Remainders(pool, given)
  BY GameSums DEF FloorShares, Remainders, Game!FloorShares, Game!Remainders
<1>2. \A S : Game!Cardinality(S) = Cardinality(S)
  BY DEF Cardinality, Game!Cardinality
<1> QED BY <1>1, <1>2, GameSums DEF Payouts, Game!Payouts

LEMMA GameStakes ==
  ASSUME NEW p, NEW r, NEW n
  PROVE  /\ Game!Staked(p, Game!On(p, r)) = Stake(bets, p, r)
         /\ Game!Staked(p, Game!OnNumber(p, r, n)) = StakeOn(bets, p, r, n)
<1>1. Game!On(p, r) = {j \in Keys : bets[p][j] # None /\ bets[p][j].round = r}
  BY DEF Game!On
<1>2. Game!OnNumber(p, r, n) = {j \in Keys : /\ bets[p][j] # None
                                             /\ bets[p][j].round = r
                                             /\ bets[p][j].number = n}
  BY DEF Game!On, Game!OnNumber
<1>3. \A S : Game!Staked(p, S) = SumFunction([k \in S |-> bets[p][k].amount])
  BY GameSums DEF Game!Staked
<1> QED BY <1>1, <1>2, <1>3 DEF Stake, StakeOn

\* what a player sees of the rounds
Board == [r \in Rounds |-> ShownRound(rounds[r])]

\* the splits of the contract are those of what a payout sums
LEMMA GameSplits ==
  ASSUME NEW r \in Rounds, NEW n
  PROVE  LET sum == Summed(bets, r, n) IN
         Game!Splits(r, n) =
           IF DOMAIN sum.winners = {} THEN {sum.winners}
           ELSE UNION {Payouts(pool, sum.winners) :
                         pool \in Pools(sum.total, Config0.winning, Board[r].factor)}
<1> DEFINE staked == [p \in Players |-> Stake(bets, p, r)]
           winners == {p \in Players : StakeOn(bets, p, r, n) > 0}
           on == [p \in winners |-> StakeOn(bets, p, r, n)]
           sum == Summed(bets, r, n)
<1>1. /\ [p \in Players |-> Game!Staked(p, Game!On(p, r))] = staked
      /\ {p \in Players : Game!Staked(p, Game!OnNumber(p, r, n)) > 0} = winners
      /\ [p \in winners |-> Game!Staked(p, Game!OnNumber(p, r, n))] = on
  BY GameStakes
<1>2. sum.total = SumFunction(staked) /\ sum.winners = on /\ DOMAIN on = winners
  BY DEF Summed
<1> HIDE DEF staked, winners, on, sum
<1>3. Game!Splits(r, n) =
        IF winners = {} THEN {on}
        ELSE UNION {Game!Payouts(pool, on) :
               pool \in Game!Pools(Game!SumFunction(staked), Config0.winning, Board[r].factor)}
  BY <1>1 DEF Game!Splits, Board
<1>4. Game!Splits(r, n) =
        IF winners = {} THEN {on}
        ELSE UNION {Payouts(pool, on) :
               pool \in Pools(SumFunction(staked), Config0.winning, Board[r].factor)}
  BY <1>3, GameSums, GamePools, GamePayouts
<1> QED BY <1>2, <1>4 DEF sum

-----------------------------------------------------------------------------
(* What the players see of the rounds.                                     *)

LEMMA Shows ==
  ASSUME NEW q \in Round
  PROVE  /\ ShownRound(q) \in RoundView /\ ShownRound(q) # None
         /\ ShownRound(q) = [status |-> q.status, number |-> q.number,
              factor |-> IF q.status = "UPCOMING" THEN None ELSE Factor(q)]
         /\ Factor(q) \in Nat \ {0}
<1>1. q # None /\ Factor(q) \in Nat \ {0}
  BY NoneAssumption DEF Round, Factor
<1>2. /\ ShownRound(q) = [status |-> q.status, number |-> q.number,
           factor |-> IF q.status = "UPCOMING" THEN None ELSE Factor(q)]
  BY <1>1 DEF ShownRound
<1>3. q.status \in Statuses /\ q.number \in Numbers \cup {None}
  BY DEF Round
<1>4. ShownRound(q) \in RoundView
  BY <1>1, <1>2, <1>3 DEF RoundView
<1> QED BY <1>1, <1>2, <1>4, NoneAssumption

LEMMA Boards ==
  ASSUME IInv, NEW r \in Rounds
  PROVE  /\ Board[r] = ShownRound(rounds[r])
         /\ rounds[r] = None <=> Board[r] = None
         /\ rounds[r] # None =>
              /\ rounds[r] \in Round
              /\ Board[r].status = rounds[r].status
              /\ Board[r].number = rounds[r].number
              /\ rounds[r].status # "UPCOMING" => Board[r].factor = Factor(rounds[r])
              /\ rounds[r].status = "UPCOMING" => Board[r].factor = None
<1>1. Board[r] = ShownRound(rounds[r])
  BY DEF Board
<1>2. rounds[r] \in Round \cup {None}
  BY DEF IInv, Tables
<1>3. CASE rounds[r] = None
  BY <1>1, <1>3 DEF ShownRound
<1>4. CASE rounds[r] # None
  <2> DEFINE q == rounds[r]
  <2>1. q \in Round
    BY <1>2, <1>4
  <2> HIDE DEF q
  <2>2. /\ ShownRound(q) # None
        /\ ShownRound(q) = [status |-> q.status, number |-> q.number,
              factor |-> IF q.status = "UPCOMING" THEN None ELSE Factor(q)]
    BY <2>1, Shows
  <2> QED BY <1>1, <1>4, <2>1, <2>2 DEF q
<1> QED BY <1>3, <1>4

LEMMA BoardSaved ==
  ASSUME IInv, NEW x \in Rounds, NEW q, SaveRound(x, q)
  PROVE  Board' = [Board EXCEPT ![x] = ShownRound(q)]
<1>1. rounds'[x] = q /\ \A r \in Rounds \ {x} : rounds'[r] = rounds[r]
  BY SavedRound
<1>2. \A r \in Rounds : ShownRound(rounds[r])' = ShownRound(rounds'[r])
  BY DEF ShownRound, Factor
<1>3. \A r \in Rounds : Board'[r] = IF r = x THEN ShownRound(q) ELSE ShownRound(rounds[r])
  BY <1>1, <1>2 DEF Board
<1>4. Board = [r \in Rounds |-> Board[r]] /\ Board' = [r \in Rounds |-> Board'[r]]
      /\ \A r \in Rounds : Board[r] = ShownRound(rounds[r])
  BY DEF Board
<1> HIDE DEF Board
<1> QED BY <1>3, <1>4

-----------------------------------------------------------------------------
(* Each commit is one operation of the game.                               *)

LEMMA CreateInGame ==
  ASSUME IInv, NEW c \in Clients, CreateWrite(c)
  PROVE  \E r \in Rounds : Game!Create(r)
<1> DEFINE q == entity[c]
<1>1. Writing(c, {"create"}) /\ UNCHANGED <<bets, accounts>>
  BY DEF CreateWrite
<1>2. PICK r \in Rounds : /\ rounds[r] = None
                          /\ \A s \in Rounds : s < r => rounds[s] # None
                          /\ SaveRound(r, q)
  BY DEF CreateWrite
<1>3. ToCreate(c) /\ pc[c] = "write"
  BY <1>1, Writer DEF EntityOK
<1>4. q \in Round /\ q.status = "UPCOMING" /\ q.number = None
  BY <1>3 DEF ToCreate
<1> HIDE DEF q
<1>5. ShownRound(q) = [status |-> "UPCOMING", factor |-> None, number |-> None]
  BY <1>4, Shows
<1>6. Board' = [Board EXCEPT ![r] = [status |-> "UPCOMING", factor |-> None, number |-> None]]
  BY <1>2, <1>5, BoardSaved
<1>7. Board[r] = None /\ \A s \in Rounds : s < r => Board[s] # None
  BY <1>2, Boards
<1> QED BY <1>1, <1>6, <1>7 DEF Game!Create, Board

LEMMA OpenInGame ==
  ASSUME IInv, NEW c \in Clients, OpenWrite(c)
  PROVE  Game!Open(RoundOf(c))
<1> DEFINE r == RoundOf(c)
           q == entity[c]
<1>1. /\ Writing(c, {"open"}) /\ SaveRound(r, q) /\ UNCHANGED <<bets, accounts>>
  BY DEF OpenWrite
<1>2. /\ r \in Rounds /\ pc[c] = "write" /\ Handler(c) = "open"
      /\ ToOpen(c) /\ RoundHeld(c) /\ Running(c)
  BY <1>1, Writer DEF EntityOK
<1>3. rounds[r] # None /\ rounds[r].status = "UPCOMING"
  BY <1>2 DEF RoundHeld, PastLock, Lockers, Ready
<1>4. rounds[r] \in Round
  BY <1>2, <1>3 DEF IInv, Tables
<1>5. /\ q.joker \in BOOLEAN /\ q.multiplier \in Nat \ {0}
      /\ q = [rounds[r] EXCEPT !.status = "OPEN", !.joker = q.joker,
                               !.multiplier = q.multiplier]
  BY <1>2 DEF ToOpen
<1> HIDE DEF r, q
<1>6. q \in Round /\ q.status = "OPEN" /\ q.number = rounds[r].number
  BY <1>4, <1>5 DEF Round, Statuses
<1>7. /\ Factor(q) \in Nat \ {0}
      /\ ShownRound(q) = [status |-> "OPEN", number |-> rounds[r].number, factor |-> Factor(q)]
  BY <1>6, Shows
<1>8. /\ Board[r] = [status |-> "UPCOMING", number |-> rounds[r].number, factor |-> None]
      /\ Board[r] # None
  BY <1>2, <1>3, <1>4, Boards, Shows
<1>9. Board' = [Board EXCEPT ![r] = ShownRound(q)]
  BY <1>1, <1>2, BoardSaved
<1>10. ShownRound(q) = [Board[r] EXCEPT !.status = "OPEN", !.factor = Factor(q)]
  <2> DEFINE was == Board[r]
             f == Factor(q)
             n == rounds[r].number
  <2>1. was = [status |-> "UPCOMING", number |-> n, factor |-> None]
    BY <1>8
  <2> HIDE DEF was, f, n
  <2>2. [was EXCEPT !.status = "OPEN", !.factor = f]
          = [status |-> "OPEN", number |-> n, factor |-> f]
    <3> DEFINE once == [was EXCEPT !.status = "OPEN"]
    <3>1. once = [status |-> "OPEN", number |-> n, factor |-> None]
      BY <2>1
    <3>2. [was EXCEPT !.status = "OPEN", !.factor = f] = [once EXCEPT !.factor = f]
      OBVIOUS
    <3> HIDE DEF once
    <3>3. [once EXCEPT !.factor = f] = [status |-> "OPEN", number |-> n, factor |-> f]
      BY <3>1
    <3> QED BY <3>2, <3>3
  <2> QED BY <1>7, <2>2 DEF was, f, n
<1>11. Board'[r].factor = Factor(q)
  BY <1>2, <1>7, <1>9 DEF Board
<1>12. Board' = [Board EXCEPT ![r] = [@ EXCEPT !.status = "OPEN", !.factor = Board'[r].factor]]
  BY <1>9, <1>10, <1>11
<1>13. Game!Open(r)
  BY <1>1, <1>7, <1>8, <1>11, <1>12 DEF Game!Open, Game!In, Board
<1> QED BY <1>13 DEF r

\* a close that saves no status leaves the round as it was
LEMMA CloseInGame ==
  ASSUME IInv, NEW c \in Clients, StillOpen(c), CloseWrite(c)
  PROVE  Game!Close(RoundOf(c)) \/ UNCHANGED <<Board, bets, accounts>>
<1> DEFINE r == RoundOf(c)
           q == rounds[r]
<1>1. Writing(c, {"close"}) /\ SaveRound(r, Merged(c)) /\ UNCHANGED <<bets, accounts>>
  BY DEF CloseWrite
<1>2. /\ r \in Rounds /\ pc[c] = "write" /\ Handler(c) = "close"
      /\ ToClose(c) /\ Running(c)
  BY <1>1, Writer DEF EntityOK
<1>3. q # None /\ q \in Round /\ q.status = "OPEN" /\ entity[c] = [q EXCEPT !.status = "CLOSED"]
  BY <1>2 DEF ToClose, StillOpen, IInv, Tables
<1>4. Merged(c) = [f \in DOMAIN q |-> IF f \in dirty[c] THEN entity[c][f] ELSE q[f]]
  BY <1>2 DEF Merged, Stored
<1>5. Board[r] = ShownRound(q)
  BY <1>2 DEF Board
<1> HIDE DEF r, q
<1> DEFINE s == IF "status" \in dirty[c] THEN "CLOSED" ELSE "OPEN"
           e == [q EXCEPT !.status = s]
<1>6. Merged(c) = e
  BY <1>3, <1>4 DEF Round
<1>7. e \in Round /\ e.status = s /\ e.number = q.number /\ Factor(e) = Factor(q)
  BY <1>3 DEF Round, Statuses, Factor
<1> HIDE DEF e
<1>8. /\ ShownRound(e) = [status |-> s, number |-> q.number, factor |-> Factor(q)]
      /\ ShownRound(q) = [status |-> "OPEN", number |-> q.number, factor |-> Factor(q)]
      /\ ShownRound(q) # None
  BY <1>3, <1>7, Shows
<1>9. Board' = [Board EXCEPT ![r] = ShownRound(e)]
  BY <1>1, <1>2, <1>6, BoardSaved
<1>10. CASE s = "OPEN"
  <2>1. ShownRound(e) = Board[r]
    BY <1>5, <1>8, <1>10
  <2>2. Board = [x \in Rounds |-> Board[x]]
    BY DEF Board
  <2>3. Board' = Board
    BY <1>9, <2>1, <2>2
  <2> QED BY <1>1, <2>3
<1>11. CASE s = "CLOSED"
  <2>1. ShownRound(e) = [Board[r] EXCEPT !.status = "CLOSED"]
    BY <1>5, <1>8, <1>11
  <2>2. Board' = [Board EXCEPT ![r].status = "CLOSED"]
    BY <1>9, <2>1
  <2>3. Board[r] # None /\ Board[r].status = "OPEN"
    BY <1>5, <1>8
  <2>4. Game!Close(r)
    BY <1>1, <2>2, <2>3 DEF Game!Close, Game!In, Board
  <2> QED BY <2>4 DEF r
<1> QED BY <1>10, <1>11

LEMMA DrawInGame ==
  ASSUME IInv, NEW c \in Clients, GenerateWrite(c)
  PROVE  RoundOf(c) \in Rounds /\ \E n \in Numbers : Game!Draw(RoundOf(c), n)
<1> DEFINE r == RoundOf(c)
           n == entity[c].number
           q == rounds[r]
           e == entity[c]
<1>1. Writing(c, {"generate"}) /\ SaveRound(r, e) /\ UNCHANGED <<bets, accounts>>
  BY DEF GenerateWrite
<1>2. Handler(c) = "generate" /\ pc[c] \in Steps \ {"lockRound"}
  BY <1>1, Writer DEF Steps
<1>3. r \in Rounds /\ q \in Round /\ Ready(c, q) /\ n \in Numbers /\ e = [q EXCEPT !.number = n]
  BY <1>2, Settling
<1>4. q.status = "CLOSED" /\ q.number = None
  BY <1>2, <1>3 DEF Ready
<1>5. Board[r] = ShownRound(q)
  BY <1>3 DEF Board
<1> HIDE DEF n, q, e, r
<1>6. e \in Round /\ e.status = "CLOSED" /\ e.number = n /\ Factor(e) = Factor(q)
  BY <1>3, <1>4 DEF Round, Factor
<1>7. /\ ShownRound(e) = [status |-> "CLOSED", number |-> n, factor |-> Factor(q)]
      /\ ShownRound(q) = [status |-> "CLOSED", number |-> None, factor |-> Factor(q)]
      /\ ShownRound(q) # None
  BY <1>3, <1>4, <1>6, Shows
<1>8. ShownRound(e) = [Board[r] EXCEPT !.number = n]
  BY <1>5, <1>7
<1>9. Board' = [Board EXCEPT ![r].number = n]
  BY <1>1, <1>3, <1>8, BoardSaved
<1>10. Board[r] # None /\ Board[r].status = "CLOSED" /\ Board[r].number = None
  BY <1>5, <1>7
<1>11. Game!Draw(r, n)
  BY <1>1, <1>9, <1>10 DEF Game!Draw, Game!In, Board
<1> QED BY <1>3, <1>11 DEF r

LEMMA BetInGame ==
  ASSUME IInv, NEW c \in Clients, BetWrite(c)
  PROVE  \/ UNCHANGED <<Board, bets, accounts>>
         \/ \E p \in Players, k \in Keys, r \in Rounds, n \in Numbers :
            \E amount \in 1..accounts[p].main : Game!PlaceBet(p, k, r, n, amount)
<1> DEFINE p == call[c].player
           k == call[c].key
           r == call[c].round
           n == call[c].number
           amount == call[c].amount
           wallet == held[c][p]
<1>1. CASE Rollback(c)
  <2>1. UNCHANGED <<rounds, bets, accounts>>
    BY <1>1 DEF Rollback, db
  <2> QED BY <2>1 DEF Board, ShownRound, Factor
<1>2. CASE ~Rollback(c)
  <2>1. /\ Writing(c, {"bet"}) /\ Unused(p, k)
        /\ accounts' = [accounts EXCEPT ![p] =
             [main |-> wallet.main - wallet.cents, temp |-> wallet.temp]]
        /\ bets' = [bets EXCEPT ![p][k] = [round |-> r, number |-> n, amount |-> amount]]
        /\ rounds' = rounds
    BY <1>2 DEF BetWrite
  <2>2. /\ Locals /\ Control(c) /\ Running(c) /\ RoundHeld(c) /\ MoneyOK(c) /\ HeldOK(c)
        /\ Handler(c) = "bet" /\ pc[c] = "write"
    BY <2>1, Writer
  <2>3. /\ p \in Players /\ k \in Keys /\ r \in Rounds /\ n \in Numbers /\ amount \in Nat \ {0}
    BY <2>2 DEF Control, IsCall, Admissible, Handler
  <2>4. rounds[r] # None /\ rounds[r].status = "OPEN"
    <3>1. PastLock(c)
      BY <2>2 DEF PastLock, Lockers
    <3> QED BY <2>2, <3>1 DEF RoundHeld, Ready, RoundOf
  <2>5. /\ wallet # None /\ wallet.cents = amount /\ wallet.temp = 0 /\ wallet.main >= amount
    BY <2>2 DEF MoneyOK, CanBet
  <2>6. wallet.main = accounts[p].main /\ wallet.temp = accounts[p].temp
    <3> HIDE DEF p
    <3> QED BY <2>2, <2>3, <2>5 DEF HeldOK
  <2>7. bets[p][k] = None
    BY <2>1 DEF Unused
  <2>8. accounts[p] \in Account /\ accounts \in [Players -> Account]
    BY <2>3, RowsTyped
  <2> HIDE DEF p, k, r, n, amount, wallet
  <2>9. [main |-> wallet.main - wallet.cents, temp |-> wallet.temp]
          = [accounts[p] EXCEPT !.main = @ - amount]
    BY <2>5, <2>6, <2>8 DEF Account
  <2>10. accounts' = [accounts EXCEPT ![p].main = @ - amount]
    BY <2>1, <2>9
  <2>11. amount \in 1..accounts[p].main
    BY <2>3, <2>5, <2>6, <2>8 DEF Account
  <2>12. Board' = Board
    BY <2>1 DEF Board, ShownRound, Factor
  <2>13. Board[r] # None /\ Board[r].status = "OPEN"
    BY <2>3, <2>4, Boards
  <2>14. Game!PlaceBet(p, k, r, n, amount)
    BY <2>1, <2>5, <2>6, <2>7, <2>10, <2>12, <2>13 DEF Game!PlaceBet, Game!In, Board
  <2> QED BY <2>3, <2>11, <2>14
<1> QED BY <1>1, <1>2

LEMMA TransferInGame ==
  ASSUME NEW p \in Players, Transfer(p)
  PROVE  Game!Transfer(p)
<1>1. UNCHANGED <<rounds, bets>>
  BY DEF Transfer
<1>2. Board' = Board
  BY <1>1 DEF Board, ShownRound, Factor
<1> QED BY <1>1, <1>2 DEF Transfer, Game!Transfer, Board

\* what a payout of drawn or submitted number n credits, all at once
LEMMA SettleInGame ==
  ASSUME IInv, NEW c \in Clients, config.winning = Config0.winning,
         StakesHand(c), PayHand(c), LimitHand(c), SettleWrite(c)
  PROVE  RoundOf(c) \in Rounds /\ \E n \in Numbers : Game!Settle(RoundOf(c), n)
<1> DEFINE r == RoundOf(c)
           n == entity[c].number
           q == rounds[r]
           e == [entity[c] EXCEPT !.status = "COMPLETED", !.finalized = TRUE]
           sum == stakes[c]
           paid == Paid(c)
<1>1. /\ Writing(c, {"finalize", "publish"}) /\ SaveRound(r, e)
      /\ accounts' = [p \in Players |->
           IF p \in paid THEN [main |-> held[c][p].main,
                               temp |-> held[c][p].temp + held[c][p].cents]
                         ELSE accounts[p]]
      /\ UNCHANGED bets
  BY DEF SettleWrite, Paid
<1>2. /\ Handler(c) \in {"finalize", "publish"} /\ pc[c] \in Steps \ {"lockRound"}
      /\ Paying(c) /\ pc[c] = "write" /\ Locals /\ HeldOK(c) /\ EntityOK(c) /\ Running(c)
  BY <1>1, Writer DEF Steps, Paying
<1>3. r \in Rounds /\ q \in Round /\ Ready(c, q) /\ n \in Numbers
      /\ entity[c] = [q EXCEPT !.number = n]
  BY <1>2, Settling
<1>4. q.status = "CLOSED" /\ q.number \in {n, None}
  <2>1. Handler(c) = "finalize" => q.number = n
    BY <1>2 DEF EntityOK, ToSettle
  <2> QED BY <1>2, <1>3, <2>1 DEF Ready
<1>5. /\ sum = Summed(bets, r, n)
      /\ IF DOMAIN sum.winners = {} THEN held[c] = NoWallets
         ELSE \E pool \in Pools(sum.total, config.winning, Factor(entity[c])) :
              \E pay \in Payouts(pool, sum.winners) : Handed(c, pay)
  BY <1>2 DEF StakesHand, PayHand
<1>6. \A p \in paid : /\ p \in Players /\ held[c][p] \in Copy
                      /\ held[c][p].main = accounts[p].main
                      /\ held[c][p].temp = accounts[p].temp
                      /\ held[c][p].temp + held[c][p].cents <= Limit
  BY <1>2 DEF Paid, HeldOK, Locals, LimitHand
<1>7. Factor(entity[c]) = Factor(q)
  <2> HIDE DEF n
  <2> QED BY <1>3 DEF Factor, Round
<1>8. /\ Board[r] = [status |-> "CLOSED", number |-> q.number, factor |-> Factor(q)]
      /\ Board[r] # None
  BY <1>3, <1>4, Shows DEF Board
<1>9. \E pay \in Game!Splits(r, n) :
        /\ DOMAIN pay \subseteq Players
        /\ \A p \in DOMAIN pay : pay[p] \in Nat
        /\ paid = {p \in DOMAIN pay : pay[p] > 0}
        /\ \A p \in paid : held[c][p].cents = pay[p]
  <2>1. Game!Splits(r, n) =
          IF DOMAIN sum.winners = {} THEN {sum.winners}
          ELSE UNION {Payouts(pool, sum.winners) :
                        pool \in Pools(sum.total, Config0.winning, Factor(q))}
    <3>1. Board[r].factor = Factor(q)
      BY <1>8
    <3> HIDE DEF n, r, q
    <3> QED BY <1>3, <1>5, <3>1, GameSplits DEF r
  <2>2. CASE DOMAIN sum.winners = {}
    <3>1. paid = {}
      BY <1>5, <2>2 DEF Paid, NoWallets
    <3> QED BY <2>1, <2>2, <3>1
  <2>3. CASE DOMAIN sum.winners # {}
    <3>1. PICK pool \in Pools(sum.total, Config0.winning, Factor(q)) :
            \E pay \in Payouts(pool, sum.winners) : Handed(c, pay)
      BY <1>5, <1>7, <2>3
    <3>2. PICK pay \in Payouts(pool, sum.winners) : Handed(c, pay)
      BY <3>1
    <3>3. pay \in Game!Splits(r, n)
      BY <2>1, <2>3, <3>1, <3>2
    <3>4. pay \in [DOMAIN sum.winners -> Nat] /\ DOMAIN pay \subseteq Players
      <4>1. bets \in [Players -> [Keys -> Bet \cup {None}]] /\ Config0.winning \in Nat
        BY DatabaseAssumption DEF IInv, Tables, Config
      <4>2. pool \in Pools(Summed(bets, r, n).total, Config0.winning, Factor(q))
        BY <1>5, <3>1
      <4>3. DOMAIN Summed(bets, r, n).winners # {} /\ pay \in Payouts(pool, Summed(bets, r, n).winners)
        BY <1>5, <2>3, <3>2
      <4> HIDE DEF r, n, q, sum
      <4>4. pay \in [DOMAIN Summed(bets, r, n).winners -> Nat] /\ DOMAIN pay \subseteq Players
        BY <1>3, <4>1, <4>2, <4>3, PayType
      <4> QED BY <1>5, <4>4
    <3>5. owed[c] = << >> /\ \A p \in DOMAIN pay : pay[p] > 0 => held[c][p] # None
      <4>1. owed[c] = << >>
        BY <1>2, <3>2 DEF Handed
      <4>2. DOMAIN owed[c] = {}
        BY <4>1
      <4> QED BY <3>2, <4>1, <4>2 DEF Handed
    <3>6. \A p \in paid : p \in DOMAIN pay /\ held[c][p].cents = pay[p] /\ pay[p] > 0
      BY <1>6, <3>2 DEF Handed, Paid, Copy
    <3>7. paid = {p \in DOMAIN pay : pay[p] > 0}
      BY <3>4, <3>5, <3>6 DEF Paid
    <3> QED BY <3>3, <3>4, <3>6, <3>7
  <2> QED BY <2>2, <2>3
<1> HIDE DEF r, n, q, sum, paid
<1>10. PICK pay \in Game!Splits(r, n) :
         /\ DOMAIN pay \subseteq Players
         /\ \A p \in DOMAIN pay : pay[p] \in Nat
         /\ paid = {p \in DOMAIN pay : pay[p] > 0}
         /\ \A p \in paid : held[c][p].cents = pay[p]
  BY <1>9
<1>11. \A p \in DOMAIN pay : pay[p] > 0 => accounts[p].temp + pay[p] <= Limit
  BY <1>6, <1>10
<1>12. accounts' = [p \in Players |->
         IF p \in DOMAIN pay THEN [accounts[p] EXCEPT !.temp = @ + pay[p]] ELSE accounts[p]]
  <2>1. ASSUME NEW p \in paid
        PROVE  [main |-> held[c][p].main, temp |-> held[c][p].temp + held[c][p].cents]
                 = [accounts[p] EXCEPT !.temp = @ + pay[p]]
    <3>1. accounts[p] \in Account
      BY <1>6, RowsTyped
    <3> QED BY <1>6, <1>10, <3>1 DEF Account
  <2>2. ASSUME NEW p \in DOMAIN pay \ paid
        PROVE  [accounts[p] EXCEPT !.temp = @ + pay[p]] = accounts[p]
    <3>1. accounts[p] \in Account /\ pay[p] = 0
      BY <1>10, RowsTyped
    <3> QED BY <3>1 DEF Account
  <2> QED BY <1>1, <1>10, <2>1, <2>2
<1>13. Board' = [Board EXCEPT ![r] = [@ EXCEPT !.status = "COMPLETED", !.number = n]]
  <2>1. e \in Round /\ e.status = "COMPLETED" /\ e.number = n /\ Factor(e) = Factor(q)
    BY <1>3 DEF Round, Statuses, Factor
  <2> HIDE DEF e
  <2>2. ShownRound(e) = [status |-> "COMPLETED", number |-> n, factor |-> Factor(q)]
    BY <2>1, Shows
  <2> DEFINE was == Board[r]
             f == Factor(q)
             old == q.number
  <2>3. was = [status |-> "CLOSED", number |-> old, factor |-> f]
    BY <1>8
  <2>4. Board' = [Board EXCEPT ![r] = ShownRound(e)]
    BY <1>1, <1>3, BoardSaved
  <2> HIDE DEF was, f, old
  <2>5. [was EXCEPT !.status = "COMPLETED", !.number = n]
          = [status |-> "COMPLETED", number |-> n, factor |-> f]
    <3> DEFINE once == [was EXCEPT !.status = "COMPLETED"]
    <3>1. once = [status |-> "COMPLETED", number |-> old, factor |-> f]
      BY <2>3
    <3>2. [was EXCEPT !.status = "COMPLETED", !.number = n] = [once EXCEPT !.number = n]
      OBVIOUS
    <3> HIDE DEF once
    <3>3. [once EXCEPT !.number = n] = [status |-> "COMPLETED", number |-> n, factor |-> f]
      BY <3>1
    <3> QED BY <3>2, <3>3
  <2> QED BY <2>2, <2>4, <2>5 DEF was, f
<1>14. Game!Settle(r, n)
  <2>1. Board[r] # None /\ Board[r].status = "CLOSED" /\ Board[r].number \in {n, None}
    BY <1>4, <1>8
  <2> QED BY <1>1, <1>10, <1>11, <1>12, <1>13, <2>1 DEF Game!Settle, Game!In, Board
<1> QED BY <1>3, <1>14 DEF r

-----------------------------------------------------------------------------
(* The winnings in hand fit.                                               *)

LEMMA LimitHandOK ==
  ASSUME IInv, [Next]_vars, NEW c \in Clients, EmptyHands(c), LimitHand(c)
  PROVE  LimitHand(c)'
<1>. Locals
  BY DEF IInv
<1>1. ASSUME held'[c] = NoWallets PROVE LimitHand(c)'
  BY <1>1 DEF LimitHand, NoWallets
<1>2. CASE Idle(c)
  BY <1>2 DEF Idle, LimitHand, Paying, Running, Handler
<1>3. CASE Start(c)
  <2>1. CASE Rollback(c)
    BY <1>1, <2>1, RollbackFrames
  <2>2. CASE held' = held
    <3>1. pc[c] = "start"
      BY <1>3 DEF Start
    <3> QED BY <1>1, <2>2, <3>1 DEF EmptyHands
  <2> QED BY <1>3, <2>1, <2>2 DEF Start
<1>4. CASE Read(c)
  <2>1. pc[c] \in Steps \ {"write"} /\ Running(c) /\ Control(c)
    BY <1>4, ReadContinues, Reading
  <2>2. CASE Rollback(c) \/ End(c, "done")
    BY <1>1, <2>2, RollbackFrames, EndFrames DEF Ended
  <2>3. CASE LockWinner(c) /\ ~Rollback(c)
    <3> DEFINE w == Head(owed[c])
    <3>1. /\ pc[c] = "lockWinner" /\ TakeWallet(c, w.player, w.cents)
          /\ accounts[w.player].temp + w.cents <= Limit
          /\ call' = call
      BY <2>3 DEF LockWinner
    <3>2. owed[c] \in Seq(Share) /\ owed[c] # << >>
      BY <2>1, <3>1, Reading DEF Locals, MoneyOK
    <3>3. w.player \in Players
      <4>1. w \in Share
        BY <3>2
      <4> QED BY <4>1 DEF Share
    <3> HIDE DEF w
    <3>4. /\ held'[c][w.player].temp = accounts[w.player].temp
          /\ held'[c][w.player].cents = w.cents
          /\ \A p \in Players \ {w.player} : held'[c][p] = held[c][p]
      BY <3>1, <3>3 DEF TakeWallet, Locals
    <3>5. Paying(c)' => Paying(c)
      BY <2>1, <3>1 DEF Paying, Handler
    <3> QED BY <3>1, <3>4, <3>5 DEF LimitHand
  <2>4. CASE LockWallet(c) /\ ~Rollback(c)
    <3>1. pc[c] = "lockWallet" /\ call' = call
      BY <2>4 DEF LockWallet
    <3>2. ~Paying(c)'
      BY <2>1, <3>1 DEF Paying, Control, StepsOf, Handler
    <3> QED BY <3>2 DEF LimitHand
  <2>5. CASE ~LockWinner(c) /\ ~LockWallet(c) /\ ~Rollback(c) /\ ~End(c, "done")
    <3>1. held' = held /\ call' = call
      BY <1>4, <2>5 DEF Read, LockRound, ReadRound, ReadScheduleToOpen,
         ReadScheduleToMake, ReadScheduleToCancel, ReadConfigToChange, ReadConfigToCreate,
         ReadConfigToOpen, ReadConfigToBet, ReadConfigToPay, ReadBet, ReadBets, Select, locals
    <3> QED BY <2>1, <3>1 DEF LimitHand, Paying, Handler
  <2> QED BY <1>4, <2>2, <2>3, <2>4, <2>5
<1>5. CASE Write(c)
  BY <1>1, <1>5, WriteEnds
<1>6. CASE Crash(c) \/ DeadlockVictim(c)
  BY <1>1, <1>6, RollbackFrames DEF Crash, DeadlockVictim
<1> QED BY <1>2, <1>3, <1>4, <1>5, <1>6, OneMoves DEF Acts, Step

LEMMA LimitInvariant ==
  ASSUME OneCloser, SamePercentage PROVE Spec => [](\A c \in Clients : LimitHand(c))
<1> DEFINE Fit == \A c \in Clients : LimitHand(c)
<1>1. Init => Fit
  BY DEF Init, LimitHand, Paying, Running, Steps
<1>2. IInv /\ PayoutInv /\ Fit /\ [Next]_vars => Fit'
  BY LimitHandOK DEF PayoutInv
<1> QED BY <1>1, <1>2, Invariant, PayoutInvariant, PTL DEF Spec

-----------------------------------------------------------------------------
(* The handlers implement the game.                                        *)

LEMMA InitInGame == Init => Game!Init
<1> SUFFICES ASSUME Init PROVE Game!Init
  OBVIOUS
<1>1. ASSUME NEW r \in Rounds
      PROVE  \/ Rounds0[r] = None /\ ShownRound(Rounds0[r]) = None
             \/ /\ ShownRound(Rounds0[r]) \in Game!Round
                /\ ShownRound(Rounds0[r]).status # "COMPLETED"
  <2>1. CASE Rounds0[r] = None
    BY <2>1 DEF ShownRound
  <2>2. CASE Rounds0[r] # None
    <3> DEFINE q == Rounds0[r]
    <3>1. q \in Round /\ q.status # "COMPLETED"
      BY <2>2, DatabaseAssumption
    <3> HIDE DEF q
    <3>2. ShownRound(q) \in RoundView /\ ShownRound(q).status = q.status
      BY <3>1, Shows
    <3> QED BY <3>1, <3>2 DEF Game!Round, RoundView, Statuses, q
  <2> QED BY <2>1, <2>2
<1>2. Board = [r \in Rounds |-> ShownRound(Rounds0[r])]
  BY DEF Init, Board
<1>3. Board \in [Rounds -> Game!Round \cup {None}]
  BY <1>1, <1>2
<1>4. \A r \in Rounds : ~(Board[r] # None /\ Board[r].status = "COMPLETED")
  <2> SUFFICES ASSUME NEW r \in Rounds, Board[r] # None PROVE Board[r].status # "COMPLETED"
    OBVIOUS
  <2> QED BY <1>1, <1>2
<1>5. bets \in [Players -> [Keys -> Game!Bet \cup {None}]]
  BY DatabaseAssumption DEF Init, Bet, Game!Bet
<1>6. accounts \in [Players -> [main : Nat, temp : {0}]]
  <2>1. ASSUME NEW p \in Players
        PROVE  [main |-> Opening[p] - Spent(Bets0, p), temp |-> 0] \in [main : Nat, temp : {0}]
    <3>1. Opening[p] \in Nat /\ Spent(Bets0, p) \in Nat /\ Opening[p] >= Spent(Bets0, p)
      BY SpentType, DatabaseAssumption
    <3>2. Opening[p] - Spent(Bets0, p) \in Nat
      BY <3>1
    <3> QED BY <3>2
  <2>2. accounts = [p \in Players |-> [main |-> Opening[p] - Spent(Bets0, p), temp |-> 0]]
    BY DEF Init
  <2> QED BY <2>1, <2>2
<1> QED BY <1>3, <1>4, <1>5, <1>6 DEF Game!Init, Game!In, Board

LEMMA StepInGame ==
  ASSUME IInv, ResultInv, PayoutInv, \A c \in Clients : LimitHand(c), [Next]_vars
  PROVE  [Game!Next]_(Game!vars)
<1>1. ASSUME UNCHANGED <<Board, bets, accounts>> PROVE UNCHANGED Game!vars
  BY <1>1 DEF Game!vars, Board
<1>2. ASSUME UNCHANGED <<rounds, bets, accounts>> PROVE UNCHANGED Game!vars
  BY <1>1, <1>2 DEF Board, ShownRound, Factor
<1>3. ASSUME UNCHANGED db PROVE UNCHANGED Game!vars
  BY <1>2, <1>3 DEF db
<1>4. ASSUME NEW c \in Clients, Write(c) PROVE [Game!Next]_(Game!vars)
  <2>1. CASE Rollback(c)
    BY <1>3, <2>1 DEF Rollback
  <2>2. CASE (ConfigWrite(c) \/ ScheduleWrite(c) \/ CancelWrite(c)) /\ ~Rollback(c)
    BY <1>2, <2>2 DEF ConfigWrite, ScheduleWrite, CancelWrite
  <2>3. CASE CreateWrite(c)
    BY <2>3, CreateInGame DEF Game!Next
  <2>4. CASE OpenWrite(c)
    <3>1. Writing(c, {"open"})
      BY <2>4 DEF OpenWrite
    <3>2. RoundOf(c) \in Rounds
      BY <3>1, Writer
    <3> QED BY <2>4, <3>2, OpenInGame DEF Game!Next
  <2>5. CASE CloseWrite(c)
    <3>1. Writing(c, {"close"})
      BY <2>5 DEF CloseWrite
    <3>2. RoundOf(c) \in Rounds
      BY <3>1, Writer
    <3> QED BY <1>1, <2>5, <3>2, CloseInGame DEF Game!Next, ResultInv
  <2>6. CASE GenerateWrite(c)
    BY <2>6, DrawInGame DEF Game!Next
  <2>7. CASE SettleWrite(c)
    BY <2>7, SettleInGame DEF Game!Next, PayoutInv
  <2>8. CASE BetWrite(c)
    BY <1>1, <2>8, BetInGame DEF Game!Next
  <2> QED BY <1>4, <2>1, <2>2, <2>3, <2>4, <2>5, <2>6, <2>7, <2>8 DEF Write
<1>5. ASSUME NEW c \in Clients, Acts(c) PROVE [Game!Next]_(Game!vars)
  BY <1>3, <1>4, <1>5, ReadFrames, StartFrames DEF Acts, Step, Crash, DeadlockVictim, Rollback
<1>6. CASE UNCHANGED vars
  BY <1>3, <1>6 DEF vars
<1>7. ASSUME NEW x \in Rounds, Tick(x) PROVE [Game!Next]_(Game!vars)
  BY <1>2, <1>7 DEF Tick
<1>8. ASSUME NEW p \in Players, Transfer(p) PROVE [Game!Next]_(Game!vars)
  BY <1>8, TransferInGame DEF Game!Next
<1> QED BY <1>5, <1>6, <1>7, <1>8 DEF Next, Acts, Terminating

\* The handlers behave as the atomic operations of the game: bets, payouts,
\* transfers and the life of a round, whatever interleaves, fails or is chosen as
\* a deadlock victim.
THEOREM GameImplements ==
  ASSUME OneCloser, SamePercentage
  PROVE  Spec => ImplementsGame
<1>1. /\ IInv /\ ResultInv /\ PayoutInv /\ (\A c \in Clients : LimitHand(c)) /\ [Next]_vars
           => [Game!Next]_(Game!vars)
  BY StepInGame
<1> QED BY <1>1, InitInGame, Invariant, ResultInvariant, PayoutInvariant, LimitInvariant, PTL
        DEF Spec, ImplementsGame, Game!Spec

=============================================================================
