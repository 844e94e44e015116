---------------------------- MODULE MCFunTarget ----------------------------
(* Small instances of FunTarget for TLC: two players, two rounds and a few  *)
(* calls that race, on a database that already holds what they race for.    *)
EXTENDS FunTarget

CONSTANTS k1, k2, c1, c2, c3, c4, c5

MCOpening == [p \in Players |-> 3]
MCConfig == [mode |-> "MANUAL", minBet |-> 1, maxBet |-> 3, denominations |-> 1..3,
             joker |-> TRUE, multiplier |-> 2, frequency |-> 1,
             house |-> 5000, winning |-> 5000]

K(h, r) == [handler |-> h, round |-> r, player |-> None, key |-> None,
            number |-> None, amount |-> None, multiplier |-> None,
            body |-> None, change |-> << >>]
Create == K("create", None)
Open(r) == K("open", r)
Close(r) == K("close", r)
Generate(r, b) == [K("generate", r) EXCEPT !.body = b]
Finalize(r) == K("finalize", r)
Publish(r, b) == [K("publish", r) EXCEPT !.body = b]
Plan(r, m) == [K("schedule", r) EXCEPT !.multiplier = m]
Cancel(r) == K("cancel", r)
PlaceBet(p, k, r, n, a) == [K("bet", r) EXCEPT !.player = p, !.key = k,
                                                !.number = n, !.amount = a]
Configure(change) == [K("configure", None) EXCEPT !.change = change]
\* the DTO of a request body, and the percentages it must repeat
Dto(given) == [f \in DOMAIN MCConfig |->
  IF f \in DOMAIN given THEN given[f] ELSE Undefined]
Shares == [house |-> 5000, winning |-> 5000]
ThirdConfig == [MCConfig EXCEPT !.house = 6667, !.winning = 3333]

NewRound(status, mode) == [status |-> status, mode |-> mode, joker |-> FALSE,
                           multiplier |-> 1, number |-> None, finalized |-> FALSE]
NoBets == [p \in Players |-> [k \in Keys |-> None]]
BetOn(r, n, a) == [round |-> r, number |-> n, amount |-> a]

NoRounds == [r \in Rounds |-> None]
OpenRound == 1 :> NewRound("OPEN", "MANUAL") @@ 2 :> None
\* a round being bet on, one to pay, one to open and one to create
ManyRounds ==
  1 :> [NewRound("OPEN", "MANUAL") EXCEPT !.joker = TRUE, !.multiplier = 3] @@
  2 :> NewRound("CLOSED", "MANUAL") @@ 3 :> NewRound("UPCOMING", "MANUAL") @@ 4 :> None
JokerAndRandom ==
  1 :> [NewRound("OPEN", "MANUAL") EXCEPT !.joker = TRUE, !.multiplier = 3] @@
  2 :> [NewRound("CLOSED", "RANDOM") EXCEPT !.joker = TRUE, !.multiplier = 3] @@
  3 :> NewRound("UPCOMING", "MANUAL") @@ 4 :> None

BetOnEach ==
  1 :> (k1 :> None @@ k2 :> BetOn(2, 1, 2)) @@
  2 :> (k1 :> None @@ k2 :> BetOn(1, 1, 1))
BetsOnBoth ==
  1 :> (k1 :> BetOn(2, 1, 1) @@ k2 :> None) @@
  2 :> (k1 :> BetOn(2, 1, 2) @@ k2 :> BetOn(1, 1, 1))

\* a round created, scheduled and opened while the configuration changes
CallsOpen ==
  c1 :> {Open(3)} @@
  c2 :> {Plan(3, 3), Create} @@
  c3 :> {Plan(3, 1), Plan(3, 0), Cancel(3)} @@
  c4 :> {Configure(Dto([minBet |-> 3] @@ Shares)), Configure(Dto([minBet |-> 4])),
         Configure(Dto([joker |-> FALSE] @@ Shares)), Configure(Dto(Shares)),
         Configure(Dto([minBet |-> 0])), Configure(Dto([joker |-> FALSE]))} @@
  c5 :> {Configure(Dto([maxBet |-> 2] @@ Shares)), Open(4)}

\* bets sent twice, and bets on a round being closed, while another pays out
CallsBet ==
  c1 :> {PlaceBet(1, k1, 1, 1, 1)} @@
  c2 :> {PlaceBet(1, k1, 1, 1, 1), PlaceBet(1, k2, 1, 2, 1)} @@
  c3 :> {PlaceBet(2, k1, 1, 1, 3), PlaceBet(1, k1, 1, 2, 2), PlaceBet(2, k1, 1, 1, 4)} @@
  c4 :> {Close(1)} @@
  c5 :> {Publish(2, 1), Publish(2, 2)}

\* every way to settle a round, while it is still bet on, and two payouts that
\* lock the same two winners
CallsPayouts ==
  c1 :> {PlaceBet(1, k2, 1, 1, 2)} @@
  c2 :> {Publish(2, Undefined), Publish(1, 2)} @@
  c3 :> {Close(1)} @@
  c4 :> {Generate(1, 1), Publish(1, 1)} @@
  c5 :> {Finalize(1)}

\* or every way to change what is not settled yet, each once
CallsPrepare ==
  c1 :> {Plan(3, 3)} @@
  c2 :> {Open(3)} @@
  c3 :> {Cancel(3)} @@
  c4 :> {Configure(Dto([minBet |-> 2, house |-> 6667, winning |-> 3333]))} @@
  c5 :> {Create}
CallsSettle == [c \in Clients |-> CallsPayouts[c] \cup CallsPrepare[c]]

\* one set of calls or the other, told by the calls under way and by what those
\* that ended left in the tables (a constraint of the run)
OneCast ==
  \/ /\ \A c \in Clients : call[c] # None => call[c] \in CallsPayouts[c]
     /\ config = Config0 /\ rounds[4] = None
     /\ rounds[3] = Rounds0[3] /\ schedules[3] = None
  \/ /\ \A c \in Clients : call[c] # None => call[c] \in CallsPrepare[c]
     /\ bets = Bets0
     /\ \A r \in {1, 2} : rounds[r] = Rounds0[r]

\* a round closed twice
CallsDoubleClose ==
  c1 :> {PlaceBet(1, k1, 1, 1, 2)} @@
  c2 :> {Close(1)} @@
  c3 :> {Close(1)} @@
  c4 :> {Publish(1, 1)} @@
  c5 :> {Publish(1, 1)}

=============================================================================
