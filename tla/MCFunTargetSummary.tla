--------------------------- MODULE MCFunTargetSummary ---------------------------
(* Rounds scheduled and opened, bet on, and closed and paid while a summary *)
(* is taken, for TLC.                                                       *)
EXTENDS MCFunTarget, FunTargetSummary

\* a round is bet on, closed and paid while the winners' percentage changes: its
\* joker trebles a third of the bets, which is not quite all of them
CallsPay ==
  c1 :> {PlaceBet(1, k1, 1, 2, 1), PlaceBet(1, k1, 1, 1, 2)} @@
  c2 :> {Close(1)} @@
  c3 :> {Publish(1, 1), Generate(1, 1), Generate(1, 2), Publish(1, Empty)} @@
  c4 :> {Finalize(1)} @@
  c5 :> {Configure(Dto([house |-> 4000, winning |-> 6000]))}

Casts == [schedule |-> CallsOpen, bet |-> CallsBet, pay |-> CallsPay]
CallsPlay == [c \in Clients |-> UNION {Casts[t][c] : t \in DOMAIN Casts}]

VARIABLE cast  \* which of the sets of calls a behaviour draws from

\* the summary is that of the round that is paid
InCast ==
  /\ \A c \in Clients : call'[c] # None => call'[c] \in Casts[cast][c]
  /\ summary' # None => cast = "pay" /\ summary'.round = 1

PlayInit == SummaryInit /\ cast \in DOMAIN Casts
PlayNext == SummaryNext /\ InCast /\ UNCHANGED cast
PlaySpec == PlayInit /\ [][PlayNext]_<<watched, cast>>

=============================================================================
