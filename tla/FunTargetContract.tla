-------------------------- MODULE FunTargetContract --------------------------
(***************************************************************************)
(* What the game promises its players, with no rows, locks or              *)
(* transactions: a round lives once, from its creation to its result; a    *)
(* bet is taken with its debit while its round is open; and a round's      *)
(* winners are all paid in one step, their split of a pool computed from   *)
(* the bets there are at that moment.                                      *)
(***************************************************************************)
EXTENDS FunTargetPayout

CONSTANTS Players, Rounds, Keys, Numbers, Limit, None,
  Percent  \* what the winners get of the bets, in hundredths of a percent

Round == [status : {"UPCOMING", "OPEN", "CLOSED", "COMPLETED"},
          factor : (Nat \ {0}) \cup {None}, number : Numbers \cup {None}]
Bet == [round : Rounds, number : Numbers, amount : Nat \ {0}]

VARIABLES
  round,   \* each round: where it is, its number once it is drawn, and what
           \* the joker multiplies its pool by once it is open
  bet,     \* each player's bets, by their idempotency keys
  account  \* each player's balances

vars == <<round, bet, account>>

In(r, status) == round[r] # None /\ round[r].status = status

\* the first rounds are still to be settled
Init ==
  /\ round \in [Rounds -> Round \cup {None}]
  /\ \A r \in Rounds : ~In(r, "COMPLETED")
  /\ bet \in [Players -> [Keys -> Bet \cup {None}]]
  /\ account \in [Players -> [main : Nat, temp : {0}]]

\* createRound: numbers are given in their order
Create(r) ==
  /\ round[r] = None
  /\ \A s \in Rounds : s < r => round[s] # None
  /\ round' = [round EXCEPT ![r] = [status |-> "UPCOMING", factor |-> None, number |-> None]]
  /\ UNCHANGED <<bet, account>>

\* openRound: with or without a joker, whose multiplier is any
Open(r) ==
  LET factor == round'[r].factor IN
  /\ In(r, "UPCOMING")
  /\ factor \in Nat \ {0}
  /\ round' = [round EXCEPT ![r] = [@ EXCEPT !.status = "OPEN", !.factor = factor]]
  /\ UNCHANGED <<bet, account>>

Close(r) ==
  /\ In(r, "OPEN")
  /\ round' = [round EXCEPT ![r].status = "CLOSED"]
  /\ UNCHANGED <<bet, account>>

\* generateResult
Draw(r, n) ==
  /\ In(r, "CLOSED")
  /\ round[r].number = None
  /\ round' = [round EXCEPT ![r].number = n]
  /\ UNCHANGED <<bet, account>>

\* placeBet: once per key, and not while winnings wait to be transferred
PlaceBet(p, k, r, n, amount) ==
  /\ In(r, "OPEN")
  /\ bet[p][k] = None
  /\ account[p].temp = 0
  /\ bet' = [bet EXCEPT ![p][k] = [round |-> r, number |-> n, amount |-> amount]]
  /\ account' = [account EXCEPT ![p].main = @ - amount]
  /\ UNCHANGED round

On(p, r) == {k \in Keys : bet[p][k] # None /\ bet[p][k].round = r}
OnNumber(p, r, n) == {k \in On(p, r) : bet[p][k].number = n}
Staked(p, keys) == SumFunction([k \in keys |-> bet[p][k].amount])

\* what a round with number n may pay its winners, none if no one bet on it
Splits(r, n) ==
  LET total == SumFunction([p \in Players |-> Staked(p, On(p, r))])
      winners == {p \in Players : Staked(p, OnNumber(p, r, n)) > 0}
      stakes == [p \in winners |-> Staked(p, OnNumber(p, r, n))]
  IN IF winners = {} THEN {stakes}
     ELSE UNION {Payouts(pool, stakes) : pool \in Pools(total, Percent, round[r].factor)}

\* finalizeResult of a number that is drawn, publishResult of one that is not:
\* all winners or none
Settle(r, n) ==
  /\ In(r, "CLOSED")
  /\ round[r].number \in {n, None}
  /\ \E pay \in Splits(r, n) :
       /\ \A p \in DOMAIN pay : pay[p] > 0 => account[p].temp + pay[p] <= Limit
       /\ account' = [p \in Players |->
            IF p \in DOMAIN pay THEN [account[p] EXCEPT !.temp = @ + pay[p]]
                                ELSE account[p]]
  /\ round' = [round EXCEPT ![r] = [@ EXCEPT !.status = "COMPLETED", !.number = n]]
  /\ UNCHANGED bet

\* transferTemporaryWinnings
Transfer(p) ==
  LET main == account[p].main + account[p].temp IN
  /\ account[p].temp > 0
  /\ main <= Limit
  /\ account' = [account EXCEPT ![p] = [main |-> main, temp |-> 0]]
  /\ UNCHANGED <<round, bet>>

Next ==
  \/ \E r \in Rounds : Create(r) \/ Open(r) \/ Close(r)
  \/ \E r \in Rounds, n \in Numbers : Draw(r, n) \/ Settle(r, n)
  \/ \E p \in Players, k \in Keys, r \in Rounds, n \in Numbers :
     \E amount \in 1..account[p].main : PlaceBet(p, k, r, n, amount)
  \/ \E p \in Players : Transfer(p)

Spec == Init /\ [][Next]_vars

=============================================================================
