--------------------------- MODULE FunTargetSplit ---------------------------
(***************************************************************************)
(* The loop of creditWinningPayouts that splits the pool: floors first,    *)
(* then one cent to each winner in the order of the sort, until none is    *)
(* left.  Each behaviour is one round with its own bets and configuration. *)
(***************************************************************************)
EXTENDS FunTargetPayout

CONSTANTS
  Winners,     \* user ids
  MaxStake,    \* bound: cents a winner has on the winning number
  MaxLost,     \* bound: cents on the other numbers
  Percents,    \* winning allocations, in hundredths of a percent
  Multipliers

ASSUME WinnersAssumption == Winners \in SUBSET Nat /\ IsFiniteSet(Winners)
\* the validation of the configuration's request body
ASSUME BoundsAssumption ==
  /\ MaxStake \in Nat
  /\ MaxLost \in Nat
  /\ Percents \subseteq 0..Whole
  /\ Multipliers \subseteq Nat \ {0}

VARIABLES
  round,     \* the round's total, percent, multiplier and pool
  stakes,    \* what each winner bet on the winning number
  payout,    \* the cents of each winner so far
  remaining, \* the cents not given yet
  served     \* the winners the loop has passed

vars == <<round, stakes, payout, remaining, served>>

Init ==
  /\ stakes \in UNION {[S -> 1..MaxStake] : S \in (SUBSET Winners) \ {{}}}
  /\ \E lost \in 0..MaxLost, p \in Percents, m \in Multipliers :
       LET total == SumFunction(stakes) + lost IN
       \E pool \in Pools(total, p, m) :
         round = [total |-> total, percent |-> p, multiplier |-> m, pool |-> pool]
  /\ payout = FloorShares(round.pool, stakes)
  /\ remaining = round.pool - SumFunction(payout)
  /\ served = {}

\* mutant: the smallest remainder comes first
Behind(p, q) ==
  LET rest == Remainders(round.pool, stakes)
  IN \/ rest[p] < rest[q]
     \/ rest[p] = rest[q] /\ stakes[p] = stakes[q] /\ p < q

\* the sort: the larger remainder first, then the smaller user id
Ahead(p, q) ==
  LET rest == Remainders(round.pool, stakes)
  IN \/ rest[p] > rest[q]
     \/ rest[p] = rest[q] /\ stakes[p] = stakes[q] /\ p < q

\* mutant: the sort works on copies of the shares, which get the cents
GiveCopy(p) ==
  /\ remaining > 0
  /\ p \in DOMAIN stakes \ served
  /\ \A q \in DOMAIN stakes \ served : ~Ahead(q, p)
  /\ remaining' = remaining - 1
  /\ served' = served \cup {p}
  /\ UNCHANGED <<round, stakes, payout>>

GiveCent(p) ==
  /\ remaining > 0
  /\ p \in DOMAIN stakes \ served
  /\ \A q \in DOMAIN stakes \ served : ~Ahead(q, p)
  /\ payout' = [payout EXCEPT ![p] = @ + 1]
  /\ remaining' = remaining - 1
  /\ served' = served \cup {p}
  /\ UNCHANGED <<round, stakes>>

\* the loop breaks when nothing remains, and ends when everyone was served
Split == remaining = 0 \/ served = DOMAIN stakes

Terminating == Split /\ UNCHANGED vars

Next == (\E p \in Winners : GiveCent(p)) \/ Terminating

Spec == Init /\ [][Next]_vars

-----------------------------------------------------------------------------
\* The cents paid are exactly the pool: the loop gives every cent the floors
\* left over, and the floors leave no more cents than there are winners.
PaysThePool == Split =>
  remaining = 0 /\ SumFunction(payout) = round.pool

\* The loop pays by largest remainder, whatever the sort does with ties.
SplitIsLargestRemainder == Split => payout \in Payouts(round.pool, stakes)

\* A larger stake is never paid less than a smaller one, and equal stakes
\* differ by at most the one cent the user id decides.
LargerStakeNeverLess == Split => \A p, q \in DOMAIN stakes :
  /\ stakes[p] > stakes[q] => payout[p] >= payout[q]
  /\ stakes[p] = stakes[q] => payout[p] <= payout[q] + 1

\* Winners together never take more than was bet, joker or not; without one the
\* house keeps its own percentage to within half a cent.
HouseIsSolvent ==
  /\ SumFunction(payout) + remaining <= round.total
  /\ round.multiplier = 1 =>
       2 * Whole * (SumFunction(payout) + remaining)
         <= 2 * round.total * round.percent + Whole

=============================================================================
