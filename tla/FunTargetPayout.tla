--------------------------- MODULE FunTargetPayout ---------------------------
(***************************************************************************)
(* The arithmetic of creditWinningPayouts in                               *)
(* src/fun-target/fun-target.service.ts: how many cents a round pays and   *)
(* how they are split among the winners.  Amounts are cents, percentages   *)
(* hundredths of a percent.  The code computes with doubles: its floors are *)
(* those of the exact quotients, but a half cent may round either way, and *)
(* equal remainders of unequal stakes may compare either way.              *)
(***************************************************************************)
EXTENDS Naturals, FiniteSets, Functions

Whole == 10000 \* 100 percent

\* Math.round(total * percent / 100): the nearest cent, and of the two at a half
\* the one the double's last bit says
Allocations(total, percent) ==
  {n \in {(total * percent) \div Whole, (total * percent) \div Whole + 1} :
     /\ 2 * n * Whole <= 2 * total * percent + Whole
     /\ 2 * n * Whole + Whole >= 2 * total * percent}

\* mutant: the joker's pool is not capped
Uncapped(total, percent, multiplier) ==
  {n * multiplier : n \in Allocations(total, percent)}

\* the cents a round pays out, never more than were bet
Pools(total, percent, multiplier) ==
  {IF n * multiplier < total THEN n * multiplier ELSE total :
     n \in Allocations(total, percent)}

\* the exact share of each winner is a whole number of cents and a remainder
FloorShares(pool, stakes) ==
  [p \in DOMAIN stakes |-> (pool * stakes[p]) \div SumFunction(stakes)]
Remainders(pool, stakes) ==
  [p \in DOMAIN stakes |-> (pool * stakes[p]) % SumFunction(stakes)]

\* Every way to pay the pool by largest remainder: each winner the floor of the
\* exact share, and one more cent for as many of the largest remainders as
\* there are cents left.
Payouts(pool, stakes) ==
  LET floor == FloorShares(pool, stakes)
      rest == Remainders(pool, stakes)
      luckySets == {S \in SUBSET DOMAIN stakes :
        /\ Cardinality(S) = pool - SumFunction(floor)
        /\ \A p \in S, q \in DOMAIN stakes \ S : rest[p] >= rest[q]}
  IN {[p \in DOMAIN stakes |-> floor[p] + IF p \in S THEN 1 ELSE 0] : S \in luckySets}

=============================================================================
