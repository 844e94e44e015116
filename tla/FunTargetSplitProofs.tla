------------------------- MODULE FunTargetSplitProofs -------------------------
(***************************************************************************)
(* The loop that splits a pool pays all of it and nothing else, by largest *)
(* remainder, for every set of winners, all stakes and every pool.  What   *)
(* the loop has given so far is the floors and one cent for each winner it *)
(* has passed; the floors leave fewer cents than there are winners, so the *)
(* cents run out before the winners do.                                    *)
(***************************************************************************)
EXTENDS FunTargetSplit, FunTargetPayoutProofs

Floors == FloorShares(round.pool, stakes)
Rest == Remainders(round.pool, stakes)

RoundOK ==
  /\ DOMAIN stakes \in (SUBSET Winners) \ {{}}
  /\ stakes \in Stakes(DOMAIN stakes)
  /\ round.total \in Nat
  /\ round.percent \in Nat
  /\ round.multiplier \in Nat \ {0}
  /\ round.pool \in Pools(round.total, round.percent, round.multiplier)

\* Each winner passed has one cent more than the floor, the cents left are those
\* the floors left less one for each of them, and no one waiting has a larger
\* remainder.
LoopOK ==
  /\ served \subseteq DOMAIN stakes
  /\ payout = [p \in DOMAIN stakes |-> Floors[p] + IF p \in served THEN 1 ELSE 0]
  /\ remaining \in Nat
  /\ remaining + Cardinality(served) = round.pool - SumFunction(Floors)
  /\ \A p \in served, q \in DOMAIN stakes \ served : Rest[p] >= Rest[q]

IInv == RoundOK /\ LoopOK

-----------------------------------------------------------------------------
\* What the payout lemmas say of this round.
LEMMA RoundFacts ==
  ASSUME RoundOK
  PROVE  /\ IsFiniteSet(DOMAIN stakes) /\ DOMAIN stakes # {}
         /\ round.pool \in Nat
         /\ round.pool <= round.total
         /\ round.multiplier = 1 =>
              2 * Whole * round.pool <= 2 * round.total * round.percent + Whole
         /\ Floors \in [DOMAIN stakes -> Nat]
         /\ \A p \in DOMAIN stakes : Rest[p] \in Nat
         /\ SumFunction(Floors) \in Nat
         /\ SumFunction(Floors) <= round.pool
         /\ round.pool - SumFunction(Floors) < Cardinality(DOMAIN stakes)
<1> DEFINE D == DOMAIN stakes
<1>1. IsFiniteSet(D) /\ D # {} /\ stakes \in Stakes(D)
  <2>1. D \in SUBSET Winners /\ D # {} /\ stakes \in Stakes(D)
    BY DEF RoundOK
  <2>2. IsFiniteSet(Winners)
    BY WinnersAssumption
  <2> HIDE DEF D
  <2> QED BY <2>1, <2>2, FS_Subset
<1>2. /\ round.pool \in Nat
      /\ round.pool <= round.total
      /\ round.multiplier = 1 =>
           2 * Whole * round.pool <= 2 * round.total * round.percent + Whole
  BY PoolsBounded DEF RoundOK
<1> HIDE DEF D
<1>3. /\ Floors \in [D -> Nat]
      /\ Rest \in [D -> 0..(SumFunction(stakes) - 1)]
      /\ SumFunction(stakes) \in Nat
  BY <1>1, <1>2, SharesType DEF Floors, Rest
<1>4. \A p \in D : Rest[p] \in Nat
  BY <1>3
<1>5. /\ SumFunction(Floors) \in Nat
      /\ SumFunction(Floors) <= round.pool
      /\ round.pool - SumFunction(Floors) < Cardinality(D)
  BY <1>1, <1>2, FloorsLeaveFewer DEF Floors
<1> QED BY <1>1, <1>2, <1>3, <1>4, <1>5 DEF D

LEMMA InitOK == Init => IInv
<1> SUFFICES ASSUME Init PROVE IInv
  OBVIOUS
<1> DEFINE D == DOMAIN stakes
<1>1. PICK S \in (SUBSET Winners) \ {{}} : stakes \in [S -> 1..MaxStake]
  BY DEF Init
<1>2. D = S /\ stakes \in Stakes(D)
  BY <1>1, BoundsAssumption DEF Stakes
<1>3. PICK lost \in 0..MaxLost, p \in Percents, m \in Multipliers :
        \E pool \in Pools(SumFunction(stakes) + lost, p, m) :
          round = [total |-> SumFunction(stakes) + lost, percent |-> p,
                   multiplier |-> m, pool |-> pool]
  BY DEF Init
<1>4. SumFunction(stakes) + lost \in Nat
  <2>1. IsFiniteSet(D) /\ (\A q \in D : stakes[q] \in Nat)
    BY <1>1, <1>2, WinnersAssumption, FS_Subset DEF Stakes
  <2>2. SumFunction(stakes) = SumFunctionOnSet(stakes, D)
    BY SumIsOverDomain
  <2>3. SumFunction(stakes) \in Nat
    BY <2>1, <2>2, SumNat
  <2> QED BY <2>3, BoundsAssumption
<1>5. RoundOK
  BY <1>1, <1>2, <1>3, <1>4, BoundsAssumption DEF RoundOK
<1>6. /\ served = {} /\ payout = Floors
      /\ remaining = round.pool - SumFunction(Floors)
  BY DEF Init, Floors
<1>7. LoopOK
  <2>1. payout = [q \in D |-> Floors[q] + IF q \in served THEN 1 ELSE 0]
    BY <1>5, <1>6, RoundFacts
  <2>2. remaining \in Nat /\ remaining + Cardinality(served) = round.pool - SumFunction(Floors)
    BY <1>5, <1>6, RoundFacts, FS_EmptySet
  <2> QED BY <1>6, <2>1, <2>2 DEF LoopOK
<1> QED BY <1>5, <1>7 DEF IInv

LEMMA StepOK == IInv /\ [Next]_vars => IInv'
<1> SUFFICES ASSUME IInv, [Next]_vars PROVE IInv'
  OBVIOUS
<1>1. ASSUME NEW p \in Winners, GiveCent(p) PROVE IInv'
  <2> DEFINE D == DOMAIN stakes
  <2>1. RoundOK /\ LoopOK /\ p \in D /\ p \notin served /\ remaining > 0
    BY <1>1 DEF IInv, GiveCent
  <2>2. /\ round' = round /\ stakes' = stakes /\ Floors' = Floors /\ Rest' = Rest
        /\ served' = served \cup {p} /\ remaining' = remaining - 1
        /\ payout' = [payout EXCEPT ![p] = @ + 1]
    BY <1>1 DEF GiveCent, Floors, Rest
  <2>3. RoundOK'
    BY <2>1, <2>2 DEF RoundOK
  <2>4. served' \subseteq D
    BY <2>1, <2>2 DEF LoopOK
  <2>5. payout' = [q \in D |-> Floors[q] + IF q \in served' THEN 1 ELSE 0]
    <3>1. Floors \in [D -> Nat]
      BY <2>1, RoundFacts
    <3> QED BY <2>1, <2>2, <3>1 DEF LoopOK
  <2>6. /\ remaining' \in Nat
        /\ remaining' + Cardinality(served') = round.pool - SumFunction(Floors)
    <3>1. IsFiniteSet(served)
      BY <2>1, RoundFacts, FS_Subset DEF LoopOK
    <3>2. Cardinality(served') = Cardinality(served) + 1 /\ Cardinality(served) \in Nat
      BY <2>1, <2>2, <3>1, FS_AddElement, FS_CardinalityType
    <3> QED BY <2>1, <2>2, <3>2 DEF LoopOK
  <2>7. \A x \in served', q \in D \ served' : Rest[x] >= Rest[q]
    <3>1. \A q \in D \ served : ~(Rest[q] > Rest[p])
      BY <1>1 DEF GiveCent, Ahead, Rest
    <3>2. \A q \in D : Rest[q] \in Nat
      BY <2>1, RoundFacts
    <3> QED BY <2>1, <2>2, <3>1, <3>2 DEF LoopOK
  <2>8. LoopOK'
    BY <2>2, <2>4, <2>5, <2>6, <2>7 DEF LoopOK
  <2> QED BY <2>3, <2>8 DEF IInv
<1>2. CASE UNCHANGED vars
  BY <1>2 DEF vars, IInv, RoundOK, LoopOK, Floors, Rest
<1> QED BY <1>1, <1>2 DEF Next, Terminating

THEOREM SplitSafety == Spec => []IInv
<1> QED BY InitOK, StepOK, PTL DEF Spec

-----------------------------------------------------------------------------
\* Nothing is left when the loop ends: if everyone was served and a cent were
\* left, the floors would have left as many cents as there are winners.
LEMMA NothingLeft ==
  ASSUME IInv, Split
  PROVE  remaining = 0
<1>1. CASE served = DOMAIN stakes
  <2>1. round.pool - SumFunction(Floors) < Cardinality(served)
    BY <1>1, RoundFacts DEF IInv
  <2>2. /\ remaining \in Nat
        /\ remaining + Cardinality(served) = round.pool - SumFunction(Floors)
    BY DEF IInv, LoopOK
  <2>3. Cardinality(served) \in Nat
    BY <1>1, RoundFacts, FS_CardinalityType DEF IInv
  <2> QED BY <2>1, <2>2, <2>3
<1> QED BY <1>1 DEF Split

\* What has been paid and what is left make the pool, at every turn of the loop.
LEMMA PaidAndLeft ==
  ASSUME IInv
  PROVE  SumFunction(payout) \in Nat /\ SumFunction(payout) + remaining = round.pool
<1>1. SumFunction(payout) = SumFunction(Floors) + Cardinality(served)
  <2>1. /\ IsFiniteSet(DOMAIN stakes) /\ Floors \in [DOMAIN stakes -> Nat]
        /\ served \in SUBSET DOMAIN stakes
        /\ payout = [p \in DOMAIN stakes |-> Floors[p] + IF p \in served THEN 1 ELSE 0]
    BY RoundFacts DEF IInv, LoopOK
  <2> QED BY <2>1, CentsAdd
<1>2. /\ SumFunction(Floors) \in Nat /\ round.pool \in Nat /\ Cardinality(served) \in Nat
      /\ remaining \in Nat
      /\ remaining + Cardinality(served) = round.pool - SumFunction(Floors)
  BY RoundFacts, FS_Subset, FS_CardinalityType DEF IInv, LoopOK
<1> QED BY <1>1, <1>2

LEMMA PaidByRemainder ==
  ASSUME IInv, Split
  PROVE  payout \in Payouts(round.pool, stakes)
<1>1. Cardinality(served) = round.pool - SumFunction(Floors)
  <2>1. IsFiniteSet(served)
    BY RoundFacts, FS_Subset DEF IInv, LoopOK
  <2> QED BY <2>1, NothingLeft, FS_CardinalityType DEF IInv, LoopOK
<1>2. /\ served \in SUBSET DOMAIN stakes
      /\ \A p \in served, q \in DOMAIN stakes \ served : Rest[p] >= Rest[q]
      /\ payout = [p \in DOMAIN stakes |-> Floors[p] + IF p \in served THEN 1 ELSE 0]
  BY DEF IInv, LoopOK
<1> QED BY <1>1, <1>2 DEF Payouts, Floors, Rest

\* The loop ends with every cent of the pool given and no other
\* (creditWinningPayouts), whoever won and whatever they staked.
THEOREM PoolIsPaid == Spec => []PaysThePool
<1>1. IInv => PaysThePool
  BY NothingLeft, PaidAndLeft DEF PaysThePool
<1> QED BY <1>1, SplitSafety, PTL

\* The loop pays by largest remainder, the definition FunTarget uses.
THEOREM SplitByRemainder == Spec => []SplitIsLargestRemainder
<1>1. IInv => SplitIsLargestRemainder
  BY PaidByRemainder DEF SplitIsLargestRemainder
<1> QED BY <1>1, SplitSafety, PTL

\* A larger stake never gets less, equal stakes differ by a cent at most.
THEOREM StakesOrderPayouts == Spec => []LargerStakeNeverLess
<1>1. ASSUME IInv PROVE LargerStakeNeverLess
  <2> SUFFICES ASSUME Split, NEW p \in DOMAIN stakes, NEW q \in DOMAIN stakes
               PROVE  /\ stakes[p] > stakes[q] => payout[p] >= payout[q]
                      /\ stakes[p] = stakes[q] => payout[p] <= payout[q] + 1
    BY DEF LargerStakeNeverLess
  <2>1. payout \in Payouts(round.pool, stakes)
    BY <1>1, PaidByRemainder
  <2>2. /\ IsFiniteSet(DOMAIN stakes) /\ DOMAIN stakes # {} /\ round.pool \in Nat
        /\ stakes \in Stakes(DOMAIN stakes)
    BY <1>1, RoundFacts DEF IInv, RoundOK
  <2> QED BY <2>1, <2>2, PayoutsFollowStakes
<1> QED BY <1>1, SplitSafety, PTL

\* No round pays more than was bet on it, and without a joker the house keeps its
\* percentage to within half a cent.
THEOREM HouseStaysSolvent == Spec => []HouseIsSolvent
<1>1. ASSUME IInv PROVE HouseIsSolvent
  <2>1. SumFunction(payout) + remaining = round.pool
    BY <1>1, PaidAndLeft
  <2>2. /\ round.pool <= round.total
        /\ round.multiplier = 1 =>
             2 * Whole * round.pool <= 2 * round.total * round.percent + Whole
    BY <1>1, RoundFacts DEF IInv
  <2> QED BY <2>1, <2>2 DEF HouseIsSolvent
<1> QED BY <1>1, SplitSafety, PTL

=============================================================================
