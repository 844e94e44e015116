SPECIFICATION Spec
CONSTANTS
  Winners = {1, 2, 3}
  MaxStake = 5
  MaxLost = 6
  Percents <- MCPercents
  Multipliers = {1, 2, 3}
INVARIANTS
  PaysThePool
  SplitIsLargestRemainder
  LargerStakeNeverLess
  HouseIsSolvent
