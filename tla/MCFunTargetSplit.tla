-------------------------- MODULE MCFunTargetSplit --------------------------
(* Rounds small enough to enumerate, with allocations that leave halves,    *)
(* thirds and nothing to share.                                             *)
EXTENDS FunTargetSplit

MCPercents == {0, 1, 3333, 4000, 4150, 5000, 10000}

=============================================================================
