------------------------ MODULE MCWalletHistoryTimes ------------------------
(* Two requests of one user, decided in any order and within a second or    *)
(* not, for TLC.                                                            *)
EXTENDS MCWalletService, WalletHistoryTimes

CONSTANT r2

Of(r, k) == [k EXCEPT !.request = r]

CallsPaging ==
  c1 :> {Ask(u1, u1, 1, "ADD_POINTS")} @@
  c2 :> {Ask(u1, u1, 1, "ADD_POINTS")} @@
  c3 :> {Of(r1, Decide("reject", ag)), Of(r1, Decide("accept", ag))} @@
  c4 :> {Of(r2, Decide("reject", ag))}

=============================================================================
