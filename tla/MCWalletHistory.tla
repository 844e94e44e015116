--------------------------- MODULE MCWalletHistory ---------------------------
(* WalletService with a caller who lists the history, for TLC.  One run     *)
(* holds three small casts of calls, one of which is chosen at the start:   *)
(* the listing is only asked for in the last, to keep the product small.    *)
EXTENDS MCWalletService, WalletHistory

VARIABLE cast

\* the admin reads the history of the agent's users, one of them a page of it
MCQueries == {[viewer |-> adm, user |-> ag, paged |-> FALSE],
              [viewer |-> u1, user |-> u1, paged |-> TRUE],
              [viewer |-> u1, user |-> ag, paged |-> TRUE]}

\* requests decided, and other movements, around a listing
CallsHistory ==
  c1 :> {Create(adm, u1, 0)} @@
  c2 :> {Ask(u1, u1, 1, "ADD_POINTS")} @@
  c3 :> {Decide("accept", ag), Decide("reject", ag)} @@
  c4 :> {Win(u1, 1), Bet(u1, 1)} @@
  c5 :> {Transfer(u1, u1)}

Casts == {CallsWallet, CallsDecide, CallsHistory}
CallsOfAll == [c \in Clients |-> UNION {k[c] : k \in Casts}]

MCInit == HistoryInit /\ cast \in Casts
MCNext ==
  /\ HistoryNext
  /\ UNCHANGED cast
  /\ \A c \in Clients : call'[c] # None => call'[c] \in cast[c]
  /\ listing' # None => cast = CallsHistory
MCSpec == MCInit /\ [][MCNext]_<<history, cast>> /\ Fairness

=============================================================================
