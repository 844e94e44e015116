--------------------------- MODULE MCWalletService ---------------------------
(* Small instances of WalletService for TLC: one user, the agent the user   *)
(* is assigned to, and a few calls that race.                               *)
EXTENDS WalletService, TLC

CONSTANTS u1, ag, adm, w1, w2, r1, c1, c2, c3, c4, c5

MCUsers == {u1, ag}
MCKind == u1 :> "user" @@ ag :> "agent"
MCAgentOf == u1 :> ag @@ ag :> None

K(h, a, u, n, t) == [handler |-> h, actor |-> a, user |-> u, request |-> r1,
                     amount |-> n, type |-> t]
Create(a, u, n) == K("create", a, u, n, None)
Ask(a, u, n, t) == K("request", a, u, n, t)
Edit(a, n, t) == K("edit", a, u1, n, t)
Delete(a) == K("delete", a, u1, None, None)
Decide(h, a) == K(h, a, u1, None, None)
Transfer(a, u) == K("transfer", a, u, None, None)
Bet(u, n) == K("bet", u, u, n, None)
Win(u, n) == K("win", adm, u, n, None)

\* a first wallet, made, filled and played with from several sides at once
CallsWallet ==
  c1 :> {Create(adm, u1, 2), Create(u1, u1, 1), Create(ag, u1, 0)} @@
  c2 :> {Ask(u1, u1, 1, "ADD_POINTS"), Create(ag, u1, 1), Win(u1, 1), Win(u1, 3)} @@
  c3 :> {Create(adm, u1, 1), Transfer(u1, u1), Transfer(ag, u1)} @@
  c4 :> {Bet(u1, 1), Bet(u1, 2), Ask(u1, ag, 1, "WITHDRAW")} @@
  c5 :> {Win(u1, 2), Transfer(u1, u1)}

\* one request, decided by its owner, by the agent and by the admin at once,
\* while the wallets of the owner and of the agent are filled
CallsDecide ==
  c1 :> {Create(adm, u1, 2), Create(adm, ag, 1)} @@
  c2 :> {Ask(u1, u1, 1, "ADD_POINTS"), Ask(ag, u1, 1, "WITHDRAW"),
         Ask(adm, ag, 1, "ADD_POINTS")} @@
  c3 :> {Decide("accept", ag), Decide("acceptOwn", u1)} @@
  c4 :> {Decide("accept", adm), Decide("reject", ag)} @@
  c5 :> {Decide("reject", u1), Create(adm, u1, 1), Bet(u1, 1)}

\* everything at once: edits and deletions racing decisions, and handlers that
\* lock the owner before the wallet racing those that need it after
CallsRequests ==
  c1 :> {Ask(u1, u1, 1, "ADD_POINTS")} @@
  c2 :> {Edit(u1, 2, None), Delete(u1)} @@
  c3 :> {Edit(ag, 2, "WITHDRAW"), Create(adm, u1, 1), Bet(u1, 1)} @@
  c4 :> {Decide("accept", adm), Decide("reject", adm), Win(u1, 1)} @@
  c5 :> {Decide("acceptOwn", u1), Transfer(u1, u1)}

\* an edit or a deletion racing the decision of the request
CallsRace ==
  c1 :> {Ask(u1, u1, 1, "ADD_POINTS")} @@
  c2 :> {Edit(u1, 2, None), Delete(u1)} @@
  c3 :> {Decide("accept", ag)}

=============================================================================
