--------------------------- MODULE WalletContract ---------------------------
(***************************************************************************)
(* What the wallet service promises its callers, with no rows, locks or    *)
(* transactions: one account per user with a main and a temporary winning  *)
(* balance, and requests that are decided once.  Every step is atomic; a   *)
(* request's decision and the points it moves are one step.                *)
(***************************************************************************)
EXTENDS Naturals

CONSTANTS Users, RequestIds, Limit, None

VARIABLES
  account, \* the balances of each user, zero before the first wallet
  request  \* each request: whose, what for, how much, decided or not

vars == <<account, request>>

Init ==
  /\ account = [u \in Users |-> [main |-> 0, temp |-> 0]]
  /\ request = [r \in RequestIds |-> None]

SetMain(u, n) ==
  n \in 0..Limit /\ account' = [account EXCEPT ![u].main = n]

\* create: an administrator adds points
Add(u, n) == SetMain(u, account[u].main + n) /\ UNCHANGED request

\* placeBet: no bet while winnings wait to be transferred
Bet(u, n) ==
  /\ account[u].temp = 0
  /\ n <= account[u].main
  /\ SetMain(u, account[u].main - n)
  /\ UNCHANGED request

\* creditWinningPayouts
Win(u, n) ==
  /\ account[u].temp + n <= Limit
  /\ account' = [account EXCEPT ![u].temp = @ + n]
  /\ UNCHANGED request

\* transferTemporaryWinnings: all of them, once
Transfer(u) ==
  /\ account[u].temp > 0
  /\ account[u].main + account[u].temp <= Limit
  /\ account' = [account EXCEPT ![u] = [main |-> @.main + @.temp, temp |-> 0]]
  /\ UNCHANGED request

Open(r, u, type, n) ==
  /\ request[r] = None
  /\ request' = [request EXCEPT ![r] =
       [user |-> u, type |-> type, amount |-> n, status |-> "PENDING"]]
  /\ UNCHANGED account

Pending(r) == request[r] # None /\ request[r].status = "PENDING"

\* a credit is always allowed to the owner, a debit only for a withdrawal
Accept(r) ==
  LET u == request[r].user
      n == request[r].amount
  IN /\ Pending(r)
     /\ \/ SetMain(u, account[u].main + n)
        \/ /\ request[r].type = "WITHDRAW"
           /\ n <= account[u].main
           /\ SetMain(u, account[u].main - n)
     /\ request' = [request EXCEPT ![r].status = "ACCEPTED"]

Reject(r) ==
  /\ Pending(r)
  /\ request' = [request EXCEPT ![r].status = "REJECTED"]
  /\ UNCHANGED account

Next ==
  \/ \E u \in Users : Transfer(u)
  \/ \E u \in Users, n \in 0..Limit : Add(u, n) \/ Bet(u, n) \/ Win(u, n)
  \/ \E r \in RequestIds : Accept(r) \/ Reject(r)
  \/ \E r \in RequestIds, u \in Users, n \in 1..Limit :
       Open(r, u, "ADD_POINTS", n) \/ Open(r, u, "WITHDRAW", n)

Spec == Init /\ [][Next]_vars

=============================================================================
