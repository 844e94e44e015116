------------------------- MODULE WalletDecisionProofs -------------------------
(***************************************************************************)
(* What a step of the wallet service may do, how often a request is        *)
(* decided, that the interleaved handlers implement the atomic operations  *)
(* of WalletContract, and what a listing of the history shows, for every   *)
(* set of users, wallets, requests, calls and listings.                    *)
(*                                                                         *)
(* Edits are the one handler that can undo a decision, so what depends on  *)
(* a decision being kept is proved of calls without edits; deletions are   *)
(* allowed.                                                                *)
(***************************************************************************)
EXTENDS WalletHistory, WalletServiceProofs, FiniteSetTheorems

USE DEF Balances

\* the ledger rows of a request, of any ledger
EntriesIn(L, r) == UNION {{<<w, b, i>> : i \in {j \in DOMAIN L[w][b] :
  L[w][b][j].request = r}} : w \in WalletIds, b \in Buckets}

Ledgers == [WalletIds -> [Buckets -> Seq(Entry)]]
Posted(L, w, b, e) == [L EXCEPT ![w][b] = Append(@, e)]

\* M is L with more rows, and perhaps fewer references to requests
Grows(L, M) == \A w \in WalletIds, b \in Buckets :
  /\ DOMAIN L[w][b] \subseteq DOMAIN M[w][b]
  /\ \A i \in DOMAIN L[w][b] : M[w][b][i].amount = L[w][b][i].amount

\* a step leaves a request, its actions and its ledger rows alone
Untouched(r) ==
  /\ requests'[r] = requests[r]
  /\ actions'[r] = actions[r]
  /\ EntriesOf(r)' = EntriesOf(r)

-----------------------------------------------------------------------------
(* Lemmas about ledgers. *)

LEMMA EntriesAreIn ==
  ASSUME NEW r
  PROVE  EntriesOf(r) = EntriesIn(ledger, r) /\ EntriesOf(r)' = EntriesIn(ledger', r)
BY DEF EntriesOf, EntriesIn

LEMMA EntryIn ==
  ASSUME NEW L, NEW r
  PROVE  /\ \A w \in WalletIds, b \in Buckets : \A i :
              <<w, b, i>> \in EntriesIn(L, r) <=>
                i \in DOMAIN L[w][b] /\ L[w][b][i].request = r
         /\ \A x \in EntriesIn(L, r) :
              \E w \in WalletIds, b \in Buckets : \E i \in DOMAIN L[w][b] :
                x = <<w, b, i>> /\ L[w][b][i].request = r
<1> DEFINE Of(w, b) == {<<w, b, i>> : i \in {j \in DOMAIN L[w][b] :
                                               L[w][b][j].request = r}}
<1>1. \A x : x \in EntriesIn(L, r) <=>
        \E w \in WalletIds, b \in Buckets : x \in Of(w, b)
  <2> DEFINE parts == {Of(w, b) : w \in WalletIds, b \in Buckets}
  <2>1. EntriesIn(L, r) = UNION parts
    BY DEF EntriesIn
  <2>. HIDE DEF Of
  <2>2. \A s : s \in parts <=> \E w \in WalletIds, b \in Buckets : s = Of(w, b)
    OBVIOUS
  <2>. HIDE DEF parts
  <2>. QED
    BY <2>1, <2>2
<1>2. ASSUME NEW w, NEW b
      PROVE  \A x : x \in Of(w, b) <=>
               \E i \in DOMAIN L[w][b] : x = <<w, b, i>> /\ L[w][b][i].request = r
  OBVIOUS
<1>. HIDE DEF Of
<1>3. ASSUME NEW w \in WalletIds, NEW b \in Buckets, NEW i
      PROVE  <<w, b, i>> \in EntriesIn(L, r) <=>
               i \in DOMAIN L[w][b] /\ L[w][b][i].request = r
  BY <1>1, <1>2
<1>4. ASSUME NEW x \in EntriesIn(L, r)
      PROVE  \E w \in WalletIds, b \in Buckets : \E i \in DOMAIN L[w][b] :
               x = <<w, b, i>> /\ L[w][b][i].request = r
  BY <1>1, <1>2
<1>. QED
  BY <1>3, <1>4

\* one more row
LEMMA PostedLedger ==
  ASSUME NEW L \in Ledgers, NEW w \in WalletIds, NEW b \in Buckets, NEW e \in Entry
  PROVE  /\ Posted(L, w, b, e) \in Ledgers
         /\ Grows(L, Posted(L, w, b, e))
         /\ Posted(L, w, b, e)[w][b][Len(L[w][b]) + 1] = e
         /\ \A r : EntriesIn(Posted(L, w, b, e), r) = EntriesIn(L, r) \cup
              (IF e.request = r THEN {<<w, b, Len(L[w][b]) + 1>>} ELSE {})
<1> DEFINE M == Posted(L, w, b, e)
           n == Len(L[w][b]) + 1
<1>1. L[w][b] \in Seq(Entry) /\ n \in Nat /\ n \notin DOMAIN L[w][b]
  BY DEF Ledgers
<1>2. /\ M[w][b] = Append(L[w][b], e)
      /\ \A v \in WalletIds, o \in Buckets : v # w \/ o # b => M[v][o] = L[v][o]
  BY DEF Ledgers, Posted
<1>3. /\ DOMAIN M[w][b] = DOMAIN L[w][b] \cup {n}
      /\ M[w][b][n] = e
      /\ \A i \in DOMAIN L[w][b] : M[w][b][i] = L[w][b][i]
  BY <1>1, <1>2
<1>4. M \in Ledgers
  <2>1. Append(L[w][b], e) \in Seq(Entry)
    BY <1>1
  <2>. QED
    BY <2>1 DEF Ledgers, Posted
<1>. HIDE DEF M, n
<1>5. Grows(L, M)
  BY <1>2, <1>3 DEF Grows
<1>6. ASSUME NEW r
      PROVE  EntriesIn(M, r) =
               EntriesIn(L, r) \cup (IF e.request = r THEN {<<w, b, n>>} ELSE {})
  <2>1. ASSUME NEW x \in EntriesIn(M, r)
        PROVE  x \in EntriesIn(L, r) \/ (e.request = r /\ x = <<w, b, n>>)
    <3>1. PICK v \in WalletIds, o \in Buckets : \E i \in DOMAIN M[v][o] :
            x = <<v, o, i>> /\ M[v][o][i].request = r
      BY EntryIn
    <3>2. PICK i \in DOMAIN M[v][o] : x = <<v, o, i>> /\ M[v][o][i].request = r
      BY <3>1
    <3>3. CASE v = w /\ o = b /\ i = n
      BY <1>3, <3>2, <3>3
    <3>4. CASE ~(v = w /\ o = b /\ i = n)
      <4>1. CASE v = w /\ o = b
        <5>1. i \in DOMAIN L[w][b] /\ M[w][b][i] = L[w][b][i]
          BY <1>3, <3>2, <3>4, <4>1
        <5>. QED
          BY <3>2, <4>1, <5>1, EntryIn
      <4>2. CASE v # w \/ o # b
        <5>1. M[v][o] = L[v][o]
          BY <1>2, <4>2
        <5>. QED
          BY <3>2, <5>1, EntryIn
      <4>. QED
        BY <4>1, <4>2
    <3>. QED
      BY <3>3, <3>4
  <2>2. ASSUME NEW x \in EntriesIn(L, r)
        PROVE  x \in EntriesIn(M, r)
    <3>1. PICK v \in WalletIds, o \in Buckets : \E i \in DOMAIN L[v][o] :
            x = <<v, o, i>> /\ L[v][o][i].request = r
      BY EntryIn
    <3>2. PICK i \in DOMAIN L[v][o] : x = <<v, o, i>> /\ L[v][o][i].request = r
      BY <3>1
    <3>3. i \in DOMAIN M[v][o] /\ M[v][o][i].request = r
      BY <1>2, <1>3, <3>2
    <3>. QED
      BY <3>2, <3>3, EntryIn
  <2>3. e.request = r => <<w, b, n>> \in EntriesIn(M, r)
    BY <1>3, EntryIn
  <2>. QED
    BY <2>1, <2>2, <2>3
<1>. QED
  BY <1>3, <1>4, <1>5, <1>6 DEF M, n

\* a row that refers to no request
LEMMA UnreferencedLedger ==
  ASSUME NEW L \in Ledgers, NEW w \in WalletIds, NEW b \in Buckets, NEW e \in Entry,
         e.request = None
  PROVE  /\ Posted(L, w, b, e) \in Ledgers
         /\ Grows(L, Posted(L, w, b, e))
         /\ \A r \in RequestIds : EntriesIn(Posted(L, w, b, e), r) = EntriesIn(L, r)
<1>1. ASSUME NEW r \in RequestIds
      PROVE  EntriesIn(Posted(L, w, b, e), r) =
               EntriesIn(L, r) \cup
                 (IF e.request = r THEN {<<w, b, Len(L[w][b]) + 1>>} ELSE {})
  BY PostedLedger
<1>2. \A r \in RequestIds : e.request # r
  BY NoneAssumption
<1>. QED
  BY <1>1, <1>2, PostedLedger

\* the references to a deleted request go, the others stay
LEMMA DetachedLedger ==
  ASSUME NEW L \in Ledgers, NEW r \in RequestIds, NEW M,
         M = [w \in WalletIds |-> [b \in Buckets |-> Detached(L[w][b], r)]]
  PROVE  /\ Grows(L, M)
         /\ EntriesIn(M, r) = {}
         /\ \A q \in RequestIds \ {r} : EntriesIn(M, q) = EntriesIn(L, q)
<1>1. ASSUME NEW w \in WalletIds, NEW b \in Buckets
      PROVE  /\ DOMAIN M[w][b] = DOMAIN L[w][b]
             /\ \A i \in DOMAIN L[w][b] :
                  /\ M[w][b][i].amount = L[w][b][i].amount
                  /\ M[w][b][i].request # r
                  /\ \A q \in RequestIds \ {r} :
                       M[w][b][i].request = q <=> L[w][b][i].request = q
  <2>1. M[w][b] = Detached(L[w][b], r)
    OBVIOUS
  <2>2. L[w][b] \in Seq(Entry)
    BY DEF Ledgers
  <2>3. \A i \in DOMAIN L[w][b] : L[w][b][i] \in Entry
    BY <2>2
  <2>. QED
    BY <2>1, <2>3, NoneAssumption DEF Detached, Entry
<1>2. Grows(L, M)
  BY <1>1 DEF Grows
<1>3. EntriesIn(M, r) = {}
  BY <1>1, EntryIn
<1>4. ASSUME NEW q \in RequestIds \ {r}
      PROVE  EntriesIn(M, q) = EntriesIn(L, q)
  BY <1>1 DEF EntriesIn
<1>. QED
  BY <1>2, <1>3, <1>4

-----------------------------------------------------------------------------
(* What each write does, in terms of the tables it finds. *)

Saved(c, w, main, temp) ==
  /\ w \in WalletIds
  /\ main \in Nat /\ temp \in Nat
  /\ Holds(c, w)
  /\ SaveWallet(c, w, main, temp)

\* no request is touched, and no ledger row refers to another one than before
KeepsRequests ==
  /\ UNCHANGED requests
  /\ Grows(ledger, ledger')
  /\ \A r \in RequestIds : Untouched(r)

LEMMA UntouchedLedger ==
  ASSUME TypeOK, UNCHANGED ledger
  PROVE  Grows(ledger, ledger') /\ \A r : EntriesOf(r)' = EntriesOf(r)
BY DEF Grows, EntriesOf

\* a row that refers to no request
LEMMA PostKeepsRequests ==
  ASSUME TypeOK, NEW w \in WalletIds, NEW b \in Buckets, NEW e \in Entry,
         e.request = None, Post(w, b, e), UNCHANGED <<requests, actions>>
  PROVE  KeepsRequests
<1>1. ledger \in Ledgers /\ ledger' = Posted(ledger, w, b, e)
  BY DEF TypeOK, DbTypeOK, Ledgers, Post, Posted
<1>2. /\ Grows(ledger, ledger')
      /\ \A r \in RequestIds : EntriesIn(ledger', r) = EntriesIn(ledger, r)
  BY <1>1, UnreferencedLedger
<1>. QED
  BY <1>2, EntriesAreIn DEF KeepsRequests, Untouched

LEMMA CreateEffect ==
  ASSUME NEW c \in Clients, IInv, CreateWrite(c)
  PROVE  /\ KeepsRequests
         /\ Amount(c) \in 0..Limit
         /\ \E w \in WalletIds :
              /\ Saved(c, w, Visible(w).main + Amount(c), Visible(w).temp)
              /\ Visible(w).main + Amount(c) <= Limit
<1> DEFINE before == balance[c].main
           after == before + Amount(c)
           e == NewEntry("CREDIT", "ADMIN_ADD", Amount(c), before, after, None)
<1>1. /\ pc[c] = "write" /\ Handler(c) = "create" /\ ~Refused(c) /\ Secured(c)
      /\ UNCHANGED <<requests, actions>>
  BY DEF CreateWrite, Writing, IInv, AllSecured, Active
<1>2. PICK w \in Target(c) :
        /\ SaveWallet(c, w, after, balance[c].temp)
        /\ Post(w, "MAIN", e) \/ UNCHANGED ledger
  BY DEF CreateWrite
<1>3. w \in WalletIds /\ Holds(c, w) /\ balance[c] = Visible(w)
  BY <1>1, WriterHolds DEF IInv
<1>4. /\ before \in Nat /\ Amount(c) \in Nat /\ balance[c].temp \in Nat
      /\ after \in Nat /\ after <= Limit
  BY <1>1, WritingTypes, LimitAssumption DEF Refused, IInv
<1>5. e \in Entry /\ e.request = None
  BY <1>4 DEF NewEntry, Entry, Sources
<1>6. Amount(c) \in 0..Limit
  BY <1>4, LimitAssumption
<1>. HIDE DEF e
<1>7. KeepsRequests
  <2>1. CASE Post(w, "MAIN", e)
    BY <1>1, <1>3, <1>5, <2>1, PostKeepsRequests DEF Buckets, IInv
  <2>2. CASE UNCHANGED ledger
    BY <1>1, <2>2, UntouchedLedger DEF IInv, KeepsRequests, Untouched
  <2>. QED
    BY <1>2, <2>1, <2>2
<1>. QED
  BY <1>2, <1>3, <1>4, <1>6, <1>7 DEF Saved

LEMMA TransferEffect ==
  ASSUME NEW c \in Clients, IInv, TransferWrite(c)
  PROVE  /\ KeepsRequests
         /\ \E w \in WalletIds :
              /\ Saved(c, w, Visible(w).main + Visible(w).temp, 0)
              /\ Visible(w).temp > 0
              /\ Visible(w).main + Visible(w).temp <= Limit
<1> DEFINE w == mine[c]
           temp == balance[c].temp
           before == balance[c].main
           after == before + temp
           out == NewEntry("DEBIT", "GAME_WIN", temp, temp, 0, None)
           in == NewEntry("CREDIT", "GAME_WIN", temp, before, after, None)
           between == Posted(ledger, w, "TEMPORARY_WINNING", out)
<1>1. /\ pc[c] = "write" /\ Handler(c) = "transfer" /\ ~Refused(c) /\ Secured(c)
      /\ UNCHANGED <<requests, actions>>
      /\ SaveWallet(c, w, after, 0)
      /\ ledger' = [ledger EXCEPT
           ![w]["TEMPORARY_WINNING"] = Append(@, out), ![w]["MAIN"] = Append(@, in)]
  BY DEF TransferWrite, Writing, IInv, AllSecured, Active
<1>2. w \in WalletIds /\ w \in Target(c)
  BY <1>1, WritingTypes, NoneAssumption DEF Target, IInv
<1>3. Holds(c, w) /\ balance[c] = Visible(w)
  BY <1>1, <1>2, WriterHolds DEF IInv
<1>4. before \in Nat /\ temp \in Nat /\ after \in Nat /\ after <= Limit /\ temp > 0
  BY <1>1, WritingTypes, LimitAssumption DEF Refused, IInv
<1>5. /\ in \in Entry /\ in.request = None
      /\ out \in Entry /\ out.request = None
  BY <1>4 DEF NewEntry, Entry, Sources
<1>6. Saved(c, w, after, 0)
  BY <1>1, <1>2, <1>3, <1>4 DEF Saved
<1>7. ledger \in Ledgers /\ ledger' = Posted(between, w, "MAIN", in)
  BY <1>1, <1>2 DEF IInv, TypeOK, DbTypeOK, Ledgers, Buckets, Posted
<1>. HIDE DEF in, out, w
<1>8. /\ between \in Ledgers /\ Grows(ledger, between)
      /\ \A r \in RequestIds : EntriesIn(between, r) = EntriesIn(ledger, r)
  BY <1>2, <1>5, <1>7, UnreferencedLedger DEF Buckets
<1>. HIDE DEF between
<1>9. /\ Grows(between, ledger')
      /\ \A r \in RequestIds : EntriesIn(ledger', r) = EntriesIn(between, r)
  BY <1>2, <1>5, <1>7, <1>8, UnreferencedLedger DEF Buckets
<1>10. KeepsRequests
  <2>1. Grows(ledger, ledger')
    BY <1>8, <1>9 DEF Grows
  <2>. QED
    BY <1>1, <1>8, <1>9, <2>1, EntriesAreIn DEF KeepsRequests, Untouched
<1>. QED
  BY <1>2, <1>3, <1>4, <1>6, <1>10

LEMMA BetEffect ==
  ASSUME NEW c \in Clients, IInv, BetWrite(c)
  PROVE  /\ KeepsRequests
         /\ Amount(c) \in 0..Limit
         /\ \E w \in WalletIds :
              /\ Visible(w).temp = 0
              /\ Amount(c) <= Visible(w).main
              /\ Saved(c, w, Visible(w).main - Amount(c), 0)
              /\ Visible(w).main <= Limit
<1> DEFINE before == balance[c].main
           after == before - Amount(c)
           e == NewEntry("DEBIT", "GAME_ENTRY", Amount(c), before, after, None)
<1>1. /\ pc[c] = "write" /\ Handler(c) = "bet" /\ ~Refused(c) /\ Secured(c)
      /\ UNCHANGED <<requests, actions>>
      /\ SaveWallet(c, mine[c], after, balance[c].temp)
      /\ Post(mine[c], "MAIN", e)
  BY DEF BetWrite, Writing, IInv, AllSecured, Active
<1>2. mine[c] \in WalletIds /\ mine[c] \in Target(c)
  BY <1>1, WritingTypes, NoneAssumption DEF Target, IInv, ByGame
<1>3. Holds(c, mine[c]) /\ balance[c] = Visible(mine[c])
  BY <1>1, <1>2, WriterHolds DEF IInv, ByGame
<1>4. /\ before \in Nat /\ Amount(c) \in Nat /\ balance[c].temp = 0
      /\ after \in Nat /\ Amount(c) <= before
  BY <1>1, WritingTypes DEF Refused, IInv, ByGame
<1>5. before <= Limit
  BY <1>2, <1>3, LimitAssumption DEF IInv, Tables, BalancesInRange, Visible, Zero
<1>6. e \in Entry /\ e.request = None
  BY <1>4 DEF NewEntry, Entry, Sources
<1>7. Saved(c, mine[c], after, 0)
  BY <1>1, <1>2, <1>3, <1>4 DEF Saved
<1>8. Amount(c) \in 0..Limit
  BY <1>4, <1>5, LimitAssumption
<1>. HIDE DEF e
<1>9. KeepsRequests
  BY <1>1, <1>2, <1>6, PostKeepsRequests DEF Buckets, IInv
<1>. QED
  BY <1>2, <1>3, <1>4, <1>5, <1>7, <1>8, <1>9

LEMMA WinEffect ==
  ASSUME NEW c \in Clients, IInv, WinWrite(c)
  PROVE  /\ KeepsRequests
         /\ Amount(c) \in 0..Limit
         /\ \E w \in WalletIds :
              /\ Saved(c, w, Visible(w).main, Visible(w).temp + Amount(c))
              /\ Visible(w).temp + Amount(c) <= Limit
<1> DEFINE before == balance[c].temp
           after == before + Amount(c)
           e == NewEntry("CREDIT", "GAME_WIN", Amount(c), before, after, None)
<1>1. /\ pc[c] = "write" /\ Handler(c) = "win" /\ ~Refused(c) /\ Secured(c)
      /\ UNCHANGED <<requests, actions>>
      /\ SaveWallet(c, mine[c], balance[c].main, after)
      /\ Post(mine[c], "TEMPORARY_WINNING", e)
  BY DEF WinWrite, Writing, IInv, AllSecured, Active
<1>2. mine[c] \in WalletIds /\ mine[c] \in Target(c)
  BY <1>1, WritingTypes, NoneAssumption DEF Target, IInv, ByGame
<1>3. Holds(c, mine[c]) /\ balance[c] = Visible(mine[c])
  BY <1>1, <1>2, WriterHolds DEF IInv, ByGame
<1>4. /\ before \in Nat /\ Amount(c) \in Nat /\ balance[c].main \in Nat
      /\ after \in Nat /\ after <= Limit
  BY <1>1, WritingTypes, LimitAssumption DEF Refused, IInv, ByGame
<1>5. e \in Entry /\ e.request = None
  BY <1>4 DEF NewEntry, Entry, Sources
<1>6. Saved(c, mine[c], balance[c].main, after)
  BY <1>1, <1>2, <1>3, <1>4 DEF Saved
<1>7. Amount(c) \in 0..Limit
  BY <1>4, LimitAssumption
<1>. HIDE DEF e
<1>8. KeepsRequests
  BY <1>1, <1>2, <1>5, PostKeepsRequests DEF Buckets, IInv
<1>. QED
  BY <1>2, <1>3, <1>4, <1>6, <1>7, <1>8

\* one more action of a request
Noted(r, action, by, shown) == [actions EXCEPT ![r] = Append(@,
  [action |-> action, by |-> by, before |-> shown, after |-> shown])]

LEMMA RequestEffect ==
  ASSUME NEW c \in Clients, IInv, RequestWrite(c)
  PROVE  /\ UNCHANGED ledger
         /\ Owner(c) \in Users /\ call[c].type \in Types /\ Amount(c) \in 1..Limit
         /\ \E w \in WalletIds, r \in RequestIds :
              /\ requests[r] = None
              /\ requests' = [requests EXCEPT ![r] =
                   [user |-> Owner(c), wallet |-> w, type |-> call[c].type,
                    amount |-> Amount(c), status |-> "PENDING"]]
              /\ actions' = Noted(r, "CREATED", call[c].actor, None)
              /\ \/ UNCHANGED wallets
                 \/ Saved(c, w, 0, 0) /\ Visible(w) = Zero
<1>1. /\ pc[c] = "write" /\ Handler(c) = "request" /\ Secured(c) /\ UNCHANGED ledger
  BY DEF RequestWrite, Writing, IInv, AllSecured, Active
<1>2. PICK w \in Target(c), r \in RequestIds \ usedRequests :
        /\ \/ mine[c] = None /\ SaveWallet(c, w, 0, 0)
           \/ mine[c] # None /\ UNCHANGED wallets
        /\ requests' = [requests EXCEPT ![r] =
             [user |-> Owner(c), wallet |-> w, type |-> call[c].type,
              amount |-> Amount(c), status |-> "PENDING"]]
        /\ actions' = Noted(r, "CREATED", call[c].actor, None)
  BY DEF RequestWrite, Record, Noted
<1>3. /\ Owner(c) \in Users /\ call[c].type \in Types /\ w \in WalletIds
      /\ Amount(c) \in Nat /\ Amount(c) # 0
  BY <1>1, <1>2, WritingTypes DEF IInv
<1>4. Amount(c) <= Limit
  <2>1. Running(c) /\ row[c] = None
    BY <1>1 DEF IInv, Control, ControlOf, Running, Active, ByUser
  <2>. QED
    BY <1>3, <2>1, NoneAssumption DEF Running, Admissible, Amount
<1>5. requests[r] = None
  BY <1>2 DEF IInv, Tables, RequestsHaveWallets
<1>8. Amount(c) \in 1..Limit
  BY <1>3, <1>4, LimitAssumption
<1>6. CASE mine[c] = None
  <2>1. SaveWallet(c, w, 0, 0) /\ wallets[w] = None
    BY <1>2, <1>6 DEF Target
  <2>2. Holds(c, w) /\ Visible(w) = Zero
    BY <1>1, <1>6, <2>1 DEF Secured, Holds, ByUser, Visible
  <2>3. Saved(c, w, 0, 0)
    BY <1>3, <2>1, <2>2 DEF Saved
  <2>. QED
    BY <1>1, <1>2, <1>3, <1>5, <1>8, <2>2, <2>3
<1>7. CASE mine[c] # None
  BY <1>1, <1>2, <1>3, <1>5, <1>7, <1>8
<1>. QED
  BY <1>6, <1>7

\* what a decision finds: its request is pending and its wallet the one locked
LEMMA DecisionFinds ==
  ASSUME NEW c \in Clients, IInv, pc[c] = "write", Handler(c) \in ByDecision
  PROVE  LET r == call[c].request IN
         /\ r \in RequestIds
         /\ requests[r] \in Request /\ requests[r] # None
         /\ requests[r] = row[c]
         /\ requests[r].status = "PENDING"
         /\ requests[r].user = Owner(c) /\ requests[r].amount = Amount(c)
         /\ mine[c] = requests[r].wallet /\ mine[c] # None
         /\ mine[c] \in WalletsOf(Owner(c))
         /\ balance[c] = Visible(mine[c])
<1> DEFINE r == call[c].request
<1>1. Secured(c)
  BY DEF IInv, AllSecured, Active
<1>2. r \in RequestIds /\ row[c] \in Request /\ row[c] # None
  BY WritingTypes, NoneAssumption DEF IInv
<1>3. requests[r] = row[c] /\ requests[r].status = "PENDING"
  BY <1>1 DEF Secured
<1>4. Owner(c) = row[c].user /\ Amount(c) = row[c].amount
  BY <1>2 DEF Owner, Amount
<1>5. mine[c] # None /\ mine[c] \in WalletsOf(Owner(c))
  BY <1>1 DEF Secured
<1>6. requests[r].wallet \in WalletsOf(Owner(c))
  BY <1>2, <1>3, <1>4 DEF IInv, Tables, RequestsHaveWallets
<1>7. mine[c] = requests[r].wallet
  BY <1>5, <1>6 DEF WalletsOf, IInv, Tables, OneWalletPerOwner
<1>8. balance[c] = Visible(mine[c])
  <2>1. Handler(c) # "request"
    BY DEF ByDecision
  <2>2. balance[c] = Balances(mine[c])
    BY <1>1, <1>5, <2>1 DEF Secured
  <2>. QED
    BY <1>5, <2>2 DEF WalletsOf, Visible
<1>. QED
  BY <1>2, <1>3, <1>4, <1>5, <1>7, <1>8

LEMMA AcceptEffect ==
  ASSUME NEW c \in Clients, IInv, AcceptWrite(c)
  PROVE  LET r == call[c].request
             w == requests[r].wallet
             n == Len(ledger[w]["MAIN"]) + 1
         IN /\ r \in RequestIds
            /\ requests[r] \in Request /\ requests[r] # None
            /\ requests[r].status = "PENDING"
            /\ requests[r].user = Owner(c)
            /\ requests' = [requests EXCEPT ![r] = [@ EXCEPT !.status = "ACCEPTED"]]
            /\ actions' = Noted(r, "ACCEPTED", call[c].actor, None)
            /\ \/ /\ Saved(c, w, Visible(w).main + requests[r].amount, Visible(w).temp)
                  /\ Visible(w).main + requests[r].amount <= Limit
               \/ /\ Saved(c, w, Visible(w).main - requests[r].amount, Visible(w).temp)
                  /\ requests[r].type = "WITHDRAW"
                  /\ requests[r].amount <= Visible(w).main
                  /\ Visible(w).main <= Limit
            /\ Grows(ledger, ledger')
            /\ EntriesIn(ledger', r) = EntriesIn(ledger, r) \cup {<<w, "MAIN", n>>}
            /\ ledger'[w]["MAIN"][n].amount = requests[r].amount
            /\ \A q \in RequestIds \ {r} : EntriesIn(ledger', q) = EntriesIn(ledger, q)
<1> DEFINE r == call[c].request
           w == mine[c]
           n == Len(ledger[w]["MAIN"]) + 1
           before == balance[c].main
           temp == balance[c].temp
           after == IF IsCredit(c) THEN before + Amount(c) ELSE before - Amount(c)
           e == IF IsCredit(c)
                THEN NewEntry("CREDIT", "ADMIN_ADD", Amount(c), before, after, r)
                ELSE NewEntry("DEBIT", "WITHDRAW", Amount(c), before, after, r)
<1>1. /\ pc[c] = "write" /\ Handler(c) \in {"accept", "acceptOwn"}
      /\ Handler(c) \in ByDecision /\ ~Refused(c) /\ Secured(c)
      /\ actions' = Noted(r, "ACCEPTED", call[c].actor, None)
  BY DEF AcceptWrite, Writing, IInv, AllSecured, Active, ByDecision, Record, Noted
<1>2. /\ r \in RequestIds
      /\ requests[r] \in Request /\ requests[r] # None /\ requests[r] = row[c]
      /\ requests[r].status = "PENDING"
      /\ requests[r].user = Owner(c) /\ requests[r].amount = Amount(c)
      /\ w = requests[r].wallet /\ w # None
      /\ w \in WalletsOf(Owner(c)) /\ balance[c] = Visible(w)
  BY <1>1, DecisionFinds
<1>3. /\ SaveWallet(c, w, after, temp)
      /\ requests' = [requests EXCEPT ![r] =
           [row[c] EXCEPT !.wallet = w, !.status = "ACCEPTED"]]
      /\ Post(w, "MAIN", e)
  BY <1>2 DEF AcceptWrite, Target
<1>4. w \in WalletIds /\ Holds(c, w)
  BY <1>1, <1>2, WriterHolds DEF IInv, WalletsOf, Target
<1>5. before \in Nat /\ Amount(c) \in Nat /\ temp \in Nat /\ before <= Limit
  BY <1>1, <1>2, <1>4, WritingTypes, LimitAssumption
     DEF IInv, Tables, BalancesInRange, Visible, Zero
<1>6. /\ IsCredit(c) => after = before + Amount(c) /\ after <= Limit
      /\ ~IsCredit(c) => /\ after = before - Amount(c) /\ Amount(c) <= before
                         /\ requests[r].type = "WITHDRAW"
      /\ after \in Nat
  <2>1. IF IsCredit(c) THEN ~(before + Amount(c) > Limit) ELSE ~(before < Amount(c))
    BY <1>1 DEF Refused
  <2>2. ~IsCredit(c) => requests[r].type = "WITHDRAW"
    BY <1>2 DEF IsCredit, Request, Types
  <2>. QED
    BY <1>5, <2>1, <2>2, LimitAssumption
<1>7. e \in Entry /\ e.request = r /\ e.amount = requests[r].amount
  BY <1>2, <1>5, <1>6 DEF NewEntry, Entry, Sources
<1>8. [row[c] EXCEPT !.wallet = w, !.status = "ACCEPTED"] =
        [requests[r] EXCEPT !.status = "ACCEPTED"]
  BY <1>2 DEF Request
<1>9. requests' = [requests EXCEPT ![r] = [@ EXCEPT !.status = "ACCEPTED"]]
  BY <1>2, <1>3, <1>8
<1>10. Saved(c, w, after, temp)
  BY <1>3, <1>4, <1>5, <1>6 DEF Saved
<1>11. ledger \in Ledgers /\ ledger' = Posted(ledger, w, "MAIN", e)
  BY <1>3 DEF IInv, TypeOK, DbTypeOK, Ledgers, Post, Posted
<1>. HIDE DEF e, after
<1>12. /\ Grows(ledger, ledger')
       /\ ledger'[w]["MAIN"][n] = e
       /\ \A q : EntriesIn(ledger', q) = EntriesIn(ledger, q) \cup
            (IF e.request = q THEN {<<w, "MAIN", n>>} ELSE {})
  BY <1>4, <1>7, <1>11, PostedLedger DEF Buckets
<1>13. /\ EntriesIn(ledger', r) = EntriesIn(ledger, r) \cup {<<w, "MAIN", n>>}
       /\ \A q \in RequestIds \ {r} : EntriesIn(ledger', q) = EntriesIn(ledger, q)
  BY <1>7, <1>12
<1>14. ledger'[w]["MAIN"][n].amount = requests[r].amount
  BY <1>7, <1>12
<1>15. \/ /\ Saved(c, w, Visible(w).main + requests[r].amount, Visible(w).temp)
          /\ Visible(w).main + requests[r].amount <= Limit
       \/ /\ Saved(c, w, Visible(w).main - requests[r].amount, Visible(w).temp)
          /\ requests[r].type = "WITHDRAW"
          /\ requests[r].amount <= Visible(w).main
          /\ Visible(w).main <= Limit
  BY <1>2, <1>5, <1>6, <1>10
<1>. QED
  BY <1>1, <1>2, <1>9, <1>12, <1>13, <1>14, <1>15

LEMMA RejectEffect ==
  ASSUME NEW c \in Clients, IInv, RejectWrite(c)
  PROVE  LET r == call[c].request
             w == requests[r].wallet
         IN /\ UNCHANGED <<wallets, ledger>>
            /\ r \in RequestIds
            /\ requests[r] \in Request /\ requests[r] # None
            /\ requests[r].status = "PENDING"
            /\ w \in WalletsOf(requests[r].user)
            /\ requests' = [requests EXCEPT ![r] = [@ EXCEPT !.status = "REJECTED"]]
            /\ actions' = Noted(r, "REJECTED", call[c].actor, wallets[w].main)
<1> DEFINE r == call[c].request
<1>1. /\ pc[c] = "write" /\ Handler(c) \in ByDecision
      /\ UNCHANGED <<wallets, ledger>>
      /\ requests' = [requests EXCEPT ![r] = [row[c] EXCEPT !.status = "REJECTED"]]
      /\ actions' = Noted(r, "REJECTED", call[c].actor, balance[c].main)
  BY DEF RejectWrite, Writing, ByDecision, Record, Noted
<1>2. /\ r \in RequestIds
      /\ requests[r] \in Request /\ requests[r] # None /\ requests[r] = row[c]
      /\ requests[r].status = "PENDING"
      /\ requests[r].user = Owner(c)
      /\ mine[c] = requests[r].wallet
      /\ mine[c] \in WalletsOf(Owner(c)) /\ balance[c] = Visible(mine[c])
  BY <1>1, DecisionFinds
<1>3. balance[c].main = wallets[mine[c]].main
  BY <1>2 DEF Visible, WalletsOf
<1>. QED
  BY <1>1, <1>2, <1>3

LEMMA DeleteEffect ==
  ASSUME NEW c \in Clients, IInv, DeleteWrite(c)
  PROVE  LET r == call[c].request IN
         /\ UNCHANGED wallets
         /\ r \in RequestIds
         /\ requests'[r] = None /\ actions'[r] = << >> /\ EntriesIn(ledger', r) = {}
         /\ Grows(ledger, ledger')
         /\ \A q \in RequestIds \ {r} : Untouched(q)
<1> DEFINE r == call[c].request
<1>1. /\ pc[c] = "write" /\ Handler(c) \in ByRequest /\ UNCHANGED wallets
      /\ requests' = [requests EXCEPT ![r] = None]
      /\ actions' = [actions EXCEPT ![r] = << >>]
      /\ ledger' = [w \in WalletIds |-> [b \in Buckets |-> Detached(ledger[w][b], r)]]
  BY DEF DeleteWrite, Writing, ByRequest
<1>2. r \in RequestIds
  BY <1>1, WritingTypes DEF IInv
<1>3. ledger \in Ledgers
  BY DEF IInv, TypeOK, DbTypeOK, Ledgers
<1>4. /\ Grows(ledger, ledger') /\ EntriesIn(ledger', r) = {}
      /\ \A q \in RequestIds \ {r} : EntriesIn(ledger', q) = EntriesIn(ledger, q)
  BY <1>1, <1>2, <1>3, DetachedLedger
<1>5. /\ requests'[r] = None /\ actions'[r] = << >>
      /\ \A q \in RequestIds \ {r} : requests'[q] = requests[q] /\ actions'[q] = actions[q]
  BY <1>1, <1>2 DEF IInv, TypeOK, DbTypeOK
<1>6. \A q \in RequestIds \ {r} : EntriesOf(q)' = EntriesOf(q)
  <2>1. \A q : EntriesOf(q) = EntriesIn(ledger, q) /\ EntriesOf(q)' = EntriesIn(ledger', q)
    BY EntriesAreIn
  <2>. QED
    BY <1>4, <2>1
<1>. QED
  BY <1>1, <1>2, <1>4, <1>5, <1>6 DEF Untouched

LEMMA StepSplits ==
  ASSUME NEW c \in Clients, Start(c) \/ Step(c) \/ Crash(c) \/ DeadlockVictim(c)
  PROVE  \/ UNCHANGED db
         \/ CreateWrite(c) \/ TransferWrite(c) \/ BetWrite(c) \/ WinWrite(c)
         \/ RequestWrite(c) \/ AcceptWrite(c) \/ RejectWrite(c)
         \/ EditWrite(c) \/ EditInsert(c) \/ DeleteWrite(c)
<1>1. Rollback(c) => UNCHANGED db
  BY DEF Rollback
<1>2. CASE Start(c)
  BY <1>1, <1>2 DEF Start
<1>3. CASE LockUser(c) \/ ReadWallet(c) \/ LockRequest(c) \/ LockWallet(c) \/ Refuse(c)
  BY <1>1, <1>3 DEF LockUser, ReadWallet, LockRequest, LockWallet, Refuse
<1>4. CASE ReadRequest(c) \/ SelectRequest(c)
  BY <1>1, <1>4 DEF ReadRequest, SelectRequest
<1>5. CASE Crash(c) \/ DeadlockVictim(c)
  BY <1>1, <1>5 DEF Crash, DeadlockVictim
<1>. QED
  BY <1>2, <1>3, <1>4, <1>5 DEF Step, Write

-----------------------------------------------------------------------------
(* Winnings that leave their bucket. *)

Conserves == \A w \in WalletIds :
  wallets[w] # None /\ wallets'[w].temp < wallets[w].temp =>
    /\ wallets'[w].temp = 0
    /\ wallets'[w].main = wallets[w].main + wallets[w].temp

LEMMA SavedWallet ==
  ASSUME NEW c \in Clients, NEW w \in WalletIds, NEW main, NEW temp, TypeOK,
         Saved(c, w, main, temp)
  PROVE  /\ wallets'[w] = [owner |-> Owner(c), main |-> main, temp |-> temp]
         /\ \A v \in WalletIds \ {w} : wallets'[v] = wallets[v]
BY DEF Saved, SaveWallet, TypeOK, DbTypeOK

LEMMA SavedConserves ==
  ASSUME NEW c \in Clients, NEW w \in WalletIds, NEW main, NEW temp, TypeOK,
         Saved(c, w, main, temp),
         \/ temp >= Visible(w).temp
         \/ temp = 0 /\ main = Visible(w).main + Visible(w).temp
  PROVE  Conserves
<1>1. ASSUME NEW v \in WalletIds, wallets[v] # None,
             wallets'[v].temp < wallets[v].temp
      PROVE  /\ wallets'[v].temp = 0
             /\ wallets'[v].main = wallets[v].main + wallets[v].temp
  <2>1. wallets[v].temp \in Nat
    BY <1>1 DEF TypeOK, DbTypeOK, Wallet
  <2>0. /\ wallets'[w] = [owner |-> Owner(c), main |-> main, temp |-> temp]
        /\ v # w => wallets'[v] = wallets[v]
    BY SavedWallet
  <2>2. v = w
    BY <1>1, <2>0, <2>1
  <2>3. /\ wallets'[w].main = main /\ wallets'[w].temp = temp
        /\ Visible(w).main = wallets[w].main /\ Visible(w).temp = wallets[w].temp
    BY <1>1, <2>0, <2>2 DEF Visible
  <2>4. temp \in Nat
    BY DEF Saved
  <2>. QED
    BY <1>1, <2>1, <2>2, <2>3, <2>4
<1>. QED
  BY <1>1 DEF Conserves

LEMMA SameWalletsConserve ==
  ASSUME TypeOK, UNCHANGED wallets
  PROVE  Conserves
BY DEF Conserves, TypeOK, DbTypeOK, Wallet

LEMMA ShownTypes ==
  ASSUME TypeOK, NEW w \in WalletIds
  PROVE  Visible(w).main \in Nat /\ Visible(w).temp \in Nat
BY DEF TypeOK, DbTypeOK, Wallet, Visible, Zero

LEMMA StepConserves == IInv /\ [Next]_vars => [Conserves]_vars
<1>. SUFFICES ASSUME IInv, Next PROVE Conserves
  OBVIOUS
<1>. TypeOK
  BY DEF IInv
<1>1. ASSUME NEW c \in Clients, Start(c) \/ Step(c) \/ Crash(c) \/ DeadlockVictim(c)
      PROVE  Conserves
  <2>1. CASE CreateWrite(c)
    <3>1. Amount(c) \in Nat
      BY <2>1, CreateEffect
    <3>. QED
      BY <2>1, CreateEffect, SavedConserves, ShownTypes
  <2>2. CASE TransferWrite(c)
    BY <2>2, TransferEffect, SavedConserves
  <2>3. CASE BetWrite(c)
    <3>1. PICK w \in WalletIds : /\ Visible(w).temp = 0
                                 /\ Saved(c, w, Visible(w).main - Amount(c), 0)
      BY <2>3, BetEffect
    <3>. QED
      BY <3>1, SavedConserves
  <2>4. CASE WinWrite(c)
    <3>1. PICK w \in WalletIds : Saved(c, w, Visible(w).main, Visible(w).temp + Amount(c))
      BY <2>4, WinEffect
    <3>2. Amount(c) \in Nat /\ Visible(w).temp \in Nat
      BY <2>4, WinEffect, ShownTypes
    <3>. QED
      BY <3>1, <3>2, SavedConserves
  <2>5. CASE RequestWrite(c)
    <3>1. PICK w \in WalletIds :
            UNCHANGED wallets \/ (Saved(c, w, 0, 0) /\ Visible(w) = Zero)
      BY <2>5, RequestEffect
    <3>. QED
      BY <3>1, SavedConserves, SameWalletsConserve DEF Zero
  <2>6. CASE AcceptWrite(c)
    <3> DEFINE w == requests[call[c].request].wallet
    <3>1. \E main : Saved(c, w, main, Visible(w).temp)
      BY <2>6, AcceptEffect
    <3>2. w \in WalletIds
      BY <3>1 DEF Saved
    <3>. QED
      BY <3>1, <3>2, SavedConserves, ShownTypes
  <2>7. CASE RejectWrite(c) \/ EditWrite(c) \/ EditInsert(c) \/ DeleteWrite(c)
    <3>1. UNCHANGED wallets
      BY <2>7 DEF RejectWrite, EditWrite, EditInsert, DeleteWrite, Rollback, db
    <3>. QED
      BY <3>1, SameWalletsConserve
  <2>8. CASE UNCHANGED db
    BY <2>8, SameWalletsConserve DEF db
  <2>. QED
    BY <1>1, <2>1, <2>2, <2>3, <2>4, <2>5, <2>6, <2>7, <2>8, StepSplits
<1>2. CASE Terminating
  BY <1>2, SameWalletsConserve DEF Terminating, vars, db
<1>. QED
  BY <1>1, <1>2 DEF Next

\* Whatever races a transfer, winnings leave their bucket only for the main balance
\* of the same wallet and to the last cent: what transferTemporaryWinnings commits
\* was computed from balances no other call changed meanwhile.
THEOREM TransfersConserve == Spec => TransferConserves
<1>1. IInv /\ [Next]_vars => [Conserves]_vars
  BY StepConserves
<1>. QED
  BY <1>1, Safety, PTL DEF Spec, TransferConserves, Conserves

-----------------------------------------------------------------------------
(* What an acceptance books. *)

BooksCurrent == \A r \in RequestIds : \A e \in EntriesOf(r)' :
  e \notin EntriesOf(r) =>
    /\ requests[r] # None
    /\ requests[r].status = "PENDING"
    /\ ledger'[e[1]][e[2]][e[3]].amount = requests[r].amount

LEMMA StepBooksCurrent == IInv /\ [Next]_vars => [BooksCurrent]_vars
<1>. SUFFICES ASSUME IInv, Next PROVE BooksCurrent
  OBVIOUS
<1>1. ASSUME \A r \in RequestIds : EntriesOf(r)' \subseteq EntriesOf(r)
      PROVE  BooksCurrent
  BY <1>1 DEF BooksCurrent
<1>2. UNCHANGED ledger => BooksCurrent
  BY <1>1 DEF EntriesOf
<1>3. ASSUME NEW c \in Clients, Start(c) \/ Step(c) \/ Crash(c) \/ DeadlockVictim(c)
      PROVE  BooksCurrent
  <2>1. CASE CreateWrite(c) \/ TransferWrite(c) \/ BetWrite(c) \/ WinWrite(c)
    <3>1. KeepsRequests
      BY <2>1, CreateEffect, TransferEffect, BetEffect, WinEffect
    <3>. QED
      BY <1>1, <3>1 DEF KeepsRequests, Untouched
  <2>2. CASE AcceptWrite(c)
    <3> DEFINE r == call[c].request
               w == requests[r].wallet
               n == Len(ledger[w]["MAIN"]) + 1
    <3>1. /\ r \in RequestIds /\ requests[r] # None /\ requests[r].status = "PENDING"
          /\ EntriesIn(ledger', r) = EntriesIn(ledger, r) \cup {<<w, "MAIN", n>>}
          /\ ledger'[w]["MAIN"][n].amount = requests[r].amount
          /\ \A q \in RequestIds \ {r} : EntriesIn(ledger', q) = EntriesIn(ledger, q)
      BY <2>2, AcceptEffect
    <3>. HIDE DEF r, w, n
    <3>2. ASSUME NEW q \in RequestIds, NEW e \in EntriesIn(ledger', q),
                 e \notin EntriesIn(ledger, q)
          PROVE  q = r /\ e = <<w, "MAIN", n>>
      BY <3>1, <3>2
    <3>3. \A q : EntriesOf(q) = EntriesIn(ledger, q) /\ EntriesOf(q)' = EntriesIn(ledger', q)
      BY EntriesAreIn
    <3>. QED
      BY <3>1, <3>2, <3>3 DEF BooksCurrent
  <2>3. CASE DeleteWrite(c)
    <3> DEFINE r == call[c].request
    <3>1. /\ r \in RequestIds /\ EntriesIn(ledger', r) = {}
          /\ \A q \in RequestIds \ {r} : Untouched(q)
      BY <2>3, DeleteEffect
    <3>2. \A q : EntriesOf(q)' = EntriesIn(ledger', q)
      BY EntriesAreIn
    <3>3. \A q \in RequestIds : EntriesOf(q)' \subseteq EntriesOf(q)
      BY <3>1, <3>2 DEF Untouched
    <3>. QED
      BY <1>1, <3>3
  <2>4. CASE RequestWrite(c) \/ RejectWrite(c) \/ EditWrite(c) \/ EditInsert(c)
    <3>1. UNCHANGED ledger
      BY <2>4 DEF RequestWrite, RejectWrite, EditWrite, EditInsert, Rollback, db
    <3>. QED
      BY <1>2, <3>1
  <2>. QED
    BY <1>2, <1>3, <2>1, <2>2, <2>3, <2>4, StepSplits DEF db
<1>4. CASE Terminating
  BY <1>2, <1>4 DEF Terminating, vars, db
<1>. QED
  BY <1>3, <1>4 DEF Next

\* An acceptance books the amount its request has when it commits, and the request
\* is pending then, although edits and deletions run without locks: the request
\* stays locked from the read in approveWalletRequest to the commit.
THEOREM AcceptancesBookCurrent == Spec => AcceptanceBooksCurrentAmount
<1>1. IInv /\ [Next]_vars => [BooksCurrent]_vars
  BY StepBooksCurrent
<1>. QED
  BY <1>1, Safety, PTL DEF Spec, AcceptanceBooksCurrentAmount, BooksCurrent

-----------------------------------------------------------------------------
(* Requests that are decided once, of calls without edits. *)

\* no client ever edits a request
NoEdits == \A c \in Clients : \A k \in CallsOf[c] : k.handler # "edit"

\* a handler serves a call its client may make
ServesCalls == \A c \in Clients : pc[c] \in Active => call[c] \in CallsOf[c]

\* a request without a row has no history left
Forgotten(r) == requests[r] = None => actions[r] = << >> /\ EntriesOf(r) = {}

Once(r) == \A i, j \in DOMAIN actions[r] :
  IsDecision(actions[r][i]) /\ IsDecision(actions[r][j]) => i = j

Booked(r) == requests[r] # None =>
  LET q == requests[r] IN
  /\ q.status = "ACCEPTED" <=> Decided(r, "ACCEPTED")
  /\ q.status = "ACCEPTED" <=> EntriesOf(r) # {}
  /\ q.status = "REJECTED" <=> Decided(r, "REJECTED")
  /\ \A e \in EntriesOf(r) :
       /\ EntriesOf(r) = {e}
       /\ e[1] = q.wallet
       /\ e[2] = "MAIN"
       /\ ledger[e[1]][e[2]][e[3]].amount = q.amount

DecisionInv ==
  /\ ServesCalls
  /\ \A r \in RequestIds : Forgotten(r) /\ Once(r) /\ Booked(r)

LEMMA StepServes ==
  ASSUME NEW c \in Clients, IInv, ServesCalls,
         Start(c) \/ Step(c) \/ Crash(c) \/ DeadlockVictim(c)
  PROVE  ServesCalls'
<1>. TypeOK /\ Control
  BY DEF IInv
<1>1. Rollback(c) => pc'[c] \notin Active
  BY RollbackStaysOff
<1>2. End(c, "done") => pc'[c] \notin Active
  BY EndReleases DEF Ended
<1>3. CASE Start(c)
  <2>1. ASSUME ~Rollback(c)
        PROVE  call'[c] \in CallsOf[c]
    <3>1. PICK k \in CallsOf[c] : call' = [call EXCEPT ![c] = k]
      BY <1>3, <2>1 DEF Start
    <3>. QED
      BY <3>1 DEF TypeOK, SessionTypeOK
  <2>2. pc'[c] \in Active => call'[c] \in CallsOf[c]
    BY <1>1, <2>1
  <2>3. OthersKeepLocals(c)
    BY StepKeeps
  <2>. QED
    BY <2>2, <2>3 DEF ServesCalls, OthersKeepLocals, Local
<1>4. CASE ~Start(c)
  <2>1. pc[c] \in Active /\ (call' = call \/ pc'[c] \notin Active)
    <3>1. CASE Crash(c) \/ DeadlockVictim(c) \/ Refuse(c)
      BY <1>1, <3>1 DEF Crash, DeadlockVictim, Refuse, Active
    <3>2. CASE LockUser(c) \/ ReadWallet(c) \/ LockRequest(c)
      BY <1>1, <3>2 DEF LockUser, ReadWallet, LockRequest, Active, locals
    <3>3. CASE LockWallet(c) \/ ReadRequest(c) \/ SelectRequest(c)
      BY <1>1, <1>2, <3>3 DEF LockWallet, ReadRequest, SelectRequest, Active, locals
    <3>4. CASE Write(c)
      BY <1>1, <1>2, <3>4 DEF Write, CreateWrite, TransferWrite, RequestWrite, AcceptWrite,
        RejectWrite, BetWrite, WinWrite, EditWrite, EditInsert, DeleteWrite, Writing,
        Active
    <3>. QED
      BY <1>4, <3>1, <3>2, <3>3, <3>4 DEF Step
  <2>2. OthersKeepLocals(c)
    BY StepKeeps
  <2>. QED
    BY <2>1, <2>2 DEF ServesCalls, OthersKeepLocals, Local
<1>. QED
  BY <1>3, <1>4

LEMMA UntouchedKeeps ==
  ASSUME NEW r \in RequestIds, Untouched(r), Grows(ledger, ledger'),
         Forgotten(r), Once(r), Booked(r)
  PROVE  Forgotten(r)' /\ Once(r)' /\ Booked(r)'
<1>1. requests'[r] = requests[r] /\ actions'[r] = actions[r] /\ EntriesOf(r)' = EntriesOf(r)
  BY DEF Untouched
<1>2. \A e \in EntriesOf(r) :
        ledger'[e[1]][e[2]][e[3]].amount = ledger[e[1]][e[2]][e[3]].amount
  <2>1. ASSUME NEW e \in EntriesOf(r)
        PROVE  ledger'[e[1]][e[2]][e[3]].amount = ledger[e[1]][e[2]][e[3]].amount
    <3>1. PICK w \in WalletIds, b \in Buckets : \E i \in DOMAIN ledger[w][b] :
            e = <<w, b, i>> /\ ledger[w][b][i].request = r
      BY <2>1, EntryIn, EntriesAreIn
    <3>2. PICK i \in DOMAIN ledger[w][b] : e = <<w, b, i>>
      BY <3>1
    <3>3. ledger'[w][b][i].amount = ledger[w][b][i].amount
      BY DEF Grows
    <3>. QED
      BY <3>2, <3>3
  <2>. QED
    BY <2>1
<1>3. Forgotten(r)'
  BY <1>1 DEF Forgotten
<1>4. Once(r)'
  BY <1>1 DEF Once
<1>5. Booked(r)'
  BY <1>1, <1>2 DEF Booked, Decided
<1>. QED
  BY <1>3, <1>4, <1>5

\* a pending request that has one action more
LEMMA NotedActions ==
  ASSUME TypeOK, NEW r \in RequestIds, NEW action, NEW by, NEW shown,
         actions' = Noted(r, action, by, shown)
  PROVE  /\ \A q \in RequestIds \ {r} : actions'[q] = actions[q]
         /\ Len(actions[r]) \in Nat
         /\ DOMAIN actions[r] = 1..Len(actions[r])
         /\ Len(actions'[r]) = Len(actions[r]) + 1
         /\ DOMAIN actions'[r] = DOMAIN actions[r] \cup {Len(actions[r]) + 1}
         /\ \A i \in DOMAIN actions[r] : actions'[r][i] = actions[r][i]
         /\ actions'[r][Len(actions[r]) + 1].action = action
         /\ actions'[r][Len(actions[r]) + 1].before = shown
<1> DEFINE d == [action |-> action, by |-> by, before |-> shown, after |-> shown]
<1>1. /\ \A q \in RequestIds \ {r} : actions'[q] = actions[q]
      /\ actions'[r] = Append(actions[r], d)
      /\ actions[r] \in Seq(Decision)
  BY DEF Noted, TypeOK, DbTypeOK
<1>. HIDE DEF d
<1>2. /\ Len(actions[r]) \in Nat
      /\ DOMAIN actions[r] = 1..Len(actions[r])
      /\ Len(actions'[r]) = Len(actions[r]) + 1
      /\ DOMAIN actions'[r] = DOMAIN actions[r] \cup {Len(actions[r]) + 1}
      /\ \A i \in DOMAIN actions[r] : actions'[r][i] = actions[r][i]
      /\ actions'[r][Len(actions[r]) + 1] = d
  BY <1>1
<1>. QED
  BY <1>1, <1>2 DEF d

LEMMA StatusSet ==
  ASSUME NEW q \in Request, NEW s \in Statuses
  PROVE  LET d == [q EXCEPT !.status = s] IN
         /\ d # None /\ d.status = s
         /\ d.wallet = q.wallet /\ d.amount = q.amount
<1>1. [q EXCEPT !.status = s] \in Request
  BY DEF Request
<1>. QED
  BY <1>1, NoneAssumption DEF Request

LEMMA PendingIsUndecided ==
  ASSUME NEW r \in RequestIds, Booked(r), requests[r] # None,
         requests[r].status = "PENDING"
  PROVE  /\ EntriesOf(r) = {}
         /\ \A i \in DOMAIN actions[r] : ~IsDecision(actions[r][i])
BY DEF Booked, Decided, IsDecision

LEMMA AcceptKeeps ==
  ASSUME NEW c \in Clients, IInv, DecisionInv, AcceptWrite(c), NEW q \in RequestIds
  PROVE  Forgotten(q)' /\ Once(q)' /\ Booked(q)'
<1> DEFINE r == call[c].request
           w == requests[r].wallet
           n == Len(ledger[w]["MAIN"]) + 1
<1>. TypeOK
  BY DEF IInv
<1>1. /\ r \in RequestIds
      /\ requests[r] \in Request /\ requests[r] # None
      /\ requests[r].status = "PENDING"
      /\ requests' = [requests EXCEPT ![r] = [@ EXCEPT !.status = "ACCEPTED"]]
      /\ actions' = Noted(r, "ACCEPTED", call[c].actor, None)
      /\ Grows(ledger, ledger')
      /\ EntriesIn(ledger', r) = EntriesIn(ledger, r) \cup {<<w, "MAIN", n>>}
      /\ ledger'[w]["MAIN"][n].amount = requests[r].amount
      /\ \A s \in RequestIds \ {r} : EntriesIn(ledger', s) = EntriesIn(ledger, s)
  BY AcceptEffect
<1>2. /\ requests'[r] = [requests[r] EXCEPT !.status = "ACCEPTED"]
      /\ \A s \in RequestIds \ {r} : requests'[s] = requests[s]
  BY <1>1 DEF TypeOK, DbTypeOK
<1>3. /\ requests'[r] # None /\ requests'[r].status = "ACCEPTED"
      /\ requests'[r].wallet = w /\ requests'[r].amount = requests[r].amount
  <2>. HIDE DEF r
  <2>1. requests[r] \in Request /\ "ACCEPTED" \in Statuses
    BY <1>1 DEF Statuses
  <2>2. requests'[r] = [requests[r] EXCEPT !.status = "ACCEPTED"]
    BY <1>2
  <2>. QED
    BY <2>1, <2>2, StatusSet
<1>. HIDE DEF r, w, n
<1>4. \A s : EntriesOf(s) = EntriesIn(ledger, s) /\ EntriesOf(s)' = EntriesIn(ledger', s)
  BY EntriesAreIn
<1>5. CASE q # r
  <2>1. actions'[q] = actions[q]
    BY <1>1, <1>5, NotedActions
  <2>2. Untouched(q)
    BY <1>1, <1>2, <1>4, <1>5, <2>1 DEF Untouched
  <2>. QED
    BY <1>1, <2>2, UntouchedKeeps DEF DecisionInv
<1>6. CASE q = r
  <2>1. EntriesOf(r) = {} /\ \A i \in DOMAIN actions[r] : ~IsDecision(actions[r][i])
    BY <1>1, PendingIsUndecided DEF DecisionInv
  <2>2. EntriesOf(q)' = {<<w, "MAIN", n>>}
    BY <1>1, <1>4, <1>6, <2>1
  <2> DEFINE m == Len(actions[r]) + 1
  <2>3. /\ DOMAIN actions'[r] = DOMAIN actions[r] \cup {m}
        /\ \A i \in DOMAIN actions[r] : actions'[r][i] = actions[r][i]
        /\ actions'[r][m].action = "ACCEPTED"
    BY <1>1, NotedActions
  <2>. HIDE DEF m
  <2>4. Once(q)'
    BY <1>6, <2>1, <2>3 DEF Once, IsDecision
  <2>5. Decided(q, "ACCEPTED")' /\ ~Decided(q, "REJECTED")'
    BY <1>6, <2>1, <2>3 DEF Decided, IsDecision
  <2>6. Booked(q)'
    BY <1>1, <1>3, <1>6, <2>2, <2>5 DEF Booked
  <2>. QED
    BY <1>3, <1>6, <2>4, <2>6 DEF Forgotten
<1>. QED
  BY <1>5, <1>6

LEMMA RejectKeeps ==
  ASSUME NEW c \in Clients, IInv, DecisionInv, RejectWrite(c), NEW q \in RequestIds
  PROVE  Forgotten(q)' /\ Once(q)' /\ Booked(q)'
<1> DEFINE r == call[c].request
           shown == wallets[requests[r].wallet].main
<1>. TypeOK
  BY DEF IInv
<1>1. /\ UNCHANGED ledger /\ r \in RequestIds
      /\ requests[r] \in Request /\ requests[r] # None
      /\ requests[r].status = "PENDING"
      /\ requests' = [requests EXCEPT ![r] = [@ EXCEPT !.status = "REJECTED"]]
      /\ actions' = Noted(r, "REJECTED", call[c].actor, shown)
  BY RejectEffect
<1>2. /\ requests'[r] = [requests[r] EXCEPT !.status = "REJECTED"]
      /\ \A s \in RequestIds \ {r} : requests'[s] = requests[s]
  BY <1>1 DEF TypeOK, DbTypeOK
<1>3. requests'[r] # None /\ requests'[r].status = "REJECTED"
  BY <1>1, <1>2, StatusSet DEF Statuses
<1>. HIDE DEF r, shown
<1>4. Grows(ledger, ledger') /\ \A s : EntriesOf(s)' = EntriesOf(s)
  BY <1>1, UntouchedLedger
<1>5. CASE q # r
  <2>1. actions'[q] = actions[q]
    BY <1>1, <1>5, NotedActions
  <2>2. Untouched(q)
    BY <1>2, <1>4, <1>5, <2>1 DEF Untouched
  <2>. QED
    BY <1>4, <2>2, UntouchedKeeps DEF DecisionInv
<1>6. CASE q = r
  <2>1. EntriesOf(r) = {} /\ \A i \in DOMAIN actions[r] : ~IsDecision(actions[r][i])
    BY <1>1, PendingIsUndecided DEF DecisionInv
  <2> DEFINE m == Len(actions[r]) + 1
  <2>2. /\ DOMAIN actions'[r] = DOMAIN actions[r] \cup {m}
        /\ \A i \in DOMAIN actions[r] : actions'[r][i] = actions[r][i]
        /\ actions'[r][m].action = "REJECTED"
    BY <1>1, NotedActions
  <2>. HIDE DEF m
  <2>3. Once(q)'
    BY <1>6, <2>1, <2>2 DEF Once, IsDecision
  <2>4. Decided(q, "REJECTED")' /\ ~Decided(q, "ACCEPTED")'
    BY <1>6, <2>1, <2>2 DEF Decided, IsDecision
  <2>5. Booked(q)'
    BY <1>3, <1>4, <1>6, <2>1, <2>4 DEF Booked
  <2>. QED
    BY <1>3, <1>6, <2>3, <2>5 DEF Forgotten
<1>. QED
  BY <1>5, <1>6

LEMMA RequestKeeps ==
  ASSUME NEW c \in Clients, IInv, DecisionInv, RequestWrite(c), NEW q \in RequestIds
  PROVE  Forgotten(q)' /\ Once(q)' /\ Booked(q)'
<1>. TypeOK
  BY DEF IInv
<1>1. PICK w \in WalletIds, r \in RequestIds :
        /\ UNCHANGED ledger /\ requests[r] = None
        /\ requests' = [requests EXCEPT ![r] =
             [user |-> Owner(c), wallet |-> w, type |-> call[c].type,
              amount |-> Amount(c), status |-> "PENDING"]]
        /\ actions' = Noted(r, "CREATED", call[c].actor, None)
  BY RequestEffect
<1>2. /\ requests'[r] = [user |-> Owner(c), wallet |-> w, type |-> call[c].type,
                         amount |-> Amount(c), status |-> "PENDING"]
      /\ \A s \in RequestIds \ {r} : requests'[s] = requests[s]
  BY <1>1 DEF TypeOK, DbTypeOK
<1>3. requests'[r] # None /\ requests'[r].status = "PENDING"
  <2>1. requests'[r] \in Request
    <3>1. Owner(c) \in Users /\ call[c].type \in Types /\ Amount(c) \in Nat \ {0}
      BY RequestEffect
    <3>. QED
      BY <1>2, <3>1 DEF Request, Statuses
  <2>. QED
    BY <1>2, <2>1, NoneAssumption
<1>4. Grows(ledger, ledger') /\ \A s : EntriesOf(s)' = EntriesOf(s)
  BY <1>1, UntouchedLedger
<1>5. CASE q # r
  <2>1. actions'[q] = actions[q]
    BY <1>1, <1>5, NotedActions
  <2>2. Untouched(q)
    BY <1>2, <1>4, <1>5, <2>1 DEF Untouched
  <2>. QED
    BY <1>4, <2>2, UntouchedKeeps DEF DecisionInv
<1>6. CASE q = r
  <2>1. EntriesOf(r) = {} /\ actions[r] = << >>
    BY <1>1 DEF DecisionInv, Forgotten
  <2>2. /\ DOMAIN actions'[r] = {1}
        /\ actions'[r][1].action = "CREATED"
    BY <1>1, <2>1, NotedActions
  <2>3. Once(q)' /\ ~Decided(q, "REJECTED")' /\ ~Decided(q, "ACCEPTED")'
    BY <1>6, <2>2 DEF Once, Decided
  <2>4. Booked(q)'
    BY <1>3, <1>4, <1>6, <2>1, <2>3 DEF Booked
  <2>. QED
    BY <1>3, <1>6, <2>3, <2>4 DEF Forgotten
<1>. QED
  BY <1>5, <1>6

LEMMA DeleteKeeps ==
  ASSUME NEW c \in Clients, IInv, DecisionInv, DeleteWrite(c), NEW q \in RequestIds
  PROVE  Forgotten(q)' /\ Once(q)' /\ Booked(q)'
<1> DEFINE r == call[c].request
<1>1. /\ r \in RequestIds
      /\ requests'[r] = None /\ actions'[r] = << >> /\ EntriesIn(ledger', r) = {}
      /\ Grows(ledger, ledger')
      /\ \A s \in RequestIds \ {r} : Untouched(s)
  BY DeleteEffect
<1>. HIDE DEF r
<1>2. CASE q # r
  BY <1>1, <1>2, UntouchedKeeps DEF DecisionInv
<1>3. CASE q = r
  BY <1>1, <1>3, EntriesAreIn DEF Forgotten, Once, Booked
<1>. QED
  BY <1>2, <1>3

LEMMA DecisionInit == Init => DecisionInv
<1>. SUFFICES ASSUME Init PROVE DecisionInv
  OBVIOUS
<1>1. ServesCalls
  BY DEF Init, ServesCalls, Active
<1>2. \A r \in RequestIds : EntriesOf(r) = {}
  BY DEF Init, EntriesOf, Buckets
<1>3. \A r \in RequestIds : Forgotten(r) /\ Once(r) /\ Booked(r)
  BY <1>2 DEF Init, Forgotten, Once, Booked
<1>. QED
  BY <1>1, <1>3 DEF DecisionInv

LEMMA DecisionStep ==
  ASSUME NoEdits
  PROVE  IInv /\ DecisionInv /\ [Next]_vars => DecisionInv'
<1>. SUFFICES ASSUME IInv, DecisionInv, [Next]_vars PROVE DecisionInv'
  OBVIOUS
<1>1. ASSUME Grows(ledger, ledger'), \A r \in RequestIds : Untouched(r)
      PROVE  \A r \in RequestIds : Forgotten(r)' /\ Once(r)' /\ Booked(r)'
  BY <1>1, UntouchedKeeps DEF DecisionInv
<1>2. UNCHANGED db => \A r \in RequestIds : Forgotten(r)' /\ Once(r)' /\ Booked(r)'
  BY <1>1, UntouchedLedger DEF db, Untouched, IInv
<1>3. ASSUME NEW c \in Clients, Start(c) \/ Step(c) \/ Crash(c) \/ DeadlockVictim(c)
      PROVE  DecisionInv'
  <2>1. ServesCalls'
    BY <1>3, StepServes DEF DecisionInv
  <2>2. ~EditWrite(c) /\ ~EditInsert(c)
    <3>1. pc[c] \in Active => Handler(c) # "edit"
      BY DEF DecisionInv, ServesCalls, NoEdits, Handler
    <3>2. pc[c] = "insert" => Handler(c) = "edit"
      BY DEF IInv, Control, ControlOf, Running, Active
    <3>. QED
      BY <3>1, <3>2 DEF EditWrite, EditInsert, Writing, Active
  <2>3. CASE CreateWrite(c) \/ TransferWrite(c) \/ BetWrite(c) \/ WinWrite(c)
    <3>1. KeepsRequests
      BY <2>3, CreateEffect, TransferEffect, BetEffect, WinEffect
    <3>. QED
      BY <1>1, <2>1, <3>1 DEF KeepsRequests, DecisionInv
  <2>4. CASE RequestWrite(c) \/ AcceptWrite(c) \/ RejectWrite(c) \/ DeleteWrite(c)
    BY <2>1, <2>4, RequestKeeps, AcceptKeeps, RejectKeeps, DeleteKeeps DEF DecisionInv
  <2>5. CASE UNCHANGED db
    BY <1>2, <2>1, <2>5 DEF DecisionInv
  <2>. QED
    BY <1>3, <2>2, <2>3, <2>4, <2>5, StepSplits
<1>4. CASE UNCHANGED vars
  <2>1. ServesCalls'
    BY <1>4 DEF DecisionInv, ServesCalls, vars, locals
  <2>. QED
    BY <1>2, <1>4, <2>1 DEF DecisionInv, vars
<1>. QED
  BY <1>3, <1>4 DEF Next, Terminating

LEMMA DecisionInvHolds ==
  ASSUME NoEdits
  PROVE  Spec => [](IInv /\ DecisionInv)
BY SafetyInit, SafetyStep, DecisionInit, DecisionStep, PTL DEF Spec

\* Without edits, a request is decided once: approveWalletRequest and
\* rejectWalletRequest, called at once by the owner, the agent and the admin, find
\* it no longer pending after the first of them committed.
THEOREM RequestsDecidedOnce ==
  ASSUME NoEdits
  PROVE  Spec => []DecidedOnce
<1>1. DecisionInv => DecidedOnce
  BY DEF DecisionInv, DecidedOnce, Once
<1>. QED
  BY <1>1, DecisionInvHolds, PTL

\* Without edits, the status of a request, its actions and its ledger entry tell the
\* same: one commit writes them all, and a deletion takes them all.
THEOREM RequestsBooked ==
  ASSUME NoEdits
  PROVE  Spec => []DecisionsBooked
<1>1. DecisionInv => DecisionsBooked
  BY DEF DecisionInv, DecisionsBooked, Booked
<1>. QED
  BY <1>1, DecisionInvHolds, PTL

RejectsShowBalance == \A r \in RequestIds :
  Len(actions'[r]) > Len(actions[r]) /\ Decided(r, "REJECTED")' =>
    \A w \in WalletsOf(requests[r].user) :
      actions'[r][Len(actions'[r])].before = wallets[w].main

\* actions that grow but hold no rejection
LEMMA NoRejection ==
  ASSUME IInv, NEW r \in RequestIds, NEW action, NEW by, NEW shown,
         action # "REJECTED", ~Decided(r, "REJECTED"),
         actions' = Noted(r, action, by, shown)
  PROVE  RejectsShowBalance
<1>1. /\ \A q \in RequestIds \ {r} : actions'[q] = actions[q]
      /\ DOMAIN actions'[r] = DOMAIN actions[r] \cup {Len(actions[r]) + 1}
      /\ \A i \in DOMAIN actions[r] : actions'[r][i] = actions[r][i]
      /\ actions'[r][Len(actions[r]) + 1].action = action
  BY NotedActions DEF IInv
<1>2. ~Decided(r, "REJECTED")'
  BY <1>1 DEF Decided
<1>3. \A q \in RequestIds : Len(actions[q]) \in Nat
  BY DEF IInv, TypeOK, DbTypeOK
<1>. QED
  BY <1>1, <1>2, <1>3 DEF RejectsShowBalance

LEMMA StepRejects ==
  ASSUME NoEdits
  PROVE  IInv /\ DecisionInv /\ [Next]_vars => [RejectsShowBalance]_vars
<1>. SUFFICES ASSUME IInv, DecisionInv, Next PROVE RejectsShowBalance
  OBVIOUS
<1>. TypeOK
  BY DEF IInv
<1>1. ASSUME \A r \in RequestIds : actions'[r] = actions[r] \/ actions'[r] = << >>
      PROVE  RejectsShowBalance
  <2>1. \A r \in RequestIds : Len(actions[r]) \in Nat
    BY DEF TypeOK, DbTypeOK
  <2>2. Len(<< >>) = 0
    OBVIOUS
  <2>. QED
    BY <1>1, <2>1, <2>2 DEF RejectsShowBalance
<1>2. ASSUME NEW c \in Clients, Start(c) \/ Step(c) \/ Crash(c) \/ DeadlockVictim(c)
      PROVE  RejectsShowBalance
  <2>1. CASE RequestWrite(c)
    <3>1. PICK r \in RequestIds :
            /\ requests[r] = None
            /\ actions' = Noted(r, "CREATED", call[c].actor, None)
      BY <2>1, RequestEffect
    <3>2. ~Decided(r, "REJECTED")
      BY <3>1 DEF DecisionInv, Forgotten, Decided
    <3>. QED
      BY <3>1, <3>2, NoRejection
  <2>2. CASE AcceptWrite(c)
    <3> DEFINE r == call[c].request
    <3>1. /\ r \in RequestIds /\ requests[r] # None /\ requests[r].status = "PENDING"
          /\ actions' = Noted(r, "ACCEPTED", call[c].actor, None)
      BY <2>2, AcceptEffect
    <3>2. ~Decided(r, "REJECTED")
      BY <3>1 DEF DecisionInv, Booked
    <3>. HIDE DEF r
    <3>. QED
      BY <3>1, <3>2, NoRejection
  <2>3. CASE RejectWrite(c)
    <3> DEFINE r == call[c].request
               w == requests[r].wallet
    <3>1. /\ r \in RequestIds /\ w \in WalletsOf(requests[r].user)
          /\ actions' = Noted(r, "REJECTED", call[c].actor, wallets[w].main)
      BY <2>3, RejectEffect
    <3>. HIDE DEF r, w
    <3>2. /\ \A q \in RequestIds \ {r} : actions'[q] = actions[q]
          /\ Len(actions'[r]) = Len(actions[r]) + 1
          /\ actions'[r][Len(actions[r]) + 1].before = wallets[w].main
      BY <3>1, NotedActions
    <3>3. \A v \in WalletsOf(requests[r].user) : v = w
      BY <3>1 DEF IInv, Tables, OneWalletPerOwner, WalletsOf
    <3>4. \A q \in RequestIds : Len(actions[q]) \in Nat
      BY DEF TypeOK, DbTypeOK
    <3>. QED
      BY <3>2, <3>3, <3>4 DEF RejectsShowBalance
  <2>4. CASE CreateWrite(c) \/ TransferWrite(c) \/ BetWrite(c) \/ WinWrite(c)
             \/ EditWrite(c) \/ EditInsert(c) \/ UNCHANGED db
    <3>1. UNCHANGED actions
      BY <2>4 DEF CreateWrite, TransferWrite, BetWrite, WinWrite, EditWrite, EditInsert,
        Rollback, db
    <3>. QED
      BY <1>1, <3>1
  <2>5. CASE DeleteWrite(c)
    BY <1>1, <2>5, DeleteEffect DEF Untouched
  <2>. QED
    BY <1>2, <2>1, <2>2, <2>3, <2>4, <2>5, StepSplits
<1>3. CASE Terminating
  BY <1>1, <1>3 DEF Terminating, vars, db
<1>. QED
  BY <1>2, <1>3 DEF Next

\* Without edits, the balance a rejection records is the one the wallet has when
\* rejectWalletRequest commits: the wallet stays locked from the read to the commit.
THEOREM RejectionsShowBalance ==
  ASSUME NoEdits
  PROVE  Spec => RejectionShowsBalance
<1>1. IInv /\ DecisionInv /\ [Next]_vars => [RejectsShowBalance]_vars
  BY StepRejects
<1>. QED
  BY <1>1, DecisionInvHolds, PTL DEF Spec, RejectionShowsBalance, RejectsShowBalance

-----------------------------------------------------------------------------
(* The refinement mapping of WalletContract shows the balances of each    *)
(* user's wallet, zero before there is one, and each request without its   *)
(* wallet.  A handler's reads and locks are stutters; the step that commits *)
(* is the operation.  Edits and deletions are no operations of it.         *)

\* no client ever edits or deletes a request
NoChanges == \A c \in Clients : \A k \in CallsOf[c] : k.handler \notin ByRequest

\* the refinement mapping
Accounts == [u \in Users |-> AccountOf(u)]
ShownRequests == [r \in RequestIds |-> ShownRequest(r)]

-----------------------------------------------------------------------------
(* The accounts. *)

LEMMA OnlyMember ==
  ASSUME NEW S, NEW w, S = {w}
  PROVE  (CHOOSE x \in S : TRUE) = w
OBVIOUS

LEMMA AccountIsShown ==
  ASSUME NEW c \in Clients, NEW w \in WalletIds, IInv, Holds(c, w), Owner(c) \in Users
  PROVE  Accounts[Owner(c)] = Visible(w)
<1> DEFINE u == Owner(c)
<1>1. CASE wallets[w] = None
  BY <1>1 DEF Accounts, AccountOf, Holds, Visible
<1>2. CASE wallets[w] # None
  <2>1. w \in WalletsOf(u)
    BY <1>2 DEF Holds, WalletsOf
  <2>2. \A v \in WalletsOf(u) : v = w
    BY <2>1 DEF IInv, Tables, OneWalletPerOwner, WalletsOf
  <2>3. WalletsOf(u) = {w} /\ WalletsOf(u) # {}
    BY <2>1, <2>2
  <2>4. (CHOOSE v \in WalletsOf(u) : TRUE) = w
    BY <2>3, OnlyMember
  <2>. QED
    BY <1>2, <2>3, <2>4 DEF Accounts, AccountOf, Visible
<1>. QED
  BY <1>1, <1>2

LEMMA SavedAccount ==
  ASSUME NEW c \in Clients, NEW w \in WalletIds, NEW main \in Nat, NEW temp \in Nat,
         IInv, pc[c] \in Active, Saved(c, w, main, temp)
  PROVE  Accounts' = [Accounts EXCEPT ![Owner(c)] = [main |-> main, temp |-> temp]]
<1> DEFINE u == Owner(c)
<1>. TypeOK /\ Control /\ Holds(c, w) /\ SaveWallet(c, w, main, temp)
  BY DEF IInv, Saved
<1>1. u \in Users
  BY OwnerTypes
<1>2. OneWalletPerOwner' /\ wallets'[w] # None
  BY SaveKeepsOwners DEF IInv, Tables
<1>3. /\ wallets'[w] = [owner |-> u, main |-> main, temp |-> temp]
      /\ \A v \in WalletIds \ {w} : wallets'[v] = wallets[v]
  BY SavedWallet
<1>. HIDE DEF u
<1>4. wallets'[w].owner = u /\ wallets'[w].main = main /\ wallets'[w].temp = temp
  BY <1>3
<1> DEFINE Of(x) == {v \in WalletIds : wallets'[v] # None /\ wallets'[v].owner = x}
<1>5. ASSUME NEW x \in Users
      PROVE  Accounts'[x] =
               IF Of(x) = {} THEN Zero
               ELSE LET v == CHOOSE v \in Of(x) : TRUE
                    IN [main |-> wallets'[v].main, temp |-> wallets'[v].temp]
  BY DEF Accounts, AccountOf, WalletsOf
<1>6. ASSUME NEW x \in Users \ {u}
      PROVE  Accounts'[x] = Accounts[x]
  <2>1. Of(x) = WalletsOf(x) /\ w \notin WalletsOf(x)
    BY <1>3, <1>4 DEF WalletsOf, Holds, u
  <2>2. CASE WalletsOf(x) = {}
    BY <1>5, <2>1, <2>2 DEF Accounts, AccountOf
  <2>3. CASE WalletsOf(x) # {}
    <3> DEFINE v == CHOOSE v \in WalletsOf(x) : TRUE
    <3>1. v \in WalletsOf(x)
      BY <2>3
    <3>2. v \in WalletIds \ {w}
      BY <2>1, <3>1 DEF WalletsOf
    <3>3. Accounts[x] = [main |-> wallets[v].main, temp |-> wallets[v].temp]
      BY <2>3 DEF Accounts, AccountOf
    <3>4. Accounts'[x] = [main |-> wallets'[v].main, temp |-> wallets'[v].temp]
      BY <1>5, <2>1, <2>3
    <3>. QED
      BY <1>3, <3>2, <3>3, <3>4
  <2>. QED
    BY <2>2, <2>3
<1>7. Accounts'[u] = [main |-> main, temp |-> temp]
  <2>1. w \in Of(u)
    BY <1>2, <1>4
  <2>2. \A v \in Of(u) : v = w
    BY <1>2, <1>4 DEF OneWalletPerOwner
  <2>3. Of(u) = {w} /\ Of(u) # {}
    BY <2>1, <2>2
  <2>4. (CHOOSE v \in Of(u) : TRUE) = w
    BY <2>3, OnlyMember
  <2>. QED
    BY <1>1, <1>4, <1>5, <2>3, <2>4
<1>8. Accounts' = [x \in Users |-> Accounts'[x]] /\ Accounts = [x \in Users |-> Accounts[x]]
  BY DEF Accounts
<1>9. Accounts' = [Accounts EXCEPT ![u] = [main |-> main, temp |-> temp]]
  BY <1>1, <1>6, <1>7, <1>8
<1>. QED
  BY <1>9 DEF u

LEMMA SameWallets ==
  ASSUME UNCHANGED wallets
  PROVE  Accounts' = Accounts
BY DEF Accounts, AccountOf, WalletsOf

LEMMA SameRequests ==
  ASSUME UNCHANGED requests
  PROVE  ShownRequests' = ShownRequests
BY DEF ShownRequests, ShownRequest

-----------------------------------------------------------------------------
(* Each commit is one operation of the contract. *)

\* a save of the wallet w that c holds, as a step of the account
LEMMA SavedStep ==
  ASSUME NEW c \in Clients, NEW w \in WalletIds, NEW main \in Nat, NEW temp \in Nat,
         IInv, pc[c] \in Active, Saved(c, w, main, temp)
  PROVE  /\ Owner(c) \in Users
         /\ Accounts[Owner(c)] = Visible(w)
         /\ Accounts[Owner(c)].main = Visible(w).main
         /\ Accounts[Owner(c)].temp = Visible(w).temp
         /\ Accounts' = [Accounts EXCEPT ![Owner(c)] = [main |-> main, temp |-> temp]]
<1>1. Owner(c) \in Users
  BY OwnerTypes DEF IInv
<1>2. Accounts[Owner(c)] = Visible(w)
  BY <1>1, AccountIsShown DEF Saved
<1>3. Accounts' = [Accounts EXCEPT ![Owner(c)] = [main |-> main, temp |-> temp]]
  BY SavedAccount
<1>. QED
  BY <1>1, <1>2, <1>3

LEMMA AccountTypes ==
  ASSUME IInv
  PROVE  Accounts \in [Users -> [main : Nat, temp : Nat]]
<1>1. ASSUME NEW u \in Users
      PROVE  AccountOf(u) \in [main : Nat, temp : Nat]
  <2>1. CASE WalletsOf(u) = {}
    BY <2>1 DEF AccountOf, Zero
  <2>2. CASE WalletsOf(u) # {}
    <3> DEFINE v == CHOOSE v \in WalletsOf(u) : TRUE
    <3>1. v \in WalletIds /\ wallets[v] # None
      BY <2>2 DEF WalletsOf
    <3>2. wallets[v] \in Wallet
      BY <3>1 DEF IInv, TypeOK, DbTypeOK
    <3>. QED
      BY <2>2, <3>2 DEF AccountOf, Wallet
  <2>. QED
    BY <2>1, <2>2
<1>. QED
  BY <1>1 DEF Accounts

\* an account whose main balance alone is set
LEMMA SetsMain ==
  ASSUME NEW u \in Users, NEW n \in 0..Limit, IInv,
         Accounts' = [Accounts EXCEPT ![u] = [main |-> n, temp |-> Accounts[u].temp]]
  PROVE  Contract!SetMain(u, n)
<1> DEFINE A == Accounts
<1>1. A[u] \in [main : Nat, temp : Nat] /\ n \in Nat
  BY AccountTypes, LimitAssumption
<1>2. [A[u] EXCEPT !.main = n] = [main |-> n, temp |-> A[u].temp]
  BY <1>1
<1>3. [A EXCEPT ![u].main = n] = [A EXCEPT ![u] = [A[u] EXCEPT !.main = n]]
  OBVIOUS
<1>4. Accounts' = [A EXCEPT ![u].main = n]
  BY <1>2, <1>3
<1>. QED
  BY <1>4 DEF Accounts, Contract!SetMain

LEMMA CreateImplements ==
  ASSUME NEW c \in Clients, IInv, CreateWrite(c)
  PROVE  Contract!Add(Owner(c), Amount(c)) /\ Owner(c) \in Users /\ Amount(c) \in 0..Limit
<1>1. PICK w \in WalletIds :
        /\ Saved(c, w, Visible(w).main + Amount(c), Visible(w).temp)
        /\ Visible(w).main + Amount(c) <= Limit
  BY CreateEffect
<1>2. pc[c] \in Active
  BY DEF CreateWrite, Writing, Active
<1>3. Amount(c) \in 0..Limit /\ ShownRequests' = ShownRequests
  BY CreateEffect, SameRequests DEF KeepsRequests
<1>4. Visible(w).main \in Nat /\ Visible(w).temp \in Nat
  BY ShownTypes DEF IInv
<1> DEFINE n == Visible(w).main + Amount(c)
<1>5. n \in 0..Limit /\ n \in Nat
  BY <1>1, <1>3, <1>4, LimitAssumption
<1>6. /\ Owner(c) \in Users
      /\ Accounts[Owner(c)].main = Visible(w).main
      /\ Accounts[Owner(c)].temp = Visible(w).temp
      /\ Accounts' = [Accounts EXCEPT ![Owner(c)] = [main |-> n, temp |-> Visible(w).temp]]
  BY <1>1, <1>2, <1>4, <1>5, SavedStep
<1>. HIDE DEF n
<1>7. Contract!SetMain(Owner(c), n)
  BY <1>5, <1>6, SetsMain
<1>. QED
  BY <1>3, <1>6, <1>7 DEF n, Contract!Add, Accounts, ShownRequests

LEMMA TransferImplements ==
  ASSUME NEW c \in Clients, IInv, TransferWrite(c)
  PROVE  Contract!Transfer(Owner(c)) /\ Owner(c) \in Users
<1>1. PICK w \in WalletIds :
        /\ Saved(c, w, Visible(w).main + Visible(w).temp, 0)
        /\ Visible(w).temp > 0
        /\ Visible(w).main + Visible(w).temp <= Limit
  BY TransferEffect
<1>2. pc[c] \in Active
  BY DEF TransferWrite, Writing, Active
<1>3. ShownRequests' = ShownRequests
  BY TransferEffect, SameRequests DEF KeepsRequests
<1>4. Visible(w).main \in Nat /\ Visible(w).temp \in Nat
  BY ShownTypes DEF IInv
<1> DEFINE n == Visible(w).main + Visible(w).temp
<1>5. n \in Nat
  BY <1>4
<1>6. /\ Owner(c) \in Users
      /\ Accounts[Owner(c)].main = Visible(w).main
      /\ Accounts[Owner(c)].temp = Visible(w).temp
      /\ Accounts' = [Accounts EXCEPT ![Owner(c)] = [main |-> n, temp |-> 0]]
  BY <1>1, <1>2, <1>4, <1>5, SavedStep
<1>7. Accounts' = [Accounts EXCEPT ![Owner(c)] = [main |-> @.main + @.temp, temp |-> 0]]
  BY <1>6
<1>. QED
  BY <1>1, <1>3, <1>6, <1>7 DEF Contract!Transfer, Accounts, ShownRequests

LEMMA BetImplements ==
  ASSUME NEW c \in Clients, IInv, BetWrite(c)
  PROVE  Contract!Bet(Owner(c), Amount(c)) /\ Owner(c) \in Users /\ Amount(c) \in 0..Limit
<1>1. PICK w \in WalletIds :
        /\ Visible(w).temp = 0
        /\ Amount(c) <= Visible(w).main
        /\ Saved(c, w, Visible(w).main - Amount(c), 0)
        /\ Visible(w).main <= Limit
  BY BetEffect
<1>2. pc[c] \in Active
  BY DEF BetWrite, Writing, Active
<1>3. Amount(c) \in 0..Limit /\ ShownRequests' = ShownRequests
  BY BetEffect, SameRequests DEF KeepsRequests
<1>4. Visible(w).main \in Nat /\ Visible(w).temp \in Nat
  BY ShownTypes DEF IInv
<1> DEFINE n == Visible(w).main - Amount(c)
<1>5. n \in 0..Limit /\ n \in Nat
  BY <1>1, <1>3, <1>4, LimitAssumption
<1>6. /\ Owner(c) \in Users
      /\ Accounts[Owner(c)].main = Visible(w).main
      /\ Accounts[Owner(c)].temp = Visible(w).temp
      /\ Accounts' = [Accounts EXCEPT ![Owner(c)] = [main |-> n, temp |-> 0]]
  BY <1>1, <1>2, <1>4, <1>5, SavedStep
<1>. HIDE DEF n
<1>7. Contract!SetMain(Owner(c), n)
  BY <1>1, <1>5, <1>6, SetsMain
<1>. QED
  BY <1>1, <1>3, <1>6, <1>7 DEF n, Contract!Bet, Accounts, ShownRequests

\* an account whose winnings alone are set
LEMMA SetsTemp ==
  ASSUME NEW u \in Users, NEW n \in Nat, IInv,
         Accounts' = [Accounts EXCEPT ![u] = [main |-> Accounts[u].main, temp |-> n]]
  PROVE  Accounts' = [Accounts EXCEPT ![u].temp = n]
<1> DEFINE A == Accounts
<1>1. A[u] \in [main : Nat, temp : Nat]
  BY AccountTypes
<1>2. [A[u] EXCEPT !.temp = n] = [main |-> A[u].main, temp |-> n]
  BY <1>1
<1>3. [A EXCEPT ![u].temp = n] = [A EXCEPT ![u] = [A[u] EXCEPT !.temp = n]]
  OBVIOUS
<1>. QED
  BY <1>2, <1>3

LEMMA WinImplements ==
  ASSUME NEW c \in Clients, IInv, WinWrite(c)
  PROVE  Contract!Win(Owner(c), Amount(c)) /\ Owner(c) \in Users /\ Amount(c) \in 0..Limit
<1>1. PICK w \in WalletIds :
        /\ Saved(c, w, Visible(w).main, Visible(w).temp + Amount(c))
        /\ Visible(w).temp + Amount(c) <= Limit
  BY WinEffect
<1>2. pc[c] \in Active
  BY DEF WinWrite, Writing, Active
<1>3. Amount(c) \in 0..Limit /\ ShownRequests' = ShownRequests
  BY WinEffect, SameRequests DEF KeepsRequests
<1>4. Visible(w).main \in Nat /\ Visible(w).temp \in Nat
  BY ShownTypes DEF IInv
<1> DEFINE n == Visible(w).temp + Amount(c)
<1>5. n \in Nat
  BY <1>3, <1>4, LimitAssumption
<1>6. /\ Owner(c) \in Users
      /\ Accounts[Owner(c)].main = Visible(w).main
      /\ Accounts[Owner(c)].temp = Visible(w).temp
      /\ Accounts' = [Accounts EXCEPT ![Owner(c)] = [main |-> Visible(w).main, temp |-> n]]
  BY <1>1, <1>2, <1>4, <1>5, SavedStep
<1>. HIDE DEF n
<1>7. Accounts' = [Accounts EXCEPT ![Owner(c)].temp = n]
  BY <1>5, <1>6, SetsTemp
<1>8. n = Accounts[Owner(c)].temp + Amount(c)
  BY <1>6 DEF n
<1>9. Accounts' = [Accounts EXCEPT ![Owner(c)].temp = @ + Amount(c)]
  BY <1>7, <1>8
<1>. QED
  BY <1>1, <1>3, <1>6, <1>9 DEF Contract!Win, Accounts, ShownRequests

LEMMA RequestImplements ==
  ASSUME NEW c \in Clients, IInv, RequestWrite(c)
  PROVE  \E r \in RequestIds, u \in Users, n \in 1..Limit, t \in Types :
           Contract!Open(r, u, t, n)
<1>1. Owner(c) \in Users /\ call[c].type \in Types /\ Amount(c) \in 1..Limit
  BY RequestEffect
<1>2. PICK w \in WalletIds, r \in RequestIds :
        /\ requests[r] = None
        /\ requests' = [requests EXCEPT ![r] =
             [user |-> Owner(c), wallet |-> w, type |-> call[c].type,
              amount |-> Amount(c), status |-> "PENDING"]]
        /\ \/ UNCHANGED wallets
           \/ Saved(c, w, 0, 0) /\ Visible(w) = Zero
  BY RequestEffect
<1>3. pc[c] \in Active
  BY DEF RequestWrite, Writing, Active
<1>4. Accounts' = Accounts
  <2>1. CASE Saved(c, w, 0, 0) /\ Visible(w) = Zero
    <3>1. /\ Accounts[Owner(c)] = [main |-> 0, temp |-> 0]
          /\ Accounts' = [Accounts EXCEPT ![Owner(c)] = [main |-> 0, temp |-> 0]]
      BY <1>3, <2>1, SavedStep DEF Zero
    <3>2. Accounts = [Accounts EXCEPT ![Owner(c)] = Accounts[Owner(c)]]
      BY DEF Accounts
    <3>. QED
      BY <3>1, <3>2
  <2>. QED
    BY <1>2, <2>1, SameWallets
<1> DEFINE q == [user |-> Owner(c), wallet |-> w, type |-> call[c].type,
                 amount |-> Amount(c), status |-> "PENDING"]
<1>5. /\ q # None /\ q.user = Owner(c) /\ q.type = call[c].type
      /\ q.amount = Amount(c) /\ q.status = "PENDING"
  BY <1>1, NoneAssumption, LimitAssumption DEF Request, Statuses
<1>6. requests'[r] = q /\ \A o \in RequestIds \ {r} : requests'[o] = requests[o]
  BY <1>2 DEF IInv, TypeOK, DbTypeOK
<1>. HIDE DEF q
<1>8. ShownRequests'[r] = [user |-> Owner(c), type |-> call[c].type,
                           amount |-> Amount(c), status |-> "PENDING"]
  BY <1>5, <1>6 DEF ShownRequests, ShownRequest
<1>9. /\ ShownRequests[r] = None
      /\ \A o \in RequestIds \ {r} : ShownRequests'[o] = ShownRequests[o]
  BY <1>2, <1>6 DEF ShownRequests, ShownRequest
<1>10. ShownRequests' = [ShownRequests EXCEPT ![r] =
         [user |-> Owner(c), type |-> call[c].type, amount |-> Amount(c),
          status |-> "PENDING"]]
  BY <1>8, <1>9 DEF ShownRequests
<1>7. Contract!Open(r, Owner(c), call[c].type, Amount(c))
  BY <1>4, <1>9, <1>10 DEF Contract!Open, Accounts, ShownRequests
<1>. QED
  BY <1>1, <1>7

\* a request whose status alone changes
LEMMA SetsStatus ==
  ASSUME NEW r \in RequestIds, NEW s \in Statuses, IInv,
         requests[r] \in Request, requests[r] # None,
         requests' = [requests EXCEPT ![r] = [@ EXCEPT !.status = s]]
  PROVE  /\ ShownRequests[r] = [user |-> requests[r].user, type |-> requests[r].type,
                               amount |-> requests[r].amount, status |-> requests[r].status]
         /\ ShownRequests[r] # None
         /\ ShownRequests' = [ShownRequests EXCEPT ![r].status = s]
<1> DEFINE q == [requests[r] EXCEPT !.status = s]
           shown == [user |-> requests[r].user, type |-> requests[r].type,
                     amount |-> requests[r].amount, status |-> requests[r].status]
<1>1. q \in Request /\ q # None
  BY NoneAssumption DEF Request
<1>2. /\ q.user = requests[r].user /\ q.type = requests[r].type
      /\ q.amount = requests[r].amount /\ q.status = s
  BY DEF Request
<1>3. requests'[r] = q /\ \A o \in RequestIds \ {r} : requests'[o] = requests[o]
  BY DEF IInv, TypeOK, DbTypeOK
<1>. HIDE DEF q
<1>4. ShownRequests'[r] = [user |-> requests[r].user, type |-> requests[r].type,
                           amount |-> requests[r].amount, status |-> s]
  BY <1>1, <1>2, <1>3 DEF ShownRequests, ShownRequest
<1>5. ShownRequests[r] = shown
  BY DEF ShownRequests, ShownRequest
<1>6. \A o \in RequestIds \ {r} : ShownRequests'[o] = ShownRequests[o]
  BY <1>3 DEF ShownRequests, ShownRequest
<1>7. [shown EXCEPT !.status = s] = ShownRequests'[r]
  BY <1>4
<1>8. shown # None
  BY NoneAssumption DEF Request, RequestView
<1>. HIDE DEF shown
<1>9. ShownRequests' = [ShownRequests EXCEPT ![r] = [shown EXCEPT !.status = s]]
  BY <1>6, <1>7 DEF ShownRequests
<1>10. ShownRequests' = [ShownRequests EXCEPT ![r].status = s]
  BY <1>5, <1>9
<1>. QED
  BY <1>5, <1>8, <1>10 DEF shown

LEMMA AcceptImplements ==
  ASSUME NEW c \in Clients, IInv, AcceptWrite(c)
  PROVE  \E r \in RequestIds : Contract!Accept(r)
<1> DEFINE r == call[c].request
           w == requests[r].wallet
           u == requests[r].user
           n == requests[r].amount
<1>1. /\ r \in RequestIds
      /\ requests[r] \in Request /\ requests[r] # None
      /\ requests[r].status = "PENDING" /\ u = Owner(c)
      /\ requests' = [requests EXCEPT ![r] = [@ EXCEPT !.status = "ACCEPTED"]]
  BY AcceptEffect
<1>2. \/ /\ Saved(c, w, Visible(w).main + n, Visible(w).temp)
         /\ Visible(w).main + n <= Limit
      \/ /\ Saved(c, w, Visible(w).main - n, Visible(w).temp)
         /\ requests[r].type = "WITHDRAW"
         /\ n <= Visible(w).main
         /\ Visible(w).main <= Limit
  BY AcceptEffect
<1>3. pc[c] \in Active
  BY DEF AcceptWrite, Writing, Active
<1>4. /\ ShownRequests[r] = [user |-> u, type |-> requests[r].type,
                             amount |-> n, status |-> requests[r].status]
      /\ ShownRequests[r] # None
      /\ ShownRequests' = [ShownRequests EXCEPT ![r].status = "ACCEPTED"]
  BY <1>1, SetsStatus DEF Statuses
<1>5. /\ ShownRequests[r].user = u /\ ShownRequests[r].type = requests[r].type
      /\ ShownRequests[r].amount = n /\ ShownRequests[r].status = "PENDING"
  BY <1>1, <1>4
<1>6. n \in Nat
  BY <1>1 DEF Request
<1>. HIDE DEF r, u, n
<1>7. /\ w \in WalletIds
      /\ Visible(w).main \in Nat /\ Visible(w).temp \in Nat
  <2>1. w \in WalletIds
    BY <1>2 DEF Saved
  <2>. QED
    BY <2>1, ShownTypes DEF IInv
<1>. HIDE DEF w
<1>8. CASE Saved(c, w, Visible(w).main + n, Visible(w).temp) /\ Visible(w).main + n <= Limit
  <2> DEFINE after == Visible(w).main + n
  <2>1. after \in 0..Limit /\ after \in Nat
    BY <1>6, <1>7, <1>8, LimitAssumption
  <2>2. /\ Owner(c) \in Users
        /\ Accounts[Owner(c)].main = Visible(w).main
        /\ Accounts[Owner(c)].temp = Visible(w).temp
        /\ Accounts' = [Accounts EXCEPT
             ![Owner(c)] = [main |-> after, temp |-> Visible(w).temp]]
    BY <1>3, <1>7, <1>8, <2>1, SavedStep
  <2>. HIDE DEF after
  <2>3. Contract!SetMain(u, after)
    BY <1>1, <2>1, <2>2, SetsMain
  <2>4. after = Accounts[u].main + n
    BY <1>1, <2>2 DEF after
  <2>5. Contract!Accept(r)
    BY <1>4, <1>5, <2>3, <2>4
       DEF Contract!Accept, Contract!Pending, Accounts, ShownRequests
  <2>. QED
    BY <1>1, <2>5
<1>9. CASE /\ Saved(c, w, Visible(w).main - n, Visible(w).temp)
           /\ requests[r].type = "WITHDRAW"
           /\ n <= Visible(w).main
           /\ Visible(w).main <= Limit
  <2> DEFINE after == Visible(w).main - n
  <2>1. after \in 0..Limit /\ after \in Nat
    BY <1>6, <1>7, <1>9, LimitAssumption
  <2>2. /\ Owner(c) \in Users
        /\ Accounts[Owner(c)].main = Visible(w).main
        /\ Accounts[Owner(c)].temp = Visible(w).temp
        /\ Accounts' = [Accounts EXCEPT
             ![Owner(c)] = [main |-> after, temp |-> Visible(w).temp]]
    BY <1>3, <1>7, <1>9, <2>1, SavedStep
  <2>. HIDE DEF after
  <2>3. Contract!SetMain(u, after)
    BY <1>1, <2>1, <2>2, SetsMain
  <2>4. after = Accounts[u].main - n /\ n <= Accounts[u].main
    BY <1>1, <1>9, <2>2 DEF after
  <2>5. Contract!Accept(r)
    BY <1>4, <1>5, <1>9, <2>3, <2>4
       DEF Contract!Accept, Contract!Pending, Accounts, ShownRequests
  <2>. QED
    BY <1>1, <2>5
<1>. QED
  BY <1>2, <1>8, <1>9

LEMMA RejectImplements ==
  ASSUME NEW c \in Clients, IInv, RejectWrite(c)
  PROVE  \E r \in RequestIds : Contract!Reject(r)
<1> DEFINE r == call[c].request
<1>1. /\ r \in RequestIds
      /\ requests[r] \in Request /\ requests[r] # None
      /\ requests[r].status = "PENDING"
      /\ requests' = [requests EXCEPT ![r] = [@ EXCEPT !.status = "REJECTED"]]
      /\ UNCHANGED wallets
  BY RejectEffect
<1>2. /\ ShownRequests[r] = [user |-> requests[r].user, type |-> requests[r].type,
                             amount |-> requests[r].amount, status |-> requests[r].status]
      /\ ShownRequests[r] # None
      /\ ShownRequests' = [ShownRequests EXCEPT ![r].status = "REJECTED"]
  BY <1>1, SetsStatus DEF Statuses
<1>3. ShownRequests[r].status = "PENDING"
  BY <1>1, <1>2
<1>. HIDE DEF r
<1>4. Contract!Reject(r)
  BY <1>1, <1>2, <1>3, SameWallets
     DEF Contract!Reject, Contract!Pending, Accounts, ShownRequests
<1>. QED
  BY <1>1, <1>4

-----------------------------------------------------------------------------
(* The refinement. *)

LEMMA InitImplements == Init => Contract!Init
<1>. SUFFICES ASSUME Init PROVE Contract!Init
  OBVIOUS
<1>1. \A u \in Users : AccountOf(u) = [main |-> 0, temp |-> 0]
  BY DEF Init, AccountOf, WalletsOf, Zero
<1>2. \A r \in RequestIds : ShownRequest(r) = None
  BY DEF Init, ShownRequest
<1>. QED
  BY <1>1, <1>2 DEF Contract!Init

\* Then no step is an edit or a deletion.
LEMMA NoChange ==
  ASSUME NoChanges, IInv, ServesCalls, NEW c \in Clients
  PROVE  ~(EditWrite(c) \/ EditInsert(c) \/ DeleteWrite(c))
<1>1. pc[c] \in Active => Handler(c) \notin ByRequest
  BY DEF ServesCalls, NoChanges, Handler
<1>2. pc[c] = "insert" => Handler(c) \in ByRequest
  BY DEF IInv, Control, ControlOf, Running, Active, ByRequest
<1>. QED
  BY <1>1, <1>2 DEF EditWrite, EditInsert, DeleteWrite, Writing, Active, ByRequest

LEMMA StepImplements ==
  ASSUME NoChanges
  PROVE  IInv /\ ServesCalls /\ [Next]_vars => [Contract!Next]_(Contract!vars)
<1>. SUFFICES ASSUME IInv, ServesCalls, [Next]_vars
              PROVE  [Contract!Next]_(Contract!vars)
  OBVIOUS
<1>1. ASSUME UNCHANGED <<wallets, requests>>
      PROVE  UNCHANGED Contract!vars
  BY <1>1, SameWallets, SameRequests DEF Contract!vars, Accounts, ShownRequests
<1>2. ASSUME NEW c \in Clients, Start(c) \/ Step(c) \/ Crash(c) \/ DeadlockVictim(c)
      PROVE  [Contract!Next]_(Contract!vars)
  <2>1. CASE CreateWrite(c)
    BY <2>1, CreateImplements DEF Contract!Next
  <2>2. CASE TransferWrite(c)
    BY <2>2, TransferImplements DEF Contract!Next
  <2>3. CASE BetWrite(c)
    BY <2>3, BetImplements DEF Contract!Next
  <2>4. CASE WinWrite(c)
    BY <2>4, WinImplements DEF Contract!Next
  <2>5. CASE RequestWrite(c)
    BY <2>5, RequestImplements DEF Contract!Next, Types
  <2>6. CASE AcceptWrite(c)
    BY <2>6, AcceptImplements DEF Contract!Next
  <2>7. CASE RejectWrite(c)
    BY <2>7, RejectImplements DEF Contract!Next
  <2>8. ~(EditWrite(c) \/ EditInsert(c) \/ DeleteWrite(c))
    BY NoChange
  <2>9. CASE UNCHANGED db
    BY <1>1, <2>9 DEF db
  <2>. QED
    BY <1>2, <2>1, <2>2, <2>3, <2>4, <2>5, <2>6, <2>7, <2>8, <2>9, StepSplits
<1>3. CASE Terminating \/ UNCHANGED vars
  BY <1>1, <1>3 DEF Terminating, vars, db
<1>. QED
  BY <1>2, <1>3 DEF Next

LEMMA ServesInductive ==
  /\ Init => ServesCalls
  /\ IInv /\ ServesCalls /\ [Next]_vars => ServesCalls'
<1>1. Init => ServesCalls
  BY DEF Init, ServesCalls, Active
<1>2. ASSUME IInv, ServesCalls, [Next]_vars
      PROVE  ServesCalls'
  <2>1. CASE \E c \in Clients : Start(c) \/ Step(c) \/ Crash(c) \/ DeadlockVictim(c)
    BY <1>2, <2>1, StepServes
  <2>2. CASE Terminating \/ UNCHANGED vars
    BY <1>2, <2>2 DEF ServesCalls, Terminating, vars, locals
  <2>. QED
    BY <1>2, <2>1, <2>2 DEF Next
<1>. QED
  BY <1>1, <1>2

\* While no client edits or deletes a request, the handlers of the wallet service
\* behave as the atomic operations of the contract, whatever interleaves, crashes
\* or is chosen as a deadlock victim: a caller never sees a balance without the
\* decision that moved it, or a decision without its balance.
THEOREM ServiceImplements ==
  ASSUME NoChanges
  PROVE  Spec => ImplementsContract
<1>1. Init => Contract!Init
  BY InitImplements
<1>2. IInv /\ ServesCalls /\ [Next]_vars => [Contract!Next]_(Contract!vars)
  BY StepImplements
<1>3. Spec => []ServesCalls
  BY Safety, ServesInductive, PTL DEF Spec
<1>. QED
  BY <1>1, <1>2, <1>3, Safety, PTL DEF Spec, ImplementsContract, Contract!Spec

-----------------------------------------------------------------------------
(* What a step leaves to later readers, of calls without edits and         *)
(* deletions.                                                              *)

\* a row that is there already refers to the request it referred to
RefsStay == \A w \in WalletIds, b \in Buckets : \A i \in DOMAIN ledger[w][b] :
  i \in DOMAIN ledger'[w][b] /\ ledger'[w][b][i].request = ledger[w][b][i].request

\* a wallet keeps its owner
OwnersStay == \A w \in WalletIds : wallets[w] # None =>
  wallets'[w] # None /\ wallets'[w].owner = wallets[w].owner

\* a decision and its row stay
DecisionsStay == \A r \in RequestIds :
  requests[r] # None /\ requests[r].status # "PENDING" =>
    requests'[r] = requests[r] /\ EntriesOf(r)' = EntriesOf(r)

LEMMA RefsAreKept ==
  ASSUME TypeOK, TypeOK', Grows(ledger, ledger'),
         \A r \in RequestIds : EntriesIn(ledger, r) \subseteq EntriesIn(ledger', r),
         NEW x, x[3] \notin DOMAIN ledger[x[1]][x[2]],
         \A r \in RequestIds : EntriesIn(ledger', r) \subseteq EntriesIn(ledger, r) \cup {x}
  PROVE  RefsStay
<1> SUFFICES ASSUME NEW w \in WalletIds, NEW b \in Buckets, NEW i \in DOMAIN ledger[w][b]
             PROVE  /\ i \in DOMAIN ledger'[w][b]
                    /\ ledger'[w][b][i].request = ledger[w][b][i].request
  BY DEF RefsStay
<1> DEFINE old == ledger[w][b][i].request
           new == ledger'[w][b][i].request
<1>1. i \in DOMAIN ledger'[w][b]
  BY DEF Grows
<1>2. old \in RequestIds \cup {None} /\ new \in RequestIds \cup {None}
  <2>1. ledger[w][b] \in Seq(Entry) /\ ledger'[w][b] \in Seq(Entry)
    BY DEF TypeOK, DbTypeOK
  <2>2. ledger[w][b][i] \in Entry /\ ledger'[w][b][i] \in Entry
    BY <1>1, <2>1
  <2>. QED
    BY <2>2 DEF Entry
<1>3. ASSUME NEW r \in RequestIds, old = r PROVE new = r
  <2>1. <<w, b, i>> \in EntriesIn(ledger, r)
    BY <1>3, EntryIn
  <2>. QED
    BY <2>1, EntryIn
<1>4. ASSUME NEW r \in RequestIds, new = r PROVE old = r
  <2>1. <<w, b, i>> \in EntriesIn(ledger', r)
    BY <1>1, <1>4, EntryIn
  <2>2. <<w, b, i>> # x
    OBVIOUS
  <2>3. <<w, b, i>> \in EntriesIn(ledger, r)
    BY <2>1, <2>2
  <2>. QED
    BY <2>3, EntryIn
<1>. QED
  BY <1>1, <1>2, <1>3, <1>4

LEMMA SameRefs ==
  ASSUME TypeOK, TypeOK', Grows(ledger, ledger'),
         \A r \in RequestIds : EntriesOf(r)' = EntriesOf(r)
  PROVE  RefsStay
<1>1. \A r \in RequestIds : EntriesIn(ledger', r) = EntriesIn(ledger, r)
  BY EntriesAreIn
<1> SUFFICES ASSUME NEW w \in WalletIds, NEW b \in Buckets, NEW i \in DOMAIN ledger[w][b]
             PROVE  /\ i \in DOMAIN ledger'[w][b]
                    /\ ledger'[w][b][i].request = ledger[w][b][i].request
  BY DEF RefsStay
<1>2. ledger[w][b] \in Seq(Entry)
  BY DEF TypeOK, DbTypeOK
<1> DEFINE x == <<w, b, Len(ledger[w][b]) + 1>>
<1>3. x[3] \notin DOMAIN ledger[x[1]][x[2]]
  BY <1>2
<1>. HIDE DEF x
<1>4. RefsStay
  BY <1>1, <1>3, RefsAreKept
<1>. QED
  BY <1>4 DEF RefsStay

LEMMA SavedOwners ==
  ASSUME TypeOK, TypeOK', NEW c \in Clients, NEW w, NEW main, NEW temp,
         Saved(c, w, main, temp), Owner(c) \in Users
  PROVE  OwnersStay
<1>1. /\ w \in WalletIds /\ Holds(c, w)
      /\ wallets'[w] = [owner |-> Owner(c), main |-> main, temp |-> temp]
      /\ \A v \in WalletIds \ {w} : wallets'[v] = wallets[v]
  BY SavedWallet DEF Saved
<1>2. wallets'[w] # None
  <2>1. main \in Nat /\ temp \in Nat
    BY DEF Saved
  <2>. QED
    BY <1>1, <2>1, NoneAssumption DEF Wallet
<1>3. wallets[w] # None => wallets[w].owner = Owner(c)
  BY <1>1 DEF Holds
<1>. QED
  BY <1>1, <1>2, <1>3 DEF OwnersStay

LEMMA StepStays ==
  ASSUME NoChanges, IInv, IInv', ServesCalls, [Next]_vars
  PROVE  RefsStay /\ OwnersStay /\ DecisionsStay
<1>. TypeOK /\ TypeOK'
  BY DEF IInv
<1>1. ASSUME KeepsRequests PROVE RefsStay /\ DecisionsStay
  <2>1. /\ requests' = requests /\ Grows(ledger, ledger')
        /\ \A r \in RequestIds : EntriesOf(r)' = EntriesOf(r)
    BY <1>1 DEF KeepsRequests, Untouched
  <2>. QED
    BY <2>1, SameRefs DEF DecisionsStay
<1>2. ASSUME UNCHANGED ledger
      PROVE  RefsStay /\ \A r : EntriesOf(r)' = EntriesOf(r)
  BY <1>2, UntouchedLedger, SameRefs
<1>3. ASSUME UNCHANGED wallets PROVE OwnersStay
  BY <1>3 DEF OwnersStay
<1>4. ASSUME UNCHANGED db PROVE RefsStay /\ OwnersStay /\ DecisionsStay
  BY <1>2, <1>3, <1>4 DEF db, DecisionsStay
<1>5. ASSUME NEW c \in Clients, Start(c) \/ Step(c) \/ Crash(c) \/ DeadlockVictim(c)
      PROVE  RefsStay /\ OwnersStay /\ DecisionsStay
  <2>1. ASSUME pc[c] \in Active, NEW w, NEW main, NEW temp, Saved(c, w, main, temp)
        PROVE  OwnersStay
    <3>1. Owner(c) \in Users
      BY <2>1, OwnerTypes DEF IInv
    <3>. QED
      BY <2>1, <3>1, SavedOwners
  <2>2. CASE CreateWrite(c) \/ TransferWrite(c) \/ BetWrite(c) \/ WinWrite(c)
    <3>1. KeepsRequests /\ \E w, main, temp : Saved(c, w, main, temp)
      BY <2>2, CreateEffect, TransferEffect, BetEffect, WinEffect
    <3>2. pc[c] \in Active
      BY <2>2 DEF CreateWrite, TransferWrite, BetWrite, WinWrite, Writing, Active
    <3>. QED
      BY <1>1, <2>1, <3>1, <3>2
  <2>3. CASE RequestWrite(c)
    <3>1. PICK w \in WalletIds, r \in RequestIds :
            /\ UNCHANGED ledger /\ requests[r] = None
            /\ requests' = [requests EXCEPT ![r] =
                 [user |-> Owner(c), wallet |-> w, type |-> call[c].type,
                  amount |-> Amount(c), status |-> "PENDING"]]
            /\ UNCHANGED wallets \/ Saved(c, w, 0, 0)
      BY <2>3, RequestEffect
    <3>2. \A q \in RequestIds \ {r} : requests'[q] = requests[q]
      BY <3>1 DEF TypeOK, DbTypeOK
    <3>3. pc[c] \in Active
      BY <2>3 DEF RequestWrite, Writing, Active
    <3>4. OwnersStay
      BY <1>3, <2>1, <3>1, <3>3
    <3>. QED
      BY <1>2, <3>1, <3>2, <3>4 DEF DecisionsStay
  <2>4. CASE AcceptWrite(c)
    <3> DEFINE r == call[c].request
               w == requests[r].wallet
               x == <<w, "MAIN", Len(ledger[w]["MAIN"]) + 1>>
    <3>1. /\ r \in RequestIds /\ requests[r] # None /\ requests[r].status = "PENDING"
          /\ requests' = [requests EXCEPT ![r] = [@ EXCEPT !.status = "ACCEPTED"]]
          /\ \E main, temp : Saved(c, w, main, temp)
          /\ Grows(ledger, ledger')
          /\ EntriesIn(ledger', r) = EntriesIn(ledger, r) \cup {x}
          /\ \A q \in RequestIds \ {r} : EntriesIn(ledger', q) = EntriesIn(ledger, q)
      BY <2>4, AcceptEffect
    <3>2. \A q \in RequestIds \ {r} : requests'[q] = requests[q]
      BY <3>1 DEF TypeOK, DbTypeOK
    <3>3. pc[c] \in Active
      BY <2>4 DEF AcceptWrite, Writing, Active
    <3>4. OwnersStay
      BY <2>1, <3>1, <3>3
    <3>5. x[3] \notin DOMAIN ledger[x[1]][x[2]]
      <4>1. w \in WalletIds
        BY <3>1 DEF Saved
      <4>2. ledger[w]["MAIN"] \in Seq(Entry)
        BY <4>1 DEF TypeOK, DbTypeOK, Buckets
      <4>. QED
        BY <4>2
    <3>. HIDE DEF r, w, x
    <3>6. RefsStay
      BY <3>1, <3>5, RefsAreKept
    <3>7. DecisionsStay
      BY <3>1, <3>2, EntriesAreIn DEF DecisionsStay
    <3>. QED
      BY <3>4, <3>6, <3>7
  <2>5. CASE RejectWrite(c)
    <3> DEFINE r == call[c].request
    <3>1. /\ UNCHANGED <<wallets, ledger>> /\ r \in RequestIds
          /\ requests[r].status = "PENDING"
          /\ requests' = [requests EXCEPT ![r] = [@ EXCEPT !.status = "REJECTED"]]
      BY <2>5, RejectEffect
    <3>2. \A q \in RequestIds \ {r} : requests'[q] = requests[q]
      BY <3>1 DEF TypeOK, DbTypeOK
    <3>. QED
      BY <1>2, <1>3, <3>1, <3>2 DEF DecisionsStay
  <2>6. ~(EditWrite(c) \/ EditInsert(c) \/ DeleteWrite(c))
    BY NoChange
  <2>. QED
    BY <1>4, <1>5, <2>2, <2>3, <2>4, <2>5, <2>6, StepSplits
<1>6. CASE Terminating \/ UNCHANGED vars
  BY <1>4, <1>6 DEF Terminating, vars
<1>. QED
  BY <1>5, <1>6 DEF Next

-----------------------------------------------------------------------------
(* What a listing knows, of calls without edits and deletions.             *)

\* the movement a ledger row is listed as
RowOf(e) == Movement(e[1], e[2], e[3])

\* What was there when a listing began is still there, the movements it found are
\* as it found them, and it has not missed the row or the rejection of a decision.
ListingOK == listing # None =>
  LET us == listing.users
      known == listing.known
  IN
  /\ listing = [users |-> us, paged |-> listing.paged, known |-> known,
                movements |-> listing.movements, decided |-> listing.decided]
  /\ \A m \in known.moved : m \in MovementsOf(us)
  /\ \A r \in known.decided : r \in DecidedOf(us)
  /\ listing.movements # None =>
       /\ \A j \in listing.movements :
            j.movement \in MovementsOf(us) /\ j = Joined(j.movement)
       /\ \A m \in known.moved : Joined(m) \in listing.movements
       /\ \A r \in known.decided : \A e \in EntriesOf(r) :
            Joined(RowOf(e)) \in listing.movements
  /\ listing.decided # None =>
       \A r \in known.decided : EntriesOf(r) = {} => r \in listing.decided

\* the movements of some wallets, in any ledger
RowsOf(L, ws) ==
  UNION {{Movement(w, b, i) : i \in DOMAIN L[w][b]} : w \in ws, b \in Buckets}

LEMMA InRows ==
  ASSUME NEW L, NEW ws
  PROVE  \A m : m \in RowsOf(L, ws) <=>
           \E w \in ws, b \in Buckets : \E i \in DOMAIN L[w][b] : m = Movement(w, b, i)
<1> DEFINE Of(w, b) == {Movement(w, b, i) : i \in DOMAIN L[w][b]}
           parts == {Of(w, b) : w \in ws, b \in Buckets}
<1>1. ASSUME NEW w, NEW b
      PROVE  \A m : m \in Of(w, b) <=> \E i \in DOMAIN L[w][b] : m = Movement(w, b, i)
  OBVIOUS
<1>2. RowsOf(L, ws) = UNION parts
  BY DEF RowsOf
<1>. HIDE DEF Of
<1>3. \A s : s \in parts <=> \E w \in ws, b \in Buckets : s = Of(w, b)
  OBVIOUS
<1>. HIDE DEF parts
<1>4. \A m : m \in RowsOf(L, ws) <=> \E w \in ws, b \in Buckets : m \in Of(w, b)
  BY <1>2, <1>3
<1>. QED
  BY <1>1, <1>4

LEMMA InMovements ==
  ASSUME NEW us
  PROVE  /\ \A m : m \in MovementsOf(us) <=>
              \E u \in us : \E w \in WalletsOf(u), b \in Buckets :
                \E i \in DOMAIN ledger[w][b] : m = Movement(w, b, i)
         /\ \A u \in us : \A w \in WalletsOf(u)', b \in Buckets :
              \A i \in DOMAIN ledger'[w][b] : Movement(w, b, i) \in MovementsOf(us)'
<1> DEFINE ws == UNION {WalletsOf(u) : u \in us}
           next == UNION {WalletsOf(u)' : u \in us}
<1>1. \A w : w \in ws <=> \E u \in us : w \in WalletsOf(u)
  OBVIOUS
<1>2. \A w : w \in next <=> \E u \in us : w \in WalletsOf(u)'
  OBVIOUS
<1>3. MovementsOf(us) = RowsOf(ledger, ws)
  BY DEF MovementsOf, RowsOf
<1>4. MovementsOf(us)' = RowsOf(ledger', next)
  BY DEF MovementsOf, RowsOf
<1>. HIDE DEF ws, next
<1>5. \A m : m \in MovementsOf(us) <=> \E w \in ws, b \in Buckets :
        \E i \in DOMAIN ledger[w][b] : m = Movement(w, b, i)
  BY <1>3, InRows
<1>6. \A m : m \in MovementsOf(us)' <=> \E w \in next, b \in Buckets :
        \E i \in DOMAIN ledger'[w][b] : m = Movement(w, b, i)
  BY <1>4, InRows
<1>. QED
  BY <1>1, <1>2, <1>5, <1>6

\* a movement, and the row it lists
LEMMA MovementRows ==
  ASSUME IInv, NEW us, NEW m \in MovementsOf(us)
  PROVE  \E w \in WalletIds, b \in Buckets : \E i \in DOMAIN ledger[w][b] :
           /\ m = Movement(w, b, i) /\ EntryOf(m) = ledger[w][b][i]
           /\ EntryOf(m).request \in RequestIds \cup {None}
           /\ \E u \in us : w \in WalletsOf(u)
<1>0. PICK u \in us : \E w \in WalletsOf(u), b \in Buckets :
        \E i \in DOMAIN ledger[w][b] : m = Movement(w, b, i)
  BY InMovements
<1>5. PICK w \in WalletsOf(u), b \in Buckets :
        \E i \in DOMAIN ledger[w][b] : m = Movement(w, b, i)
  BY <1>0
<1>1. PICK i \in DOMAIN ledger[w][b] : m = Movement(w, b, i)
  BY <1>5
<1>2. w \in WalletIds
  BY DEF WalletsOf
<1>3. EntryOf(m) = ledger[w][b][i]
  BY <1>1 DEF EntryOf, Movement
<1>4. ledger[w][b][i] \in Entry
  <2>1. ledger[w][b] \in Seq(Entry)
    BY <1>2 DEF IInv, TypeOK, DbTypeOK
  <2>. QED
    BY <2>1
<1>. QED
  BY <1>1, <1>2, <1>3, <1>4 DEF Entry

\* the row a decision became is a movement of whoever asked for it
LEMMA RowsInScope ==
  ASSUME IInv, DecisionInv, NEW us, NEW r \in DecidedOf(us), NEW e \in EntriesOf(r)
  PROVE  /\ RowOf(e) \in MovementsOf(us)
         /\ EntryOf(RowOf(e)) = ledger[e[1]][e[2]][e[3]]
         /\ EntryOf(RowOf(e)).request = r
<1>1. /\ r \in RequestIds /\ requests[r] # None /\ requests[r].user \in us
  BY DEF DecidedOf
<1>2. e[1] = requests[r].wallet
  BY <1>1 DEF DecisionInv, Booked
<1>3. requests[r].wallet \in WalletsOf(requests[r].user)
  BY <1>1 DEF IInv, Tables, RequestsHaveWallets
<1>4. PICK w \in WalletIds, b \in Buckets : \E i \in DOMAIN ledger[w][b] :
        e = <<w, b, i>> /\ ledger[w][b][i].request = r
  BY EntryIn, EntriesAreIn
<1>5. PICK i \in DOMAIN ledger[w][b] : e = <<w, b, i>> /\ ledger[w][b][i].request = r
  BY <1>4
<1>6. RowOf(e) = Movement(w, b, i) /\ w \in WalletsOf(requests[r].user)
  BY <1>2, <1>3, <1>5 DEF RowOf
<1>7. RowOf(e) \in MovementsOf(us)
  BY <1>1, <1>6, InMovements
<1>. QED
  BY <1>5, <1>6, <1>7 DEF EntryOf, Movement

\* a movement of a request is the row of a decision
LEMMA MovementDecides ==
  ASSUME IInv, DecisionInv, NEW us, NEW m \in MovementsOf(us),
         NEW r, EntryOf(m).request = r, r # None
  PROVE  /\ r \in RequestIds /\ requests[r] # None /\ requests[r].status = "ACCEPTED"
         /\ \E e \in EntriesOf(r) : m = RowOf(e)
<1>0. PICK w \in WalletIds, b \in Buckets : \E i \in DOMAIN ledger[w][b] :
        /\ m = Movement(w, b, i) /\ EntryOf(m) = ledger[w][b][i]
        /\ EntryOf(m).request \in RequestIds \cup {None}
  BY MovementRows
<1>1. PICK i \in DOMAIN ledger[w][b] :
        /\ m = Movement(w, b, i) /\ EntryOf(m) = ledger[w][b][i]
        /\ EntryOf(m).request \in RequestIds \cup {None}
  BY <1>0
<1>2. r \in RequestIds
  BY <1>1
<1>3. <<w, b, i>> \in EntriesOf(r)
  BY <1>1, EntryIn, EntriesAreIn
<1>4. requests[r] # None /\ requests[r].status = "ACCEPTED"
  BY <1>2, <1>3 DEF DecisionInv, Forgotten, Booked
<1>. QED
  BY <1>1, <1>2, <1>3, <1>4 DEF RowOf

-----------------------------------------------------------------------------
(* The listing under way, while the service moves.                         *)

LEMMA MovementsGrow ==
  ASSUME IInv, DecisionInv, RefsStay, OwnersStay, DecisionsStay,
         NEW us, NEW m \in MovementsOf(us)
  PROVE  m \in MovementsOf(us)' /\ Joined(m)' = Joined(m)
<1>0. PICK w \in WalletIds, b \in Buckets : \E i \in DOMAIN ledger[w][b] :
        /\ m = Movement(w, b, i) /\ EntryOf(m) = ledger[w][b][i]
        /\ EntryOf(m).request \in RequestIds \cup {None}
        /\ \E u \in us : w \in WalletsOf(u)
  BY MovementRows
<1>1. PICK i \in DOMAIN ledger[w][b] :
        /\ m = Movement(w, b, i) /\ EntryOf(m) = ledger[w][b][i]
        /\ EntryOf(m).request \in RequestIds \cup {None}
        /\ \E u \in us : w \in WalletsOf(u)
  BY <1>0
<1>2. PICK u \in us : w \in WalletsOf(u)
  BY <1>1
<1>3. w \in WalletsOf(u)'
  BY <1>2 DEF WalletsOf, OwnersStay
<1>4. i \in DOMAIN ledger'[w][b] /\ ledger'[w][b][i].request = ledger[w][b][i].request
  BY DEF RefsStay
<1>5. m \in MovementsOf(us)'
  <2>1. Movement(w, b, i) \in MovementsOf(us)'
    BY <1>3, <1>4, InMovements
  <2>. QED
    BY <1>1, <2>1 DEF Movement
<1>6. EntryOf(m)'.request = EntryOf(m).request
  BY <1>1, <1>4 DEF EntryOf, Movement
<1> DEFINE r == EntryOf(m).request
<1>7. r # None => requests'[r] = requests[r]
  BY MovementDecides DEF DecisionsStay
<1>. QED
  BY <1>5, <1>6, <1>7 DEF Joined

LEMMA ListingKeeps ==
  ASSUME IInv, DecisionInv, ListingOK, RefsStay, OwnersStay, DecisionsStay,
         UNCHANGED listing
  PROVE  ListingOK'
<1> SUFFICES ASSUME listing # None PROVE ListingOK'
  BY DEF ListingOK
<1> DEFINE us == listing.users
           known == listing.known
<1>1. \A m \in MovementsOf(us) : m \in MovementsOf(us)' /\ Joined(m)' = Joined(m)
  BY MovementsGrow
<1>2. \A m \in known.moved : m \in MovementsOf(us)
  BY DEF ListingOK
<1>3. \A r \in known.decided : r \in DecidedOf(us)
  BY DEF ListingOK
<1>4. ASSUME NEW r \in DecidedOf(us)
      PROVE  r \in DecidedOf(us)' /\ EntriesOf(r)' = EntriesOf(r)
  BY <1>4 DEF DecidedOf, DecisionsStay
<1>5. ASSUME NEW r \in known.decided, NEW e \in EntriesOf(r)
      PROVE  Joined(RowOf(e))' = Joined(RowOf(e))
  <2>1. RowOf(e) \in MovementsOf(us)
    BY <1>3, <1>5, RowsInScope
  <2>2. Joined(RowOf(e))' = Joined(RowOf(e))
    BY <2>1, <1>1
  <2>. QED
    BY <2>2
<1>6. listing.movements # None =>
        /\ \A j \in listing.movements :
             j.movement \in MovementsOf(us) /\ j = Joined(j.movement)
        /\ \A m \in known.moved : Joined(m) \in listing.movements
        /\ \A r \in known.decided : \A e \in EntriesOf(r) :
             Joined(RowOf(e)) \in listing.movements
  BY DEF ListingOK
<1>7. listing.decided # None =>
        \A r \in known.decided : EntriesOf(r) = {} => r \in listing.decided
  BY DEF ListingOK
<1>8. listing = [users |-> us, paged |-> listing.paged, known |-> known,
                 movements |-> listing.movements, decided |-> listing.decided]
  BY DEF ListingOK
<1>9. /\ \A m \in known.moved : m \in MovementsOf(us)'
      /\ \A r \in known.decided : r \in DecidedOf(us)'
  BY <1>1, <1>2, <1>3, <1>4
<1>10. listing.movements # None =>
        /\ \A j \in listing.movements :
             j.movement \in MovementsOf(us)' /\ j = Joined(j.movement)'
        /\ \A m \in known.moved : Joined(m)' \in listing.movements
        /\ \A r \in known.decided : \A e \in EntriesOf(r)' :
             Joined(RowOf(e))' \in listing.movements
  BY <1>1, <1>2, <1>3, <1>4, <1>5, <1>6
<1>11. listing.decided # None =>
        \A r \in known.decided : EntriesOf(r)' = {} => r \in listing.decided
  BY <1>3, <1>4, <1>7
<1>. HIDE DEF us, known
<1>12. listing' = listing
  OBVIOUS
<1>. QED
  BY <1>8, <1>9, <1>10, <1>11, <1>12 DEF ListingOK, us, known

-----------------------------------------------------------------------------
(* The listing's own steps.                                                *)

LEMMA BeginsOK ==
  ASSUME BeginListing
  PROVE  ListingOK'
<1>1. UNCHANGED vars
  BY DEF BeginListing
<1>2. PICK q \in Queries :
        listing' = [users |-> Scope(q), paged |-> q.paged,
                    known |-> [moved |-> MovementsOf(Scope(q)),
                               decided |-> DecidedOf(Scope(q))],
                    movements |-> None, decided |-> None]
  BY DEF BeginListing
<1> DEFINE us == Scope(q)
<1>3. MovementsOf(us)' = MovementsOf(us) /\ DecidedOf(us)' = DecidedOf(us)
  BY <1>1 DEF vars, db, MovementsOf, WalletsOf, DecidedOf
<1>. HIDE DEF us
<1>4. /\ listing'.users = us /\ listing'.movements = None /\ listing'.decided = None
      /\ listing'.known.moved = MovementsOf(us) /\ listing'.known.decided = DecidedOf(us)
  BY <1>2 DEF us
<1>5. listing' = [users |-> listing'.users, paged |-> listing'.paged,
                  known |-> listing'.known, movements |-> listing'.movements,
                  decided |-> listing'.decided]
  BY <1>2
<1>. QED
  BY <1>3, <1>4, <1>5 DEF ListingOK

LEMMA FindsMovements ==
  ASSUME IInv, DecisionInv, ListingOK, FindMovements
  PROVE  ListingOK'
<1> DEFINE us == listing.users
           known == listing.known
           found == {Joined(m) : m \in MovementsOf(us)}
<1>1. /\ listing # None /\ UNCHANGED vars
      /\ listing' = [listing EXCEPT !.movements = found]
  BY DEF FindMovements
<1>2. /\ listing = [users |-> us, paged |-> listing.paged, known |-> known,
                    movements |-> listing.movements, decided |-> listing.decided]
      /\ \A m \in known.moved : m \in MovementsOf(us)
      /\ \A r \in known.decided : r \in DecidedOf(us)
      /\ listing.decided # None =>
           \A r \in known.decided : EntriesOf(r) = {} => r \in listing.decided
  BY <1>1 DEF ListingOK
<1>3. /\ \A u : MovementsOf(u)' = MovementsOf(u) /\ DecidedOf(u)' = DecidedOf(u)
      /\ \A m : Joined(m)' = Joined(m)
      /\ \A r : EntriesOf(r)' = EntriesOf(r)
  BY <1>1 DEF vars, db, MovementsOf, WalletsOf, DecidedOf, Joined, EntryOf, EntriesOf
<1>4. \A m \in MovementsOf(us) : Joined(m) \in found
  OBVIOUS
<1>5. \A j \in found : j.movement \in MovementsOf(us) /\ j = Joined(j.movement)
  BY DEF Joined
<1>6. \A r \in known.decided : \A e \in EntriesOf(r) : Joined(RowOf(e)) \in found
  BY <1>2, <1>4, RowsInScope
<1>. HIDE DEF found, us, known
<1>7. listing' = [users |-> us, paged |-> listing.paged, known |-> known,
                  movements |-> found, decided |-> listing.decided]
  BY <1>1, <1>2
<1>8. /\ listing'.users = us /\ listing'.known = known /\ listing'.movements = found
      /\ listing'.decided = listing.decided /\ listing'.paged = listing.paged
  BY <1>7
<1>. QED
  BY <1>2, <1>3, <1>4, <1>5, <1>6, <1>7, <1>8 DEF ListingOK

LEMMA FindsDecided ==
  ASSUME IInv, ListingOK, FindDecided
  PROVE  ListingOK'
<1> DEFINE us == listing.users
           known == listing.known
           found == IF listing.paged THEN Unmoved(us) ELSE DecidedOf(us)
<1>1. /\ listing # None /\ UNCHANGED vars
      /\ listing' = [listing EXCEPT !.decided = found]
  BY DEF FindDecided
<1>2. /\ listing = [users |-> us, paged |-> listing.paged, known |-> known,
                    movements |-> listing.movements, decided |-> listing.decided]
      /\ \A m \in known.moved : m \in MovementsOf(us)
      /\ \A r \in known.decided : r \in DecidedOf(us)
      /\ listing.movements # None =>
           /\ \A j \in listing.movements :
                j.movement \in MovementsOf(us) /\ j = Joined(j.movement)
           /\ \A m \in known.moved : Joined(m) \in listing.movements
           /\ \A r \in known.decided : \A e \in EntriesOf(r) :
                Joined(RowOf(e)) \in listing.movements
  BY <1>1 DEF ListingOK
<1>3. /\ \A u : MovementsOf(u)' = MovementsOf(u) /\ DecidedOf(u)' = DecidedOf(u)
      /\ \A m : Joined(m)' = Joined(m)
      /\ \A r : EntriesOf(r)' = EntriesOf(r)
  BY <1>1 DEF vars, db, MovementsOf, WalletsOf, DecidedOf, Joined, EntryOf, EntriesOf
<1>4. ASSUME NEW r \in known.decided, EntriesOf(r) = {}
      PROVE  r \in found
  <2>1. r \in DecidedOf(us)
    BY <1>2, <1>4
  <2>2. ASSUME NEW m \in MovementsOf(Users), EntryOf(m).request = r
        PROVE  FALSE
    <3>1. PICK w \in WalletIds, b \in Buckets : \E i \in DOMAIN ledger[w][b] :
            EntryOf(m) = ledger[w][b][i]
      BY MovementRows
    <3>2. PICK i \in DOMAIN ledger[w][b] : ledger[w][b][i].request = r
      BY <2>2, <3>1
    <3>3. <<w, b, i>> \in EntriesOf(r)
      BY <3>2, EntryIn, EntriesAreIn
    <3>. QED
      BY <1>4, <3>3
  <2>. QED
    BY <2>1, <2>2 DEF Unmoved
<1>. HIDE DEF found, us, known
<1>7. listing' = [users |-> us, paged |-> listing.paged, known |-> known,
                  movements |-> listing.movements, decided |-> found]
  BY <1>1, <1>2
<1>8. /\ listing'.users = us /\ listing'.known = known /\ listing'.decided = found
      /\ listing'.movements = listing.movements /\ listing'.paged = listing.paged
  BY <1>7
<1>. QED
  BY <1>2, <1>3, <1>4, <1>7, <1>8 DEF ListingOK

HistoryInv == IInv /\ DecisionInv /\ ListingOK

LEMMA HistoryStart == HistoryInit => HistoryInv
BY SafetyInit, DecisionInit DEF HistoryInit, HistoryInv, ListingOK

LEMMA HistorySteps ==
  ASSUME NoChanges
  PROVE  HistoryInv /\ [HistoryNext]_history => HistoryInv'
<1> SUFFICES ASSUME HistoryInv, [HistoryNext]_history PROVE HistoryInv'
  OBVIOUS
<1>. IInv /\ DecisionInv /\ ListingOK
  BY DEF HistoryInv
<1>1. [Next]_vars
  BY DEF HistoryNext, history, BeginListing, FindMovements, FindDecided
<1>2. NoEdits
  BY DEF NoChanges, NoEdits, ByRequest
<1>3. IInv' /\ DecisionInv'
  BY <1>1, <1>2, SafetyStep, DecisionStep
<1>4. CASE UNCHANGED listing
  <2>1. RefsStay /\ OwnersStay /\ DecisionsStay
    BY <1>1, <1>3, StepStays DEF DecisionInv
  <2>. QED
    BY <1>3, <1>4, <2>1, ListingKeeps DEF HistoryInv
<1>5. CASE BeginListing \/ FindMovements \/ FindDecided
  BY <1>3, <1>5, BeginsOK, FindsMovements, FindsDecided DEF HistoryInv
<1>. QED
  BY <1>4, <1>5 DEF HistoryNext, history

-----------------------------------------------------------------------------
(* What a listing shows.                                                   *)

LEMMA ShownOnce ==
  ASSUME HistoryInv, Answered, NEW r \in listing.known.decided
  PROVE  Cardinality({j \in listing.movements : j.request = r})
           + (IF <<"request", r>> \in Shown THEN 1 ELSE 0) = 1
<1> DEFINE us == listing.users
           moved == listing.movements
           of == {j \in moved : j.request = r}
           represented == {j.request : j \in moved}
<1>. IInv /\ DecisionInv
  BY DEF HistoryInv
<1>1. /\ \A j \in moved : j.movement \in MovementsOf(us) /\ j = Joined(j.movement)
      /\ \A e \in EntriesOf(r) : Joined(RowOf(e)) \in moved
      /\ EntriesOf(r) = {} => r \in listing.decided
      /\ r \in DecidedOf(us)
  BY DEF HistoryInv, ListingOK, Answered
<1>2. r \in RequestIds /\ requests[r] # None /\ r # None
  BY <1>1, NoneAssumption DEF DecidedOf
<1>3. Shown = {<<"movement", j.movement>> : j \in moved}
                \cup {<<"request", x>> : x \in listing.decided \ represented}
  BY DEF Shown, Combined
<1>4. r \in represented <=> of # {}
  OBVIOUS
<1>5. <<"request", r>> \in Shown <=> r \in listing.decided /\ of = {}
  BY <1>3, <1>4
<1>6. ASSUME NEW j \in of
      PROVE  \E e \in EntriesOf(r) : j = Joined(RowOf(e))
  <2>1. j.movement \in MovementsOf(us) /\ j = Joined(j.movement) /\ j.request = r
    BY <1>1
  <2>2. EntryOf(j.movement).request = r
    BY <2>1 DEF Joined
  <2>. QED
    BY <1>2, <2>1, <2>2, MovementDecides
<1>7. CASE EntriesOf(r) = {}
  <2>1. of = {}
    BY <1>6, <1>7
  <2>2. <<"request", r>> \in Shown
    BY <1>1, <1>5, <1>7, <2>1
  <2>3. Cardinality(of) = 0
    BY <2>1, FS_EmptySet
  <2>. QED
    BY <2>2, <2>3
<1>8. CASE EntriesOf(r) # {}
  <2>1. PICK e \in EntriesOf(r) : EntriesOf(r) = {e}
    BY <1>2, <1>8 DEF DecisionInv, Booked
  <2>2. Joined(RowOf(e)) \in of
    <3>1. EntryOf(RowOf(e)).request = r
      BY <1>1, RowsInScope
    <3>. QED
      BY <1>1, <3>1 DEF Joined
  <2>. HIDE DEF of
  <2>3. of = {Joined(RowOf(e))}
    BY <1>6, <2>1, <2>2
  <2>4. Cardinality(of) = 1 /\ of # {}
    BY <2>2, <2>3, FS_Singleton
  <2>. QED
    BY <1>5, <2>4 DEF of
<1>. QED
  BY <1>7, <1>8

LEMMA TellsAll == HistoryInv => HistoryTellsAll
<1> SUFFICES ASSUME HistoryInv, Answered PROVE HistoryTellsAll
  BY DEF HistoryTellsAll
<1> DEFINE us == listing.users
           moved == listing.movements
<1>. IInv /\ DecisionInv
  BY DEF HistoryInv
<1>1. /\ \A j \in moved : j.movement \in MovementsOf(us) /\ j = Joined(j.movement)
      /\ \A m \in listing.known.moved : Joined(m) \in moved
  BY DEF HistoryInv, ListingOK, Answered
<1>2. ASSUME NEW m \in listing.known.moved PROVE <<"movement", m>> \in Shown
  <2>1. Joined(m) \in moved /\ Joined(m).movement = m
    BY <1>1 DEF Joined
  <2>2. <<"movement", Joined(m).movement>> \in Shown
    BY <2>1 DEF Shown, Combined
  <2>. QED
    BY <2>1, <2>2
<1>3. ASSUME NEW j \in moved PROVE j.status \in {"COMPLETED", "ACCEPTED"}
  <2> DEFINE r == EntryOf(j.movement).request
  <2>1. j.movement \in MovementsOf(us) /\ j = Joined(j.movement)
    BY <1>1
  <2>2. j.status = IF r = None THEN "COMPLETED" ELSE requests[r].status
    BY <2>1 DEF Joined
  <2>3. r # None => requests[r].status = "ACCEPTED"
    BY <2>1, MovementDecides
  <2>. QED
    BY <2>2, <2>3
<1>. QED
  BY <1>2, <1>3, ShownOnce DEF HistoryTellsAll

\* While no client edits or deletes a request, a listing shows all that was there
\* when it began, each decision once: its two queries read different snapshots, in
\* either order, but a decision and its movement are committed together and stay.
THEOREM HistoriesTellAll ==
  ASSUME NoChanges
  PROVE  HistorySpec => []HistoryTellsAll
BY HistoryStart, HistorySteps, TellsAll, PTL DEF HistorySpec

-----------------------------------------------------------------------------
(* Pages.                                                                  *)

\* s has m to n elements, the first m of them those of t
StartsLike(s, t, m, n) == \E c \in m..n : \E S :
  s \in [1..c -> S] /\ \A k \in 1..m : s[k] = t[k]

LEMMA FirstPlaces ==
  ASSUME NEW n \in Nat, NEW order, DOMAIN order = 1..n, NEW rows,
         NEW m \in 0..n, \A i \in 1..m : order[i] \in rows
  PROVE  StartsLike(Ordered(order, rows), order, m, n)
<1> DEFINE at == {i \in 1..n : order[i] \in rows}
           c == Cardinality(at)
           upTo(i) == {j \in 1..i : order[j] \in rows}
           picked == [k \in 1..c |-> order[CHOOSE i \in at : Place(order, rows, i) = k]]
<1>1. Ordered(order, rows) = picked
  BY DEF Ordered
<1>2. /\ IsFiniteSet(1..n) /\ Cardinality(1..n) = n
      /\ \A i \in 0..n : IsFiniteSet(1..i) /\ Cardinality(1..i) = i
  BY FS_Interval
<1>3. IsFiniteSet(at) /\ c \in Nat /\ c <= n
  <2>1. at \in SUBSET (1..n)
    OBVIOUS
  <2>2. IsFiniteSet(at) /\ Cardinality(at) <= Cardinality(1..n)
    BY <1>2, <2>1, FS_Subset
  <2>. QED
    BY <1>2, <2>2, FS_CardinalityType
<1>4. m <= c
  <2>1. 1..m \in SUBSET at
    OBVIOUS
  <2>2. Cardinality(1..m) <= c
    BY <1>3, <2>1, FS_Subset
  <2>. QED
    BY <1>2, <2>2
<1>5. ASSUME NEW i \in 1..m PROVE Place(order, rows, i) = i
  <2>1. upTo(i) = 1..i
    OBVIOUS
  <2>2. Place(order, rows, i) = Cardinality(upTo(i))
    BY DEF Place
  <2>3. Cardinality(1..i) = i
    BY <1>2
  <2>. HIDE DEF upTo
  <2>. QED
    BY <2>1, <2>2, <2>3
<1>6. ASSUME NEW i \in at, i > m PROVE Place(order, rows, i) > m
  <2>1. /\ (1..m) \cup {i} \in SUBSET upTo(i) /\ i \notin 1..m
        /\ upTo(i) \in SUBSET (1..n)
    BY <1>6
  <2>2. IsFiniteSet(upTo(i)) /\ Cardinality(upTo(i)) \in Nat
    BY <1>2, <2>1, FS_Subset, FS_CardinalityType
  <2>3. IsFiniteSet(1..m) /\ Cardinality(1..m) = m
    BY <1>2
  <2>4. Cardinality((1..m) \cup {i}) = m + 1
    <3>1. i \notin 1..m
      BY <2>1
    <3> DEFINE first == 1..m
    <3>. HIDE DEF first
    <3>2. Cardinality(first \cup {i}) = IF i \in first THEN Cardinality(first) ELSE Cardinality(first) + 1
      BY <2>3, FS_AddElement DEF first
    <3>. QED
      BY <2>3, <3>1, <3>2 DEF first
  <2>5. Cardinality((1..m) \cup {i}) <= Cardinality(upTo(i))
    BY <2>1, <2>2, FS_Subset
  <2>. QED
    BY <2>2, <2>4, <2>5 DEF Place
<1>7. ASSUME NEW k \in 1..m PROVE picked[k] = order[k]
  <2>1. k \in at /\ Place(order, rows, k) = k
    BY <1>5
  <2>2. \A i \in at : Place(order, rows, i) = k => i = k
    BY <1>5, <1>6
  <2>3. (CHOOSE i \in at : Place(order, rows, i) = k) = k
    BY <2>1, <2>2
  <2>4. k \in 1..c
    BY <1>3, <1>4
  <2>5. picked[k] = order[CHOOSE i \in at : Place(order, rows, i) = k]
    <3>. HIDE DEF c, at
    <3>. QED
      BY <2>4
  <2>. QED
    BY <2>3, <2>5
<1> DEFINE S == {picked[k] : k \in 1..c}
<1>8. picked \in [1..c -> S]
  OBVIOUS
<1>. HIDE DEF picked, c, S
<1>9. c \in m..n
  BY <1>3, <1>4
<1>. QED
  BY <1>1, <1>7, <1>8, <1>9 DEF StartsLike

\* The rows there are, in the order of all: there is nothing else among them, and
\* none of them comes later than in the order of all.
LEMMA OrderedRows ==
  ASSUME NEW n \in Nat, NEW order, DOMAIN order = 1..n, NEW rows
  PROVE  /\ \A k \in DOMAIN Ordered(order, rows) : Ordered(order, rows)[k] \in rows
         /\ \A i \in 1..n : order[i] \in rows =>
              \E k \in DOMAIN Ordered(order, rows) :
                k <= i /\ Ordered(order, rows)[k] = order[i]
<1> DEFINE at == {i \in 1..n : order[i] \in rows}
           c == Cardinality(at)
           upTo(i) == {j \in 1..i : order[j] \in rows}
           place == [i \in at |-> Place(order, rows, i)]
           picked == [k \in 1..c |-> order[CHOOSE i \in at : Place(order, rows, i) = k]]
<1>1. Ordered(order, rows) = picked
  BY DEF Ordered
<1>2. \A i \in 1..n : IsFiniteSet(1..i) /\ Cardinality(1..i) = i
  BY FS_Interval
<1>3. IsFiniteSet(at) /\ c \in Nat
  <2>1. IsFiniteSet(1..n) /\ at \in SUBSET (1..n)
    BY FS_Interval
  <2>. HIDE DEF at
  <2>. QED
    BY <2>1, FS_Subset, FS_CardinalityType
<1>4. ASSUME NEW i \in at
      PROVE  /\ IsFiniteSet(upTo(i)) /\ Place(order, rows, i) = Cardinality(upTo(i))
             /\ Place(order, rows, i) \in 1..c /\ Place(order, rows, i) <= i
  <2>1. upTo(i) \in SUBSET (1..i) /\ upTo(i) \in SUBSET at /\ i \in 1..n
    OBVIOUS
  <2>2. {i} \in SUBSET upTo(i)
    OBVIOUS
  <2>3. Place(order, rows, i) = Cardinality(upTo(i))
    BY DEF Place
  <2>. HIDE DEF upTo, at, c
  <2>4. IsFiniteSet(upTo(i)) /\ Cardinality(upTo(i)) \in Nat /\ Cardinality(upTo(i)) <= i
    BY <1>2, <2>1, FS_Subset, FS_CardinalityType
  <2>5. Cardinality(upTo(i)) <= c
    BY <1>3, <2>1, FS_Subset DEF c
  <2>6. Cardinality({i}) = 1 /\ Cardinality({i}) <= Cardinality(upTo(i))
    BY <2>2, <2>4, FS_Subset, FS_Singleton
  <2>. QED
    BY <1>3, <2>1, <2>3, <2>4, <2>5, <2>6
<1>5. ASSUME NEW i \in at, NEW j \in at, i < j
      PROVE  Place(order, rows, i) # Place(order, rows, j)
  <2>1. upTo(i) \cup {j} \in SUBSET upTo(j) /\ j \notin upTo(i)
    BY <1>5
  <2>. HIDE DEF upTo, at, c
  <2>2. Cardinality(upTo(i) \cup {j}) = Cardinality(upTo(i)) + 1
    BY <1>4, <2>1, FS_AddElement
  <2>3. Cardinality(upTo(i) \cup {j}) <= Cardinality(upTo(j))
    BY <1>4, <2>1, FS_Subset
  <2>. QED
    BY <1>3, <1>4, <2>2, <2>3
<1>6. place \in Surjection(at, 1..c)
  <2>1. at \subseteq 1..n
    OBVIOUS
  <2>. HIDE DEF at, c
  <2>2. place \in [at -> 1..c]
    BY <1>4
  <2>3. \A i, j \in at : i # j => i < j \/ j < i
    BY <2>1
  <2>4. \A i, j \in at : place[i] = place[j] => i = j
    BY <1>5, <2>3
  <2>5. place \in Injection(at, 1..c)
    BY <2>2, <2>4 DEF Injection, IsInjective
  <2>6. IsFiniteSet(1..c) /\ Cardinality(1..c) = c
    BY <1>3, FS_Interval
  <2>. HIDE DEF place
  <2>. QED
    BY <2>5, <2>6, FS_Injection DEF c
<1>7. ASSUME NEW k \in 1..c
      PROVE  \E i \in at : Place(order, rows, i) = k
  <2>. HIDE DEF at, c
  <2>1. \E i \in at : place[i] = k
    <3>. HIDE DEF place
    <3>. QED
      BY <1>6 DEF Surjection
  <2>. QED
    BY <2>1
<1>8. ASSUME NEW i \in at
      PROVE  picked[Place(order, rows, i)] = order[i]
  <2>1. \A j \in at : j # i => j < i \/ i < j
    OBVIOUS
  <2>. HIDE DEF at, c
  <2>2. \A j \in at : Place(order, rows, j) = Place(order, rows, i) => j = i
    BY <1>5, <2>1
  <2>3. (CHOOSE j \in at : Place(order, rows, j) = Place(order, rows, i)) = i
    BY <2>2
  <2>. QED
    BY <1>4, <2>3
<1>9. \A i \in at : order[i] \in rows
  OBVIOUS
<1>10. \A i \in 1..n : order[i] \in rows => i \in at
  OBVIOUS
<1>11. ASSUME NEW k \in 1..c PROVE picked[k] \in rows
  <2>. HIDE DEF at, c
  <2>1. (CHOOSE i \in at : Place(order, rows, i) = k) \in at
    BY <1>7
  <2>. QED
    BY <1>9, <2>1
<1>12. DOMAIN picked = 1..c
  OBVIOUS
<1>. HIDE DEF at, c, picked
<1>13. ASSUME NEW i \in 1..n, order[i] \in rows
       PROVE  \E k \in DOMAIN picked : k <= i /\ picked[k] = order[i]
  <2>1. i \in at
    BY <1>10, <1>13
  <2>2. Place(order, rows, i) \in DOMAIN picked /\ Place(order, rows, i) <= i
    BY <1>4, <1>12, <2>1
  <2>. QED
    BY <1>8, <2>1, <2>2
<1>. QED
  BY <1>1, <1>11, <1>12, <1>13

\* what a query limited to m rows returns are its rows, and a row that is among
\* the first m of all is among the first m of the query's
LEMMA FirstAreNewest ==
  ASSUME NEW n \in Nat, NEW T, NEW order \in [1..n -> T], NEW rows, NEW m \in Nat
  PROVE  /\ Newest(Ordered(order, rows), m) \subseteq rows
         /\ \A i \in 1..n : i <= m /\ order[i] \in rows =>
              order[i] \in Newest(Ordered(order, rows), m)
<1> DEFINE all == Ordered(order, rows)
<1>1. DOMAIN order = 1..n
  OBVIOUS
<1>2. /\ \A k \in DOMAIN all : all[k] \in rows
      /\ \A i \in 1..n : order[i] \in rows =>
           \E k \in DOMAIN all : k <= i /\ all[k] = order[i]
  BY <1>1, OrderedRows
<1>3. DOMAIN all \subseteq Int
  BY DEF Ordered
<1>. HIDE DEF all
<1>4. Newest(all, m) = {all[k] : k \in {j \in DOMAIN all : j <= m}}
  BY DEF Newest
<1>5. ASSUME NEW i \in 1..n, i <= m, order[i] \in rows
      PROVE  order[i] \in Newest(all, m)
  <2>1. PICK k \in DOMAIN all : k <= i /\ all[k] = order[i]
    BY <1>2, <1>5
  <2>. QED
    BY <1>3, <1>4, <1>5, <2>1
<1>. QED
  BY <1>2, <1>4, <1>5 DEF all

\* the merge of the two queries holds the first rows of all
LEMMA MergeHolds ==
  ASSUME IInv, NEW n \in Nat, NEW order \in [1..n -> Everyone], NEW m \in Nat,
         NEW i \in 1..n, i <= m
  PROVE  order[i] \in Merged(Ordered(order, Moves), Ordered(order, Decisions), m)
<1> DEFINE moved == Newest(Ordered(order, Moves), m)
           decided == Newest(Ordered(order, Decisions), m)
           joined == {Joined(x[2]) : x \in moved}
           ids == {x[2] : x \in decided}
<1>0. Merged(Ordered(order, Moves), Ordered(order, Decisions), m) = Combined(joined, ids)
  BY Zenon DEF Merged
<1>1. order[i] \in Moves \/ order[i] \in Decisions
  BY DEF Everyone
<1>. HIDE DEF joined, ids
<1>3. moved \subseteq Moves
  BY FirstAreNewest
<1>4. CASE order[i] \in Moves
  <2>1. PICK x \in MovementsOf(Users) : order[i] = <<"movement", x>>
    BY <1>4 DEF Moves
  <2>2. order[i] \in moved
    BY <1>4, FirstAreNewest
  <2>. HIDE DEF moved
  <2>3. Joined(x) \in joined
    BY <2>1, <2>2 DEF joined
  <2>4. Joined(x).movement = x
    BY DEF Joined
  <2>5. <<"movement", Joined(x).movement>> \in Combined(joined, ids)
    BY <2>3 DEF Combined
  <2>. QED
    BY <1>0, <2>1, <2>4, <2>5
<1>5. CASE order[i] \in Decisions
  <2>1. PICK r \in Unmoved(Users) : order[i] = <<"request", r>>
    BY <1>5 DEF Decisions
  <2>2. order[i] \in decided
    BY <1>5, FirstAreNewest
  <2>3. r \in ids
    <3>. HIDE DEF decided
    <3>. QED
      BY <2>1, <2>2 DEF ids
  <2>4. ASSUME NEW j \in joined PROVE j.request # r
    <3>. HIDE DEF moved
    <3>1. PICK x \in moved : j = Joined(x[2])
      BY <2>4 DEF joined
    <3>2. PICK y \in MovementsOf(Users) : x = <<"movement", y>>
      BY <1>3, <3>1 DEF Moves
    <3>3. j.request = EntryOf(y).request
      BY <3>1, <3>2 DEF Joined
    <3>. QED
      BY <2>1, <3>2, <3>3 DEF Unmoved
  <2>5. <<"request", r>> \in Combined(joined, ids)
    BY <2>3, <2>4 DEF Combined
  <2>. QED
    BY <1>0, <2>1, <2>5
<1>. QED
  BY <1>1, <1>4, <1>5

LEMMA SameSubSeq ==
  ASSUME NEW s, NEW t, NEW a \in Nat, NEW b \in Nat, \A k \in a..b : s[k] = t[k]
  PROVE  SubSeq(s, a, b) = SubSeq(t, a, b)
OBVIOUS

\* the elements of s, of length n, that belong on a page
Piece(s, n, limit, page) ==
  SubSeq(s, (page - 1) * limit + 1, IF page * limit < n THEN page * limit ELSE n)

\* a page shows what the order of all rows has at its place
LEMMA PageInOrder ==
  ASSUME IInv, NEW n \in Nat, NEW order \in [1..n -> Everyone],
         NEW limit \in Nat \ {0}, NEW page \in Nat \ {0}
  PROVE  Page(Ordered(order, Moves), Ordered(order, Decisions), order, page, limit) =
           Piece(order, n, limit, page)
<1> DEFINE upTo == page * limit
           m == IF upTo < n THEN upTo ELSE n
           rows == Merged(Ordered(order, Moves), Ordered(order, Decisions), upTo)
           all == Ordered(order, rows)
           last == IF upTo < Len(all) THEN upTo ELSE Len(all)
           from == (page - 1) * limit + 1
<1>1. upTo \in Nat /\ m \in 0..n /\ m <= upTo /\ from \in Nat /\ from >= 1
  OBVIOUS
<1>2. Page(Ordered(order, Moves), Ordered(order, Decisions), order, page, limit) =
        SubSeq(all, from, last)
  BY DEF Page, RowsToRead
<1>. HIDE DEF upTo, rows, from
<1>3. \A i \in 1..m : order[i] \in rows
  BY <1>1, MergeHolds DEF rows
<1>5. PICK c \in m..n : \E S : /\ all \in [1..c -> S]
                               /\ \A k \in 1..m : all[k] = order[k]
  <2>1. m \in 0..n
    BY <1>1
  <2>2. DOMAIN order = 1..n
    OBVIOUS
  <2>. HIDE DEF m
  <2>3. StartsLike(all, order, m, n)
    BY <1>3, <2>1, <2>2, FirstPlaces
  <2>. QED
    BY <2>3 DEF StartsLike
<1>6. Len(all) = c
  BY <1>1, <1>5
<1>. HIDE DEF all
<1>7. last = m
  BY <1>1, <1>5, <1>6
<1>8. \A k \in from..m : all[k] = order[k]
  BY <1>1, <1>5
<1>9. SubSeq(all, from, m) = SubSeq(order, from, m)
  BY <1>1, <1>8, SameSubSeq
<1>. QED
  BY <1>2, <1>7, <1>9 DEF upTo, from, Piece

LEMMA LeastNumber ==
  ASSUME NEW n \in Nat, NEW T, T \subseteq 1..n, T # {}
  PROVE  \E i \in T : \A j \in T : i <= j
<1> DEFINE R == StrictSubsetOrdering(1..n)
           S == FiniteSubsetsOf(1..n)
           starts == {1..i : i \in T}
<1>1. IsWellFoundedOn(R, S)
  BY FS_StrictSubsetOrderingWellFounded
<1>2. S = SUBSET (1..n)
  <2>1. IsFiniteSet(1..n)
    BY FS_Interval
  <2>. QED
    BY <2>1, FS_FiniteSubsetsOfFinite
<1>3. starts \subseteq S /\ starts # {}
  <2>1. \A i \in T : 1..i \in SUBSET (1..n)
    OBVIOUS
  <2>. HIDE DEF S
  <2>. QED
    BY <1>2, <2>1
<1>4. \E x \in starts : \A y \in starts : ~(<<y, x>> \in R)
  <2>. HIDE DEF R, S, starts
  <2>. QED
    BY <1>1, <1>3, WFMin
<1>5. PICK i \in T : \A j \in T : ~(<<1..j, 1..i>> \in R)
  BY <1>4
<1>6. ASSUME NEW j \in T, j < i PROVE FALSE
  <2>1. 1..j \subseteq 1..i /\ i \in 1..i /\ i \notin 1..j
    BY <1>6
  <2>2. 1..j \in SUBSET (1..n) /\ 1..i \in SUBSET (1..n)
    OBVIOUS
  <2>. QED
    BY <1>5, <2>1, <2>2 DEF StrictSubsetOrdering
<1>. QED
  BY <1>6

\* g[i] is the first i sequences of s, one after the other
Gathers(g, s) == g = [i \in 1..Len(s) |-> IF i = 1 THEN s[i] ELSE g[i - 1] \o s[i]]

\* FlattenSeq takes the last of any function that gathers them: there is one only
LEMMA Flattened ==
  ASSUME NEW s, NEW n \in Nat \ {0}, Len(s) = n, NEW g, Gathers(g, s)
  PROVE  FlattenSeq(s) = g[n]
<1> USE DEF Gathers
<1> DEFINE flat == CHOOSE f : Gathers(f, s)
<1>1. FlattenSeq(s) = flat[Len(s)]
  BY DEF FlattenSeq
<1>2. Gathers(flat, s)
  <2>. HIDE DEF Gathers
  <2>. QED
    OBVIOUS
<1>. HIDE DEF flat
<1> DEFINE Differ == {i \in 1..n : flat[i] # g[i]}
<1>3. CASE Differ = {}
  <2>1. n \in 1..n
    OBVIOUS
  <2>2. flat[n] = g[n]
    BY <1>3, <2>1
  <2>. QED
    BY <1>1, <2>2
<1>4. CASE Differ # {}
  <2>1. Differ \subseteq 1..n
    OBVIOUS
  <2>. HIDE DEF Differ
  <2>2. PICK i \in Differ : \A j \in Differ : i <= j
    BY <1>4, <2>1, LeastNumber
  <2>. USE DEF Differ
  <2>4. i \in 1..n /\ flat[i] # g[i]
    OBVIOUS
  <2>5. i # 1 => flat[i - 1] = g[i - 1]
    BY <2>2, <2>4
  <2>6. flat[i] = IF i = 1 THEN s[i] ELSE flat[i - 1] \o s[i]
    BY <1>2, <2>4
  <2>7. g[i] = IF i = 1 THEN s[i] ELSE g[i - 1] \o s[i]
    BY <2>4
  <2>. QED
    BY <2>4, <2>5, <2>6, <2>7
<1>. QED
  BY <1>3, <1>4

LEMMA Adjacent ==
  ASSUME NEW n \in Nat, NEW T, NEW s \in [1..n -> T], NEW a \in 1..n, NEW b \in a..n
  PROVE  SubSeq(s, 1, a) \o SubSeq(s, a + 1, b) = SubSeq(s, 1, b)
OBVIOUS

LEMMA WholeSeq ==
  ASSUME NEW n \in Nat, NEW T, NEW s \in [1..n -> T]
  PROVE  SubSeq(s, 1, n) = s /\ Len(s) = n
OBVIOUS

\* how many pages there are: enough of them, and none is empty
LEMMA PageCount ==
  ASSUME NEW n \in Nat \ {0}, NEW limit \in Nat \ {0}, NEW pages,
         pages = (n + limit - 1) \div limit
  PROVE  /\ pages \in Nat \ {0} /\ n <= pages * limit
         /\ \A i \in 1..pages : (i - 1) * limit < n
<1> DEFINE a == n + limit - 1
           rest == a % limit
<1>1. pages \in Int /\ rest \in 0..(limit - 1) /\ a = pages * limit + rest
  OBVIOUS
<1>2. pages * limit >= n /\ (pages - 1) * limit < n
  BY <1>1
<1>3. pages > 0
  BY <1>2
<1>4. ASSUME NEW i \in 1..pages PROVE (i - 1) * limit < n
  <2>1. (pages - i) * limit >= 0
    OBVIOUS
  <2>2. (pages - 1) * limit = (pages - i) * limit + (i - 1) * limit
    BY <1>1
  <2>3. (i - 1) * limit \in Int /\ (pages - i) * limit \in Int /\ (pages - 1) * limit \in Int
    BY <1>1
  <2>. QED
    BY <1>2, <2>1, <2>2, <2>3
<1>. QED
  BY <1>1, <1>2, <1>3, <1>4

\* consecutive pieces of a sequence, one after the other, are the sequence
LEMMA PiecesTile ==
  ASSUME NEW n \in Nat \ {0}, NEW order \in [1..n -> Everyone],
         NEW limit \in Nat \ {0}, NEW pages, pages = (n + limit - 1) \div limit
  PROVE  FlattenSeq([p \in 1..pages |-> Piece(order, n, limit, p)]) = order
<1> DEFINE upTo(p) == IF p * limit < n THEN p * limit ELSE n
           piece(p) == Piece(order, n, limit, p)
           s == [p \in 1..pages |-> piece(p)]
           g == [p \in 1..pages |-> SubSeq(order, 1, upTo(p))]
<1>1. /\ pages \in Nat \ {0} /\ n <= pages * limit
      /\ \A i \in 1..pages : (i - 1) * limit < n
  BY PageCount
<1>0. \A p : piece(p) = SubSeq(order, (p - 1) * limit + 1, upTo(p))
  BY DEF Piece
<1>. HIDE DEF piece
<1>2. ASSUME NEW p \in 1..pages
      PROVE  SubSeq(order, 1, upTo(p)) =
               IF p = 1 THEN piece(p) ELSE SubSeq(order, 1, upTo(p - 1)) \o piece(p)
  <2>1. CASE p = 1
    <3>1. (p - 1) * limit + 1 = 1
      BY <2>1
    <3>. HIDE DEF upTo
    <3>. QED
      BY <1>0, <2>1, <3>1
  <2>2. CASE p # 1
    <3>1. (p - 1) * limit < n /\ (p - 1) * limit \in Nat \ {0}
      <4>1. p - 1 \in Nat \ {0}
        BY <1>1, <2>2
      <4>. QED
        BY <1>1, <4>1
    <3>2. p * limit = (p - 1) * limit + limit /\ p * limit \in Nat
      BY <1>1
    <3>3. upTo(p - 1) = (p - 1) * limit
      BY <3>1
    <3>4. upTo(p) \in upTo(p - 1)..n /\ upTo(p - 1) \in 1..n
      BY <3>1, <3>2, <3>3
    <3>. HIDE DEF upTo
    <3>5. SubSeq(order, 1, upTo(p - 1)) \o SubSeq(order, upTo(p - 1) + 1, upTo(p))
            = SubSeq(order, 1, upTo(p))
      BY <3>4, Adjacent
    <3>. QED
      BY <1>0, <2>2, <3>3, <3>5
  <2>. QED
    BY <2>1, <2>2
<1>3. upTo(pages) = n
  BY <1>1
<1>. HIDE DEF upTo
<1>4. Len(s) = pages
  <2> DEFINE S == {piece(p) : p \in 1..pages}
  <2>1. s \in [1..pages -> S]
    OBVIOUS
  <2>. HIDE DEF s, S
  <2>. QED
    BY <1>1, <2>1, WholeSeq
<1>5. g = [p \in 1..pages |-> IF p = 1 THEN s[p] ELSE g[p - 1] \o s[p]]
  <2>1. ASSUME NEW p \in 1..pages, p # 1 PROVE g[p - 1] = SubSeq(order, 1, upTo(p - 1))
    <3>1. p - 1 \in 1..pages
      BY <1>1, <2>1
    <3>. QED
      BY <3>1
  <2>. QED
    BY <1>2, <2>1
<1>6. g[pages] = order
  BY <1>1, <1>3, WholeSeq
<1>. HIDE DEF s, g
<1>7. Gathers(g, s)
  BY <1>4, <1>5 DEF Gathers
<1>8. FlattenSeq(s) = g[pages]
  BY <1>1, <1>4, <1>7, Flattened
<1>. QED
  BY <1>6, <1>8 DEF s, piece

\* the tables are finite
FiniteIds == IsFiniteSet(WalletIds) /\ IsFiniteSet(RequestIds)

LEMMA FiniteImage ==
  ASSUME NEW D, IsFiniteSet(D), NEW f, DOMAIN f = D
  PROVE  IsFiniteSet({f[x] : x \in D})
<1> DEFINE T == {f[x] : x \in D}
           g == [x \in D |-> f[x]]
<1>1. g \in Surjection(D, T)
  BY DEF Surjection
<1>. HIDE DEF g, T
<1>2. IsFiniteSet(T)
  BY <1>1, FS_Surjection
<1>. QED
  BY <1>2 DEF T

LEMMA FiniteMovements ==
  ASSUME IInv, FiniteIds
  PROVE  IsFiniteSet(MovementsOf(Users))
<1> DEFINE D == WalletIds \X Buckets
           rows == [x \in D |-> {Movement(x[1], x[2], i) : i \in DOMAIN ledger[x[1]][x[2]]}]
           parts == {rows[x] : x \in D}
<1>1. ASSUME NEW w \in WalletIds, NEW b \in Buckets
      PROVE  IsFiniteSet(rows[<<w, b>>])
  <2> DEFINE I == DOMAIN ledger[w][b]
             f == [i \in I |-> Movement(w, b, i)]
  <2>1. ledger[w][b] \in Seq(Entry)
    BY DEF IInv, TypeOK, DbTypeOK
  <2>2. I = 1..Len(ledger[w][b]) /\ Len(ledger[w][b]) \in Nat
    BY <2>1
  <2>3. IsFiniteSet(I)
    <3>. HIDE DEF I
    <3>. QED
      BY <2>2, FS_Interval
  <2>4. IsFiniteSet({f[i] : i \in I})
    <3>1. DOMAIN f = I
      OBVIOUS
    <3>. HIDE DEF f, I
    <3>. QED
      BY <2>3, <3>1, FiniteImage
  <2>5. rows[<<w, b>>] = {f[i] : i \in I}
    OBVIOUS
  <2>. QED
    BY <2>4, <2>5
<1>2. IsFiniteSet(D)
  <2>1. IsFiniteSet(Buckets)
    <3>1. Buckets = {"MAIN"} \cup {"TEMPORARY_WINNING"}
      BY DEF Buckets
    <3>. QED
      BY <3>1, FS_Singleton, FS_Union
  <2>. QED
    BY <2>1, FS_Product DEF FiniteIds
<1>3. DOMAIN rows = D /\ \A x \in D : IsFiniteSet(rows[x])
  <2>1. DOMAIN rows = D
    OBVIOUS
  <2>. HIDE DEF rows
  <2>. QED
    BY <1>1, <2>1
<1>4. MovementsOf(Users) \subseteq UNION parts
  <2> SUFFICES ASSUME NEW m \in MovementsOf(Users) PROVE m \in UNION parts
    OBVIOUS
  <2>1. PICK w \in WalletIds, b \in Buckets : \E i \in DOMAIN ledger[w][b] :
          m = Movement(w, b, i)
    BY MovementRows
  <2>2. m \in rows[<<w, b>>] /\ <<w, b>> \in D
    BY <2>1
  <2>. HIDE DEF rows, D
  <2>. QED
    BY <2>2
<1>. HIDE DEF D, rows
<1>5. IsFiniteSet(parts) /\ \A p \in parts : IsFiniteSet(p)
  BY <1>2, <1>3, FiniteImage
<1>. HIDE DEF parts
<1>. QED
  BY <1>4, <1>5, FS_UNION, FS_Subset

LEMMA EveryoneIsFinite ==
  ASSUME IInv, FiniteIds
  PROVE  IsFiniteSet(Everyone)
<1> DEFINE moves == MovementsOf(Users)
           decisions == Unmoved(Users)
           f == [m \in moves |-> <<"movement", m>>]
           g == [r \in decisions |-> <<"request", r>>]
<1>1. IsFiniteSet(moves)
  BY FiniteMovements
<1>2. IsFiniteSet(decisions)
  <2>1. decisions \in SUBSET RequestIds
    BY DEF Unmoved, DecidedOf
  <2>. QED
    BY <2>1, FS_Subset DEF FiniteIds
<1>3. DOMAIN f = moves /\ DOMAIN g = decisions
  OBVIOUS
<1>4. Everyone = {f[m] : m \in moves} \cup {g[r] : r \in decisions}
  BY DEF Everyone, Moves, Decisions
<1>. HIDE DEF moves, decisions, f, g
<1>5. IsFiniteSet({f[m] : m \in moves}) /\ IsFiniteSet({g[r] : r \in decisions})
  BY <1>1, <1>2, <1>3, FiniteImage
<1>. QED
  BY <1>4, <1>5, FS_Union

LEMMA Tiles == IInv /\ FiniteIds => PagesTile
<1> SUFFICES ASSUME IInv, FiniteIds,
                    NEW order \in SetToSeqs(Everyone), NEW limit \in 1..Len(order)
             PROVE  Pages(Ordered(order, Moves), Ordered(order, Decisions), order,
                          Len(order), limit) = order
  BY Zenon DEF PagesTile
<1> DEFINE moved == Ordered(order, Moves)
           decided == Ordered(order, Decisions)
           n == Cardinality(Everyone)
           pages == (n + limit - 1) \div limit
<1>1. n \in Nat
  BY EveryoneIsFinite, FS_CardinalityType
<1>2. order \in [1..n -> Everyone]
  BY DEF SetToSeqs
<1>. HIDE DEF n
<1>3. Len(order) = n
  BY <1>1, <1>2, WholeSeq
<1>4. n \in Nat \ {0} /\ limit \in Nat \ {0}
  BY <1>1, <1>3
<1>5. pages \in Nat
  BY <1>4, PageCount
<1>6. FlattenSeq([p \in 1..pages |-> Piece(order, n, limit, p)]) = order
  <2>1. pages = (n + limit - 1) \div limit
    OBVIOUS
  <2>. HIDE DEF pages
  <2>. QED
    BY <1>2, <1>4, <2>1, PiecesTile
<1>7. \A p \in 1..pages : Page(moved, decided, order, p, limit) = Piece(order, n, limit, p)
  BY <1>2, <1>4, <1>5, PageInOrder
<1>. HIDE DEF pages
<1>8. [p \in 1..pages |-> Page(moved, decided, order, p, limit)] =
        [p \in 1..pages |-> Piece(order, n, limit, p)]
  BY <1>7
<1>. QED
  BY <1>3, <1>6, <1>8 DEF pages, Pages

\* At every moment, and whatever calls there are, reading the history page after
\* page shows each of its rows exactly once and in the order of the final sort, as
\* long as each query orders its rows as that sort does: the first rows of the
\* merge are then those of all, since each query is read as far as the page reaches.
THEOREM HistoryPagesTile ==
  ASSUME FiniteIds
  PROVE  HistorySpec => []PagesTile
<1>1. HistoryInit => IInv
  BY SafetyInit DEF HistoryInit
<1>2. IInv /\ [HistoryNext]_history => IInv'
  BY SafetyStep DEF HistoryNext, history, BeginListing, FindMovements, FindDecided
<1>3. IInv => PagesTile
  BY Tiles
<1>. QED
  BY <1>1, <1>2, <1>3, PTL DEF HistorySpec

=============================================================================
