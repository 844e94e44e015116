------------------------- MODULE WalletHistoryTimes -------------------------
(***************************************************************************)
(* The times and the ids of the rows in the transaction history, and what  *)
(* they make of its pages.  created_at and updated_at are                  *)
(* CURRENT_TIMESTAMP, the moment the writing transaction began; ids are    *)
(* given out as the rows are inserted.  The two queries of a page order by *)
(* the time, to the microsecond, and then by id; the final sort compares   *)
(* new Date(String(createdAt)), which has whole seconds only, and then     *)
(* ids.                                                                    *)
(***************************************************************************)
EXTENDS WalletHistory

VARIABLES
  begun,      \* the clients, with the second, in the order their transactions began
  moved,      \* the movements, with their client, in the order of their ids
  requested,  \* the requests in the order of their ids
  updated     \* the client whose transaction wrote each request last, or None

times == <<vars, listing, begun, moved, requested, updated>>

-----------------------------------------------------------------------------
(* How rows come by their times and ids.                                   *)

Begins(c) == pc[c] = "start" /\ pc'[c] \in Active
Commits(c) == pc[c] \in Active /\ pc'[c] = "done"

\* a transaction begins in the second of the one before it or in a later one
Now == IF begun = << >> THEN 0 ELSE begun[Len(begun)].second
Clock ==
  IF \E c \in Clients : Begins(c)
  THEN \E c \in Clients, s \in {Now, Now + 1} :
         Begins(c) /\ begun' = Append(begun, [client |-> c, second |-> s])
  ELSE UNCHANGED begun

\* a transfer inserts the movement out of the winnings before the one into main
Inserted(ms) == SetToSortSeq(ms,
  LAMBDA m, n : m.bucket = "TEMPORARY_WINNING" /\ n.bucket = "MAIN")

\* the INSERTs and UPDATEs of the transaction that commits
Stamps ==
  IF \E c \in Clients : Commits(c)
  THEN \E c \in Clients :
         /\ Commits(c)
         /\ LET new == Inserted(MovementsOf(Users)' \ MovementsOf(Users))
            IN moved' = moved \o [i \in DOMAIN new |-> [movement |-> new[i], client |-> c]]
         /\ requested' = requested \o SetToSeq(usedRequests' \ usedRequests)
         /\ updated' = [r \in RequestIds |->
              IF requests'[r] # requests[r] THEN c ELSE updated[r]]
  ELSE UNCHANGED <<moved, requested, updated>>

TimesInit ==
  /\ HistoryInit
  /\ begun = << >> /\ moved = << >> /\ requested = << >>
  /\ updated = [r \in RequestIds |-> None]
TimesNext == Next /\ Clock /\ Stamps /\ UNCHANGED listing
TimesSpec == TimesInit /\ [][TimesNext]_times /\ Fairness

-----------------------------------------------------------------------------
(* The orders. *)

IsRequest(x) == x[1] = "request"
MovedAs(m) == CHOOSE i \in DOMAIN moved : moved[i].movement = m
Writer(x) == IF IsRequest(x) THEN updated[x[2]] ELSE moved[MovedAs(x[2])].client
Id(x) == IF IsRequest(x) THEN CHOOSE i \in DOMAIN requested : requested[i] = x[2]
                         ELSE MovedAs(x[2])
\* the microsecond and the second of a row
Time(x) == CHOOSE i \in DOMAIN begun : begun[i].client = Writer(x)
Second(x) == begun[Time(x)].second

\* ORDER BY created_at DESC, id DESC and ORDER BY updated_at DESC, id DESC
Queried(rows) == SetToSortSeq(rows, LAMBDA x, y :
  Time(x) > Time(y) \/ (Time(x) = Time(y) /\ Id(x) > Id(y)))

\* entries.sort: the id of a request is a text, request-<id>, which numeric
\* collation puts after every number
Sorted(rows) == SetToSortSeq(rows, LAMBDA x, y :
  \/ Second(x) > Second(y)
  \/ /\ Second(x) = Second(y)
     /\ IF IsRequest(x) = IsRequest(y) THEN Id(x) > Id(y) ELSE IsRequest(x))

-----------------------------------------------------------------------------
(* What the pages promise. *)

ShownOn(limit) ==
  Pages(Queried(Moves), Queried(Decisions), Sorted(Everyone), Cardinality(Everyone), limit)

\* A paginated response counts the rows in `total`, and its pages hold that many:
\* every row is on one page.
PagesShowAll == \A limit \in 1..Cardinality(Everyone) :
  /\ Len(ShownOn(limit)) = Cardinality(Everyone)
  /\ ToSet(ShownOn(limit)) = Everyone

=============================================================================
