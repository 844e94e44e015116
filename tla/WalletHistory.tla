---------------------------- MODULE WalletHistory ----------------------------
(***************************************************************************)
(* The transaction history of src/transcation/: what a caller who lists    *)
(* the ledger sees while the handlers of WalletService run.  A listing     *)
(* joins two queries, the movements of the ledger and the requests that    *)
(* were decided, each in a snapshot of its own, and combines the rows.     *)
(***************************************************************************)
EXTENDS WalletService, SequencesExt

CONSTANT Queries  \* the listings a caller may ask for

Query == [viewer : Actors, user : Users, paged : BOOLEAN]

ASSUME QueriesAssumption == Queries \subseteq Query

VARIABLE listing  \* the listing under way, or None

history == <<vars, listing>>

-----------------------------------------------------------------------------
(* The rows. *)

Movement(w, b, i) == [wallet |-> w, bucket |-> b, index |-> i]
MovementsOf(us) ==
  UNION {{Movement(w, b, i) : i \in DOMAIN ledger[w][b]} :
           w \in UNION {WalletsOf(u) : u \in us}, b \in Buckets}
EntryOf(m) == ledger[m.wallet][m.bucket][m.index]

DecidedOf(us) == {r \in RequestIds : /\ requests[r] # None
                                     /\ requests[r].user \in us
                                     /\ requests[r].status # "PENDING"}

\* a movement as the query returns it: with the request it refers to, joined
Joined(m) ==
  LET r == EntryOf(m).request
  IN [movement |-> m, request |-> r,
      status |-> IF r = None THEN "COMPLETED" ELSE requests[r].status]

\* NOT EXISTS (SELECT 1 FROM transactions WHERE request_id = id)
Unmoved(us) == {r \in DecidedOf(us) :
  \A m \in MovementsOf(Users) : EntryOf(m).request # r}

-----------------------------------------------------------------------------
(* combineTransactionHistory *)

\* mutant: a request is shown next to the movement it became
Concatenated(movements, decided) ==
  {<<"movement", j.movement>> : j \in movements} \cup {<<"request", r>> : r \in decided}
\* the movements, and the requests none of them represents
Combined(movements, decided) ==
  LET represented == {j.request : j \in movements}
  IN {<<"movement", j.movement>> : j \in movements}
       \cup {<<"request", r>> : r \in decided \ represented}

\* the rows there are, in an order of all rows: of a query, or of the final sort
Place(order, rows, i) == Cardinality({j \in 1..i : order[j] \in rows})
Ordered(order, rows) ==
  LET at == {i \in DOMAIN order : order[i] \in rows}
  IN [k \in 1..Cardinality(at) |-> order[CHOOSE i \in at : Place(order, rows, i) = k]]
\* the rows a query that orders them so, limited to n of them, returns
Newest(order, n) == {order[i] : i \in {j \in DOMAIN order : j <= n}}

\* mutant: only as many rows as one page holds are read
OnePage(page, limit) == limit
RowsToRead(page, limit) == page * limit

\* getTransactionHistoryPage on tables that do not change meanwhile: the newest
\* rows of both queries, combined, and of these, sorted once more, one page.  The
\* queries order the movements by createdAt and the requests by updatedAt, to the
\* microsecond, and then by id; the sort compares whole seconds and then ids.
Merged(moved, decided, n) ==
  Combined({Joined(x[2]) : x \in Newest(moved, n)}, {x[2] : x \in Newest(decided, n)})
Page(moved, decided, shown, page, limit) ==
  LET all == Ordered(shown, Merged(moved, decided, RowsToRead(page, limit)))
      last == IF page * limit < Len(all) THEN page * limit ELSE Len(all)
  IN SubSeq(all, (page - 1) * limit + 1, last)
\* every page there is of a history of n rows, one read after the other
Pages(moved, decided, shown, n, limit) ==
  FlattenSeq([p \in 1..((n + limit - 1) \div limit) |-> Page(moved, decided, shown, p, limit)])

-----------------------------------------------------------------------------
(* The listing. *)

\* an agent's history is that of the users assigned to the agent, unless the
\* agent asks for it
Scope(q) ==
  IF Kind[q.user] = "agent" /\ Role(q.viewer) = "admin"
  THEN {u \in Users : Kind[u] = "user" /\ AgentOf[u] = q.user}
  ELSE {q.user}

CanView(q) ==
  \/ Role(q.viewer) = "admin"
  \/ q.viewer = q.user
  \/ Role(q.viewer) = "agent" /\ Kind[q.user] = "user" /\ AgentOf[q.user] = q.viewer

HistoryInit == Init /\ listing = None

\* what was there when the listing began is kept for the properties
BeginListing ==
  /\ listing = None
  /\ \E q \in Queries :
       /\ CanView(q)
       /\ listing' = [users |-> Scope(q), paged |-> q.paged,
                      known |-> [moved |-> MovementsOf(Scope(q)),
                                 decided |-> DecidedOf(Scope(q))],
                      movements |-> None, decided |-> None]
  /\ UNCHANGED vars

\* the two queries of Promise.all, on two connections, in either order
FindMovements ==
  /\ listing # None
  /\ listing.movements = None
  /\ listing' = [listing EXCEPT !.movements = {Joined(m) : m \in MovementsOf(listing.users)}]
  /\ UNCHANGED vars

FindDecided ==
  /\ listing # None
  /\ listing.decided = None
  /\ listing' = [listing EXCEPT !.decided =
       IF listing.paged THEN Unmoved(listing.users) ELSE DecidedOf(listing.users)]
  /\ UNCHANGED vars

HistoryNext ==
  \/ Next /\ UNCHANGED listing
  \/ BeginListing \/ FindMovements \/ FindDecided

HistorySpec == HistoryInit /\ [][HistoryNext]_history /\ Fairness

-----------------------------------------------------------------------------
(* What a listing promises. *)

Answered == /\ listing # None
            /\ listing.movements # None
            /\ listing.decided # None
Shown == Combined(listing.movements, listing.decided)

\* Although the two queries see the tables at different moments, in either
\* order, the listing shows every movement and every decision that was there
\* when it began, a decision once, as the movement it became if it became one,
\* and no movement with the status of an undecided or rejected request.
HistoryTellsAll == Answered =>
  /\ \A m \in listing.known.moved : <<"movement", m>> \in Shown
  /\ \A r \in listing.known.decided :
       Cardinality({j \in listing.movements : j.request = r})
         + (IF <<"request", r>> \in Shown THEN 1 ELSE 0) = 1
  /\ \A j \in listing.movements : j.status \in {"COMPLETED", "ACCEPTED"}

Moves == {<<"movement", m>> : m \in MovementsOf(Users)}
Decisions == {<<"request", r>> : r \in Unmoved(Users)}
Everyone == Moves \cup Decisions

\* Reading page after page shows each movement and each decision without a
\* movement exactly once and in the order of the final sort, although every page
\* merges two queries that are cut off separately; provided the queries order the
\* rows of one kind as the final sort does.  They do unless two rows of one kind
\* fall in the same second and their ids are not in the order of their times: see
\* WalletHistoryTimes for what happens then.
PagesTile == \A shown \in SetToSeqs(Everyone) : \A limit \in 1..Len(shown) :
  Pages(Ordered(shown, Moves), Ordered(shown, Decisions), shown, Len(shown), limit) = shown

=============================================================================
