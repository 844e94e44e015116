# Verification of the casino game backend

TLA+ models, TLC configurations and TLAPS proofs for the NestJS backend in this
repository (paths below are relative to its root). The backend keeps users, wallets,
requests for points, a ledger and the Fun Target game in PostgreSQL. Nearly everything
that can go wrong in it goes wrong between two transactions: handlers read rows into
memory, decide there, and write entities back, some with row locks held and some without.
The models therefore interleave the handlers at every statement that reads, locks or
commits, and leave wording, formatting and decoration out.

## 1. The system

| Component | State | Operations that change it | Interacts with |
|---|---|---|---|
| Wallets and requests (`src/wallet`) | `wallets`, `wallet_requests`, `wallet_request_actions`, `transactions` | create (add points), create/edit/delete a request, accept, accept own, reject, transfer winnings | the game debits and credits the same wallets; users' rows are locked and referenced |
| Fun Target (`src/fun-target`) | `fun_target_config`, `_rounds`, `_joker_schedules`, `_bets`, `_result_audit` | configure, create/open/close a round, generate, finalize, publish, schedule/cancel a joker, place a bet | wallets and transactions |
| Users and agents (`src/users`) | `"Users"` | create (unique mobile, generated unique id, up to 20 tries), update, remove, assign an agent | an account with users, a wallet or login audits cannot be deleted (`database/schema.sql`) |
| Authentication (`src/auth`) | password hashes, `"SystemCredentials"`, `"LoginAudit"`, JWTs | login, change password, seed at start-up | guards of every route |
| Transaction history (`src/transcation`, `getTransactionsByUserId`) | none | reads of ledger and decisions, merged and paged | wallets |
| API logs (`src/api-logs`) | `api_logs`, a timer, a flag, a PostgreSQL advisory lock | one row per request; batched deletion of API logs and login audits older than 15 days | several server processes; the pool of connections |
| No-database mode (`src/no-db`) | an in-memory list of users | create, login | replaces the rest when `DB_ENABLED` is not `true` |
| Application shell (`main.ts`, `app.*`) | none | wiring; the global validation pipe | every request body |

### What is hard in it, and what makes each part correct

* **Wallets.** A user may have no wallet yet, so there is no wallet row to lock, and
  `database/schema.sql` has no unique constraint on the owner: the lock on the user's row
  must keep the user at one wallet. Balances are read, computed in memory and written
  back: no update may be lost, no check made on an old balance. A decision is four writes
  (wallet, request, action, ledger) and must be one step to everyone else, and happen once.
  Handlers lock user → wallet, request → wallet → (by foreign keys) user, or nothing until
  they write: they can wait for each other in a circle.
* **Fun Target.** Bets arrive while a round is closed; generate, finalize and publish
  overlap; payouts of two rounds lock the same winners in different orders; a bet is
  retried. A round must be paid at most once, from exactly its bets, to the last cent, and
  its result must stay. `close`, `cancelSchedule` and `updateConfig` save entities read
  without locks.
* **Users, authentication.** No transactions and no row locks: uniqueness is checked before
  it is written, agents are looked up before they are assigned and removed after their users
  were counted, scope is checked on a row read earlier, and a password change saves the whole
  account. The last statement's criteria and the tables' constraints must keep agents
  existing, writes in scope and deleted accounts deleted.
* **History.** It joins two queries made at two moments, and cuts pages from the merge of two
  queries that are cut off themselves: nothing may be missing or shown twice.
* **Log retention.** A flag, a timer and a database lock must let one process at a time
  clean, and none of them may stay set, whatever query fails.
* **Connection pool.** A user's or an agent's decision holds a connection and asks for a
  second one.
* **No-database mode.** An `await` separates the check for a mobile number from its insert.

`PROJECT.json` lists these hazards at their lines, with the property that covers each.

## 2. Modules

| Module | Models |
|---|---|
| `WalletService` | the handlers of `wallet.service.ts`, and the wallet parts of a bet and a win |
| `WalletContract` | what callers see: accounts, and requests decided once, in atomic steps |
| `WalletHistory` | the listings of `src/transcation` on the tables of `WalletService`, which it extends |
| `WalletHistoryTimes` | the times and ids its pages are ordered by |
| `WalletServiceProofs` | theorems about the tables of `WalletService` |
| `WalletDecisionProofs` | theorems about its steps and decisions, that it implements `WalletContract`, and about the listings of `WalletHistory` |
| `FunTarget` | the handlers of `fun-target.service.ts` |
| `FunTargetSummary` | the summary of a round, next to the handlers |
| `FunTargetContract` | what players see: rounds, bets and balances, in atomic steps |
| `FunTargetPayout` | its payout arithmetic, as definitions |
| `FunTargetSplit` | the loop that splits a pool, against those definitions |
| `FunTargetPayoutProofs` | lemmas about sums over finite sets and about the payout |
| `FunTargetSplitProofs` | theorems about `FunTargetSplit` |
| `FunTargetProofs` | theorems about the tables of `FunTarget` and about bets |
| `FunTargetResultProofs` | theorems about the configuration, the joker, the result, the payout and the summary of a round, and that `FunTarget` implements `FunTargetContract` |
| `UserDirectory` | the handlers of `users.service.ts` and `auth.service.ts` |
| `UserDirectoryProofs` | theorems about `UserDirectory` |
| `LogRetention` | `api-log-retention.service.ts` in every process, and the pool it shares with wallet decisions |
| `LogRetentionProofs` | theorems about `LogRetention` |
| `MCWalletService`, `MCWalletHistory`, `MCWalletHistoryTimes`, `MCFunTarget`, `MCFunTargetSummary`, `MCFunTargetSplit`, `MCUserDirectory`, `MCLogRetention` | small instances for TLC |

### How state and actions correspond to the code

*Rows* are functions from keys to records, `None` where there is no row. *A handler* is a
client with a program counter; its locals are the call, the entity it read (`row`,
`entity`), the wallet it found (`mine`, `balance`, `held`) and the columns `save()` found
changed (`dirty`). A client handles one call; a retry is another client with the same call.

*A transaction* at READ COMMITTED is a sequence of actions: one for each statement that
reads or locks, with the checks that follow it, and one for its writes and the commit. The
writes can be one action because they are invisible, and their locks are held, until the
commit. `SELECT ... FOR UPDATE` waits while another client holds the row (`Blockers`). The
writes wait for the rows they update and, `FOR KEY SHARE`, for the users their inserts
reference; those key-share locks are taken in the committing step only, where they are
also released. That leaves out a key-share lock held while a later statement waits; the
only statements after the first insert are other inserts and updates of rows already
locked, so nothing waits there but on another user row.

*TypeORM's `save(entity)`* outside a transaction is two steps: it selects the row again and
then updates the columns that differ (or inserts, if the row is gone). That is how a stale
entity overwrites a column nobody meant to touch, so it is modelled as such, and marked
external where it is library behaviour.

*Accounts* (`UserDirectory`) have no transactions: every statement is an action that commits,
and `UPDATE` and `DELETE` check their criteria on the row of that moment. `Storable` and
`Referenced` are the constraints of `database/schema.sql`. Draws of a unique id are a small
set `Uids`. A hash is named by its password, for bcrypt tells them apart; a token is the type
it carries, as the guards trust it. `ReadUserToUpdate` to `Reread` is `update`, `FindMobile`
to `AskMobile` is `create`, and so on in the order of the file.

*A listing* (`WalletHistory`) is a record: whose rows it asks for, what was there when it
began, and the answers of its two queries, which may come in either order with any steps of
the wallet handlers before and between. `Page` is one page of the merged list on tables at
rest. Three orders make it: each query chooses its newest rows by the time, to the microsecond,
and then by id (`moved`, `decided`); the final sort compares `new Date(String(createdAt))`,
which has whole seconds only, and then ids, where a request's `request-<id>` comes after every
number (`shown`). `WalletHistoryTimes` gives the rows the times and ids that make these orders:
`CURRENT_TIMESTAMP` is the moment the writing transaction began, so `begun` lists the clients in
that order, each with the second it fell in, and ids follow the inserts.

*A summary* (`FunTargetSummary`) is four actions, one for each statement of `summary()`, with
any steps of the handlers between them; the response is computed from what each of them saw.
`over` and `allocation` are kept for the property only.

*A cleanup* (`LogRetention`) is a job of a process, `boot` or `daily`. Node runs a function
without interruption between awaits, so an action goes from one answer to the next query; the
flag is therefore tested and set in one step. A connection is a place of the process's pool,
and the advisory lock belongs to the session of one, with a depth: a failed unlock leaks it
with the connection, a later cleanup on the same connection takes it once more, and closing
the idle connection ends it. `pg_try_advisory_lock`, pg-pool and the form of TypeORM's answers
are libraries, marked external; `Answered` is what `PostgresQueryRunner.query` of the
locked release (1.1.1, `package-lock.json`) makes of a `DELETE`: a pair of the rows and their
number. `main.ts` enables no shutdown hooks, so a process ends by `Crash` only.

*Failures.* `Crash(c)` ends a handler at any point; its transaction rolls back (in `UserDirectory`, what was written stays). A circle of
waiting transactions is broken by `DeadlockVictim(c)`, PostgreSQL's detector. A lost answer
and a retry are two clients with one call.

*Amounts* are cents, percentages hundredths of a percent; `toCents`, `fromCents` and
`toFixed(2)` are exact on the range the code admits. `Limit` stands for 999 999 999 999 999.

*Fun Target's request bodies.* `Undefined` is JavaScript's: a missing body, or a field the
body leaves out. With the build's target (ES2023, `tsconfig.json`) the fields of a DTO class
exist on every instance, so the DTO that the validation pipe makes of `{"minBet": 3}` has
all other fields with the value undefined, and `Object.assign` copies those too. The calls
in `MCFunTarget` are built that way by `Dto`.

*The game's contract* (`FunTargetContract`) has no locks, programs or copies: a bet debits and is
there, a payout computes a split from the bets there are and credits all winners, or is refused
when one of them would exceed the limit. It sees the tables through `ShownRound`: status, number
and, from its opening on, what a round's joker multiplies its pool by. Result modes, schedules,
the configuration's other columns and the audit are not the players' and stutter.

*Payout.* JavaScript's doubles are exact on the integers here and their floors are those of
the exact quotient; only a half cent (`Math.round`) and equal remainders of unequal stakes
may fall either way, so both outcomes are allowed.

## 3. What the runs check

All configurations keep deadlock checking on; `Terminating` lets a finished system stutter.

| Run | Question | Properties |
|---|---|---|
| `wallets` | Three casts: calls race for a user without a wallet; owner, agent and admin decide one request at once; a caller lists the history meanwhile | `TypeOK`, `OneWalletPerOwner`, `BalancesInRange`, `DecidedOnce`, `DecisionsBooked`, `HistoryTellsAll`, `PagesTile`, `TransferConserves`, `RejectionShowsBalance`, `ImplementsContract` |
| `requests` | Edits and deletions race decisions, bets, wins and transfers; locks are taken in opposite orders | `LedgerExplainsBalances`, `CopiesAreCurrent`, `AcceptanceBooksCurrentAmount`, `EveryCallAnswered` |
| `rounds` | Three casts: a round is scheduled, cancelled, opened, while two updates change the configuration; bets, a bet sent twice and a close race while another round pays; a summary is read while a bet, the close, an update of the percentage and the payout run | `TypeOK`, `BalancesExplained`, `SummaryShowsPayout`, `ScheduledJokerPlays`, `BetsOnlyWhileOpen`, `NoBetOverWinnings`, `UpdateKeepsTheRest` |
| `settle` | Two casts: generate, finalize, publish, close and a bet overlap, and two payouts may deadlock; a round is scheduled, cancelled and opened, another created, the configuration changed | `PaidOnce`, `PayoutCountsEveryBet`, `AuditTellsResult`, `EveryCallAnswered`, `ImplementsGame` |
| `split` | Is the pool split exactly and by largest remainder? | `PaysThePool`, `SplitIsLargestRemainder`, `LargerStakeNeverLess`, `HouseIsSolvent` |
| `users` | Accounts are created, reassigned, edited, deleted, saved and logged in to at once; two processes seed the credential | `TypeOK`, `AssignedAgentExists`, `AgentScopeHolds`, `RemovedStaysRemoved`, `EveryCallAnswered` |
| `retention` | Two processes clean up while queries, connections and processes fail and a decision needs two connections | `TypeOK`, `OneCleaner`, `CleanupNeverStops`, `DecisionsAnswered` |
| `decision_final` (violated) | Is a decided request left alone by edits and deletions? | `DecisionIsFinal` |
| `paging` (violated) | Do the pages show each row once when ids need not follow times? | `PagesShowAll` |
| `double_close` (violated) | Is a round paid once even if it is closed twice? | `PaidOnce` |
| `stale_save` (violated) | Do only admins reassign users? | `OnlyAdminsReassign` |
| `cleanup` (violated) | Does a cleanup leave a table only when its old records are gone? | `TableIsCleared` |

### Findings

* **Edits and deletions race decisions** (`decision_final`). Both check PENDING on an
  unlocked read. `save()` then writes every column that differs from the row, its status
  included, so a request accepted in between is PENDING again and can be decided, and
  booked, a second time; a deletion removes the decided request and its actions.
* **Closing twice pays twice** (`double_close`). The second `close`, which read the round
  while it was OPEN, saves a status, winning number and `finalizedAt` that predate its
  publication; publish then finds a closed round without a result.
* **Pages repeat one row and lose another** (`paging`). The queries order by the microsecond,
  the final sort by the second and then by id. Two requests are rejected in one second, the
  younger first: the query with limit 1 returns the older, with limit 2 the sort puts the younger
  first and page 2 is the older again. The younger is on no page, although `total` counts it.
* **A password change undoes a reassignment** (`stale_save`). `changePassword` reads the whole
  account, hashes for a while, and `save()` writes back every column that differs by then.
* **A cleanup removes one batch** (`cleanup`). The loop asks whether the answer's length is
  1000, but TypeORM answers a `DELETE` with a pair, so at most 1000 records of each table go
  per cleanup, and a busier server's tables grow for ever. (The test of this,
  `api-log-retention.service.spec.ts:59`, mocks `query` to answer with the rows themselves.)

What the models reach or state besides, with no run spent on it:

* A random round cannot be settled over HTTP. Any body object is refused (`BodyFits`), and the
  validation pipe makes one for every request, `{}` included, which `API_REFERENCE.txt:317` gives
  as the request. A subset of the configuration (`API_REFERENCE.txt:280`) without both
  percentages is refused: the fields left out are undefined and their sum is NaN (`Assign`);
  with them, a bound changed alone is compared with NaN, and only the table's CHECK constraint
  stops an invalid pair. Both happen in every execution, whatever else runs.
* `cancelSchedule` can cancel the schedule of a round that was opened, with that joker, after
  its check.
* The summary of a finalized round computes its payout with the percentage of the moment; after
  an update of it another amount is reported as final than was paid.
* The summary's four statements have no transaction. If the bets are summed while betting is
  open, and the round is read after it was published, the summary says that its payout is no
  estimate and leaves out the bets that came in between. `SummaryShowsPayout` is about the other
  summaries: betting was over when the bets were summed, and the percentage read is the one paid
  with. The run `rounds` reaches both exceptions.
* As many decisions by users and agents at once as the pool has connections (ten by default)
  each hold one and wait for another for ever: no acquisition has a timeout. `DecisionsAnswered`
  holds for fewer, and fails in the same model with two callers at a pool of two.
* The superadmin's profile edit saves the credential it read, and can set a password changed
  meanwhile back to the old hash; two password changes with the same old password both succeed.
* `"LoginAudit".user_id` has no `ON DELETE` in `database/schema.sql`, so deleting an account that
  logged in within the retention period is an unhandled database error. In
  `database/full-schema.sql` it is `SET NULL`, and then a password change under way would insert
  the deleted account again (the mutant of `RemovedStaysRemoved`).
* A request accepted between the two queries of a paged listing is in neither, since one leaves
  out requests that have a movement; the next reading shows it.
* An update of the configuration leaves the columns its body does not name as they are
  (`UpdateKeepsTheRest`), but only thanks to the undefined fields of the DTO, which overwrite
  what was read and which `save()` then skips; a validation pipe that drops them, as would make
  subsets acceptable, would let the saved copy set back what another update wrote meanwhile (its
  mutant).
* `API_REFERENCE.txt:390` still says that API logs are
  "retained indefinitely; no automatic deletion or cleanup is configured".

### Bounds, and why they are enough

* *Wallets*: one player, the agent the player is assigned to, and an admin: the smallest set
  in which owner, assigned agent, an agent's own request and an unauthorised actor all occur.
  Two wallet rows, so that a second wallet can appear. One request; requests of one owner
  meet only in the wallet, which creates and wins contend for as well. Four or five
  concurrent calls, each chosen from several: the races are between two or three handlers,
  the others set the scene or interfere. `Limit = 3` and amounts 0..3 put every balance at
  its limit within two calls.
* *Fun Target*: two players, two rounds that are played, a third to open and a fourth to
  create, two keys, two numbers, five calls. The database starts on reachable rows (`Rounds0`, `Bets0`) so that the calls are spent on the race
  itself: an open and a closed round, a manual and a random one, both with a joker that
  triples the pool, a percentage that does not divide (33.33). Two winners in both rounds
  are what a deadlock of payouts takes.
* *Split*: see `MCSplit.cfg` for the bounds on winners, stakes (`MaxStake`), other bets
  (`MaxLost`), percentages and jokers: every case of floor, remainder, tie and cap.
* *Listings*: one at a time, of a user by that user, all or paged, and of an agent's users by
  an admin, in a cast of its own in which one request is decided either way while winnings,
  a bet and a transfer are booked. `PagesTile` is checked in every reachable state for every
  order of its rows (up to five) and every page size, with queries that agree with the final sort;
  `HistoryPagesTile` proves it of all. `paging` has two requests, each asked for and
  decided by a call of its own: two rows of one kind are what the orders can disagree about. A
  transaction begins in the second of the one before or in the next, as later ones compare alike.
* *Summary*: one, in a cast of its own in `rounds`, of a round with a joker that triples the pool, one bet at the start and one more under
  way, a close, a payout and an update of the percentages.
* *Accounts*: five keys, mobile numbers and unique ids (all of them drawn, so that ids run
  out), two passwords, two tries for the code's twenty, four calls. The casts are about
  assignment, saving, creation and the first start; each is a start of its own, on empty tables
  on two agents and a user who has logged in, or on an account of type superadmin that
  logged in and shares the superadmin's row. Two tries are enough to tell the first, checked
  draw from a later one and to reach the limit in both loops.
* *Retention*: two processes with pools of two connections, one decision at one process, two
  tables, one expired row at a time (`MaxRows`), a lock held at most twice (`MaxDepth`, which
  only bounds how often an unlock may fail in a row). `Batch = 3` stands for 1000; it must not
  be 2, the length of a pair. `cleanup` has one process and up to four rows, so that a full
  batch leaves one.
* In passing runs at most one `close` per round is called: two are the subject of
  `double_close`. `DecidedOnce`, `DecisionsBooked` and `ImplementsContract` are checked
  without edits and deletions, whose races are `decision_final`. The update
  of the configuration in `settle` keeps the percentages, as `ImplementsGame` supposes; those of `rounds` do not.
  `ImplementsGame` is checked in `settle`; of all calls and any number of rounds `GameImplements`
  proves it.
* The casts are told apart by a variable in `rounds`, and in `settle` by a constraint (`OneCast`)
  on the calls under way and on what ended ones left in the tables. It cuts off mixtures only: no
  behaviour of one cast ever leaves it, so the liveness within each cast is checked in full.

### Fairness

`WF_vars(Step(c))` for every client: a handler that has started runs on whenever its next
statement can be executed, because the Node.js event loop and PostgreSQL keep serving it.
`WF_vars(DeadlockVictim(c))`: the detector runs after `deadlock_timeout`. Nothing is assumed
about when or whether a call arrives (`Start`), a clock ticks, winnings are transferred or a
crash happens. `UserDirectory` takes the same for its handlers, which wait for nobody. Weak fairness is enough for locks because each call is handled once, so
nobody can overtake for ever. In `LogRetention` calls return, so the pool takes strong
fairness: pg-pool serves waiting requests in their order, and one that is waiting gets a
connection if one comes free again and again. Queries and timers take weak fairness; nothing
is assumed about starts, failures, lost connections and new rows.

## 4. What is proved

Every theorem holds for all values of the constants that satisfy the named assumptions of its
module; TLC evaluates those assumptions in the runs. Where a theorem needs more about the
calls, it says so itself, in a definition with a name. The pattern is the same everywhere: the
property does not follow from itself, because a step writes what its handler read earlier, so
the inductive invariant says what each handler has in its hands at each program counter.

### Wallets (`WalletServiceProofs`, `WalletDecisionProofs`)

Assumed: the admin is no user, kinds and assignments are functions, calls are calls, the limit
is a natural number, `None` is none of the other values, and listings are queries.

* `TypeCorrect`: `Spec => [](TypeOK /\ Control)`. `TypeOK` alone is not inductive: a write
  computes with the handler's copies, so the proof adds what each handler has at each program
  counter (`TypeInv`): an admissible call, the request it locked, amounts that are natural
  numbers.
* `OneWallet`, `LedgerExplains`, `BalancesStayInRange`, `CopiesStayCurrent`: the four safety
  invariants, from one inductive invariant
  `IInv == TypeOK /\ Control /\ AllSecured /\ Tables`. `AllSecured` is the heart: whoever may
  still write holds the locks of what it read, and its copies equal the rows. `Tables` says
  what the rows then satisfy, one wallet per owner, chained ledgers, balances in range and
  requests that have their wallet. Each action is one step of the proof; that a step of one
  client leaves the copies of another current is where the locks are used. Edits and
  deletions take part: they may spoil a decision, but never the ledger.
* `TransfersConserve`, `AcceptancesBookCurrent`: the action properties, of all calls, from
  `IInv` and one lemma per committing step that says what it writes (`CreateEffect`,
  `AcceptEffect`, ...).
* `RequestsDecidedOnce`, `RequestsBooked`, `RejectionsShowBalance`: under `NoEdits`, that no
  call edits a request. An edit is what can undo a decision (run `decision_final`); deletions
  are allowed. The inductive invariant, `DecisionInv`, counts the ledger rows and the actions
  of each request by its status.
* `ServiceImplements`: `Spec => ImplementsContract`, step by step, under `NoChanges`, that no
  call edits or deletes a request: neither is an operation of the contract. The step that
  commits is the contract's operation; all others are stutters, crashes and deadlock victims
  included. The fairness of `Spec` is not needed, for the contract states none.
* `HistoriesTellAll`: `HistorySpec => []HistoryTellsAll`, also under `NoChanges` (an edit can take
  back a decision a listing has seen, and a deletion the movement's request). The two queries
  read two snapshots, so the argument is about what stays between them: a row keeps its request
  (`RefsStay`), a wallet its owner (`OwnersStay`), a decided request its fields and its rows
  (`DecisionsStay`), each from the lemmas on what a commit writes. `ListingOK` then says what the
  listing has at hand: what was there when it began is still there, the movements it found still
  read as found, and if it has them it has the row of every decision known at its start; if it
  has the decisions, every rejection. `DecisionInv` gives a decision one row at most, so it is
  shown once.
* `HistoryPagesTile`: `HistorySpec => []PagesTile`, for every order of the rows and every page
  size, under `FiniteIds`, that the tables are finite (a history that is read page after page
  ends), and of all calls, edits and deletions included. The property supposes that each query
  orders its rows as the final sort does, which they do until a second holds rows whose ids are
  not in the order of their times (`paging`). A row whose place is within the rows that are read
  is then among the newest of its own query too (`OrderedRows`, `FirstAreNewest`), and no movement
  hides a request that has none, so the merge starts like the order of all rows (`MergeHolds`,
  `FirstPlaces`) and a page is the piece of it at the page's place (`PageInOrder`). That the
  pieces one after the other are the whole (`PiecesTile`) goes over their number: `FlattenSeq` is
  a recursive function, and two functions of that recursion have no least argument at which they
  differ (`Flattened`, `LeastNumber`), which needs no induction theorem.

### Fun Target (`FunTargetProofs`, `FunTargetResultProofs`)

Assumed: finitely many players, rounds and keys, numbers and keys positive, calls that have
the fields of their handlers (`IsCall`), a limit, and tables that start as the handlers leave
them, with valid configuration, funded bets and rounds whose result is still to come
(`DatabaseAssumption`).

* `TypeCorrect`, `WalletsExplained`, and the action properties
  `BetsTakenWhileOpen` and `BetsNotOverWinnings`, of all calls. Their inductive invariant is
  `IInv`: the types of tables and locals; each lock has one owner who runs; and for each client
  its session, that is, it is at a statement of its handler (`Control`), the round it locked is
  as it found it (`RoundHeld`), the entity in its hands has the type of the row it will write
  (`EntityOK`), the money it will move is positive and its player's (`MoneyOK`), and the
  wallets it locked are as it copied them (`HeldOK`). `BalancesExplained` then follows step by
  step with the lemmas on sums: a bet adds its amount to what was spent, a payout appends what
  it credits.
* `UpdatesKeepTheRest`, of all calls. `ConfigHand`: from the moment an update has read the
  configuration, its entity holds nothing but the body's fields, since the DTO has all columns; so
  a column that `save()` finds changed is one the body gives.
* `RoundsPaidOnce`, `AuditTells`, `ResultsStay`: under `OneCloser`, that no two calls close the
  same round. Exactly the second close breaks them (run `double_close`). `ResultInv` adds that
  a close under way still finds its round OPEN, that a number comes only with CLOSED, and that
  payouts and the full audit come only with COMPLETED. `RoundsLive` reduces the ten
  handlers' steps to the six things that can happen to a round (`Life`): kept, created, opened,
  closed, drawn, settled.
* `PayoutsCount`: under `OneCloser` and `SamePercentage`, that no call changes the winners'
  percentage. `PayoutInv` follows one
  payout through its loop of locks: from the moment the bets are summed until the commit, the
  sums are those of the table, because the round is closed and locked; and what it has given
  and what it still owes are together one split of the pool. At the commit nothing is owed, so
  the credits are that split, without the winners whose share rounds to nothing.
* `SummariesShow`: `SummarySpec => []SummaryShowsPayout`, under the same two conditions.
  `SummaryInv` says what stays true between the four statements: once betting is over the sums of
  the bets are those of the table, a round keeps its joker, and a result read as final is the
  round's for good (`StillSo`, `SoKept`), so the response tells what `PayoutInv` says was credited.
* `GameImplements`: `Spec => ImplementsGame`, under the same two conditions. The step that commits
  is the game's operation and everything else stutters. The hard one is the payout
  (`SettleInGame`): what `PayoutInv` says of the hands makes the credits one of the contract's
  `Splits` of the bets of that very moment, `HeldOK` makes the balances written the present ones
  plus the credits, and `LimitHand`, an invariant of its own, says that each winner still fits
  the limit checked when its wallet was locked. `StillOpen` makes a close a `Close`, or a stutter
  when `save()` found no status to change; `MoneyOK` and `RoundHeld` make a bet a `PlaceBet`. The
  lemmas `GameSums` to `GameSplits` identify the contract's sums with those of the handlers.
* `JokersPlay`: `ScheduledJokerPlays` under `OneCanceller`, that no two calls cancel the same
  round's schedule. It is not true of all calls, because `cancelSchedule` reads and saves without
  a lock (`fun-target.service.ts:377`). With three cancellations and three schedules of one
  round, a slow cancellation can find, when `save()` selects the row again, that only the
  multiplier differs from the one it read; once the schedule is active again it writes that
  multiplier alone, after the opening has read the schedule and before it commits. With two
  cancellations TLC finds no such run; the theorem asks for one. `JokerInv` says what each
  handler knows of the schedule: until its cancellation has come a schedule is active
  (`Uncancelled`), the cancellation still finds it as it was read (`CancelHand`), and whoever
  makes it (`MakeHand`) or opens with it (`OpenHand`) holds the round's lock.

### The split of the pool (`FunTargetPayoutProofs`, `FunTargetSplitProofs`)

Assumed: finitely many winners, percentages up to 100, positive jokers.

* `PoolIsPaid`, `SplitByRemainder`, `StakesOrderPayouts`, `HouseStaysSolvent`: the loop gives
  the pool to the cent, by largest remainder, never less for more, and never more than was bet.
  The invariant: at each pass the payout is the floors and one cent for each winner passed, the
  winners passed have remainders at least as large as the others, and the cents left are what
  the sum lacks.
* Sums are folds, so facts about them need induction over finite sets. The library's induction
  theorems take the property as an operator, which the provers cannot instantiate; the lemma
  `Induction` takes it as a set instead, and follows from the minimal elements of a well-founded
  order (`WFMin`). From it come what `SumFunction` returns, that it is additive, monotone and
  linear, and what changes when one term does.

### Users and authentication (`UserDirectoryProofs`)

Assumed: keys are positive, an attempt at least, calls that the request bodies admit (`Valid`),
and tables that start as the handlers leave them: a token's account has a login audit, and
assigned agents exist (`ScenariosAssumption`).

* `DirectoryTypes`, `AgentsExist`, `ScopeHolds`, `RemovedStay`. There are no locks
  here, so the invariant says what is left of a read when the tables have moved on: an account
  that was read may be gone, but its key is not given out again and its type never changes; so
  an agent found earlier is still an agent or gone, and if gone the constraint refuses the
  write. The account of a caller with a token cannot be gone, for the audit of its login
  references it: that is what keeps `save()` from inserting a deleted account again.

### Log retention (`LogRetentionProofs`)

Assumed: `PoolAssumption` and `BoundsAssumption`; any processes, connections, callers, tables,
batch and bounds.

* `RetentionTypeCorrect` and `OneCleanerAtATime`, from
  `RetentionInv == TypeOK /\ LockOwned`. `OneCleaner` is not inductive: that two jobs are not
  both past the lock says nothing of who holds it. `LockOwned` does: a job past the lock owns a
  connection whose session has it, through leaks, re-entry and the loss of other connections;
  and a connection has one owner (`OwnerIsUnique`), so there is one such job.

### What is only model-checked

* Liveness and deadlock freedom (`EveryCallAnswered`, `CleanupNeverStops`,
  `DecisionsAnswered`): ENABLED and fairness are outside the prover.

## 5. What is left out

* The no-database mode: a development stand-in that keeps users in memory and shares nothing
  with the rest.
* In `UserDirectory`: names, inactive accounts (nothing deactivates one), accounts with wallets
  (a further foreign key that keeps them from deletion), the expiry of tokens. A token lives one
  hour and an audit row at least a day, so the audit of the login that gave a valid token is
  still there: `audited` only grows. In `WalletService` users and their agents are constants.
* In `WalletHistory`: the filters by text and type, which select rows alike in both queries, and
  the totals. In `WalletHistoryTimes`, two transactions that begin in the same microsecond, and
  edits and deletions, which begin theirs after their first read.
* In `LogRetention`: wall-clock time (a timer fires at any moment) and the recording of logs, a
  single INSERT after the response whose failure is swallowed.
* In `WalletService`: key sequences burnt by rolled-back inserts; several wallet requests per
  user at once; reads that change nothing.
* In `FunTarget`: the creation of the configuration row on first use; two rounds with the
  same scheduled time; a player without a wallet; the key-share locks on users, which
  `WalletService` has; the transfer of winnings is one atomic step, which `WalletService`
  details. `denominationRestrictions` is never written, so it keeps its default.
* Listings, formatting, sanitising of logs, hashing and token signatures: data only, or
  library code.

## 6. Plan

1. Wallets: model and contract; types, safety, decisions and refinement proved. *Done.*
2. Fun Target: rounds, bets, payouts, split, and the contract with the players; types,
   balances, results, payouts and the refinement of the contract proved. *Done.*
3. `LogRetention` with the connection pool; types and exclusion proved. *Done.*
4. `UserDirectory`: accounts, logins, passwords, seeding; types and safety proved. *Done.*
5. `WalletHistory`: what two snapshots can show of one decision, proved; and paging, proved as
   far as queries and sort agree, and refuted where they do not (`WalletHistoryTimes`). *Done.*
6. All the safety properties the runs find to hold are theorems; some state an assumption on
   the calls, by name.
