----------------------------- MODULE LogRetention -----------------------------
(***************************************************************************)
(* The daily removal of old log records, api-logs/api-log-retention.       *)
(* service.ts, in every server process, and the pool of database           *)
(* connections it shares with the decisions of wallet requests, which hold *)
(* one connection and ask for a second (wallet.service.ts:413).            *)
(*                                                                         *)
(* Node runs a handler without interruption from one await to the next, so *)
(* an action reaches from the answer of one query to the next query.       *)
(* Wall-clock time is left out: the timer of a day fires at any moment.    *)
(***************************************************************************)
EXTENDS Naturals, Sequences, FiniteSets

CONSTANTS
  Processes,    \* server processes on one database
  Connections,  \* the places of each process's pool, ten by default
  Callers,      \* the decisions of users and agents each process may handle at once
  Tables,       \* RETENTION_TABLES, a sequence
  Batch,        \* DELETE_BATCH_SIZE, 1000 in the code
  MaxRows,      \* the bound on expired rows of a table
  MaxDepth,     \* the bound on how often a session holds the lock
  None

Jobs == {"boot", "daily"}
AllCallers == UNION {Callers[p] : p \in Processes}
Flows == Jobs \cup AllCallers
Lock == [process : Processes, connection : Connections, depth : Nat \ {0}]
JobSteps == {"idle", "connect", "tryLock", "delete", "unlock", "release"}
CallSteps == {"idle", "queued", "locked", "lookup"}

ASSUME PoolAssumption ==
  /\ AllCallers \cap Jobs = {}
  /\ None \notin Flows \cup Lock
ASSUME BoundsAssumption ==
  /\ Tables \in Seq(STRING) \ {<< >>}
  /\ Batch \in Nat \ 0..2
  /\ MaxRows \in Nat
  /\ MaxDepth \in Nat \ {0}

VARIABLES
  up,       \* the processes that run
  timer,    \* cleanupTimer is set
  running,  \* cleanupRunning
  job,      \* where each cleanup of a process is
  table,    \* the table it deletes from
  caller,   \* where each decision is
  holder,   \* who holds each connection of a pool
  lock,     \* the session that holds the advisory lock, and how often
  expired   \* the rows of each table past the retention period

jobs == <<timer, running, job, table>>
vars == <<up, jobs, caller, holder, lock, expired>>


Init ==
  /\ up = [p \in Processes |-> FALSE]
  /\ timer = [p \in Processes |-> FALSE]
  /\ running = [p \in Processes |-> FALSE]
  /\ job = [p \in Processes |-> [j \in Jobs |-> "idle"]]
  /\ table = [p \in Processes |-> [j \in Jobs |-> 1]]
  /\ caller = [p \in Processes |-> [c \in AllCallers |-> "idle"]]
  /\ holder = [p \in Processes |-> [k \in Connections |-> None]]
  /\ lock = None
  /\ expired \in [DOMAIN Tables -> 0..MaxRows]

-----------------------------------------------------------------------------
(* The connection pool and the advisory lock. *)

Free(p) == {k \in Connections : holder[p][k] = None}
Held(p, x) == {k \in Connections : holder[p][k] = x}

Take(p, x) == \E k \in Free(p) : holder' = [holder EXCEPT ![p][k] = x]

\* mutant: nothing is given back
Keep(p, x) == UNCHANGED holder
Give(p, x) == holder' = [holder EXCEPT ![p] =
  [k \in Connections |-> IF holder[p][k] = x THEN None ELSE holder[p][k]]]

\* the session lock is held by a connection that flow x holds
Owns(p, x) == lock # None /\ lock.process = p /\ lock.connection \in Held(p, x)

\* mutant: the last unlock does not free the lock
Decremented == [lock EXCEPT !.depth = @ - 1]
Unlocked == IF lock.depth = 1 THEN None ELSE [lock EXCEPT !.depth = @ - 1]

-----------------------------------------------------------------------------
(* The cleanup. *)

\* onModuleInit: the timer is set and a first cleanup runs up to its first await
Start(p) ==
  /\ ~up[p]
  /\ up' = [up EXCEPT ![p] = TRUE]
  /\ timer' = [timer EXCEPT ![p] = TRUE]
  /\ running' = [running EXCEPT ![p] = TRUE]
  /\ job' = [job EXCEPT ![p]["boot"] = "connect"]
  /\ UNCHANGED <<table, caller, holder, lock, expired>>

\* the timer calls runScheduledCleanup; while another cleanup runs it returns at
\* once and the timer is set again
Fire(p) ==
  /\ timer[p]
  /\ ~running[p]
  /\ timer' = [timer EXCEPT ![p] = FALSE]
  /\ running' = [running EXCEPT ![p] = TRUE]
  /\ job' = [job EXCEPT ![p]["daily"] = "connect"]
  /\ UNCHANGED <<up, table, caller, holder, lock, expired>>

At(p, j, step) == job[p][j] = step
Go(p, j, step) == job' = [job EXCEPT ![p][j] = step]
\* out of the loop over the tables
Leave(p, j, step) == Go(p, j, step) /\ table' = [table EXCEPT ![p][j] = 1]

\* mutant: the flag is only cleared behind a connection
EndConnected(p, j) ==
  /\ running' = [running EXCEPT ![p] = At(p, j, "connect")]
  /\ Go(p, j, "idle")
  /\ timer' = [timer EXCEPT ![p] = @ \/ j = "daily"]
\* the finally blocks: the flag is cleared, and a scheduled run sets the timer
EndCleanup(p, j) ==
  /\ running' = [running EXCEPT ![p] = FALSE]
  /\ Go(p, j, "idle")
  /\ timer' = [timer EXCEPT ![p] = @ \/ j = "daily"]

Connect(p, j) ==
  /\ At(p, j, "connect")
  /\ Take(p, j)
  /\ Go(p, j, "tryLock")
  /\ UNCHANGED <<up, timer, running, table, caller, lock, expired>>

ConnectFails(p, j) ==
  /\ At(p, j, "connect")
  /\ EndCleanup(p, j)
  /\ UNCHANGED <<up, table, caller, holder, lock, expired>>

\* mutant: a row is taken for the lock, whatever it says
Granted(p, k) == TRUE
\* pg_try_advisory_lock: a session that has the lock gets it once more
Grants(p, k) == lock # None => lock.process = p /\ lock.connection = k

TryLock(p, j) == \E k \in Held(p, j) :
  /\ At(p, j, "tryLock")
  /\ \/ /\ Grants(p, k)
        /\ lock' = [process |-> p, connection |-> k,
                    depth |-> IF lock = None THEN 1 ELSE lock.depth + 1]
        /\ Go(p, j, "delete")
     \/ /\ ~Grants(p, k)
        /\ Go(p, j, "release")
        /\ UNCHANGED lock
  /\ UNCHANGED <<up, timer, running, table, caller, holder, expired>>

\* TypeORM answers a DELETE with the pair of its rows and their number, so the
\* length the loop reads is that of a pair
Answered(n) == 2

Least(m, n) == IF m < n THEN m ELSE n

\* one batch of a table, oldest first; no full batch ends the table's loop
Delete(p, j) ==
  LET t == table[p][j]
      n == Least(expired[t], Batch)
  IN /\ At(p, j, "delete")
     /\ expired' = [expired EXCEPT ![t] = @ - n]
     /\ IF Answered(n) = Batch THEN UNCHANGED <<table, job>>
        ELSE IF t < Len(Tables)
        THEN table' = [table EXCEPT ![p][j] = t + 1] /\ UNCHANGED job
        ELSE Leave(p, j, "unlock")
     /\ UNCHANGED <<up, timer, running, caller, holder, lock>>

\* a query fails and the connection lives: a failed batch ends the cleanup, a
\* failed pg_try_advisory_lock gave no lock, a failed unlock leaves it held
QueryFails(p, j) ==
  /\ \/ At(p, j, "tryLock") /\ Leave(p, j, "release")
     \/ At(p, j, "delete") /\ Leave(p, j, "unlock")
     \/ At(p, j, "unlock") /\ lock.depth < MaxDepth /\ Leave(p, j, "release")
  /\ UNCHANGED <<up, timer, running, caller, holder, lock, expired>>

\* the connection is lost: its session and its lock end, every query fails
Lost(p, j) ==
  /\ job[p][j] \in {"tryLock", "delete", "unlock"}
  /\ lock' = IF Owns(p, j) THEN None ELSE lock
  /\ Leave(p, j, "release")
  /\ UNCHANGED <<up, timer, running, caller, holder, expired>>

Unlock(p, j) ==
  /\ At(p, j, "unlock")
  /\ lock' = Unlocked
  /\ Go(p, j, "release")
  /\ UNCHANGED <<up, timer, running, table, caller, holder, expired>>

Release(p, j) ==
  /\ At(p, j, "release")
  /\ Give(p, j)
  /\ EndCleanup(p, j)
  /\ UNCHANGED <<up, table, caller, lock, expired>>

\* the pool closes a connection nobody used for a while, and its session ends
CloseIdle(p) ==
  /\ lock # None
  /\ lock.process = p
  /\ lock.connection \in Free(p)
  /\ lock' = None
  /\ UNCHANGED <<up, jobs, caller, holder, expired>>

-----------------------------------------------------------------------------
(* The decisions, the processes and the rows. *)

Advance(p, c, from, to) ==
  /\ up[p]
  /\ caller[p][c] = from
  /\ caller' = [caller EXCEPT ![p][c] = to]

Arrive(p, c) ==
  /\ Advance(p, c, "idle", "queued")
  /\ UNCHANGED <<up, jobs, holder, lock, expired>>

\* the transaction begins on a connection and locks the request
BeginDecision(p, c) ==
  /\ Advance(p, c, "queued", "locked")
  /\ Take(p, c)
  /\ UNCHANGED <<up, jobs, lock, expired>>

\* the permission lookup runs on a connection of its own
LookUp(p, c) ==
  /\ Advance(p, c, "locked", "lookup")
  /\ Take(p, c)
  /\ UNCHANGED <<up, jobs, lock, expired>>

\* committed, rolled back or refused
Answer(p, c) ==
  /\ Advance(p, c, "lookup", "idle")
  /\ Give(p, c)
  /\ UNCHANGED <<up, jobs, lock, expired>>

\* a connection is lost: the transaction fails, and a leaked lock may go with it
DecisionFails(p, c) == \E step \in {"locked", "lookup"} :
  /\ Advance(p, c, step, "idle")
  /\ Give(p, c)
  /\ \/ lock' = lock
     \/ Owns(p, c) /\ lock' = None
  /\ UNCHANGED <<up, jobs, expired>>

\* a process that ends takes its connections, and so their lock, with it
Crash(p) ==
  /\ up[p]
  /\ up' = [up EXCEPT ![p] = FALSE]
  /\ timer' = [timer EXCEPT ![p] = FALSE]
  /\ running' = [running EXCEPT ![p] = FALSE]
  /\ job' = [job EXCEPT ![p] = [j \in Jobs |-> "idle"]]
  /\ caller' = [caller EXCEPT ![p] = [c \in AllCallers |-> "idle"]]
  /\ holder' = [holder EXCEPT ![p] = [k \in Connections |-> None]]
  /\ table' = [table EXCEPT ![p] = [j \in Jobs |-> 1]]
  /\ lock' = IF lock # None /\ lock.process = p THEN None ELSE lock
  /\ UNCHANGED expired

Expire(t) ==
  /\ expired[t] < MaxRows
  /\ expired' = [expired EXCEPT ![t] = @ + 1]
  /\ UNCHANGED <<up, jobs, caller, holder, lock>>

Work(p, j) == TryLock(p, j) \/ Delete(p, j) \/ Unlock(p, j) \/ Release(p, j)

Next ==
  \/ \E p \in Processes :
       \/ Start(p) \/ Fire(p) \/ CloseIdle(p) \/ Crash(p)
       \/ \E j \in Jobs : \/ Connect(p, j) \/ ConnectFails(p, j) \/ Work(p, j)
                          \/ QueryFails(p, j) \/ Lost(p, j)
       \/ \E c \in Callers[p] : \/ Arrive(p, c) \/ BeginDecision(p, c)
                              \/ LookUp(p, c) \/ Answer(p, c) \/ DecisionFails(p, c)
  \/ \E t \in DOMAIN Tables : Expire(t)

\* the pool serves those who wait in their order, so a connection that is free
\* again and again reaches each of them; a query is answered; a timer fires
Fairness == \A p \in Processes :
  /\ WF_vars(Fire(p))
  /\ \A j \in Jobs : SF_vars(Connect(p, j)) /\ WF_vars(Work(p, j))
  /\ \A c \in Callers[p] :
       SF_vars(BeginDecision(p, c)) /\ SF_vars(LookUp(p, c)) /\ WF_vars(Answer(p, c))

Spec == Init /\ [][Next]_vars /\ Fairness

-----------------------------------------------------------------------------
(* What the retention and the pool promise. *)

\* Every variable has its type.
TypeOK ==
  /\ up \in [Processes -> BOOLEAN]
  /\ timer \in [Processes -> BOOLEAN]
  /\ running \in [Processes -> BOOLEAN]
  /\ job \in [Processes -> [Jobs -> JobSteps]]
  /\ table \in [Processes -> [Jobs -> DOMAIN Tables]]
  /\ caller \in [Processes -> [AllCallers -> CallSteps]]
  /\ holder \in [Processes -> [Connections -> Flows \cup {None}]]
  /\ lock \in Lock \cup {None}
  /\ expired \in [DOMAIN Tables -> Nat]

Deleting(p, j) == job[p][j] \in {"delete", "unlock"}

\* However many processes start, lose their connection or leak the lock, one
\* cleanup at most is past the lock: a batch never runs without it, and never
\* next to the batch of another process.
OneCleaner == \A p, q \in Processes : \A i, j \in Jobs :
  Deleting(p, i) /\ Deleting(q, j) => p = q /\ i = j

\* A running process always comes back to a state in which its next cleanup is
\* scheduled and would not be skipped, whatever query or connection failed.
CleanupNeverStops == \A p \in Processes :
  up[p] ~> (~up[p] \/ (timer[p] /\ ~running[p]))

\* While a process handles fewer decisions at once than its pool has
\* connections, every decision gets both of its connections and is answered,
\* also next to a cleanup that holds one of them.
DecisionsAnswered == \A p \in Processes : \A c \in Callers[p] :
  caller[p][c] # "idle" ~> caller[p][c] = "idle"

\* A cleanup only leaves a table, for the next or for the end, when no row of
\* it past the retention period is left.
TableIsCleared == [][\A p \in Processes : \A j \in Jobs :
  Delete(p, j) /\ (table' # table \/ job' # job) => expired'[table[p][j]] = 0]_vars

=============================================================================
