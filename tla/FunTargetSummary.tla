--------------------------- MODULE FunTargetSummary ---------------------------
(***************************************************************************)
(* The summary of a round, summary(id) of                                  *)
(* src/fun-target/fun-target.service.ts, taken while the handlers of       *)
(* FunTarget run.  It reads the bets, the configuration and twice the      *)
(* round, in four statements with no transaction and no lock around them,  *)
(* and computes the round's payout afresh from what each of them showed.   *)
(***************************************************************************)
EXTENDS FunTarget

VARIABLES
  summary,    \* the summary taken, with what it has read so far, or None
  allocation  \* what the last payout of each round read as the winners'
              \* percentage, kept for the property

watched == <<vars, summary, allocation>>

-----------------------------------------------------------------------------
(* The four statements.                                                    *)

StakesIn(r) == SumFunction([p \in Players |-> Stake(bets, p, r)])
StakesOn(r, n) == SumFunction([p \in Players |-> StakeOn(bets, p, r, n)])

\* SUM(amount) of the round's bets, GROUP BY number; that betting was over by
\* then is kept for the property
SumBets ==
  /\ summary = None
  /\ \E r \in Rounds :
       summary' = [round |-> r,
                   over |-> rounds[r] # None /\ rounds[r].status \in {"CLOSED", "COMPLETED"},
                   total |-> StakesIn(r),
                   on |-> [n \in Numbers |-> StakesOn(r, n)],
                   percent |-> 0, shown |-> None, row |-> None, next |-> "config"]
  /\ UNCHANGED <<vars, allocation>>

ReadShares ==
  /\ summary # None
  /\ summary.next = "config"
  /\ summary' = [summary EXCEPT !.percent = config.winning, !.next = "shown"]
  /\ UNCHANGED <<vars, allocation>>

\* the row the response takes its joker from
ReadShown ==
  /\ summary # None
  /\ summary.next = "shown"
  /\ summary' = [summary EXCEPT !.shown = rounds[summary.round], !.next = "row"]
  /\ UNCHANGED <<vars, allocation>>

\* the row the payout is computed from
ReadResult ==
  /\ summary # None
  /\ summary.next = "row"
  /\ summary' = [summary EXCEPT !.row = rounds[summary.round], !.next = "done"]
  /\ UNCHANGED <<vars, allocation>>

Summarize == SumBets \/ ReadShares \/ ReadShown \/ ReadResult

-----------------------------------------------------------------------------
(* The response.                                                           *)

Answered == summary # None /\ summary.next = "done"

\* payout, any of the values its half cents may round to
ReportedPayouts(s) ==
  LET q == s.row
      staked == IF q = None THEN 0 ELSE IF q.number = None THEN 0 ELSE s.on[q.number]
  IN IF staked = 0 THEN {0} ELSE Pools(s.total, s.percent, Factor(q))

\* payoutIsEstimate
IsEstimate(s) == s.row = None \/ ~s.row.finalized

\* joker
JokerShown(s) == IF s.shown = None THEN [enabled |-> FALSE, multiplier |-> 1]
                 ELSE [enabled |-> s.shown.joker, multiplier |-> s.shown.multiplier]

-----------------------------------------------------------------------------
(* The summary next to the handlers.                                       *)

PaysFrom(c, r) ==
  /\ ReadingConfig(c, {"finalize", "publish"})
  /\ RoundOf(c) = r
  /\ pc'[c] \in {"lockWinner", "write"}
Allocates == allocation' =
  [r \in Rounds |-> IF \E c \in Clients : PaysFrom(c, r) THEN config.winning
                                                         ELSE allocation[r]]

SummaryInit == Init /\ summary = None /\ allocation = [r \in Rounds |-> None]
SummaryNext ==
  \/ Next /\ Allocates /\ UNCHANGED summary
  \/ Summarize
SummarySpec == SummaryInit /\ [][SummaryNext]_watched /\ Fairness

-----------------------------------------------------------------------------
(* What a summary promises.                                                *)

\* Although a summary joins what four statements saw at different moments, with
\* the result drawn and the winners paid between any two of them, one that reads
\* the bets once betting is over and says that its payout is no estimate reports
\* to the cent what the winners were credited, provided the percentage it reads
\* is the one they were paid with; and the joker it shows is the one they were
\* paid with.
SummaryShowsPayout ==
  LET r == summary.round
      q == rounds[r]
  IN Answered /\ summary.over /\ ~IsEstimate(summary) =>
       /\ allocation[r] \in {None, summary.percent} =>
            SumFunction([i \in DOMAIN credits[r] |-> SumFunction(credits[r][i])])
              \in ReportedPayouts(summary)
       /\ JokerShown(summary) = [enabled |-> q.joker, multiplier |-> q.multiplier]

=============================================================================
