------------------------------ MODULE RiskReport ------------------------------
(***************************************************************************)
(* What the aggregator makes of the tables in HDFS: the parsers turn the   *)
(* lines of a job's output into rows with a risk level, and                *)
(* buildRiskSummary sums three tables up.  The reducers round a rate to    *)
(* two decimals before they print it; the aggregator only has the rounded  *)
(* rate to go by.                                                          *)
(*                                                                         *)
(* Rates are in hundredths of a percent.  A table is a set of rows: their  *)
(* order tells no property apart, and sort.Slice keeps none among equals.  *)
(* How the texts get here is ResultAggregator's part.                      *)
(***************************************************************************)
EXTENDS Integers, FiniteSets, FiniteSetsExt

CONSTANTS
  Key,      \* what the jobs group by
  Tables,   \* the tables the reducers may have left: functions from jobs to rows
  Foreign   \* lines that are in an output directory and come from no reducer

Job == {"job1", "job2", "job3", "job4"}

\* round(defaults / total * 100, 2): a tie may go either way in binary floats.
Rounded(defaults, total) ==
  {rate \in 0..10000 : /\ 2 * (rate * total - 10000 * defaults) <= total
                       /\ 2 * (10000 * defaults - rate * total) <= total}

\* A group and what the reducer prints of it.  The average of job 4 is not a
\* number if one of its rates is not: float() takes "nan".
Group == {g \in [key : Key, total : Nat \ {0}, defaults : Nat, rate : 0..10000,
                 average : {"finite", "nan"}] :
            g.defaults <= g.total /\ g.rate \in Rounded(g.defaults, g.total)}

\* A line: its number of fields, and if there are four, whether the last three
\* are numbers and finite ones.
Line == [fields : Nat, numbers : BOOLEAN, finite : BOOLEAN,
         key : Key, total : Nat, third : Int, rate : Int]

\* A reducer prints a row for each of its keys, and no key twice (Reducer!RowsAreWhole).
OneRowPerKey(t) ==
  \A j \in Job : IsFiniteSet(t[j]) /\ \A g, h \in t[j] : g.key = h.key => g = h

\* No foreign line passes for a row: the parsers would report four fields with
\* three numbers as a group, and nothing in them could tell it from one.
ASSUME ReportAssumption ==
  /\ Tables \subseteq {t \in [Job -> SUBSET Group] : OneRowPerKey(t)}
  /\ Foreign \subseteq {l \in Line : l.fields = 4 => ~l.numbers}

VARIABLES table,    \* table[j]: the groups of job j
          foreign,  \* foreign[j]: the other lines in its directory
          answer    \* what the last request got

vars == <<table, foreign, answer>>

-----------------------------------------------------------------------------
\* The f-strings of the reducers; job 4 has an average for the defaults.
LineOf(j, g) ==
  [fields |-> 4, numbers |-> TRUE, finite |-> j = "job4" => g.average = "finite",
   key |-> g.key, total |-> g.total,
   third |-> IF j = "job4" THEN 0 ELSE g.defaults, rate |-> g.rate]

Text(j) == {LineOf(j, g) : g \in table[j]} \cup foreign[j]

\* Mutant of ClassifyRisk: a rate at a threshold is in the tier below.
ClassifyRiskInclusive(rate) ==
  IF rate <= 500 THEN "LOW" ELSE IF rate <= 1500 THEN "MEDIUM"
  ELSE IF rate <= 2500 THEN "HIGH" ELSE "CRITICAL"

ClassifyRisk(rate) ==
  IF rate < 500 THEN "LOW" ELSE IF rate < 1500 THEN "MEDIUM"
  ELSE IF rate < 2500 THEN "HIGH" ELSE "CRITICAL"

ParsedLine(l) ==
  [key |-> l.key, total |-> l.total, third |-> l.third, rate |-> l.rate,
   finite |-> l.finite, level |-> ClassifyRisk(l.rate)]

\* Lines without four fields are left out; one number that is none, and there
\* is no table.
FourFields(j) == {l \in Text(j) : l.fields = 4}
ParseFails(j) == \E l \in FourFields(j) : ~l.numbers

Parsed(j) == {ParsedLine(l) : l \in FourFields(j)}

\* status is that of the reply; body says if it has one: encoding/json has no
\* NaN and writes nothing then, and makes null of a table without rows.
Reply(kind, status, body, rows) ==
  [kind |-> kind, status |-> status, body |-> body, rows |-> rows]

NoReply == Reply("none", 0, "none", {})

\* Mutant of WriteJSON: rows are encoded one by one, as far as it goes.
WriteJSONByRow(kind, rows) == Reply(kind, 200, "json", {r \in rows : r.finite})

WriteJSON(kind, rows) ==
  IF rows = {} THEN Reply(kind, 200, "null", {})
  ELSE IF \E r \in rows : ~r.finite THEN Reply(kind, 200, "none", {})
  ELSE Reply(kind, 200, "json", rows)

-----------------------------------------------------------------------------
(* The handlers *)

Init ==
  /\ table \in Tables
  /\ \E k \in Job, f \in SUBSET Foreign : foreign = [j \in Job |-> IF j = k THEN f ELSE {}]
  /\ answer = NoReply

\* GET /internal/results/<job>
GetResults(j) ==
  /\ answer' = IF ParseFails(j) THEN Reply(j, 500, "error", {}) ELSE WriteJSON(j, Parsed(j))
  /\ UNCHANGED <<table, foreign>>

\* The jobs buildRiskSummary reads.
Summarised == {"job1", "job2", "job3"}

\* Mutant of Worst: the order of the sort is turned round.
WorstLast(rows) == {r \in rows : \A q \in rows : r.rate <= q.rate}

\* What sort.Slice may put first.
Worst(rows) == {r \in rows : \A q \in rows : q.rate <= r.rate}

Best(rows) == {r \in rows : \A q \in rows : r.rate <= q.rate}

\* rows[0] of a sorted table; the name stays empty if there is none.
WorstKey(rows) == IF rows = {} THEN {{}} ELSE {{r.key} : r \in Worst(rows)}

AllDefaults(rows) == MapThenSumSet(LAMBDA r : r.third, rows)
AllLoans(rows)    == MapThenSumSet(LAMBDA r : r.total, rows)

\* What buildRiskSummary may make of the three tables; OverallDefaultRate is
\* defaults / total * 100.
Summaries ==
  {[highest |-> ends[1], lowest |-> ends[2], state |-> s, bucket |-> b,
    defaults |-> AllDefaults(Parsed("job1")), total |-> AllLoans(Parsed("job1"))] :
     ends \in Worst(Parsed("job1")) \X Best(Parsed("job1")),
     s \in WorstKey(Parsed("job2")), b \in WorstKey(Parsed("job3"))}

\* GET /internal/results/risk-summary.  Without a grade, grades[0] panics.
GetSummary ==
  /\ IF \E j \in Summarised : ParseFails(j) THEN answer' = Reply("summary", 503, "error", {})
     ELSE \/ Parsed("job1") = {} /\ answer' = Reply("summary", 0, "panic", {})
          \/ \E s \in Summaries : answer' = Reply("summary", 200, "json", {s})
  /\ UNCHANGED <<table, foreign>>

Next == (\E j \in Job : GetResults(j)) \/ GetSummary

Spec == Init /\ [][Next]_vars

-----------------------------------------------------------------------------
(* Properties *)

Rank == [LOW |-> 0, MEDIUM |-> 1, HIGH |-> 2, CRITICAL |-> 3]

\* The tiers are documented as below 5, 5 to 15, 15 to 25 and above 25 percent.
\* Only the last two say nothing of a rate the parser takes for 25.00: the
\* documents have it HIGH and ClassifyRisk has it CRITICAL, and either will do here.
\* The lowest level for a group by its exact default rate, 100 * defaults / total.
LeastLevel(defaults, total) ==
  IF 20 * defaults < total THEN "LOW" ELSE IF 20 * defaults < 3 * total THEN "MEDIUM"
  ELSE IF 20000 * defaults <= 5001 * total THEN "HIGH" ELSE "CRITICAL"

\* And the highest: rounding has added half a hundredth of a percent at most.
GreatestLevel(defaults, total) ==
  LET rounded == 20000 * defaults + total IN
  IF rounded < 1000 * total THEN "LOW" ELSE IF rounded < 3000 * total THEN "MEDIUM"
  ELSE IF rounded < 5000 * total THEN "HIGH" ELSE "CRITICAL"

\* A risk level is made from a rate the reducer has rounded.  Rounding never
\* makes a group look safer than the documented tiers have it; and it only looks
\* riskier if its exact rate is at most half a hundredth of a percent below the
\* tier.  At 25 percent, where documents and code part, both levels are allowed.
RiskIsNeverUnderstated ==
  answer.kind \in Job => \A r \in answer.rows : \E g \in table[answer.kind] :
    /\ r.key = g.key /\ r.total = g.total
    /\ Rank[LeastLevel(g.defaults, g.total)] <= Rank[r.level]
    /\ Rank[r.level] <= Rank[GreatestLevel(g.defaults, g.total)]

\* A table is answered whole or not at all, whatever lines are in the directory
\* that the parsers do not take for rows: every group has its row, or there is an
\* error, or, if a rate of job 4 is not a number, a reply without a body.
TablesAreAnsweredWhole ==
  answer.kind \in Job =>
    \/ answer.status = 500
    \/ answer.body = "none" /\ answer.kind = "job4"
    \/ /\ Cardinality(answer.rows) = Cardinality(table[answer.kind])
       /\ \A g \in table[answer.kind] : \E r \in answer.rows : r.key = g.key

\* No grade's exact rate is above that of the grade the summary warns of, or
\* below that of the one it recommends, by more than the rounding of two rates.
NamesTheRightGrades(s) ==
  \A g, h \in table["job1"] :
    LET NotAbove(a, b) ==   \* 10000 * a's rate <= 10000 * b's rate + 1
          a.defaults * b.total - b.defaults * a.total <= (a.total * b.total) \div 10000
    IN
    /\ h.key = s.highest.key => NotAbove(g, h)
    /\ h.key = s.lowest.key => NotAbove(h, g)

\* The overall rate, which nobody rounds, lies between the two.
OverallIsBetween(s) ==
  /\ 20000 * s.defaults <= (2 * s.highest.rate + 1) * s.total
  /\ 20000 * s.defaults >= (2 * s.lowest.rate - 1) * s.total

\* The summary of tables whose lines were counted apart agrees with itself and
\* with the tables.
SummaryAgreesWithTables ==
  answer.kind = "summary" => \A s \in answer.rows : NamesTheRightGrades(s) /\ OverallIsBetween(s)
=============================================================================
