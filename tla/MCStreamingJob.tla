--------------------------- MODULE MCStreamingJob ---------------------------
(***************************************************************************)
(* Datasets for StreamingJob: two splits of up to MaxRows rows each, from  *)
(* loans in both layouts; and single rows, with all the junk that could    *)
(* mislead a mapper, or of no layout at all.  Also reduce tasks on their   *)
(* own, with any grouped input: also with lines no mapper prints.          *)
(***************************************************************************)
EXTENDS StreamingJob

CONSTANTS t1, t2, MaxRows, MaxLines

Loan(grade, status, rate) ==
  [grade |-> grade, status |-> status, rate |-> rate, emp |-> "10+ years", state |-> "CA"]

Plain == [k \in Column |-> IF k \in {14, 16} THEN "text" ELSE "number"]

Rows == {LoanRow(Loan("A", "paid", "number"), Old, Plain, 24),
         LoanRow(Loan("A", "default", "number"), New, Plain, 24),
         LoanRow(Loan("B", "default", "number"), Old, Plain, 24),
         LoanRow(Loan("B", "paid", ""), New, Plain, 24),
         LoanRow(Loan("A", "text", "number"), New, Plain, 24)}

TwoSplits == {d \in [{t1, t2} -> UNION {[1..n -> Rows] : n \in 0..MaxRows}] :
                Len(d[t1]) + Len(d[t2]) <= 3}

-----------------------------------------------------------------------------
Loans == [rate   : {"number", ""},
          grade  : Grade \cup {"text"},
          emp    : Bucket \cup {"text"},
          status : Status \cup {"text"},
          state  : State \cup {""}]

\* What may be in a column that is not the loan's own, in the layout at.
Junk(at) ==
  [k \in Column |->
    CASE k = 8 /\ at = Old -> Grade \cup {"text"}   \* a job title
      [] k = 2 /\ at = Old -> {"number", ""}
      [] k = 16 /\ at = Old -> {"text", "", "paid"}
      [] k = 14 /\ at = New -> {"text", "default"}
      [] k = 21 /\ at = New -> State \cup {"text"}
      [] OTHER -> {"number"}]

\* One junk cell at a time is unlike the others.
JunkRows(at) ==
  LET calm == [k \in Column |-> CHOOSE x \in Junk(at)[k] : x \notin Status \cup Grade]
  IN UNION {{[calm EXCEPT ![k] = x] : x \in Junk(at)[k]} : k \in Column}

LoanRows == UNION {{LoanRow(loan, at, junk, 24) : loan \in Loans, junk \in JunkRows(at)} :
                     at \in {Old, New}}

\* Rows of no layout: any cells in the columns that jobs 1 and 4 look at.
Cells(k) ==
  CASE k \in {0, 2}   -> {"number", "", "id"}
    [] k = 4          -> {"number", "text"}
    [] k = 6          -> {"A", "number", "text"}
    [] k = 8          -> {"B", "text"}
    [] k \in {14, 16} -> Status \cup {"text"}
    [] OTHER          -> {"text"}

StrangeRows ==
  {[width |-> w,
    cell |-> [k \in Column |->
      CASE k = 0 -> c0 [] k = 2 -> c2 [] k = 4 -> c4 [] k = 6 -> c6 [] k = 8 -> c8
        [] k = 14 -> c14 [] k = 16 -> c16 [] OTHER -> "text"]] :
     w \in {14, 15, 16, 17, 24}, c0 \in Cells(0), c2 \in Cells(2), c4 \in Cells(4), c6 \in Cells(6),
     c8 \in Cells(8), c14 \in Cells(14), c16 \in Cells(16)}

MCDatasets ==
  TwoSplits \cup {[t \in {t1, t2} |-> IF t = t1 THEN <<row>> ELSE << >>] :
                    row \in LoanRows \cup StrangeRows}

-----------------------------------------------------------------------------
AnyInputs == {s \in UNION {[1..n -> Line] : n \in 0..MaxLines} : Grouped(s)}

\* The longest inputs of the datasets: three loans of job 4, which all defaulted.
Job4Lines == {l \in Line : l.key \in Grade /\ l.loans + l.defaults = 1}

MCInputs ==
  AnyInputs \cup {s \in UNION {[1..n -> Job4Lines] : n \in 0..6} : Grouped(s)}

ReduceAlone ==
  /\ job = "job1" /\ split = [t \in Task |-> << >>] /\ map = [t \in Task |-> Unread]
  /\ phase = "alone"
  /\ input \in AnyInputs /\ Blank

MCSpec == (JobInit \/ ReduceAlone) /\ [][JobNext]_jobVars
=============================================================================
