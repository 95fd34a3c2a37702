----------------------------- MODULE LoanMappers -----------------------------
(***************************************************************************)
(* The four mapper.py scripts as functions from a CSV row to the lines     *)
(* they print.  A row of the dataset has one of two layouts: that of       *)
(* sample_loans.csv, or the full Kaggle layout with two more columns in    *)
(* front.  Nothing in a row says which: each mapper guesses from the       *)
(* cells, job 1 not as the others do.                                      *)
(*                                                                         *)
(* A row is what is in the columns some mapper looks at, for either        *)
(* layout.  Cells stand for what the scripts tell apart after strip() and  *)
(* upper(): a status of either class, a grade, a state, a bucket (any      *)
(* employment length EMP_BUCKET_MAP puts in it), a number, a header name,  *)
(* nothing, or any other text.  Column 6 is the grade in one layout and    *)
(* the interest rate in the other.                                         *)
(***************************************************************************)
EXTENDS Naturals, Sequences

CONSTANTS Grade,   \* VALID_GRADES
          State,   \* US_STATES
          Bucket   \* the values of EMP_BUCKET_MAP

Status == {"default", "paid"}   \* DEFAULT_STATUSES, PAID_STATUSES
Header == {"loan_amnt", "id"}
Other  == {"", "number", "text"}

ASSUME MapperAssumption ==
  (Grade \cup State \cup Bucket) \cap (Status \cup Header \cup Other) = {}

Cell   == Grade \cup State \cup Bucket \cup Status \cup Header \cup Other
Column == {0, 2, 4, 6, 8, 9, 11, 14, 16, 21, 23}
Row    == [width : Nat, cell : [Column -> Cell]]

JobName == {"job1", "job2", "job3", "job4"}

-----------------------------------------------------------------------------
(* The layouts: OLD_COL_... and NEW_COL_... of the four scripts *)

Old == [amnt |-> 0, rate |-> 4, grade |-> 6, emp |-> 9,  status |-> 14, state |-> 21]
New == [amnt |-> 2, rate |-> 6, grade |-> 8, emp |-> 11, status |-> 16, state |-> 23]

Classified(row, layout) == row.cell[layout.status] \in Status

\* Mutant of Layout1: its two tests are swapped.
Layout1NewFirst(row) ==
  IF \/ row.width <= New.status
     \/ ~(Classified(row, New) /\ row.cell[New.grade] \in Grade)
  THEN Old ELSE New

\* Job 1, resolve_indices: a status and a grade decide; the full layout is the
\* last resort, but a row too short for it is taken for the other.
Layout1(row) ==
  IF \/ row.width <= New.status
     \/ Classified(row, Old) /\ row.cell[Old.grade] \in Grade
  THEN Old ELSE New

\* Mutant of LayoutByStatus: the number of columns decides.
LayoutByWidth(row) == IF row.width <= New.state THEN Old ELSE New

\* Jobs 2 to 4: a status decides.
LayoutByStatus(row) == IF Classified(row, Old) THEN Old ELSE New

-----------------------------------------------------------------------------
(* What a row counts for: its group and its class, or nothing *)

Count(key, class) == {[key |-> key, class |-> class]}

Counted1(row) ==
  LET at == Layout1(row) IN
  IF /\ row.width > at.status
     /\ row.cell[at.amnt] \notin Header
     /\ row.cell[at.grade] \in Grade
     /\ Classified(row, at)
  THEN Count(row.cell[at.grade], row.cell[at.status])
  ELSE {}

\* What jobs 2 to 4 ask of every row.
IsLoan(row, at, last) ==
  /\ row.width > last
  /\ row.cell[at.amnt] \notin Header \cup {""}
  /\ Classified(row, at)

Counted2(row) ==
  LET at == LayoutByStatus(row) IN
  IF IsLoan(row, at, New.state) /\ row.cell[at.state] \in State
  THEN Count(row.cell[at.state], row.cell[at.status]) ELSE {}

Counted3(row) ==
  LET at == LayoutByStatus(row) IN
  IF IsLoan(row, at, New.status) /\ row.cell[at.emp] \in Bucket
  THEN Count(row.cell[at.emp], row.cell[at.status]) ELSE {}

\* Job 4 also needs a rate that float() takes.
Counted4(row) ==
  LET at == LayoutByStatus(row) IN
  IF /\ IsLoan(row, at, New.status)
     /\ row.cell[at.grade] \in Grade
     /\ row.cell[at.rate] = "number"
  THEN Count(row.cell[at.grade], row.cell[at.status]) ELSE {}

Counted(job, row) ==
  CASE job = "job1" -> Counted1(row)
    [] job = "job2" -> Counted2(row)
    [] job = "job3" -> Counted3(row)
    [] job = "job4" -> Counted4(row)

-----------------------------------------------------------------------------
(* The lines a mapper prints *)

\* A line adds to the loans and to the defaults of its key: "1:paid" and
\* "interest:<rate>" are a loan, "1:default" is both, "default:1" a default.
OutputLine(key, loans, defaults) == [key |-> key, loans |-> loans, defaults |-> defaults]

Defaulted(c) == IF c.class = "default" THEN 1 ELSE 0

\* Mutant of LinesFor: job 4 prints a rate or a default.
LinesForEither(job, c) ==
  IF job # "job4" THEN <<OutputLine(c.key, 1, Defaulted(c))>>
  ELSE <<OutputLine(c.key, 1 - Defaulted(c), Defaulted(c))>>

\* Jobs 1 to 3 print one line per counted row; job 4 prints the rate, and one
\* more line for a default.
LinesFor(job, c) ==
  IF job # "job4" THEN <<OutputLine(c.key, 1, Defaulted(c))>>
  ELSE IF c.class = "default" THEN <<OutputLine(c.key, 1, 0), OutputLine(c.key, 0, 1)>>
  ELSE <<OutputLine(c.key, 1, 0)>>

MapRow(job, row) ==
  IF Counted(job, row) = {} THEN << >>
  ELSE LinesFor(job, CHOOSE c \in Counted(job, row) : TRUE)

-----------------------------------------------------------------------------
(* What the mappers should make of a loan *)

\* A loan as the dataset has it, and the row it is in, in either layout.  The
\* other columns the mappers may look at have cells of their own: those that
\* the other layout takes for an amount, a grade, ... are in junk.
LoanRow(loan, at, junk, width) ==
  [width |-> width,
   cell |-> [k \in Column |->
     CASE k = at.amnt   -> "number"
       [] k = at.rate   -> loan.rate
       [] k = at.grade  -> loan.grade
       [] k = at.emp    -> loan.emp
       [] k = at.status -> loan.status
       [] k = at.state  -> loan.state
       [] OTHER         -> junk[k]]]

KeyOf(job, loan) ==
  CASE job \in {"job1", "job4"} -> loan.grade
    [] job = "job2" -> loan.state
    [] job = "job3" -> loan.emp

Keys(job) == CASE job \in {"job1", "job4"} -> Grade
               [] job = "job2" -> State
               [] job = "job3" -> Bucket

\* A loan that has ended counts in the group it belongs to, if it has one.
Expected(job, loan) ==
  IF /\ loan.status \in Status
     /\ KeyOf(job, loan) \in Keys(job)
     /\ job = "job4" => loan.rate = "number"
  THEN Count(KeyOf(job, loan), loan.status) ELSE {}

\* The mappers can tell the layouts apart as long as the other layout's status
\* column has no status in it: it is the url of the one, and the verification
\* status of the other.
Distinguishable(row, at) ==
  /\ row.width > New.state
  /\ at = Old => ~Classified(row, New)
  /\ at = New => ~Classified(row, Old)

-----------------------------------------------------------------------------
(* Properties *)

\* In either layout, and whatever is in the columns that only the other layout
\* uses, each of the four mappers counts a loan as what it is.
CountsTheLoan(loan, at, row) ==
  Distinguishable(row, at) => \A job \in JobName : Counted(job, row) = Expected(job, loan)

\* Jobs 1 and 4 both report on loan grades, with guesses of their own.  On any
\* row at all, a loan that counts for job 4 counts for job 1, in the same grade
\* and the same class; so job 4 never has more loans in a grade.
JobsOneAndFourAgree(row) == Counted4(row) \subseteq Counted1(row)
=============================================================================
