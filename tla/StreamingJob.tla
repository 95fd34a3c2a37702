---------------------------- MODULE StreamingJob ----------------------------
(***************************************************************************)
(* One of the four MapReduce jobs from its input to its part file: a map   *)
(* task per split runs the mapper of the job on the rows of its split,     *)
(* Hadoop sorts the lines of all map tasks by key (in no order within a    *)
(* key), and the one reduce task runs the reducer on them.  Attempts fail  *)
(* and are started again, with none of their output kept.                  *)
(***************************************************************************)
EXTENDS LoanMappers, Reducer

CONSTANTS Task,     \* map tasks, one per split
          Datasets  \* what the splits may hold: functions from tasks to rows

ASSUME StreamingAssumption ==
  /\ Key = Grade \cup State \cup Bucket
  /\ IsFiniteSet(Task) /\ Datasets \subseteq [Task -> Seq(Row)]

VARIABLES
  job,     \* which of the four jobs this is
  split,   \* split[t]: the rows of task t
  map,     \* map[t]: how many rows t has read, and the lines it has printed
  phase    \* "map", "reduce", or "alone": a reduce task without its map tasks

jobVars == <<job, split, map, phase, vars>>

Unread == [pos |-> 0, lines |-> << >>]

JobInit ==
  /\ job \in JobName
  /\ split \in Datasets
  /\ map = [t \in Task |-> Unread]
  /\ phase = "map"
  /\ input = << >> /\ Blank

-----------------------------------------------------------------------------
\* The body of the loop over the rows of a split.
MapNextRow(t) ==
  LET n == map[t].pos + 1 IN
  /\ phase = "map"
  /\ n <= Len(split[t])
  /\ map' = [map EXCEPT ![t] = [pos |-> n, lines |-> @.lines \o MapRow(job, split[t][n])]]
  /\ UNCHANGED <<job, split, phase, vars>>

\* A map attempt fails, or its node is lost with its output.
MapAttemptFails(t) ==
  /\ phase = "map"
  /\ map' = [map EXCEPT ![t] = Unread]
  /\ UNCHANGED <<job, split, phase, vars>>

\* The lines of all map tasks: <<t, n>> is the n-th line of t.
AllLines == UNION {{t} \X DOMAIN map[t].lines : t \in Task}

\* The reduce task starts when all map tasks have ended, on their lines sorted
\* by key.
Shuffle ==
  /\ phase = "map"
  /\ \A t \in Task : map[t].pos = Len(split[t])
  /\ \E order \in [1..Cardinality(AllLines) -> AllLines] :
       /\ \A x \in AllLines : \E n \in DOMAIN order : order[n] = x
       /\ input' = [n \in DOMAIN order |-> map[order[n][1]].lines[order[n][2]]]
       /\ Grouped(input')
  /\ phase' = "reduce"
  /\ UNCHANGED <<job, split, map, pos, current, total, defaults, rates, printed, done>>

Reduce ==
  /\ phase # "map"
  /\ Next
  /\ UNCHANGED <<job, split, map, phase>>

JobNext == (\E t \in Task : MapNextRow(t) \/ MapAttemptFails(t)) \/ Shuffle \/ Reduce

JobSpec == JobInit /\ [][JobNext]_jobVars

-----------------------------------------------------------------------------
(* Properties *)

RowsOfSplits == UNION {{split[t][n] : n \in DOMAIN split[t]} : t \in Task}

\* The loan a row holds when it is read in the layout at.
LoanIn(row, at) ==
  [rate |-> row.cell[at.rate], grade |-> row.cell[at.grade], emp |-> row.cell[at.emp],
   status |-> row.cell[at.status], state |-> row.cell[at.state]]

\* Every mapper counts every loan as what it is, in either layout and whatever
\* is in the columns only the other layout uses (LoanMappers!CountsTheLoan).
LoansAreRecognised ==
  \A row \in RowsOfSplits : \A at \in {Old, New} :
    row.cell[at.amnt] = "number" => CountsTheLoan(LoanIn(row, at), at, row)

\* The tables of jobs 1 and 4 never disagree on a loan: on any row at all
\* (LoanMappers!JobsOneAndFourAgree).
GradesAgree == \A row \in RowsOfSplits : JobsOneAndFourAgree(row)

\* The rows of the dataset that count in group k, in class c.
CountedIn(k, c) ==
  {x \in UNION {{t} \X DOMAIN split[t] : t \in Task} :
     [key |-> k, class |-> c] \in Counted(job, split[x[1]][x[2]])}

\* The part file of a job is the table of its dataset: each group with a loan
\* has one row, with the number of its loans and of its defaults, however the
\* rows are split, the lines are ordered and the attempts fail.
PartIsTable ==
  done /\ phase = "reduce" => \A k \in Key :
    LET paid      == Cardinality(CountedIn(k, "paid"))
        defaulted == Cardinality(CountedIn(k, "default"))
        rows      == {n \in DOMAIN printed : printed[n].key = k}
    IN
    IF paid + defaulted = 0 THEN rows = {}
    ELSE \E n \in DOMAIN printed :
           /\ rows = {n}
           /\ printed[n].total = paid + defaulted
           /\ printed[n].defaults = defaulted

\* What the mappers owe the reducer, which leaves out a key without a loan and
\* then loses its defaults: job 4 prints a rate for every default it prints.
DefaultsHaveLoans ==
  phase = "reduce" => \A k \in Key :
    Cardinality(DefaultsOf(input, k, Len(input))) <= Cardinality(LoansOf(input, k, Len(input)))
=============================================================================
