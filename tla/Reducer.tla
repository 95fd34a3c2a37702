------------------------------- MODULE Reducer -------------------------------
(***************************************************************************)
(* reducer.py, the same state machine in all four jobs: it reads lines     *)
(* that Hadoop has sorted by key, adds up the lines of the current key,    *)
(* and prints a row for a key when the next one begins, or the input ends. *)
(*                                                                         *)
(* A line adds `loans' and `defaults', 0 or 1 each, to the totals of its   *)
(* key (LoanMappers!OutputLine).  The interest rates of job 4 are added up as    *)
(* the loans are: rates is the set of the lines they come from.  A rate of *)
(* defaults is a quotient of the two totals, so a row keeps these.         *)
(*                                                                         *)
(* A reducer prints straight to the output of its task attempt, and an     *)
(* attempt that fails is started again from the same input with none of    *)
(* its output kept.                                                        *)
(***************************************************************************)
EXTENDS Naturals, Sequences, FiniteSets

CONSTANTS Key,     \* grades, states or buckets
          Inputs,  \* the inputs of a reduce task
          Nil      \* current_key = None

Bit  == {0, 1}
Line == [key : Key, loans : Bit, defaults : Bit]

\* What the shuffle guarantees: the lines of a key come in one stretch.
Grouped(s) ==
  \A i, k \in 1..Len(s) : i <= k /\ s[i].key = s[k].key =>
    \A m \in i..k : s[m].key = s[i].key

ASSUME ReducerAssumption ==
  /\ Nil \notin Key
  /\ Inputs \subseteq {s \in Seq(Line) : Grouped(s)}

VARIABLES
  input,     \* the sorted lines
  pos,       \* how many of them are read
  current,   \* the key being added up, or Nil
  total, defaults, rates,
  printed,   \* the rows printed so far
  done

vars == <<input, pos, current, total, defaults, rates, printed, done>>

TableRow == [key : Key, total : Nat, defaults : Nat, rates : SUBSET Nat]

Blank == /\ pos = 0 /\ current = Nil /\ total = 0 /\ defaults = 0 /\ rates = {}
         /\ printed = << >> /\ done = FALSE

Init == input \in Inputs /\ Blank

-----------------------------------------------------------------------------
\* The row of the current key.
Sums == [key |-> current, total |-> total, defaults |-> defaults, rates |-> rates]

\* Mutant of Emitted: the name of the key is gone before the row is printed.
EmittedAfterReset ==
  IF total = 0 THEN printed ELSE Append(printed, [Sums EXCEPT !.key = Nil])

\* Mutant of Emitted: a key without loans is printed as well.
EmittedAlways == Append(printed, Sums)

\* emit: a key without a loan is left out.
Emitted == IF total = 0 THEN printed ELSE Append(printed, Sums)

\* Mutant of RatesWith: job 4 forgets to reset interest_sum.
RatesKept(n) == IF input[n].loans = 1 THEN rates \cup {n} ELSE rates

\* The interest rates that are added up after line n: it belongs to the current
\* key, or starts a new one.
RatesWith(n) ==
  LET before == IF input[n].key = current THEN rates ELSE {} IN
  IF input[n].loans = 1 THEN before \cup {n} ELSE before

\* The body of the loop over sys.stdin.
ReadLine ==
  LET n == pos + 1
      l == input[n]
      same == l.key = current
  IN
  /\ ~done
  /\ pos < Len(input)
  /\ pos' = n
  /\ current' = l.key
  /\ printed' = IF same \/ current = Nil THEN printed ELSE Emitted
  /\ total' = (IF same THEN total ELSE 0) + l.loans
  /\ defaults' = (IF same THEN defaults ELSE 0) + l.defaults
  /\ rates' = RatesWith(n)
  /\ UNCHANGED <<input, done>>

\* Mutant of EndOfInput: the last key is not printed.
EndOfInputForgets ==
  /\ ~done
  /\ pos = Len(input)
  /\ done' = TRUE
  /\ UNCHANGED <<input, pos, current, total, defaults, rates, printed>>

\* The input is at its end: the last key is printed.
EndOfInput ==
  /\ ~done
  /\ pos = Len(input)
  /\ done' = TRUE
  /\ printed' = IF current = Nil THEN printed ELSE Emitted
  /\ UNCHANGED <<input, pos, current, total, defaults, rates>>

\* The attempt fails, and YARN starts another.
AttemptFails ==
  /\ ~done
  /\ pos' = 0 /\ current' = Nil /\ total' = 0 /\ defaults' = 0 /\ rates' = {}
  /\ printed' = << >>
  /\ UNCHANGED <<input, done>>

Next == ReadLine \/ EndOfInput \/ AttemptFails

Spec == Init /\ [][Next]_vars

-----------------------------------------------------------------------------
(* Properties *)

\* The variables keep their types.
TypeOK ==
  /\ input \in Inputs /\ pos \in 0..Len(input)
  /\ current \in Key \cup {Nil}
  /\ total \in Nat /\ defaults \in Nat /\ rates \in SUBSET Nat
  /\ printed \in Seq(TableRow)
  /\ done \in BOOLEAN

\* The lines of key k among the first n of s.
LinesOf(s, k, n)    == {i \in 1..n : s[i].key = k}
LoansOf(s, k, n)    == {i \in LinesOf(s, k, n) : s[i].loans = 1}
DefaultsOf(s, k, n) == {i \in LinesOf(s, k, n) : s[i].defaults = 1}

\* What the first n lines of s add up to for key k.
RowOf(s, k, n) == [key      |-> k,
                   total    |-> Cardinality(LoansOf(s, k, n)),
                   defaults |-> Cardinality(DefaultsOf(s, k, n)),
                   rates    |-> LoansOf(s, k, n)]

\* A printed row is the whole row of its key, whatever the order of the lines
\* within a key and wherever attempts failed, and no key is printed twice.
RowsAreWhole ==
  /\ \A n \in DOMAIN printed : printed[n] = RowOf(input, printed[n].key, Len(input))
  /\ \A n, m \in DOMAIN printed : printed[n].key = printed[m].key => n = m

\* At the end every key with a loan has its row, and no other key has one.
TableIsComplete ==
  done => \A k \in Key :
    (\E n \in DOMAIN printed : printed[n].key = k) <=> LoansOf(input, k, Len(input)) # {}
=============================================================================
