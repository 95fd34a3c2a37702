-------------------------- MODULE StreamingJob_proofs --------------------------
(***************************************************************************)
(* Proofs about the mappers, the reducers and a whole job, for any rows,   *)
(* groups, splits and orders of the lines: each mapper counts each loan as *)
(* what it is; each printed row is the whole row of its key; and the part  *)
(* file of a job is the table of its dataset.                              *)
(***************************************************************************)
EXTENDS StreamingJob, FiniteSetTheorems, TLAPS

-----------------------------------------------------------------------------
(* The mappers *)

\* The kinds of cells have nothing in common.
LEMMA KindsAreDisjoint ==
  /\ Grade \cap Status = {} /\ State \cap Status = {} /\ Bucket \cap Status = {}
  /\ "number" \notin Status \cup Header \cup {""}
BY MapperAssumption DEF Status, Header, Other

\* Where a status and a grade are in the columns of the sample's layout, job 1
\* chooses as job 4 does; elsewhere job 4 has to find both in the other one's.
THEOREM Agreement == \A row \in Row : JobsOneAndFourAgree(row)
<1> SUFFICES ASSUME NEW row \in Row, Counted4(row) # {}
             PROVE  Counted4(row) \subseteq Counted1(row)
  BY DEF JobsOneAndFourAgree
<1> DEFINE at == LayoutByStatus(row)
<1>1. /\ row.width > 16 /\ row.cell[at.amnt] \notin Header
      /\ row.cell[at.grade] \in Grade /\ Classified(row, at)
      /\ Counted4(row) = Count(row.cell[at.grade], row.cell[at.status])
  BY DEF Counted4, IsLoan, New
<1>2. Layout1(row) = at
  <2>1. row.width \in Nat /\ ~(row.width <= New.status)
    BY <1>1 DEF Row, New
  <2>2. CASE Classified(row, Old)
    <3>1. at = Old
      BY <2>2 DEF LayoutByStatus
    <3> QED BY <1>1, <2>1, <2>2, <3>1 DEF Layout1
  <2>3. CASE ~Classified(row, Old)
    <3>1. at = New
      BY <2>3 DEF LayoutByStatus
    <3> QED BY <2>1, <2>3, <3>1 DEF Layout1
  <2> QED BY <2>2, <2>3
<1>3. row.width > at.status
  <2>1. row.width \in Nat /\ (at = Old \/ at = New)
    BY DEF Row, LayoutByStatus
  <2> QED BY <1>1, <2>1 DEF Old, New
<1>4. Counted1(row) = Count(row.cell[at.grade], row.cell[at.status])
  BY <1>1, <1>2, <1>3 DEF Counted1
<1> QED BY <1>1, <1>4

\* The layouts the mappers guess for the row of a loan.
LEMMA GuessedLayouts ==
  ASSUME NEW loan, NEW at \in {Old, New}, NEW row \in Row, Distinguishable(row, at),
         row.cell[at.status] = loan.status, row.cell[at.grade] = loan.grade
  PROVE  /\ loan.status \in Status => LayoutByStatus(row) = at
         /\ loan.status \in Status /\ loan.grade \in Grade => Layout1(row) = at
         /\ LayoutByStatus(row) # at => ~Classified(row, LayoutByStatus(row))
         /\ Layout1(row) # at => ~Classified(row, Layout1(row))
<1>1. row.width \in Nat /\ ~(row.width <= New.status)
  BY DEF Distinguishable, Row, New
<1>2. Old # New
  BY DEF Old, New
<1>3. CASE at = Old
  BY <1>1, <1>2, <1>3 DEF Distinguishable, LayoutByStatus, Layout1, Classified
<1>4. CASE at = New
  BY <1>1, <1>2, <1>4 DEF Distinguishable, LayoutByStatus, Layout1, Classified
<1> QED BY <1>3, <1>4

\* Every mapper counts every loan as what it is: in its group and its class if
\* it has ended and has a group (and a rate, for job 4), and not at all if not.
\* This is so in both layouts, for any content of the columns of the other one.
THEOREM Recognition ==
  ASSUME NEW loan, NEW at \in {Old, New}, NEW junk \in [Column -> Cell], NEW width \in Nat,
         loan.rate \in Cell, loan.grade \in Cell, loan.emp \in Cell,
         loan.status \in Cell, loan.state \in Cell
  PROVE  CountsTheLoan(loan, at, LoanRow(loan, at, junk, width))
<1> DEFINE row == LoanRow(loan, at, junk, width)
<1>1. /\ row \in Row /\ row.width = width
      /\ row.cell[at.amnt] = "number" /\ row.cell[at.rate] = loan.rate
      /\ row.cell[at.grade] = loan.grade /\ row.cell[at.emp] = loan.emp
      /\ row.cell[at.status] = loan.status /\ row.cell[at.state] = loan.state
  <2> DEFINE cellAt(k) == CASE k = at.amnt   -> "number"
                            [] k = at.rate   -> loan.rate
                            [] k = at.grade  -> loan.grade
                            [] k = at.emp    -> loan.emp
                            [] k = at.status -> loan.status
                            [] k = at.state  -> loan.state
                            [] OTHER         -> junk[k]
  <2>1. row = [width |-> width, cell |-> [k \in Column |-> cellAt(k)]]
    BY DEF LoanRow
  <2>2. \A k \in Column : cellAt(k) \in Cell
    BY DEF Cell, Other
  <2>3. /\ {at.amnt, at.rate, at.grade, at.emp, at.status, at.state} \subseteq Column
        /\ cellAt(at.amnt) = "number" /\ cellAt(at.rate) = loan.rate
        /\ cellAt(at.grade) = loan.grade /\ cellAt(at.emp) = loan.emp
        /\ cellAt(at.status) = loan.status /\ cellAt(at.state) = loan.state
    <3>1. CASE at = Old
      BY <3>1 DEF Old, Column
    <3>2. CASE at = New
      BY <3>2 DEF New, Column
    <3> QED BY <3>1, <3>2
  <2> HIDE DEF cellAt, row
  <2> QED BY <2>1, <2>2, <2>3 DEF Row
<1> HIDE DEF row
<1> SUFFICES ASSUME Distinguishable(row, at), NEW name \in JobName
             PROVE  Counted(name, row) = Expected(name, loan)
  BY DEF CountsTheLoan, row
<1>2. /\ loan.status \in Status => LayoutByStatus(row) = at
      /\ loan.status \in Status /\ loan.grade \in Grade => Layout1(row) = at
      /\ LayoutByStatus(row) # at => ~Classified(row, LayoutByStatus(row))
      /\ Layout1(row) # at => ~Classified(row, Layout1(row))
  BY <1>1, GuessedLayouts
<1>3. /\ row.width \in Nat /\ row.width > New.state /\ row.width > New.status
      /\ row.width > at.status
  BY <1>1 DEF Distinguishable, Old, New
<1>4. Classified(row, at) <=> loan.status \in Status
  BY <1>1 DEF Classified
<1>5. row.cell[at.amnt] \notin Header \cup {""}
  BY <1>1, KindsAreDisjoint
<1>6. Counted1(row) = IF loan.status \in Status /\ loan.grade \in Grade
                      THEN Count(loan.grade, loan.status) ELSE {}
  BY <1>1, <1>2, <1>3, <1>4, <1>5 DEF Counted1
<1>7. Counted2(row) = IF loan.status \in Status /\ loan.state \in State
                      THEN Count(loan.state, loan.status) ELSE {}
  BY <1>1, <1>2, <1>3, <1>4, <1>5 DEF Counted2, IsLoan
<1>8. Counted3(row) = IF loan.status \in Status /\ loan.emp \in Bucket
                      THEN Count(loan.emp, loan.status) ELSE {}
  BY <1>1, <1>2, <1>3, <1>4, <1>5 DEF Counted3, IsLoan
<1>9. Counted4(row) = IF loan.status \in Status /\ loan.grade \in Grade /\ loan.rate = "number"
                      THEN Count(loan.grade, loan.status) ELSE {}
  BY <1>1, <1>2, <1>3, <1>4, <1>5 DEF Counted4, IsLoan
<1>10. CASE name = "job1"
  BY <1>6, <1>10 DEF Counted, Expected, KeyOf, Keys
<1>11. CASE name = "job2"
  BY <1>7, <1>11 DEF Counted, Expected, KeyOf, Keys
<1>12. CASE name = "job3"
  BY <1>8, <1>12 DEF Counted, Expected, KeyOf, Keys
<1>13. CASE name = "job4"
  BY <1>9, <1>13 DEF Counted, Expected, KeyOf, Keys
<1> QED BY <1>10, <1>11, <1>12, <1>13 DEF JobName

-----------------------------------------------------------------------------
(* Counting lines *)

\* The lines of a key can be counted.
LEMMA CountsType ==
  ASSUME NEW s, NEW k, NEW n \in Nat
  PROVE  /\ IsFiniteSet(LoansOf(s, k, n)) /\ IsFiniteSet(DefaultsOf(s, k, n))
         /\ Cardinality(LoansOf(s, k, n)) \in Nat
         /\ Cardinality(DefaultsOf(s, k, n)) \in Nat
         /\ LoansOf(s, k, n) \in SUBSET Nat
<1>1. IsFiniteSet(1..n)
  BY FS_Interval
<1>2. LoansOf(s, k, n) \subseteq 1..n /\ DefaultsOf(s, k, n) \subseteq 1..n
  BY DEF LoansOf, DefaultsOf, LinesOf
<1>3. IsFiniteSet(LoansOf(s, k, n)) /\ IsFiniteSet(DefaultsOf(s, k, n))
  BY <1>1, <1>2, FS_Subset
<1>4. 1..n \subseteq Nat
  OBVIOUS
<1> QED BY <1>2, <1>3, <1>4, FS_CardinalityType

\* One more line changes the row of its own key, by what is in the line, and no
\* other.
LEMMA OneMoreLine ==
  ASSUME NEW s \in Seq(Line), NEW n \in Nat, n < Len(s), NEW k
  PROVE  LET l == s[n + 1] IN
         /\ k # l.key => RowOf(s, k, n + 1) = RowOf(s, k, n)
         /\ k = l.key =>
              RowOf(s, k, n + 1) =
                [key      |-> k,
                 total    |-> Cardinality(LoansOf(s, k, n)) + l.loans,
                 defaults |-> Cardinality(DefaultsOf(s, k, n)) + l.defaults,
                 rates    |-> IF l.loans = 1 THEN LoansOf(s, k, n) \cup {n + 1}
                              ELSE LoansOf(s, k, n)]
<1> DEFINE l == s[n + 1]
<1>1. l.loans \in {0, 1} /\ l.defaults \in {0, 1}
  <2>1. n + 1 \in 1..Len(s)
    OBVIOUS
  <2>2. l \in Line
    BY <2>1
  <2> QED BY <2>2 DEF Line, Bit
<1>2. 1..(n + 1) = (1..n) \cup {n + 1} /\ n + 1 \notin 1..n
  OBVIOUS
<1>3. CASE k # l.key
  <2>1. LoansOf(s, k, n + 1) = LoansOf(s, k, n) /\ DefaultsOf(s, k, n + 1) = DefaultsOf(s, k, n)
    BY <1>2, <1>3 DEF LoansOf, DefaultsOf, LinesOf
  <2> QED BY <2>1, <1>3 DEF RowOf
<1>4. CASE k = l.key
  <2>1. LoansOf(s, k, n + 1) =
          IF l.loans = 1 THEN LoansOf(s, k, n) \cup {n + 1} ELSE LoansOf(s, k, n)
    BY <1>2, <1>4 DEF LoansOf, LinesOf
  <2>2. DefaultsOf(s, k, n + 1) =
          IF l.defaults = 1 THEN DefaultsOf(s, k, n) \cup {n + 1} ELSE DefaultsOf(s, k, n)
    BY <1>2, <1>4 DEF DefaultsOf, LinesOf
  <2>3. n + 1 \notin LoansOf(s, k, n) /\ n + 1 \notin DefaultsOf(s, k, n)
    BY <1>2 DEF LoansOf, DefaultsOf, LinesOf
  <2>4. Cardinality(LoansOf(s, k, n + 1)) = Cardinality(LoansOf(s, k, n)) + l.loans
    BY <1>1, <2>1, <2>3, CountsType, FS_AddElement
  <2>5. Cardinality(DefaultsOf(s, k, n + 1)) = Cardinality(DefaultsOf(s, k, n)) + l.defaults
    BY <1>1, <2>2, <2>3, CountsType, FS_AddElement
  <2> QED BY <2>1, <2>4, <2>5, <1>4 DEF RowOf
<1> QED BY <1>3, <1>4

\* Where the key changes, the old key has had all its lines and the new one none.
LEMMA KeyChange ==
  ASSUME NEW s \in Seq(Line), Grouped(s), NEW n \in Nat, n > 0, n < Len(s),
         s[n].key # s[n + 1].key
  PROVE  /\ RowOf(s, s[n].key, n) = RowOf(s, s[n].key, Len(s))
         /\ LoansOf(s, s[n + 1].key, n) = {} /\ DefaultsOf(s, s[n + 1].key, n) = {}
         /\ LinesOf(s, s[n + 1].key, n) = {}
<1>0. Len(s) \in Nat
  OBVIOUS
<1>1. ASSUME NEW i \in 1..Len(s), s[i].key = s[n].key PROVE i \in 1..n
  <2>1. SUFFICES ASSUME i > n PROVE FALSE
    BY <1>0
  <2>2. n + 1 \in n..i /\ n \in 1..Len(s) /\ n <= i
    BY <1>0, <2>1
  <2>3. s[n + 1].key = s[n].key
    BY <1>1, <2>2 DEF Grouped
  <2> QED BY <2>3
<1>2. LinesOf(s, s[n].key, n) = LinesOf(s, s[n].key, Len(s))
  BY <1>0, <1>1 DEF LinesOf
<1>3. LinesOf(s, s[n + 1].key, n) = {}
  <2>1. SUFFICES ASSUME NEW i \in 1..n, s[i].key = s[n + 1].key PROVE FALSE
    BY DEF LinesOf
  <2>2. n \in i..(n + 1) /\ i \in 1..Len(s) /\ n + 1 \in 1..Len(s) /\ i <= n + 1
    BY <1>0
  <2>3. s[n].key = s[i].key
    BY <2>1, <2>2 DEF Grouped
  <2> QED BY <2>1, <2>3
<1> QED BY <1>2, <1>3 DEF RowOf, LoansOf, DefaultsOf

-----------------------------------------------------------------------------
(* The inductive invariant *)

\* Rows that are whole, of different keys, each with a loan among the first p lines.
PrintedOK(pr, s, p) ==
  /\ pr \in Seq(TableRow)
  /\ \A n \in 1..Len(pr) : /\ pr[n] = RowOf(s, pr[n].key, Len(s))
                           /\ LoansOf(s, pr[n].key, p) # {}
  /\ \A n, m \in 1..Len(pr) : pr[n].key = pr[m].key => n = m

IsPrinted(pr, k) == \E n \in 1..Len(pr) : pr[n].key = k

\* The totals are those of the current key so far.
CurrentOK ==
  IF pos = 0 THEN current = Nil /\ total = 0 /\ defaults = 0 /\ rates = {} /\ printed = << >>
  ELSE current = input[pos].key /\ Sums = RowOf(input, current, pos)

\* All keys before the current one are printed, the current one when all is done.
IInv ==
  /\ TypeOK
  /\ CurrentOK
  /\ PrintedOK(printed, input, pos)
  /\ ~done => ~IsPrinted(printed, current)
  /\ \A k \in Key : LoansOf(input, k, pos) # {} /\ (done \/ k # current) => IsPrinted(printed, k)
  /\ done => pos = Len(input)

\* The inputs are what the shuffle makes them.
LEMMA InputType ==
  ASSUME TypeOK
  PROVE  input \in Seq(Line) /\ Grouped(input) /\ Len(input) \in Nat /\ pos \in Nat
BY ReducerAssumption DEF TypeOK

\* Reading on keeps the rows: none of them depends on where the reducer is.
LEMMA PrintedStays ==
  ASSUME NEW pr, NEW s, NEW p \in Nat, PrintedOK(pr, s, p)
  PROVE  PrintedOK(pr, s, p + 1)
<1>1. ASSUME NEW k PROVE LoansOf(s, k, p) \subseteq LoansOf(s, k, p + 1)
  BY DEF LoansOf, LinesOf
<1> QED BY <1>1 DEF PrintedOK

\* emit, called when the current key has had all its lines.
LEMMA EmitKeepsRows ==
  ASSUME IInv, ~done, pos > 0,
         RowOf(input, current, pos) = RowOf(input, current, Len(input))
  PROVE  /\ PrintedOK(Emitted, input, pos)
         /\ \A k \in Key : LoansOf(input, k, pos) # {} => IsPrinted(Emitted, k)
<1>0. /\ TypeOK /\ CurrentOK /\ PrintedOK(printed, input, pos) /\ ~IsPrinted(printed, current)
      /\ input \in Seq(Line) /\ Len(input) \in Nat /\ pos \in Nat /\ printed \in Seq(TableRow)
  BY InputType DEF IInv, TypeOK
<1>1. current \in Key /\ Sums = RowOf(input, current, pos)
  <2>1. pos \in 1..Len(input)
    BY <1>0 DEF TypeOK
  <2>2. input[pos] \in Line
    BY <1>0, <2>1
  <2> QED BY <1>0, <2>2 DEF CurrentOK, Line
<1>2. total = Cardinality(LoansOf(input, current, pos))
  BY <1>1 DEF Sums, RowOf
<1>3. total = 0 <=> LoansOf(input, current, pos) = {}
  BY <1>0, <1>2, CountsType, FS_EmptySet
<1>4. CASE total = 0
  BY <1>0, <1>3, <1>4 DEF Emitted, IInv
<1>5. CASE total # 0
  <2>1. Sums \in TableRow
    BY <1>0, <1>1 DEF Sums, TableRow, TypeOK
  <2>2. /\ Emitted = Append(printed, Sums) /\ Emitted \in Seq(TableRow)
        /\ Len(Emitted) = Len(printed) + 1 /\ Len(printed) \in Nat
        /\ \A n \in 1..Len(printed) : Emitted[n] = printed[n]
        /\ Emitted[Len(printed) + 1] = Sums
    BY <1>0, <1>5, <2>1 DEF Emitted
  <2>3. Sums.key = current /\ Sums = RowOf(input, current, Len(input))
    BY <1>1 DEF Sums
  <2>4. ASSUME NEW n \in 1..Len(Emitted)
        PROVE  /\ Emitted[n] = RowOf(input, Emitted[n].key, Len(input))
               /\ LoansOf(input, Emitted[n].key, pos) # {}
               /\ n \in 1..Len(printed) => Emitted[n].key # current
    <3>1. CASE n \in 1..Len(printed)
      BY <1>0, <2>2, <3>1 DEF PrintedOK, IsPrinted
    <3>2. CASE n = Len(printed) + 1
      BY <1>3, <1>5, <2>2, <2>3, <3>2
    <3> QED BY <2>2, <3>1, <3>2
  <2>5. ASSUME NEW n \in 1..Len(Emitted), NEW m \in 1..Len(Emitted), Emitted[n].key = Emitted[m].key
        PROVE  n = m
    <3>1. CASE n \in 1..Len(printed) /\ m \in 1..Len(printed)
      BY <1>0, <2>2, <2>5, <3>1 DEF PrintedOK
    <3>2. CASE n = Len(printed) + 1
      BY <2>2, <2>3, <2>4, <2>5, <3>2
    <3>3. CASE m = Len(printed) + 1
      BY <2>2, <2>3, <2>4, <2>5, <3>3
    <3> QED BY <2>2, <3>1, <3>2, <3>3
  <2>6. PrintedOK(Emitted, input, pos)
    BY <2>2, <2>4, <2>5 DEF PrintedOK
  <2>7. ASSUME NEW k \in Key, LoansOf(input, k, pos) # {} PROVE IsPrinted(Emitted, k)
    <3>1. CASE k = current
      <4>1. Len(printed) + 1 \in 1..Len(Emitted)
        BY <2>2
      <4> QED BY <2>2, <2>3, <3>1, <4>1 DEF IsPrinted
    <3>2. CASE k # current
      <4>1. IsPrinted(printed, k)
        BY <2>7, <3>2 DEF IInv
      <4>2. \A n \in 1..Len(printed) : n \in 1..Len(Emitted) /\ Emitted[n] = printed[n]
        BY <2>2
      <4> QED BY <4>1, <4>2 DEF IsPrinted
    <3> QED BY <3>1, <3>2
  <2> QED BY <2>6, <2>7
<1> QED BY <1>4, <1>5

-----------------------------------------------------------------------------
(* Every step preserves the invariant *)

\* An attempt that has read nothing satisfies the invariant.
LEMMA BlankIInv ==
  ASSUME input \in Inputs, Blank
  PROVE  IInv
<1>1. input \in Seq(Line) /\ Len(input) \in Nat
  BY ReducerAssumption
<1>2. TypeOK
  <2>1. << >> \in Seq(TableRow) /\ {} \in SUBSET Nat /\ 0 \in 0..Len(input)
    BY <1>1
  <2> QED BY <1>1, <2>1 DEF Blank, TypeOK
<1>3. \A k : LoansOf(input, k, pos) = {}
  BY DEF Blank, LoansOf, LinesOf
<1>4. PrintedOK(printed, input, pos) /\ ~IsPrinted(printed, current)
  BY DEF Blank, PrintedOK, IsPrinted
<1> QED BY <1>2, <1>3, <1>4 DEF IInv, CurrentOK, Blank

\* What a line leads to, for the totals: they are those of its key.
LEMMA ReadLineSums ==
  ASSUME IInv, ReadLine
  PROVE  /\ TypeOK' /\ input' = input /\ pos' = pos + 1
         /\ current' = input[pos + 1].key /\ current' \in Key
         /\ Sums' = RowOf(input, current', pos + 1)
<1> DEFINE n == pos + 1
           l == input[n]
<1>1. /\ TypeOK /\ CurrentOK /\ input \in Seq(Line) /\ Grouped(input)
      /\ Len(input) \in Nat /\ pos \in Nat /\ n \in 1..Len(input)
  BY InputType DEF IInv, TypeOK, ReadLine
<1>2. l \in Line /\ l.key \in Key /\ l.loans \in {0, 1} /\ l.defaults \in {0, 1}
  <2>1. l \in Line
    BY <1>1
  <2> QED BY <2>1 DEF Line, Bit
<1> HIDE DEF l
<1>3. /\ input' = input /\ pos' = n /\ current' = l.key
      /\ total' = (IF l.key = current THEN total ELSE 0) + l.loans
      /\ defaults' = (IF l.key = current THEN defaults ELSE 0) + l.defaults
      /\ rates' = LET before == IF l.key = current THEN rates ELSE {} IN
                  IF l.loans = 1 THEN before \cup {n} ELSE before
  BY DEF ReadLine, RatesWith, l
<1>4. RowOf(input, l.key, n) =
        [key      |-> l.key,
         total    |-> Cardinality(LoansOf(input, l.key, pos)) + l.loans,
         defaults |-> Cardinality(DefaultsOf(input, l.key, pos)) + l.defaults,
         rates    |-> IF l.loans = 1 THEN LoansOf(input, l.key, pos) \cup {n}
                      ELSE LoansOf(input, l.key, pos)]
  <2>1. pos < Len(input)
    BY DEF ReadLine
  <2> QED BY <1>1, <2>1, OneMoreLine DEF l
<1>5. Sums' = RowOf(input, l.key, n)
  <2>1. CASE l.key = current
    <3>1. pos # 0
      BY <1>1, <1>2, <2>1, ReducerAssumption DEF CurrentOK
    <3>2. Sums = RowOf(input, current, pos)
      BY <1>1, <3>1 DEF CurrentOK
    <3>3. /\ total = Cardinality(LoansOf(input, current, pos))
          /\ defaults = Cardinality(DefaultsOf(input, current, pos))
          /\ rates = LoansOf(input, current, pos)
      BY <3>2 DEF Sums, RowOf
    <3> QED BY <1>3, <1>4, <2>1, <3>3 DEF Sums
  <2>2. CASE l.key # current
    <3>1. LoansOf(input, l.key, pos) = {} /\ DefaultsOf(input, l.key, pos) = {}
      <4>1. CASE pos = 0
        BY <4>1 DEF LoansOf, DefaultsOf, LinesOf
      <4>2. CASE pos # 0
        <5>1. pos > 0 /\ pos < Len(input) /\ input[pos].key # input[pos + 1].key
          BY <1>1, <2>2, <4>2 DEF CurrentOK, l
        <5> QED BY <1>1, <5>1, KeyChange DEF l
      <4> QED BY <4>1, <4>2
    <3>2. Cardinality({}) = 0
      BY FS_EmptySet
    <3> QED BY <1>2, <1>3, <1>4, <2>2, <3>1, <3>2 DEF Sums
  <2> QED BY <2>1, <2>2
<1>6. TypeOK'
  <2>1. /\ total' \in Nat /\ defaults' \in Nat /\ rates' \in SUBSET Nat
    <3>1. total \in Nat /\ defaults \in Nat /\ rates \in SUBSET Nat /\ n \in Nat
      BY <1>1 DEF TypeOK
    <3>2. total' \in Nat
      BY <1>2, <1>3, <3>1
    <3>3. defaults' \in Nat
      BY <1>2, <1>3, <3>1
    <3>4. rates' \in SUBSET Nat
      BY <1>3, <3>1
    <3> QED BY <3>2, <3>3, <3>4
  <2>2. printed' \in Seq(TableRow)
    <3>1. CASE current = Nil \/ l.key = current
      BY <1>1, <3>1 DEF ReadLine, TypeOK, l
    <3>2. CASE current # Nil
      <4>1. Sums \in TableRow
        BY <1>1, <3>2 DEF Sums, TableRow, TypeOK
      <4> QED BY <1>1, <4>1 DEF ReadLine, Emitted, TypeOK
    <3> QED BY <3>1, <3>2
  <2> QED BY <1>1, <1>2, <1>3, <2>1, <2>2 DEF TypeOK, ReadLine
<1> QED BY <1>2, <1>3, <1>5, <1>6 DEF l

\* What a line leads to, for the rows: those of all keys before its own.
LEMMA ReadLineRows ==
  ASSUME IInv, ReadLine
  PROVE  /\ PrintedOK(printed', input, pos)
         /\ ~IsPrinted(printed', input[pos + 1].key)
         /\ \A k \in Key : LoansOf(input, k, pos) # {} /\ k # input[pos + 1].key
              => IsPrinted(printed', k)
<1> DEFINE l == input[pos + 1]
<1>1. /\ TypeOK /\ CurrentOK /\ input \in Seq(Line) /\ Grouped(input) /\ ~done
      /\ Len(input) \in Nat /\ pos \in Nat /\ pos < Len(input)
      /\ printed' = IF l.key = current \/ current = Nil THEN printed ELSE Emitted
      /\ PrintedOK(printed, input, pos)
  BY InputType DEF IInv, ReadLine
<1>2. CASE l.key = current
  BY <1>1, <1>2 DEF IInv
<1>3. CASE pos = 0
  <2>1. printed' = << >> /\ \A k : LoansOf(input, k, pos) = {}
    BY <1>1, <1>3 DEF CurrentOK, LoansOf, LinesOf
  <2> QED BY <2>1 DEF PrintedOK, IsPrinted
<1>4. CASE l.key # current /\ pos # 0
  <2>1. /\ pos > 0 /\ current = input[pos].key /\ current # Nil
        /\ RowOf(input, current, pos) = RowOf(input, current, Len(input))
        /\ LoansOf(input, l.key, pos) = {}
    <3>1. pos > 0 /\ current = input[pos].key
      BY <1>1, <1>4 DEF CurrentOK
    <3>2. input[pos] \in Line
      BY <1>1, <3>1
    <3> QED BY <1>1, <1>4, <3>1, <3>2, KeyChange, ReducerAssumption DEF Line
  <2>2. printed' = Emitted
    BY <1>1, <1>4, <2>1
  <2>3. /\ PrintedOK(Emitted, input, pos)
        /\ \A k \in Key : LoansOf(input, k, pos) # {} => IsPrinted(Emitted, k)
    BY <1>1, <2>1, EmitKeepsRows
  <2>4. ~IsPrinted(Emitted, l.key)
    BY <2>1, <2>3 DEF PrintedOK, IsPrinted
  <2> QED BY <2>2, <2>3, <2>4
<1> QED BY <1>2, <1>3, <1>4

\* The body of the loop over sys.stdin.
LEMMA ReadLineKeepsIInv ==
  ASSUME IInv, ReadLine
  PROVE  IInv'
<1>1. /\ TypeOK' /\ input' = input /\ pos' = pos + 1 /\ pos \in Nat
      /\ current' = input[pos + 1].key /\ current' \in Key
      /\ Sums' = RowOf(input, current', pos + 1)
  BY ReadLineSums, InputType DEF IInv
<1>2. /\ PrintedOK(printed', input, pos)
      /\ ~IsPrinted(printed', input[pos + 1].key)
      /\ \A k \in Key : LoansOf(input, k, pos) # {} /\ k # input[pos + 1].key
           => IsPrinted(printed', k)
  BY ReadLineRows
<1>3. CurrentOK'
  BY <1>1 DEF CurrentOK
<1>4. PrintedOK(printed, input, pos)'
  BY <1>1, <1>2, PrintedStays
<1>5. ~done'
  BY DEF ReadLine
<1>6. ASSUME NEW k \in Key, LoansOf(input, k, pos)' # {}, k # current'
      PROVE  IsPrinted(printed', k)
  <2>1. LoansOf(input, k, pos + 1) = LoansOf(input, k, pos)
    <3>1. input \in Seq(Line) /\ pos < Len(input)
      BY InputType DEF IInv, ReadLine
    <3>2. RowOf(input, k, pos + 1) = RowOf(input, k, pos)
      BY <1>1, <1>6, <3>1, OneMoreLine
    <3> QED BY <3>2 DEF RowOf
  <2> QED BY <1>1, <1>2, <1>6, <2>1
<1> QED BY <1>1, <1>2, <1>3, <1>4, <1>5, <1>6 DEF IInv

\* The last emit, after the loop.
LEMMA EndOfInputKeepsIInv ==
  ASSUME IInv, EndOfInput
  PROVE  IInv'
<1>1. /\ TypeOK /\ PrintedOK(printed, input, pos) /\ ~done /\ pos = Len(input) /\ pos \in Nat
      /\ done' = TRUE /\ UNCHANGED <<input, pos, current, total, defaults, rates>>
      /\ printed' = IF current = Nil THEN printed ELSE Emitted
  BY InputType DEF IInv, EndOfInput
<1>2. /\ PrintedOK(printed', input, pos)
      /\ \A k \in Key : LoansOf(input, k, pos) # {} => IsPrinted(printed', k)
  <2>1. CASE current = Nil
    BY <1>1, <2>1, ReducerAssumption DEF IInv
  <2>2. CASE current # Nil
    <3>1. pos > 0
      BY <1>1, <2>2 DEF IInv, CurrentOK
    <3> QED BY <1>1, <2>2, <3>1, EmitKeepsRows
  <2> QED BY <2>1, <2>2
<1>3. CurrentOK'
  <2>1. CASE pos = 0
    BY <1>1, <2>1 DEF IInv, CurrentOK
  <2>2. CASE pos # 0
    BY <1>1, <2>2 DEF IInv, CurrentOK, Sums
  <2> QED BY <2>1, <2>2
<1>4. TypeOK'
  <2>1. printed' \in Seq(TableRow)
    BY <1>2 DEF PrintedOK
  <2> QED BY <1>1, <2>1 DEF TypeOK
<1> QED BY <1>1, <1>2, <1>3, <1>4 DEF IInv

\* A new attempt starts as the first one did.
LEMMA AttemptFailsKeepsIInv ==
  ASSUME IInv, AttemptFails
  PROVE  IInv'
<1>1. (input \in Inputs /\ Blank)'
  BY DEF IInv, AttemptFails, TypeOK, Blank
<1>2. (input \in Inputs /\ Blank)' => IInv'
  BY BlankIInv, PTL
<1> QED BY <1>1, <1>2

\* The invariant is inductive.
LEMMA NextKeepsIInv == IInv /\ [Next]_vars => IInv'
<1> SUFFICES ASSUME IInv, [Next]_vars PROVE IInv'
  OBVIOUS
<1>1. CASE ReadLine
  BY <1>1, ReadLineKeepsIInv
<1>2. CASE EndOfInput
  BY <1>2, EndOfInputKeepsIInv
<1>3. CASE AttemptFails
  BY <1>3, AttemptFailsKeepsIInv
<1>4. CASE UNCHANGED vars
  BY <1>4 DEF IInv, vars, TypeOK, CurrentOK, Sums
<1> QED BY <1>1, <1>2, <1>3, <1>4 DEF Next

-----------------------------------------------------------------------------
(* Theorems *)

\* The inductive invariant holds in every reachable state.
THEOREM Invariance == Spec => []IInv
<1>1. Init => IInv
  BY BlankIInv DEF Init
<1> QED BY <1>1, NextKeepsIInv, PTL DEF Spec

\* The reducer's variables keep their types, for any keys and any inputs.
THEOREM TypeCorrect == Spec => []TypeOK
<1>1. IInv => TypeOK
  BY DEF IInv
<1> QED BY <1>1, Invariance, PTL

\* Whatever a reduce task has printed are whole rows of different keys: for any
\* grouped input, any order of the lines within a key, and any failed attempts.
THEOREM RowsWhole == Spec => []RowsAreWhole
<1>1. IInv => RowsAreWhole
  <2>1. IInv => DOMAIN printed = 1..Len(printed)
    BY DEF IInv, PrintedOK
  <2> QED BY <2>1 DEF IInv, PrintedOK, RowsAreWhole
<1> QED BY <1>1, Invariance, PTL

\* The finished table has a row for each key with a loan, and for no other.
THEOREM TableComplete == Spec => []TableIsComplete
<1>1. IInv => TableIsComplete
  <2>1. IInv => DOMAIN printed = 1..Len(printed)
    BY DEF IInv, PrintedOK
  <2> QED BY <2>1 DEF IInv, PrintedOK, IsPrinted, TableIsComplete
<1> QED BY <1>1, Invariance, PTL
-----------------------------------------------------------------------------
(* A job: what the mappers do to its dataset *)

\* The dataset and the job stay.
LEMMA JobStays == JobSpec => [](job \in JobName /\ split \in [Task -> Seq(Row)])
<1> DEFINE Given == job \in JobName /\ split \in [Task -> Seq(Row)]
<1>1. JobInit => Given
  BY StreamingAssumption DEF JobInit
<1>2. Given /\ [JobNext]_jobVars => Given'
  <2>1. [JobNext]_jobVars => job' = job /\ split' = split
    BY DEF JobNext, MapNextRow, MapAttemptFails, Shuffle, Reduce, jobVars
  <2> QED BY <2>1
<1> QED BY <1>1, <1>2, PTL DEF JobSpec

\* A row with an amount is that of the loan in it, with what is in its other columns.
LEMMA RowOfItsLoan ==
  ASSUME NEW row \in Row, NEW at \in {Old, New}, row.cell[at.amnt] = "number"
  PROVE  LoanRow(LoanIn(row, at), at, row.cell, row.width) = row
<1>1. PICK loan : loan = LoanIn(row, at)
  OBVIOUS
<1>2. /\ loan.rate = row.cell[at.rate] /\ loan.grade = row.cell[at.grade]
      /\ loan.emp = row.cell[at.emp] /\ loan.status = row.cell[at.status]
      /\ loan.state = row.cell[at.state]
  BY <1>1 DEF LoanIn
<1> DEFINE cellAt(k) == CASE k = at.amnt   -> "number"
                          [] k = at.rate   -> loan.rate
                          [] k = at.grade  -> loan.grade
                          [] k = at.emp    -> loan.emp
                          [] k = at.status -> loan.status
                          [] k = at.state  -> loan.state
                          [] OTHER         -> row.cell[k]
<1>3. \A k \in Column : cellAt(k) = row.cell[k]
  BY <1>2
<1>4. LoanRow(loan, at, row.cell, row.width) =
        [width |-> row.width, cell |-> [k \in Column |-> cellAt(k)]]
  BY DEF LoanRow
<1> HIDE DEF cellAt
<1>5. [k \in Column |-> cellAt(k)] = row.cell
  BY <1>3 DEF Row
<1>6. row = [width |-> row.width, cell |-> row.cell]
  BY DEF Row
<1> QED BY <1>1, <1>4, <1>5, <1>6

\* In any dataset every mapper counts every loan as what it is, in both layouts.
THEOREM LoansRecognised == JobSpec => []LoansAreRecognised
<1>1. split \in [Task -> Seq(Row)] => LoansAreRecognised
  <2> SUFFICES ASSUME split \in [Task -> Seq(Row)], NEW row \in RowsOfSplits,
                      NEW at \in {Old, New}, row.cell[at.amnt] = "number"
               PROVE  CountsTheLoan(LoanIn(row, at), at, row)
    BY DEF LoansAreRecognised
  <2>1. row \in Row
    <3>1. PICK t \in Task : row \in {split[t][n] : n \in DOMAIN split[t]}
      BY DEF RowsOfSplits
    <3>2. split[t] \in Seq(Row)
      OBVIOUS
    <3> QED BY <3>1, <3>2
  <2>2. PICK loan : loan = LoanIn(row, at)
    OBVIOUS
  <2>3. /\ loan.rate \in Cell /\ loan.grade \in Cell /\ loan.emp \in Cell
        /\ loan.status \in Cell /\ loan.state \in Cell
    <3>1. loan = [rate |-> row.cell[at.rate], grade |-> row.cell[at.grade],
                  emp |-> row.cell[at.emp], status |-> row.cell[at.status],
                  state |-> row.cell[at.state]]
      BY <2>2 DEF LoanIn
    <3>2. {at.rate, at.grade, at.emp, at.status, at.state} \subseteq Column
      BY DEF Old, New, Column
    <3>3. \A k \in Column : row.cell[k] \in Cell
      BY <2>1 DEF Row
    <3> QED BY <3>1, <3>2, <3>3
  <2>4. row.cell \in [Column -> Cell] /\ row.width \in Nat
    BY <2>1 DEF Row
  <2>5. CountsTheLoan(loan, at, LoanRow(loan, at, row.cell, row.width))
    BY <2>3, <2>4, Recognition
  <2> QED BY <2>1, <2>2, <2>5, RowOfItsLoan
<1> QED BY <1>1, JobStays, PTL

\* On any dataset, whatever its rows: the tables of jobs 1 and 4 agree on each loan.
THEOREM GradesAlike == JobSpec => []GradesAgree
<1>1. split \in [Task -> Seq(Row)] => GradesAgree
  <2> SUFFICES ASSUME split \in [Task -> Seq(Row)], NEW row \in RowsOfSplits
               PROVE  JobsOneAndFourAgree(row)
    BY DEF GradesAgree
  <2>1. PICK t \in Task : row \in {split[t][n] : n \in DOMAIN split[t]}
    BY DEF RowsOfSplits
  <2>2. split[t] \in Seq(Row)
    OBVIOUS
  <2>3. row \in Row
    BY <2>1, <2>2
  <2> QED BY <2>3, Agreement
<1> QED BY <1>1, JobStays, PTL
-----------------------------------------------------------------------------
(* A job: what the map tasks have printed *)

\* What the lines of s add up to for key k.
LoansFor(s, k)    == Cardinality(LoansOf(s, k, Len(s)))
DefaultsFor(s, k) == Cardinality(DefaultsOf(s, k, Len(s)))

\* A line adds what it says to its key.
LEMMA LineAdds ==
  ASSUME NEW s \in Seq(Line), NEW l \in Line, NEW k
  PROVE  /\ Append(s, l) \in Seq(Line)
         /\ LoansFor(s, k) \in Nat /\ DefaultsFor(s, k) \in Nat
         /\ LoansFor(Append(s, l), k) = LoansFor(s, k) + (IF l.key = k THEN l.loans ELSE 0)
         /\ DefaultsFor(Append(s, l), k)
              = DefaultsFor(s, k) + (IF l.key = k THEN l.defaults ELSE 0)
<1> DEFINE n == Len(s)
<1>1. PICK t : t = Append(s, l)
  OBVIOUS
<1>2. /\ t \in Seq(Line) /\ n \in Nat /\ n < Len(t) /\ Len(t) = n + 1 /\ t[n + 1] = l
      /\ \A i \in 1..n : t[i] = s[i]
  BY <1>1
<1>3. LoansOf(t, k, n) = LoansOf(s, k, n) /\ DefaultsOf(t, k, n) = DefaultsOf(s, k, n)
  BY <1>2 DEF LoansOf, DefaultsOf, LinesOf
<1>4. /\ Cardinality(LoansOf(s, k, n)) \in Nat /\ Cardinality(DefaultsOf(s, k, n)) \in Nat
  BY <1>2, CountsType
<1>5. PICK after, before : after = RowOf(t, k, n + 1) /\ before = RowOf(t, k, n)
  OBVIOUS
<1>6. /\ after.total = LoansFor(t, k) /\ after.defaults = DefaultsFor(t, k)
      /\ before.total = LoansFor(s, k) /\ before.defaults = DefaultsFor(s, k)
  BY <1>2, <1>3, <1>5 DEF RowOf, LoansFor, DefaultsFor
<1>7. CASE l.key # k
  <2>1. after = before
    BY <1>2, <1>5, <1>7, OneMoreLine
  <2> QED BY <1>1, <1>2, <1>4, <1>6, <1>7, <2>1 DEF LoansFor, DefaultsFor
<1>8. CASE l.key = k
  <2>1. /\ after.total = Cardinality(LoansOf(t, k, n)) + l.loans
        /\ after.defaults = Cardinality(DefaultsOf(t, k, n)) + l.defaults
    <3>1. RowOf(t, k, n + 1) =
            [key      |-> k,
             total    |-> Cardinality(LoansOf(t, k, n)) + t[n + 1].loans,
             defaults |-> Cardinality(DefaultsOf(t, k, n)) + t[n + 1].defaults,
             rates    |-> IF t[n + 1].loans = 1 THEN LoansOf(t, k, n) \cup {n + 1}
                          ELSE LoansOf(t, k, n)]
      BY <1>2, <1>8, OneMoreLine
    <3> QED BY <1>2, <1>5, <3>1
  <2> QED BY <1>1, <1>2, <1>3, <1>4, <1>6, <1>8, <2>1 DEF LoansFor, DefaultsFor
<1> QED BY <1>7, <1>8

\* A row counts once, in one group and one class, or not at all.
LEMMA CountedOnce ==
  ASSUME NEW name \in JobName, NEW row
  PROVE  \/ Counted(name, row) = {}
         \/ \E key \in Key, class \in Status :
              Counted(name, row) = {[key |-> key, class |-> class]}
<1> USE DEF Counted, Count, Classified
<1>1. Grade \subseteq Key /\ State \subseteq Key /\ Bucket \subseteq Key
  BY StreamingAssumption
<1>2. CASE name = "job1"
  BY <1>1, <1>2 DEF Counted1
<1>3. CASE name = "job2"
  BY <1>1, <1>3 DEF Counted2, IsLoan
<1>4. CASE name = "job3"
  BY <1>1, <1>4 DEF Counted3, IsLoan
<1>5. CASE name = "job4"
  BY <1>1, <1>5 DEF Counted4, IsLoan
<1> QED BY <1>2, <1>3, <1>4, <1>5 DEF JobName

\* What a row adds to key k.
IsCounted(row, k)   == \E class \in Status : [key |-> k, class |-> class] \in Counted(job, row)
IsDefaulted(row, k) == [key |-> k, class |-> "default"] \in Counted(job, row)

\* The lines a mapper prints for a row add to each key what the row counts for there.
LEMMA RowAdds ==
  ASSUME job \in JobName, NEW s \in Seq(Line), NEW row, NEW k
  PROVE  /\ s \o MapRow(job, row) \in Seq(Line)
         /\ LoansFor(s \o MapRow(job, row), k)
              = LoansFor(s, k) + (IF IsCounted(row, k) THEN 1 ELSE 0)
         /\ DefaultsFor(s \o MapRow(job, row), k)
              = DefaultsFor(s, k) + (IF IsDefaulted(row, k) THEN 1 ELSE 0)
<1>1. CASE Counted(job, row) = {}
  <2>1. s \o MapRow(job, row) = s
    BY <1>1 DEF MapRow
  <2>2. LoansFor(s, k) \in Nat /\ DefaultsFor(s, k) \in Nat
    BY CountsType DEF LoansFor, DefaultsFor
  <2> QED BY <1>1, <2>1, <2>2 DEF IsCounted, IsDefaulted
<1>2. CASE Counted(job, row) # {}
  <2>0. PICK key \in Key, class \in Status : Counted(job, row) = {[key |-> key, class |-> class]}
    BY <1>2, CountedOnce
  <2>1. PICK c : c = [key |-> key, class |-> class] /\ Counted(job, row) = {c}
    BY <2>0
  <2>2. MapRow(job, row) = LinesFor(job, c)
    BY <2>1 DEF MapRow
  <2>3. c.key = key /\ c.class = class /\ class \in {"default", "paid"}
    BY <2>1 DEF Status
  <2>4. /\ IsCounted(row, k) <=> key = k
        /\ IsDefaulted(row, k) <=> key = k /\ class = "default"
    <3>1. \A x \in Status : [key |-> k, class |-> x] = c <=> key = k /\ class = x
      BY <2>1
    <3> QED BY <2>1, <2>3, <3>1 DEF IsCounted, IsDefaulted, Status
  <2> DEFINE d == IF class = "default" THEN 1 ELSE 0
             l == [key |-> key, loans |-> 1, defaults |-> d]
             m == [key |-> key, loans |-> 1, defaults |-> 0]
             n == [key |-> key, loans |-> 0, defaults |-> 1]
  <2>5. l \in Line /\ m \in Line /\ n \in Line
    BY DEF Line, Bit
  <2>6. CASE job # "job4"
    <3>1. s \o MapRow(job, row) = Append(s, l)
      BY <2>2, <2>3, <2>6 DEF LinesFor, OutputLine, Defaulted
    <3>2. l.key = key /\ l.loans = 1 /\ l.defaults = d
      OBVIOUS
    <3> HIDE DEF l
    <3> QED BY <2>3, <2>4, <2>5, <3>1, <3>2, LineAdds
  <2>7. CASE job = "job4" /\ class = "default"
    <3>1. MapRow(job, row) = <<m, n>>
      BY <2>2, <2>3, <2>7 DEF LinesFor, OutputLine
    <3>2. /\ m.key = key /\ m.loans = 1 /\ m.defaults = 0
          /\ n.key = key /\ n.loans = 0 /\ n.defaults = 1
      OBVIOUS
    <3> HIDE DEF m, n
    <3>3. s \o MapRow(job, row) = Append(Append(s, m), n)
      BY <2>5, <3>1
    <3>4. PICK u : u = Append(s, m)
      OBVIOUS
    <3>5. /\ u \in Seq(Line) /\ LoansFor(s, k) \in Nat /\ DefaultsFor(s, k) \in Nat
          /\ LoansFor(u, k) = LoansFor(s, k) + (IF key = k THEN 1 ELSE 0)
          /\ DefaultsFor(u, k) = DefaultsFor(s, k)
      BY <2>5, <3>2, <3>4, LineAdds
    <3>6. /\ Append(u, n) \in Seq(Line)
          /\ LoansFor(Append(u, n), k) = LoansFor(u, k)
          /\ DefaultsFor(Append(u, n), k) = DefaultsFor(u, k) + (IF key = k THEN 1 ELSE 0)
      BY <2>5, <3>2, <3>5, LineAdds
    <3> QED BY <2>4, <2>7, <3>3, <3>4, <3>5, <3>6
  <2>8. CASE job = "job4" /\ class # "default"
    <3>1. s \o MapRow(job, row) = Append(s, m)
      BY <2>2, <2>3, <2>8 DEF LinesFor, OutputLine
    <3>2. m.key = key /\ m.loans = 1 /\ m.defaults = 0
      OBVIOUS
    <3> HIDE DEF m
    <3>3. PICK u : u = Append(s, m)
      OBVIOUS
    <3>4. /\ u \in Seq(Line) /\ LoansFor(s, k) \in Nat /\ DefaultsFor(s, k) \in Nat
          /\ LoansFor(u, k) = LoansFor(s, k) + (IF key = k THEN 1 ELSE 0)
          /\ DefaultsFor(u, k) = DefaultsFor(s, k)
      BY <2>5, <3>2, <3>3, LineAdds
    <3>5. ~ IsDefaulted(row, k) /\ (IsCounted(row, k) <=> key = k)
      BY <2>4, <2>8
    <3>6. DefaultsFor(u, k) = DefaultsFor(s, k) + (IF IsDefaulted(row, k) THEN 1 ELSE 0)
      BY <3>4, <3>5
    <3>7. LoansFor(u, k) = LoansFor(s, k) + (IF IsCounted(row, k) THEN 1 ELSE 0)
      BY <3>4, <3>5
    <3> QED BY <3>1, <3>3, <3>4, <3>6, <3>7
  <2> QED BY <2>6, <2>7, <2>8
<1> QED BY <1>1, <1>2
\* The rows, among the first n, that count for key k, and those in default.
CountedRows(rows, n, k)   == {m \in 1..n : IsCounted(rows[m], k)}
DefaultedRows(rows, n, k) == {m \in 1..n : IsDefaulted(rows[m], k)}

LEMMA OneMoreRow ==
  ASSUME NEW rows, NEW n \in Nat, NEW k
  PROVE  /\ IsFiniteSet(CountedRows(rows, n, k)) /\ IsFiniteSet(DefaultedRows(rows, n, k))
         /\ Cardinality(CountedRows(rows, n, k)) \in Nat
         /\ Cardinality(DefaultedRows(rows, n, k)) \in Nat
         /\ Cardinality(CountedRows(rows, n + 1, k))
              = Cardinality(CountedRows(rows, n, k)) + (IF IsCounted(rows[n + 1], k) THEN 1 ELSE 0)
         /\ Cardinality(DefaultedRows(rows, n + 1, k))
              = Cardinality(DefaultedRows(rows, n, k))
                + (IF IsDefaulted(rows[n + 1], k) THEN 1 ELSE 0)
<1> DEFINE A == CountedRows(rows, n, k)
           B == DefaultedRows(rows, n, k)
<1>1. IsFiniteSet(1..n)
  BY FS_Interval
<1>2. /\ IsFiniteSet(A) /\ Cardinality(A) \in Nat /\ n + 1 \notin A
      /\ IsFiniteSet(B) /\ Cardinality(B) \in Nat /\ n + 1 \notin B
  <2>1. A \subseteq 1..n /\ B \subseteq 1..n
    BY DEF CountedRows, DefaultedRows
  <2>2. n + 1 \notin 1..n
    OBVIOUS
  <2> HIDE DEF A, B
  <2> QED BY <1>1, <2>1, <2>2, FS_Subset, FS_CardinalityType
<1>3. 1..(n + 1) = 1..n \cup {n + 1}
  OBVIOUS
<1>4. CountedRows(rows, n + 1, k) = IF IsCounted(rows[n + 1], k) THEN A \cup {n + 1} ELSE A
  BY <1>3 DEF CountedRows
<1>5. DefaultedRows(rows, n + 1, k) = IF IsDefaulted(rows[n + 1], k) THEN B \cup {n + 1} ELSE B
  BY <1>3 DEF DefaultedRows
<1> HIDE DEF A, B
<1>6. Cardinality(A \cup {n + 1}) = Cardinality(A) + 1
  BY <1>2, FS_AddElement
<1>7. Cardinality(B \cup {n + 1}) = Cardinality(B) + 1
  BY <1>2, FS_AddElement
<1>8. Cardinality(CountedRows(rows, n + 1, k))
        = Cardinality(A) + (IF IsCounted(rows[n + 1], k) THEN 1 ELSE 0)
  BY <1>2, <1>4, <1>6
<1>9. Cardinality(DefaultedRows(rows, n + 1, k))
        = Cardinality(B) + (IF IsDefaulted(rows[n + 1], k) THEN 1 ELSE 0)
  BY <1>2, <1>5, <1>7
<1> QED BY <1>2, <1>8, <1>9 DEF A, B

\* What a map task has printed adds up, for each key, to the rows it has read.
MapTaskOK(t) ==
  /\ map[t].pos \in 0..Len(split[t]) /\ map[t].lines \in Seq(Line)
  /\ \A k \in Key :
       /\ LoansFor(map[t].lines, k) = Cardinality(CountedRows(split[t], map[t].pos, k))
       /\ DefaultsFor(map[t].lines, k) = Cardinality(DefaultedRows(split[t], map[t].pos, k))

MapOK ==
  /\ job \in JobName /\ split \in [Task -> Seq(Row)]
  /\ map \in [Task -> [pos : Nat, lines : Seq(Line)]]
  /\ \A t \in Task : MapTaskOK(t)

\* An attempt that begins has printed nothing, and read nothing.
LEMMA UnreadOK ==
  ASSUME split \in [Task -> Seq(Row)], NEW t \in Task, map[t] = Unread
  PROVE  MapTaskOK(t)
<1>1. PICK m : m = Unread
  OBVIOUS
<1>2. m.pos = 0 /\ m.lines = << >>
  BY <1>1 DEF Unread
<1>3. 0 \in 0..Len(split[t]) /\ << >> \in Seq(Line)
  <2>1. Len(split[t]) \in Nat
    OBVIOUS
  <2> QED BY <2>1
<1>4. ASSUME NEW k \in Key
      PROVE  /\ LoansFor(<< >>, k) = 0 /\ DefaultsFor(<< >>, k) = 0
             /\ Cardinality(CountedRows(split[t], 0, k)) = 0
             /\ Cardinality(DefaultedRows(split[t], 0, k)) = 0
  <2>1. LoansOf(<< >>, k, 0) = {} /\ DefaultsOf(<< >>, k, 0) = {}
    BY DEF LoansOf, DefaultsOf, LinesOf
  <2>2. CountedRows(split[t], 0, k) = {} /\ DefaultedRows(split[t], 0, k) = {}
    BY DEF CountedRows, DefaultedRows
  <2>3. Len(<< >>) = 0
    OBVIOUS
  <2> QED BY <2>1, <2>2, <2>3, FS_EmptySet DEF LoansFor, DefaultsFor
<1> QED BY <1>1, <1>2, <1>3, <1>4 DEF MapTaskOK

LEMMA MapNextRowOK ==
  ASSUME MapOK, NEW t \in Task, MapNextRow(t)
  PROVE  MapOK'
<1> DEFINE n == map[t].pos
           s == map[t].lines
           row == split[t][n + 1]
<1>1. /\ n \in Nat /\ s \in Seq(Line) /\ n + 1 <= Len(split[t])
      /\ job' = job /\ split' = split
      /\ map' = [map EXCEPT ![t] = [pos |-> n + 1, lines |-> s \o MapRow(job, row)]]
      /\ map \in [Task -> [pos : Nat, lines : Seq(Line)]]
      /\ job \in JobName /\ split \in [Task -> Seq(Row)] /\ Len(split[t]) \in Nat
  BY DEF MapOK, MapNextRow
<1>2. PICK m : m = [pos |-> n + 1, lines |-> s \o MapRow(job, row)]
  OBVIOUS
<1>3. m.pos = n + 1 /\ m.lines = s \o MapRow(job, row) /\ m.lines \in Seq(Line)
  <2> HIDE DEF n, row
  <2>1. s \o MapRow(job, row) \in Seq(Line)
    BY <1>1, RowAdds
  <2> QED BY <1>2, <2>1
<1>4. m \in [pos : Nat, lines : Seq(Line)]
  BY <1>1, <1>2, <1>3
<1>5. /\ map'[t] = m /\ map' \in [Task -> [pos : Nat, lines : Seq(Line)]]
      /\ \A u \in Task \ {t} : map'[u] = map[u]
  BY <1>1, <1>2, <1>4
<1>6. ASSUME NEW k \in Key
      PROVE  /\ LoansFor(m.lines, k) = Cardinality(CountedRows(split[t], m.pos, k))
             /\ DefaultsFor(m.lines, k) = Cardinality(DefaultedRows(split[t], m.pos, k))
  <2>1. /\ LoansFor(s, k) = Cardinality(CountedRows(split[t], n, k))
        /\ DefaultsFor(s, k) = Cardinality(DefaultedRows(split[t], n, k))
    BY DEF MapOK, MapTaskOK
  <2>2. /\ LoansFor(m.lines, k) = LoansFor(s, k) + (IF IsCounted(row, k) THEN 1 ELSE 0)
        /\ DefaultsFor(m.lines, k)
             = DefaultsFor(s, k) + (IF IsDefaulted(row, k) THEN 1 ELSE 0)
    <3> HIDE DEF s, row
    <3> QED BY <1>1, <1>3, RowAdds
  <2>3. /\ Cardinality(CountedRows(split[t], n + 1, k))
             = Cardinality(CountedRows(split[t], n, k)) + (IF IsCounted(row, k) THEN 1 ELSE 0)
        /\ Cardinality(DefaultedRows(split[t], n + 1, k))
             = Cardinality(DefaultedRows(split[t], n, k))
               + (IF IsDefaulted(row, k) THEN 1 ELSE 0)
    BY <1>1, OneMoreRow
  <2> QED BY <1>3, <2>1, <2>2, <2>3
<1>7. MapTaskOK(t)'
  <2>1. m.pos \in 0..Len(split[t])
    BY <1>1, <1>3
  <2>2. ASSUME NEW k \in Key
        PROVE  /\ LoansFor(map[t].lines, k)' = LoansFor(m.lines, k)
               /\ DefaultsFor(map[t].lines, k)' = DefaultsFor(m.lines, k)
    BY <1>5 DEF LoansFor, DefaultsFor, LoansOf, DefaultsOf, LinesOf
  <2>3. ASSUME NEW k \in Key
        PROVE  /\ CountedRows(split[t], map[t].pos, k)' = CountedRows(split[t], m.pos, k)
               /\ DefaultedRows(split[t], map[t].pos, k)' = DefaultedRows(split[t], m.pos, k)
    BY <1>1, <1>5 DEF CountedRows, DefaultedRows, IsCounted, IsDefaulted
  <2>4. ASSUME NEW k \in Key
        PROVE  /\ LoansFor(map[t].lines, k)' = Cardinality(CountedRows(split[t], map[t].pos, k))'
               /\ DefaultsFor(map[t].lines, k)'
                    = Cardinality(DefaultedRows(split[t], map[t].pos, k))'
    BY <1>6, <2>2, <2>3
  <2>5. map'[t].pos \in 0..Len(split'[t]) /\ map'[t].lines \in Seq(Line)
    BY <1>1, <1>3, <1>5, <2>1
  <2> QED BY <2>4, <2>5 DEF MapTaskOK
<1>8. ASSUME NEW u \in Task \ {t} PROVE MapTaskOK(u)'
  <2>1. MapTaskOK(u) /\ map'[u] = map[u]
    BY <1>5 DEF MapOK
  <2> QED BY <1>1, <2>1
          DEF MapTaskOK, CountedRows, DefaultedRows, IsCounted, IsDefaulted
<1> QED BY <1>1, <1>5, <1>7, <1>8 DEF MapOK

LEMMA JobNextMapOK ==
  ASSUME MapOK, [JobNext]_jobVars
  PROVE  MapOK'
<1>1. CASE job' = job /\ split' = split /\ map' = map
  BY <1>1 DEF MapOK, MapTaskOK, CountedRows, DefaultedRows, IsCounted, IsDefaulted
<1>2. ASSUME NEW t \in Task, MapAttemptFails(t) PROVE MapOK'
  <2>1. job' = job /\ split' = split /\ map' = [map EXCEPT ![t] = Unread]
    BY <1>2 DEF MapAttemptFails
  <2>2. Unread \in [pos : Nat, lines : Seq(Line)]
    BY DEF Unread
  <2>3. /\ map'[t] = Unread /\ map' \in [Task -> [pos : Nat, lines : Seq(Line)]]
        /\ \A u \in Task \ {t} : map'[u] = map[u]
    BY <2>1, <2>2 DEF MapOK
  <2>4. MapTaskOK(t)'
    <3>1. split' \in [Task -> Seq(Row)] /\ map'[t] = Unread
      BY <2>1, <2>3 DEF MapOK
    <3>2. (split \in [Task -> Seq(Row)] /\ map[t] = Unread)' => MapTaskOK(t)'
      BY UnreadOK, PTL
    <3> QED BY <3>1, <3>2 DEF Unread
  <2>5. ASSUME NEW u \in Task \ {t} PROVE MapTaskOK(u)'
    <3>1. MapTaskOK(u) /\ map'[u] = map[u]
      BY <2>3 DEF MapOK
    <3> QED BY <2>1, <3>1
            DEF MapTaskOK, CountedRows, DefaultedRows, IsCounted, IsDefaulted
  <2> QED BY <2>1, <2>3, <2>4, <2>5 DEF MapOK
<1> QED BY <1>1, <1>2, MapNextRowOK DEF JobNext, Shuffle, Reduce, jobVars
-----------------------------------------------------------------------------
(* A job: what the shuffle makes of it *)

\* Positions in all tasks: <<t, n>> is position n of t.
Glued(A) == UNION {{t} \X A[t] : t \in Task}

LEMMA GluedElements ==
  ASSUME NEW A, NEW x
  PROVE  x \in Glued(A) <=> /\ x = <<x[1], x[2]>>
                            /\ x[1] \in Task /\ x[2] \in A[x[1]]
<1>1. ASSUME x \in Glued(A)
      PROVE  x = <<x[1], x[2]>> /\ x[1] \in Task /\ x[2] \in A[x[1]]
  <2>1. PICK t \in Task : x \in {t} \X A[t]
    BY <1>1 DEF Glued
  <2> QED BY <2>1
<1>2. ASSUME x = <<x[1], x[2]>>, x[1] \in Task, x[2] \in A[x[1]]
      PROVE  x \in Glued(A)
  <2>1. PICK t, n : t = x[1] /\ n = x[2]
    OBVIOUS
  <2>2. <<t, n>> \in {t} \X A[t] /\ t \in Task /\ x = <<t, n>>
    BY <1>2, <2>1
  <2> QED BY <2>2 DEF Glued
<1> QED BY <1>1, <1>2

LEMMA GluedFinite ==
  ASSUME NEW A, \A t \in Task : IsFiniteSet(A[t])
  PROVE  IsFiniteSet(Glued(A))
<1> DEFINE f == [t \in Task |-> {t} \X A[t]]
           S == {{t} \X A[t] : t \in Task}
<1>1. f \in Surjection(Task, S)
  BY DEF Surjection
<1>2. IsFiniteSet(S)
  <2> HIDE DEF f, S
  <2> QED BY <1>1, StreamingAssumption, FS_Surjection
<1>3. \A T \in S : IsFiniteSet(T)
  <2> SUFFICES ASSUME NEW t \in Task PROVE IsFiniteSet({t} \X A[t])
    OBVIOUS
  <2> QED BY FS_Singleton, FS_Product
<1>4. IsFiniteSet(UNION S)
  <2> HIDE DEF S
  <2> QED BY <1>2, <1>3, FS_UNION
<1> QED BY <1>4 DEF Glued

\* What corresponds in each task corresponds as a whole.
LEMMA GluedBijection ==
  ASSUME NEW A, NEW B, \A t \in Task : ExistsBijection(A[t], B[t])
  PROVE  ExistsBijection(Glued(A), Glued(B))
<1> DEFINE f == [t \in Task |-> CHOOSE g : g \in Bijection(A[t], B[t])]
           F == [x \in Glued(A) |-> <<x[1], f[x[1]][x[2]]>>]
<1>1. ASSUME NEW t \in Task
      PROVE  /\ f[t] \in [A[t] -> B[t]]
             /\ \A a, b \in A[t] : f[t][a] = f[t][b] => a = b
             /\ \A b \in B[t] : \E a \in A[t] : f[t][a] = b
  <2>1. f[t] \in Bijection(A[t], B[t])
    BY DEF ExistsBijection
  <2> HIDE DEF f
  <2> QED BY <2>1 DEF Bijection, Injection, Surjection, IsInjective
<1> HIDE DEF f
<1>2. F \in [Glued(A) -> Glued(B)]
  <2> SUFFICES ASSUME NEW x \in Glued(A) PROVE <<x[1], f[x[1]][x[2]]>> \in Glued(B)
    OBVIOUS
  <2>1. x[1] \in Task /\ x[2] \in A[x[1]]
    BY GluedElements
  <2>2. PICK y : y = <<x[1], f[x[1]][x[2]]>>
    OBVIOUS
  <2>3. y = <<y[1], y[2]>> /\ y[1] \in Task /\ y[2] \in B[y[1]]
    BY <1>1, <2>1, <2>2
  <2> QED BY <2>2, <2>3, GluedElements
<1>3. ASSUME NEW x \in Glued(A), NEW y \in Glued(A), F[x] = F[y]
      PROVE  x = y
  <2>1. /\ x = <<x[1], x[2]>> /\ x[1] \in Task /\ x[2] \in A[x[1]]
        /\ y = <<y[1], y[2]>> /\ y[1] \in Task /\ y[2] \in A[y[1]]
    BY GluedElements
  <2>2. x[1] = y[1] /\ f[x[1]][x[2]] = f[y[1]][y[2]]
    BY <1>3
  <2>3. x[2] = y[2]
    BY <1>1, <2>1, <2>2
  <2> QED BY <2>1, <2>2, <2>3
<1>4. ASSUME NEW y \in Glued(B)
      PROVE  \E x \in Glued(A) : F[x] = y
  <2>1. y = <<y[1], y[2]>> /\ y[1] \in Task /\ y[2] \in B[y[1]]
    BY GluedElements
  <2>2. PICK a \in A[y[1]] : f[y[1]][a] = y[2]
    BY <1>1, <2>1
  <2>3. PICK x : x = <<y[1], a>>
    OBVIOUS
  <2>4. x = <<x[1], x[2]>> /\ x[1] = y[1] /\ x[2] = a
    BY <2>3
  <2>5. x \in Glued(A)
    BY <2>1, <2>4, GluedElements
  <2> QED BY <2>1, <2>2, <2>4, <2>5
<1> HIDE DEF F
<1>5. F \in Bijection(Glued(A), Glued(B))
  BY <1>2, <1>3, <1>4 DEF Bijection, Injection, Surjection, IsInjective
<1> QED BY <1>5 DEF ExistsBijection

\* There are finitely many lines.
LEMMA AllPositions ==
  ASSUME NEW lines \in [Task -> Seq(Line)], NEW X, X = Glued([t \in Task |-> DOMAIN lines[t]])
  PROVE  IsFiniteSet(X) /\ Cardinality(X) \in Nat
<1> DEFINE A == [t \in Task |-> DOMAIN lines[t]]
<1>1. ASSUME NEW t \in Task PROVE IsFiniteSet(DOMAIN lines[t])
  <2>1. lines[t] \in Seq(Line) /\ Len(lines[t]) \in Nat
    OBVIOUS
  <2>2. DOMAIN lines[t] = 1..Len(lines[t])
    BY <2>1
  <2> QED BY <2>1, <2>2, FS_Interval
<1>2. \A t \in Task : IsFiniteSet(A[t])
  BY <1>1
<1> HIDE DEF A
<1>3. IsFiniteSet(Glued(A))
  BY <1>2, GluedFinite
<1> QED BY <1>3, FS_CardinalityType DEF A

\* Putting the lines in order leaves as many of each kind as there were.
LEMMA OrderKeepsCounts ==
  ASSUME NEW lines \in [Task -> Seq(Line)], NEW X, NEW order \in [1..Cardinality(X) -> X],
         X = Glued([t \in Task |-> DOMAIN lines[t]]),
         \A x \in X : \E n \in DOMAIN order : order[n] = x,
         NEW L, NEW P, NEW B,
         \A n : n \in P <=> n \in 1..Cardinality(X) /\ lines[order[n][1]][order[n][2]] \in L,
         \A t \in Task : \A m : m \in B[t] <=> m \in DOMAIN lines[t] /\ lines[t][m] \in L
  PROVE  Cardinality(X) \in Nat /\ ExistsBijection(P, Glued(B))
<1> DEFINE N == Cardinality(X)
           f == [n \in P |-> order[n]]
<1>1. IsFiniteSet(X) /\ N \in Nat
  BY AllPositions
<1>2. IsFiniteSet(1..N) /\ Cardinality(1..N) = N
  <2> HIDE DEF N
  <2> QED BY <1>1, FS_Interval
<1>3. \A n, m \in 1..N : order[n] = order[m] => n = m
  <2>1. order \in Surjection(1..N, X)
    BY DEF Surjection
  <2>2. order \in Injection(1..N, X)
    BY <1>2, <2>1, FS_SurjSameCardinalityImpliesInj
  <2> QED BY <2>2 DEF Injection, IsInjective
<1>4. \A x : x \in X <=> x = <<x[1], x[2]>> /\ x[1] \in Task /\ x[2] \in DOMAIN lines[x[1]]
  <2> DEFINE A == [t \in Task |-> DOMAIN lines[t]]
  <2>1. \A x : x \in Glued(A) <=> x = <<x[1], x[2]>> /\ x[1] \in Task /\ x[2] \in A[x[1]]
    BY GluedElements
  <2> QED BY <2>1
<1>5. \A x : x \in Glued(B) <=> x \in X /\ lines[x[1]][x[2]] \in L
  <2>1. \A x : x \in Glued(B) <=> x = <<x[1], x[2]>> /\ x[1] \in Task /\ x[2] \in B[x[1]]
    BY GluedElements
  <2> QED BY <1>4, <2>1
<1>6. f \in [P -> Glued(B)]
  BY <1>5
<1>7. \A n, m \in P : f[n] = f[m] => n = m
  BY <1>3
<1>8. \A x \in Glued(B) : \E n \in P : f[n] = x
  BY <1>5
<1> HIDE DEF f
<1>9. f \in Bijection(P, Glued(B))
  BY <1>6, <1>7, <1>8 DEF Bijection, Injection, Surjection, IsInjective
<1> QED BY <1>1, <1>9 DEF ExistsBijection

\* The rows of all splits that count for key k, and those in default.
AllCounted(k)   == Glued([t \in Task |-> CountedRows(split[t], Len(split[t]), k)])
AllDefaulted(k) == Glued([t \in Task |-> DefaultedRows(split[t], Len(split[t]), k)])

\* The input of the reduce task adds up to the rows of all splits.
LEMMA ShuffleCounts ==
  ASSUME MapOK, \A t \in Task : map[t].pos = Len(split[t]),
         NEW order \in [1..Cardinality(AllLines) -> AllLines],
         \A x \in AllLines : \E n \in DOMAIN order : order[n] = x,
         NEW s, s = [n \in DOMAIN order |-> map[order[n][1]].lines[order[n][2]]]
  PROVE  /\ s \in Seq(Line)
         /\ \A k \in Key :
              /\ IsFiniteSet(AllCounted(k)) /\ LoansFor(s, k) = Cardinality(AllCounted(k))
              /\ IsFiniteSet(AllDefaulted(k)) /\ DefaultsFor(s, k) = Cardinality(AllDefaulted(k))
<1>1. PICK lines : lines = [t \in Task |-> map[t].lines]
  OBVIOUS
<1>2. lines \in [Task -> Seq(Line)] /\ \A t \in Task : lines[t] = map[t].lines
  BY <1>1 DEF MapOK
<1>3. AllLines = Glued([t \in Task |-> DOMAIN lines[t]])
  <2>1. \A t \in Task : [u \in Task |-> DOMAIN lines[u]][t] = DOMAIN map[t].lines
    BY <1>2
  <2> QED BY <2>1 DEF AllLines, Glued
<1>4. PICK N : N = Cardinality(AllLines)
  OBVIOUS
<1>5. N \in Nat /\ DOMAIN order = 1..N
  BY <1>2, <1>3, <1>4, AllPositions
<1>6. ASSUME NEW n \in 1..N
      PROVE  /\ s[n] = lines[order[n][1]][order[n][2]] /\ s[n] \in Line
  <2>1. order[n] \in AllLines
    BY <1>4, <1>5
  <2>2. order[n][1] \in Task /\ order[n][2] \in DOMAIN lines[order[n][1]]
    BY <1>3, <2>1, GluedElements
  <2>3. lines[order[n][1]] \in Seq(Line)
    BY <1>2, <2>2
  <2>4. s[n] = lines[order[n][1]][order[n][2]]
    BY <1>2, <1>5, <2>2
  <2> QED BY <2>2, <2>3, <2>4
<1>7. s \in Seq(Line) /\ Len(s) = N
  BY <1>5, <1>6
<1>8. ASSUME NEW L, NEW R,
             \A t \in Task :
               /\ IsFiniteSet({m \in DOMAIN lines[t] : lines[t][m] \in L}) /\ IsFiniteSet(R[t])
               /\ Cardinality({m \in DOMAIN lines[t] : lines[t][m] \in L}) = Cardinality(R[t])
      PROVE  /\ IsFiniteSet(Glued(R))
             /\ Cardinality({n \in 1..N : s[n] \in L}) = Cardinality(Glued(R))
  <2> DEFINE B == [t \in Task |-> {m \in DOMAIN lines[t] : lines[t][m] \in L}]
             P == {n \in 1..N : s[n] \in L}
  <2>1. P = {n \in 1..N : lines[order[n][1]][order[n][2]] \in L}
    BY <1>6
  <2>2. ExistsBijection(P, Glued(B))
    <3>1. PICK X : X = AllLines
      OBVIOUS
    <3>2. /\ order \in [1..Cardinality(X) -> X] /\ \A x \in X : \E n \in DOMAIN order : order[n] = x
          /\ X = Glued([t \in Task |-> DOMAIN lines[t]]) /\ lines \in [Task -> Seq(Line)]
      BY <1>2, <1>3, <3>1
    <3>3. \A n : n \in P <=> n \in 1..Cardinality(X) /\ lines[order[n][1]][order[n][2]] \in L
      BY <1>4, <2>1, <3>1
    <3>4. \A t \in Task : \A m : m \in B[t] <=> m \in DOMAIN lines[t] /\ lines[t][m] \in L
      OBVIOUS
    <3> HIDE DEF P, B
    <3> QED BY <3>2, <3>3, <3>4, OrderKeepsCounts
  <2>3. ExistsBijection(Glued(B), Glued(R))
    <3>1. \A t \in Task : ExistsBijection(B[t], R[t])
      BY <1>8, FS_SameCardinalityBij
    <3> HIDE DEF B
    <3> QED BY <3>1, GluedBijection
  <2>4. IsFiniteSet(P)
    <3>1. IsFiniteSet(1..N) /\ P \subseteq 1..N
      BY <1>5, FS_Interval
    <3> HIDE DEF P
    <3> QED BY <3>1, FS_Subset
  <2> HIDE DEF B, P
  <2>5. IsFiniteSet(Glued(B)) /\ Cardinality(Glued(B)) = Cardinality(P)
    BY <2>2, <2>4, FS_Bijection
  <2>6. IsFiniteSet(Glued(R)) /\ Cardinality(Glued(R)) = Cardinality(Glued(B))
    BY <2>3, <2>5, FS_Bijection
  <2> QED BY <2>5, <2>6 DEF P
<1>9. ASSUME NEW t \in Task
      PROVE  /\ DOMAIN lines[t] = 1..Len(lines[t]) /\ Len(lines[t]) \in Nat
             /\ Len(split[t]) \in Nat /\ \A m \in DOMAIN lines[t] : lines[t][m] \in Line
  <2>1. lines[t] \in Seq(Line) /\ split[t] \in Seq(Row)
    BY <1>2 DEF MapOK
  <2> QED BY <2>1
<1>10. ASSUME NEW k \in Key
       PROVE  IsFiniteSet(AllCounted(k)) /\ LoansFor(s, k) = Cardinality(AllCounted(k))
  <2> DEFINE L == {l \in Line : l.key = k /\ l.loans = 1}
             R == [t \in Task |-> CountedRows(split[t], Len(split[t]), k)]
  <2>1. LoansOf(s, k, N) = {n \in 1..N : s[n] \in L}
    BY <1>6 DEF LoansOf, LinesOf
  <2>2. ASSUME NEW t \in Task
        PROVE  /\ IsFiniteSet({m \in DOMAIN lines[t] : lines[t][m] \in L}) /\ IsFiniteSet(R[t])
               /\ Cardinality({m \in DOMAIN lines[t] : lines[t][m] \in L}) = Cardinality(R[t])
    <3>1. LoansOf(lines[t], k, Len(lines[t])) = {m \in DOMAIN lines[t] : lines[t][m] \in L}
      BY <1>9 DEF LoansOf, LinesOf
    <3>2. LoansFor(lines[t], k) = Cardinality(CountedRows(split[t], Len(split[t]), k))
      BY <1>2 DEF MapOK, MapTaskOK
    <3>3. IsFiniteSet(LoansOf(lines[t], k, Len(lines[t])))
      BY <1>9, CountsType
    <3>4. IsFiniteSet(CountedRows(split[t], Len(split[t]), k))
      BY <1>9, OneMoreRow
    <3> QED BY <3>1, <3>2, <3>3, <3>4 DEF LoansFor
  <2>3. IsFiniteSet(Glued(R)) /\ Cardinality({n \in 1..N : s[n] \in L}) = Cardinality(Glued(R))
    <3> HIDE DEF L, R
    <3> QED BY <1>8, <2>2
  <2> QED BY <1>7, <2>1, <2>3 DEF LoansFor, AllCounted
<1>11. ASSUME NEW k \in Key
       PROVE  IsFiniteSet(AllDefaulted(k)) /\ DefaultsFor(s, k) = Cardinality(AllDefaulted(k))
  <2> DEFINE L == {l \in Line : l.key = k /\ l.defaults = 1}
             R == [t \in Task |-> DefaultedRows(split[t], Len(split[t]), k)]
  <2>1. DefaultsOf(s, k, N) = {n \in 1..N : s[n] \in L}
    BY <1>6 DEF DefaultsOf, LinesOf
  <2>2. ASSUME NEW t \in Task
        PROVE  /\ IsFiniteSet({m \in DOMAIN lines[t] : lines[t][m] \in L}) /\ IsFiniteSet(R[t])
               /\ Cardinality({m \in DOMAIN lines[t] : lines[t][m] \in L}) = Cardinality(R[t])
    <3>1. DefaultsOf(lines[t], k, Len(lines[t])) = {m \in DOMAIN lines[t] : lines[t][m] \in L}
      BY <1>9 DEF DefaultsOf, LinesOf
    <3>2. DefaultsFor(lines[t], k) = Cardinality(DefaultedRows(split[t], Len(split[t]), k))
      BY <1>2 DEF MapOK, MapTaskOK
    <3>3. IsFiniteSet(DefaultsOf(lines[t], k, Len(lines[t])))
      BY <1>9, CountsType
    <3>4. IsFiniteSet(DefaultedRows(split[t], Len(split[t]), k))
      BY <1>9, OneMoreRow
    <3> QED BY <3>1, <3>2, <3>3, <3>4 DEF DefaultsFor
  <2>3. IsFiniteSet(Glued(R)) /\ Cardinality({n \in 1..N : s[n] \in L}) = Cardinality(Glued(R))
    <3> HIDE DEF L, R
    <3> QED BY <1>8, <2>2
  <2> QED BY <1>7, <2>1, <2>3 DEF DefaultsFor, AllDefaulted
<1> QED BY <1>7, <1>10, <1>11

\* Those rows are what PartIsTable counts.
LEMMA CountedInSplits ==
  ASSUME MapOK, NEW k \in Key, IsFiniteSet(AllCounted(k)), IsFiniteSet(AllDefaulted(k))
  PROVE  /\ Cardinality(AllDefaulted(k)) = Cardinality(CountedIn(k, "default"))
         /\ Cardinality(AllCounted(k))
              = Cardinality(CountedIn(k, "paid")) + Cardinality(CountedIn(k, "default"))
         /\ Cardinality(CountedIn(k, "paid")) \in Nat
         /\ Cardinality(CountedIn(k, "default")) \in Nat
<1>1. \A t \in Task : DOMAIN split[t] = 1..Len(split[t])
  <2> SUFFICES ASSUME NEW t \in Task PROVE DOMAIN split[t] = 1..Len(split[t])
    OBVIOUS
  <2>1. split[t] \in Seq(Row)
    BY DEF MapOK
  <2> QED BY <2>1
<1>2. \A c : CountedIn(k, c) =
        Glued([t \in Task |-> {n \in 1..Len(split[t]) :
                                 [key |-> k, class |-> c] \in Counted(job, split[t][n])}])
  <2> TAKE c
  <2> DEFINE A == [t \in Task |-> DOMAIN split[t]]
             B == [t \in Task |-> {n \in 1..Len(split[t]) :
                                     [key |-> k, class |-> c] \in Counted(job, split[t][n])}]
  <2>1. CountedIn(k, c) =
          {x \in Glued(A) : [key |-> k, class |-> c] \in Counted(job, split[x[1]][x[2]])}
    BY DEF CountedIn, Glued
  <2>2. \A x : x \in Glued(A) <=> x = <<x[1], x[2]>> /\ x[1] \in Task /\ x[2] \in A[x[1]]
    BY GluedElements
  <2>3. \A x : x \in Glued(B) <=> x = <<x[1], x[2]>> /\ x[1] \in Task /\ x[2] \in B[x[1]]
    BY GluedElements
  <2> QED BY <1>1, <2>1, <2>2, <2>3
<1>3. CountedIn(k, "default") = AllDefaulted(k)
  BY <1>2 DEF AllDefaulted, DefaultedRows, IsDefaulted
<1>4. AllCounted(k) = CountedIn(k, "paid") \cup CountedIn(k, "default")
  <2> DEFINE R == [t \in Task |-> CountedRows(split[t], Len(split[t]), k)]
             A(c) == [t \in Task |-> {n \in 1..Len(split[t]) :
                                        [key |-> k, class |-> c] \in Counted(job, split[t][n])}]
  <2>1. \A x : x \in Glued(R) <=> x = <<x[1], x[2]>> /\ x[1] \in Task /\ x[2] \in R[x[1]]
    BY GluedElements
  <2>2. \A c : \A x : x \in Glued(A(c)) <=>
                        x = <<x[1], x[2]>> /\ x[1] \in Task /\ x[2] \in A(c)[x[1]]
    BY GluedElements
  <2>3. \A t \in Task : R[t] = A("paid")[t] \cup A("default")[t]
    BY DEF CountedRows, IsCounted, Status
  <2>4. Glued(R) = Glued(A("paid")) \cup Glued(A("default"))
    <3> HIDE DEF R, A
    <3> QED BY <2>1, <2>2, <2>3
  <2> QED BY <1>2, <2>4 DEF AllCounted
<1>5. CountedIn(k, "paid") \cap CountedIn(k, "default") = {}
  <2> SUFFICES ASSUME NEW x \in CountedIn(k, "paid"), x \in CountedIn(k, "default")
               PROVE  FALSE
    OBVIOUS
  <2>1. PICK row : row = split[x[1]][x[2]]
    OBVIOUS
  <2>2. PICK p, d : p = [key |-> k, class |-> "paid"] /\ d = [key |-> k, class |-> "default"]
    OBVIOUS
  <2>3. p \in Counted(job, row) /\ d \in Counted(job, row)
    BY <2>1, <2>2 DEF CountedIn
  <2>4. p = d
    BY <2>3, CountedOnce DEF MapOK
  <2>5. p.class = "paid" /\ d.class = "default"
    BY <2>2
  <2> QED BY <2>4, <2>5
<1>6. IsFiniteSet(CountedIn(k, "paid")) /\ IsFiniteSet(CountedIn(k, "default"))
  BY <1>4, FS_Subset
<1>7. /\ Cardinality(CountedIn(k, "paid")) \in Nat
      /\ Cardinality(CountedIn(k, "default")) \in Nat
  BY <1>6, FS_CardinalityType
<1>8. Cardinality(AllCounted(k))
        = Cardinality(CountedIn(k, "paid")) + Cardinality(CountedIn(k, "default"))
  <2>1. PICK S, T : S = CountedIn(k, "paid") /\ T = CountedIn(k, "default")
    OBVIOUS
  <2>2. Cardinality(S \cup T) = Cardinality(S) + Cardinality(T) - Cardinality(S \cap T)
    BY <1>6, <2>1, FS_Union
  <2>3. Cardinality(S \cap T) = 0
    BY <1>5, <2>1, FS_EmptySet
  <2>4. Cardinality(S) \in Nat /\ Cardinality(T) \in Nat
    BY <1>7, <2>1
  <2>5. Cardinality(S \cup T) = Cardinality(S) + Cardinality(T)
    BY <2>2, <2>3, <2>4
  <2> QED BY <1>4, <2>1, <2>5
<1> QED BY <1>3, <1>7, <1>8
-----------------------------------------------------------------------------
(* A job: its part file *)

\* The input of the reduce task adds up, for key k, to the rows of the dataset.
Owed(k) ==
  /\ LoansFor(input, k) = Cardinality(CountedIn(k, "paid")) + Cardinality(CountedIn(k, "default"))
  /\ DefaultsFor(input, k) = Cardinality(CountedIn(k, "default"))
  /\ Cardinality(CountedIn(k, "paid")) \in Nat /\ Cardinality(CountedIn(k, "default")) \in Nat

\* The reduce task begins with an input that owes nothing.
LEMMA ShuffleOwes ==
  ASSUME MapOK, Shuffle
  PROVE  input' \in Seq(Line) /\ Grouped(input') /\ \A k \in Key : Owed(k)'
<1>1. PICK order \in [1..Cardinality(AllLines) -> AllLines] :
        /\ \A x \in AllLines : \E n \in DOMAIN order : order[n] = x
        /\ input' = [n \in DOMAIN order |-> map[order[n][1]].lines[order[n][2]]]
        /\ Grouped(input')
  BY DEF Shuffle
<1>2. PICK s : s = input'
  OBVIOUS
<1>3. /\ s \in Seq(Line)
      /\ \A k \in Key :
           /\ IsFiniteSet(AllCounted(k)) /\ LoansFor(s, k) = Cardinality(AllCounted(k))
           /\ IsFiniteSet(AllDefaulted(k)) /\ DefaultsFor(s, k) = Cardinality(AllDefaulted(k))
  <2>1. \A t \in Task : map[t].pos = Len(split[t])
    BY DEF Shuffle
  <2> QED BY <1>1, <1>2, <2>1, ShuffleCounts
<1>4. ASSUME NEW k \in Key PROVE Owed(k)'
  <2>1. /\ LoansFor(s, k) = Cardinality(CountedIn(k, "paid")) + Cardinality(CountedIn(k, "default"))
        /\ DefaultsFor(s, k) = Cardinality(CountedIn(k, "default"))
        /\ Cardinality(CountedIn(k, "paid")) \in Nat /\ Cardinality(CountedIn(k, "default")) \in Nat
    BY <1>3, CountedInSplits
  <2>2. split' = split /\ job' = job
    BY DEF Shuffle
  <2>3. \A c : CountedIn(k, c)' = CountedIn(k, c)
    BY <2>2 DEF CountedIn
  <2>4. LoansFor(input, k)' = LoansFor(s, k) /\ DefaultsFor(input, k)' = DefaultsFor(s, k)
    BY <1>2 DEF LoansFor, DefaultsFor
  <2> QED BY <2>1, <2>3, <2>4 DEF Owed
<1> QED BY <1>1, <1>2, <1>3, <1>4

\* What is true of a job in every state: its map tasks have printed what they
\* have read, and its reduce task has not begun, or is what a reducer is, on an
\* input that owes nothing.
JInv ==
  /\ MapOK
  /\ IInv
  /\ phase \in {"map", "reduce"}
  /\ phase = "map" => Blank
  /\ phase = "reduce" => \A k \in Key : Owed(k)

\* The inputs of a reduce task are all that a shuffle can make.
InputsAreAll == {s \in Seq(Line) : Grouped(s)} \subseteq Inputs

LEMMA JobInitJInv ==
  ASSUME InputsAreAll, JobInit
  PROVE  JInv
<1>1. MapOK
  <2>1. job \in JobName /\ split \in [Task -> Seq(Row)]
    BY StreamingAssumption DEF JobInit
  <2>2. Unread \in [pos : Nat, lines : Seq(Line)]
    BY DEF Unread
  <2>3. map \in [Task -> [pos : Nat, lines : Seq(Line)]] /\ \A t \in Task : map[t] = Unread
    BY <2>2 DEF JobInit
  <2>4. \A t \in Task : MapTaskOK(t)
    BY <2>1, <2>3, UnreadOK
  <2> QED BY <2>1, <2>3, <2>4 DEF MapOK
<1>2. input \in Inputs /\ Blank
  <2>1. << >> \in Seq(Line) /\ Grouped(<< >>)
    BY DEF Grouped
  <2> QED BY <2>1 DEF JobInit, InputsAreAll
<1> QED BY <1>1, <1>2, BlankIInv DEF JInv, JobInit

LEMMA JobNextJInv ==
  ASSUME InputsAreAll, JInv, [JobNext]_jobVars
  PROVE  JInv'
<1>1. MapOK'
  BY JobNextMapOK DEF JInv
<1>2. ASSUME UNCHANGED <<job, split, phase>>, [Next]_vars, phase = "map" => UNCHANGED vars
      PROVE  JInv'
  <2>1. IInv'
    BY <1>2, NextKeepsIInv DEF JInv
  <2>2. phase' = "map" => Blank'
    BY <1>2 DEF JInv, Blank, vars
  <2>3. ASSUME phase' = "reduce", NEW k \in Key PROVE Owed(k)'
    <3>1. input' = input
      BY <1>2 DEF Next, ReadLine, EndOfInput, AttemptFails, vars
    <3>2. \A c : CountedIn(k, c)' = CountedIn(k, c)
      BY <1>2 DEF CountedIn
    <3>3. LoansFor(input, k)' = LoansFor(input, k) /\ DefaultsFor(input, k)' = DefaultsFor(input, k)
      BY <3>1 DEF LoansFor, DefaultsFor
    <3>4. Owed(k)
      BY <1>2, <2>3 DEF JInv
    <3> QED BY <3>2, <3>3, <3>4 DEF Owed
  <2> QED BY <1>1, <1>2, <2>1, <2>2, <2>3 DEF JInv
<1>3. ASSUME NEW t \in Task, MapNextRow(t) \/ MapAttemptFails(t)
      PROVE  JInv'
  BY <1>2, <1>3 DEF MapNextRow, MapAttemptFails
<1>4. CASE Shuffle
  <2>1. input' \in Seq(Line) /\ Grouped(input') /\ \A k \in Key : Owed(k)'
    BY <1>4, ShuffleOwes DEF JInv
  <2>2. (input \in Inputs /\ Blank)'
    BY <1>4, <2>1 DEF Shuffle, JInv, Blank, InputsAreAll
  <2>3. (input \in Inputs /\ Blank)' => IInv'
    BY BlankIInv, PTL
  <2> QED BY <1>1, <1>4, <2>1, <2>2, <2>3 DEF Shuffle, JInv
<1>5. CASE Reduce
  BY <1>2, <1>5 DEF Reduce
<1>6. CASE UNCHANGED jobVars
  BY <1>2, <1>6 DEF jobVars
<1> QED BY <1>3, <1>4, <1>5, <1>6 DEF JobNext

\* The inductive invariant of the job holds in every reachable state.
THEOREM JobInvariance ==
  ASSUME InputsAreAll
  PROVE  JobSpec => []JInv
BY JobInitJInv, JobNextJInv, PTL DEF JobSpec

\* The rows of key k in the finished table.
LEMMA TableRows ==
  ASSUME IInv, done, NEW k \in Key
  PROVE  LET rows == {n \in DOMAIN printed : printed[n].key = k} IN
         IF LoansFor(input, k) = 0 THEN rows = {}
         ELSE \E n \in DOMAIN printed :
                /\ rows = {n}
                /\ printed[n].total = LoansFor(input, k)
                /\ printed[n].defaults = DefaultsFor(input, k)
<1>1. DOMAIN printed = 1..Len(printed) /\ PrintedOK(printed, input, Len(input)) /\ pos = Len(input)
  BY DEF IInv, PrintedOK
<1>2. Len(input) \in Nat
  BY InputType DEF IInv
<1>3. LoansFor(input, k) = 0 <=> LoansOf(input, k, Len(input)) = {}
  BY <1>2, CountsType, FS_EmptySet DEF LoansFor
<1>4. CASE LoansFor(input, k) = 0
  <2>1. \A n \in DOMAIN printed : printed[n].key # k
    BY <1>1, <1>3, <1>4 DEF PrintedOK
  <2> QED BY <1>4, <2>1
<1>5. CASE LoansFor(input, k) # 0
  <2>1. PICK n \in DOMAIN printed : printed[n].key = k
    BY <1>1, <1>3, <1>5 DEF IInv, IsPrinted
  <2>2. \A m \in DOMAIN printed : printed[m].key = k => m = n
    BY <1>1, <2>1 DEF PrintedOK
  <2>3. printed[n] = RowOf(input, k, Len(input))
    BY <1>1, <2>1 DEF PrintedOK
  <2>4. printed[n].total = LoansFor(input, k) /\ printed[n].defaults = DefaultsFor(input, k)
    BY <2>3 DEF RowOf, LoansFor, DefaultsFor
  <2> QED BY <1>5, <2>1, <2>2, <2>4
<1> QED BY <1>4, <1>5

\* The part file of every job is the table of its dataset: for any splits of any
\* rows, any order in which the map tasks run and the shuffle brings their
\* lines, and any attempts of map and reduce tasks that fail.
THEOREM PartFileIsTable ==
  ASSUME InputsAreAll
  PROVE  JobSpec => []PartIsTable
<1>1. JInv => PartIsTable
  <2> SUFFICES ASSUME JInv, done, phase = "reduce", NEW k \in Key
               PROVE  LET paid      == Cardinality(CountedIn(k, "paid"))
                          defaulted == Cardinality(CountedIn(k, "default"))
                          rows      == {n \in DOMAIN printed : printed[n].key = k}
                      IN
                      IF paid + defaulted = 0 THEN rows = {}
                      ELSE \E n \in DOMAIN printed :
                             /\ rows = {n}
                             /\ printed[n].total = paid + defaulted
                             /\ printed[n].defaults = defaulted
    BY DEF PartIsTable
  <2>1. /\ LoansFor(input, k) = Cardinality(CountedIn(k, "paid")) + Cardinality(CountedIn(k, "default"))
        /\ DefaultsFor(input, k) = Cardinality(CountedIn(k, "default"))
    BY DEF JInv, Owed
  <2>2. IInv
    BY DEF JInv
  <2> QED BY <2>1, <2>2, TableRows
<1> QED BY <1>1, JobInvariance, PTL

\* No mapper sends the reducer a group with more defaults than loans, so no
\* default is lost with a group that is left out: summed over all splits.
THEOREM DefaultsAreOfLoans ==
  ASSUME InputsAreAll
  PROVE  JobSpec => []DefaultsHaveLoans
<1>1. JInv => DefaultsHaveLoans
  <2> SUFFICES ASSUME JInv, phase = "reduce", NEW k \in Key
               PROVE  Cardinality(DefaultsOf(input, k, Len(input)))
                        <= Cardinality(LoansOf(input, k, Len(input)))
    BY DEF DefaultsHaveLoans
  <2>1. Owed(k)
    BY DEF JInv
  <2> QED BY <2>1 DEF Owed, LoansFor, DefaultsFor
<1> QED BY <1>1, JobInvariance, PTL
================================================================================
