-------------------------- MODULE RiskReport_proofs --------------------------
(***************************************************************************)
(* What the aggregator reports, for every table the reducers may leave.    *)
(* The risk level of a row is never below the documented one of the group  *)
(* it stands for: rounding a rate to hundredths does not take it over a    *)
(* threshold downwards, because thresholds are whole hundredths.  A table  *)
(* is answered whole or not at all: a line that is not of a reducer is     *)
(* left out or makes the parser give up, and no two groups become one row. *)
(* And a summary names the right grades, as far as rounded rates can tell, *)
(* and its overall rate, a quotient of two sums, lies between theirs.      *)
(***************************************************************************)
EXTENDS RiskReport, FiniteSetTheorems, WellFoundedInduction, TLAPS

Inv ==
  /\ table \in [Job -> SUBSET Group]
  /\ foreign \in [Job -> SUBSET {l \in Line : l.fields = 4 => ~l.numbers}]
  /\ \A j \in Job : IsFiniteSet(table[j]) /\ \A g, h \in table[j] : g.key = h.key => g = h
  /\ RiskIsNeverUnderstated
  /\ TablesAreAnsweredWhole
  /\ SummaryAgreesWithTables

-----------------------------------------------------------------------------
\* A rate that was rounded to less than n whole percents is less than that.
LEMMA RoundedBelow ==
  ASSUME NEW d \in Nat, NEW t \in Nat, t > 0, NEW r \in Int, NEW n \in Nat,
         2 * (10000 * d - r * t) <= t, r < 100 * n
  PROVE  100 * d < n * t
<1>1. r <= 100 * n - 1
  OBVIOUS
<1>2. r * t <= (100 * n - 1) * t
  BY <1>1, Z3
<1>3. (100 * n - 1) * t = 100 * (n * t) - t
  BY Z3
<1>4. n * t \in Nat /\ r * t \in Int
  OBVIOUS
<1>5. QED
  BY <1>2, <1>3, <1>4

\* And one that was rounded to n whole percents or more is at most half a
\* hundredth of a percent below n.
LEMMA RoundedAbove ==
  ASSUME NEW d \in Nat, NEW t \in Nat, t > 0, NEW r \in Int, NEW n \in Nat,
         2 * (r * t - 10000 * d) <= t, r >= 100 * n
  PROVE  100 * (20000 * d + t) >= n * (20000 * t)
<1>1. (100 * n) * t <= r * t
  BY Z3
<1>2. (100 * n) * t = 100 * (n * t) /\ n * (20000 * t) = 20000 * (n * t)
  BY Z3
<1>3. n * t \in Nat /\ r * t \in Int
  OBVIOUS
<1>4. QED
  BY <1>1, <1>2, <1>3

\* The tier of a rounded rate is that of the exact rate, or the next one within
\* the rounding; the documented tiers leave 25.00 to either of two.
LEMMA TierOfRounded ==
  ASSUME NEW d \in Nat, NEW t \in Nat, t > 0, NEW r \in Rounded(d, t)
  PROVE  /\ Rank[LeastLevel(d, t)] <= Rank[ClassifyRisk(r)]
         /\ Rank[ClassifyRisk(r)] <= Rank[GreatestLevel(d, t)]
<1>1. /\ r \in Int
      /\ 2 * (r * t - 10000 * d) <= t /\ 2 * (10000 * d - r * t) <= t
  BY DEF Rounded
<1>2. /\ r < 500 => 20 * d < t
      /\ r < 1500 => 20 * d < 3 * t
      /\ r < 2500 => 20000 * d <= 5001 * t
  <2>1. r < 100 * 5 => 100 * d < 5 * t
    BY <1>1, RoundedBelow
  <2>2. r < 100 * 15 => 100 * d < 15 * t
    BY <1>1, RoundedBelow
  <2>3. r < 100 * 25 => 100 * d < 25 * t
    BY <1>1, RoundedBelow
  <2>4. QED
    BY <2>1, <2>2, <2>3
<1>3. /\ r >= 500 => ~(20000 * d + t < 1000 * t)
      /\ r >= 1500 => ~(20000 * d + t < 3000 * t)
      /\ r >= 2500 => ~(20000 * d + t < 5000 * t)
  <2>1. r >= 100 * 5 => 100 * (20000 * d + t) >= 5 * (20000 * t)
    BY <1>1, RoundedAbove
  <2>2. r >= 100 * 15 => 100 * (20000 * d + t) >= 15 * (20000 * t)
    BY <1>1, RoundedAbove
  <2>3. r >= 100 * 25 => 100 * (20000 * d + t) >= 25 * (20000 * t)
    BY <1>1, RoundedAbove
  <2>4. QED
    BY <1>1, <2>1, <2>2, <2>3
<1>4. CASE r < 500
  BY <1>1, <1>2, <1>4 DEF ClassifyRisk, LeastLevel, GreatestLevel, Rank
<1>5. CASE r >= 500 /\ r < 1500
  BY <1>1, <1>2, <1>3, <1>5 DEF ClassifyRisk, LeastLevel, GreatestLevel, Rank
<1>6. CASE r >= 1500 /\ r < 2500
  BY <1>1, <1>2, <1>3, <1>6 DEF ClassifyRisk, LeastLevel, GreatestLevel, Rank
<1>7. CASE r >= 2500
  BY <1>1, <1>2, <1>3, <1>7 DEF ClassifyRisk, LeastLevel, GreatestLevel, Rank
<1>8. QED
  BY <1>1, <1>4, <1>5, <1>6, <1>7

-----------------------------------------------------------------------------
(* Sums *)

\* A set of numbers that has 0 and the successor of each has all: the smallest
\* number that is missing would have a predecessor that is not.
LEMMA Induction ==
  ASSUME NEW T, T \subseteq Nat, 0 \in T, \A n \in T : n + 1 \in T
  PROVE  T = Nat
<1>1. PICK R : R = {p \in Nat \X Nat : p[1] < p[2]}
  OBVIOUS
<1>2. IsWellFoundedOn(R, Nat)
  BY <1>1, NatLessThanWellFounded DEF OpToRel
<1>3. SUFFICES ASSUME Nat \ T # {} PROVE FALSE
  OBVIOUS
<1>4. PICK x \in Nat \ T : \A y \in Nat \ T : ~ (<<y, x>> \in R)
  BY <1>2, <1>3, WFMin
<1>5. x # 0 /\ x - 1 \in Nat
  BY <1>4
<1>6. <<x - 1, x>> \in R
  BY <1>1, <1>5
<1>7. x - 1 \in T
  BY <1>4, <1>5, <1>6
<1> QED BY <1>4, <1>7

\* The element a fold takes from s next.
Taken(s) == CHOOSE x \in s : TRUE

\* f[s] is the sum of the weights of s, for the sets s of D.
Adds(f, D, w) ==
  f = [s \in D |-> IF s = {} THEN 0 ELSE w[Taken(s)] + f[s \ {Taken(s)}]]

\* Without the element that is taken, a set is smaller by one.
LEMMA TakenAway ==
  ASSUME NEW S, IsFiniteSet(S), NEW s \in SUBSET S, s # {}
  PROVE  /\ Taken(s) \in s /\ s \ {Taken(s)} \in SUBSET S
         /\ Cardinality(s) \in Nat /\ Cardinality(s \ {Taken(s)}) \in Nat
         /\ Cardinality(s) = Cardinality(s \ {Taken(s)}) + 1
<1>1. Taken(s) \in s
  BY DEF Taken
<1>2. IsFiniteSet(s)
  BY FS_Subset
<1>3. Cardinality(s \ {Taken(s)}) = Cardinality(s) - 1 /\ IsFiniteSet(s \ {Taken(s)})
  BY <1>1, <1>2, FS_RemoveElement
<1>4. Cardinality(s) \in Nat /\ Cardinality(s \ {Taken(s)}) \in Nat
  BY <1>2, <1>3, FS_CardinalityType
<1>5. QED
  BY <1>1, <1>3, <1>4

\* The subsets of S with n elements at most.
Small(S, n) == {s \in SUBSET S : Cardinality(s) <= n}

\* The recursion of a fold defines something: on the sets of at most n elements,
\* for any n.
LEMMA SumsExist ==
  ASSUME NEW S, IsFiniteSet(S), NEW w
  PROVE  \E f : Adds(f, SUBSET S, w)
<1>1. PICK T : T = {n \in Nat : \E f : Adds(f, Small(S, n), w)}
  OBVIOUS
<1>2. 0 \in T
  <2>1. PICK f : f = [s \in Small(S, 0) |-> 0]
    OBVIOUS
  <2>2. ASSUME NEW s \in Small(S, 0) PROVE s = {}
    <3>1. s \in SUBSET S /\ Cardinality(s) <= 0
      BY DEF Small
    <3>2. IsFiniteSet(s) /\ Cardinality(s) \in Nat
      BY <3>1, FS_Subset, FS_CardinalityType
    <3>3. Cardinality(s) = 0
      BY <3>1, <3>2
    <3>4. QED
      BY <3>2, <3>3, FS_EmptySet
  <2>3. f = [s \in Small(S, 0) |-> IF s = {} THEN 0 ELSE w[Taken(s)] + f[s \ {Taken(s)}]]
    BY <2>1, <2>2
  <2>4. QED
    BY <1>1, <2>3 DEF Adds
<1>3. ASSUME NEW n \in T PROVE n + 1 \in T
  <2>1. n \in Nat /\ n + 1 \in Nat
    BY <1>1
  <2>2. PICK f : Adds(f, Small(S, n), w)
    BY <1>1
  <2>3. PICK g : g = [s \in Small(S, n + 1) |->
                        IF s = {} THEN 0 ELSE w[Taken(s)] + f[s \ {Taken(s)}]]
    OBVIOUS
  <2>4. ASSUME NEW s \in Small(S, n + 1), s # {}
        PROVE  s \ {Taken(s)} \in Small(S, n) /\ s \ {Taken(s)} \in Small(S, n + 1)
    BY <2>1, <2>4, TakenAway DEF Small
  <2>5. ASSUME NEW s \in Small(S, n), s \in Small(S, n + 1) PROVE g[s] = f[s]
    BY <2>2, <2>3, <2>5 DEF Adds
  <2>6. ASSUME NEW s \in Small(S, n + 1), s # {}
        PROVE  g[s \ {Taken(s)}] = f[s \ {Taken(s)}]
    BY <2>4, <2>5, <2>6
  <2>7. g = [s \in Small(S, n + 1) |->
               IF s = {} THEN 0 ELSE w[Taken(s)] + g[s \ {Taken(s)}]]
    BY <2>3, <2>6
  <2>8. QED
    BY <1>1, <2>1, <2>7 DEF Adds
<1>4. Cardinality(S) \in T
  <2>1. T = Nat
    BY <1>1, <1>2, <1>3, Induction
  <2>2. QED
    BY <2>1, FS_CardinalityType
<1>5. Small(S, Cardinality(S)) = SUBSET S
  BY FS_Subset DEF Small
<1>6. QED
  BY <1>1, <1>4, <1>5

\* If each weight keeps a bound, so do the sums.
LEMMA SumsKeepBounds ==
  ASSUME NEW S, IsFiniteSet(S), NEW f, NEW g, NEW v \in [S -> Int], NEW w \in [S -> Int],
         Adds(f, SUBSET S, v), Adds(g, SUBSET S, w),
         NEW a \in Int, NEW b \in Int, \A x \in S : a * v[x] <= b * w[x]
  PROVE  f[S] \in Int /\ g[S] \in Int /\ a * f[S] <= b * g[S]
<1>1. PICK T : T = {n \in Nat : \A s \in SUBSET S : Cardinality(s) = n =>
                                  f[s] \in Int /\ g[s] \in Int /\ a * f[s] <= b * g[s]}
  OBVIOUS
<1>2. 0 \in T
  <2>1. SUFFICES ASSUME NEW s \in SUBSET S, Cardinality(s) = 0
                 PROVE  f[s] \in Int /\ g[s] \in Int /\ a * f[s] <= b * g[s]
    BY <1>1
  <2>2. s = {}
    <3>1. IsFiniteSet(s)
      BY FS_Subset
    <3>2. QED
      BY <2>1, <3>1, FS_EmptySet
  <2>3. f[s] = 0 /\ g[s] = 0
    BY <2>2 DEF Adds
  <2>4. QED
    BY <2>3
<1>3. ASSUME NEW n \in T PROVE n + 1 \in T
  <2>1. n \in Nat /\ n + 1 \in Nat
    BY <1>1
  <2>2. SUFFICES ASSUME NEW s \in SUBSET S, Cardinality(s) = n + 1
                 PROVE  f[s] \in Int /\ g[s] \in Int /\ a * f[s] <= b * g[s]
    BY <1>1, <2>1
  <2>3. s # {}
    <3>1. s = {} => Cardinality(s) = 0
      BY FS_EmptySet
    <3>2. QED
      BY <2>1, <2>2, <3>1
  <2>4. PICK x, r : x = Taken(s) /\ r = s \ {x}
    OBVIOUS
  <2>5. x \in S /\ r \in SUBSET S /\ Cardinality(r) = n
    BY <2>1, <2>2, <2>3, <2>4, TakenAway
  <2>6. f[r] \in Int /\ g[r] \in Int /\ a * f[r] <= b * g[r]
    BY <1>1, <2>5
  <2>7. f[s] = v[x] + f[r] /\ g[s] = w[x] + g[r]
    BY <2>3, <2>4 DEF Adds
  <2>8. v[x] \in Int /\ w[x] \in Int /\ a * v[x] <= b * w[x]
    BY <2>5
  <2>9. PICK i \in Int, j \in Int, k \in Int, l \in Int :
          i = v[x] /\ j = f[r] /\ k = w[x] /\ l = g[r]
    BY <2>6, <2>8
  <2>10. a * (i + j) = a * i + a * j /\ b * (k + l) = b * k + b * l
    BY Z3
  <2>11. a * i \in Int /\ a * j \in Int /\ b * k \in Int /\ b * l \in Int
    BY Z3
  <2>12. a * (i + j) <= b * (k + l)
    BY <2>6, <2>8, <2>9, <2>10, <2>11
  <2>13. QED
    BY <2>7, <2>9, <2>12
<1>4. Cardinality(S) \in T
  <2>1. T = Nat
    BY <1>1, <1>2, <1>3, Induction
  <2>2. QED
    BY <2>1, FS_CardinalityType
<1>5. QED
  BY <1>1, <1>4

\* The sums of buildRiskSummary are such sums.
LEMMA FoldsAreSums ==
  ASSUME NEW rows, IsFiniteSet(rows)
  PROVE  /\ \E f : Adds(f, SUBSET rows, [r \in rows |-> r.third]) /\ AllDefaults(rows) = f[rows]
         /\ \E f : Adds(f, SUBSET rows, [r \in rows |-> r.total]) /\ AllLoans(rows) = f[rows]
<1>1. \E f : Adds(f, SUBSET rows, [r \in rows |-> r.third]) /\ AllDefaults(rows) = f[rows]
  <2>1. ASSUME NEW f
        PROVE  Adds(f, SUBSET rows, [r \in rows |-> r.third]) <=>
               f = [s \in SUBSET rows |-> IF s = {} THEN 0
                      ELSE (CHOOSE x \in s : TRUE).third + f[s \ {CHOOSE x \in s : TRUE}]]
    BY TakenAway DEF Adds, Taken
  <2>2. PICK f : f = CHOOSE h : h = [s \in SUBSET rows |-> IF s = {} THEN 0
                      ELSE (CHOOSE x \in s : TRUE).third + h[s \ {CHOOSE x \in s : TRUE}]]
    OBVIOUS
  <2>3. AllDefaults(rows) = f[rows]
    BY <2>2 DEF AllDefaults, MapThenSumSet, MapThenFoldSet
  <2>4. PICK g : Adds(g, SUBSET rows, [r \in rows |-> r.third])
    BY SumsExist
  <2>5. g = [s \in SUBSET rows |-> IF s = {} THEN 0
               ELSE (CHOOSE x \in s : TRUE).third + g[s \ {CHOOSE x \in s : TRUE}]]
    BY <2>1, <2>4
  <2>6. f = [s \in SUBSET rows |-> IF s = {} THEN 0
               ELSE (CHOOSE x \in s : TRUE).third + f[s \ {CHOOSE x \in s : TRUE}]]
    BY <2>2, <2>5, Zenon
  <2>7. QED
    BY <2>1, <2>3, <2>6
<1>2. \E f : Adds(f, SUBSET rows, [r \in rows |-> r.total]) /\ AllLoans(rows) = f[rows]
  <2>1. ASSUME NEW f
        PROVE  Adds(f, SUBSET rows, [r \in rows |-> r.total]) <=>
               f = [s \in SUBSET rows |-> IF s = {} THEN 0
                      ELSE (CHOOSE x \in s : TRUE).total + f[s \ {CHOOSE x \in s : TRUE}]]
    BY TakenAway DEF Adds, Taken
  <2>2. PICK f : f = CHOOSE h : h = [s \in SUBSET rows |-> IF s = {} THEN 0
                      ELSE (CHOOSE x \in s : TRUE).total + h[s \ {CHOOSE x \in s : TRUE}]]
    OBVIOUS
  <2>3. AllLoans(rows) = f[rows]
    BY <2>2 DEF AllLoans, MapThenSumSet, MapThenFoldSet
  <2>4. PICK g : Adds(g, SUBSET rows, [r \in rows |-> r.total])
    BY SumsExist
  <2>5. g = [s \in SUBSET rows |-> IF s = {} THEN 0
               ELSE (CHOOSE x \in s : TRUE).total + g[s \ {CHOOSE x \in s : TRUE}]]
    BY <2>1, <2>4
  <2>6. f = [s \in SUBSET rows |-> IF s = {} THEN 0
               ELSE (CHOOSE x \in s : TRUE).total + f[s \ {CHOOSE x \in s : TRUE}]]
    BY <2>2, <2>5, Zenon
  <2>7. QED
    BY <2>1, <2>3, <2>6
<1>3. QED
  BY <1>1, <1>2

-----------------------------------------------------------------------------
\* A row of an answer is parsed from a line of a reducer: every other line with
\* four fields makes the parser give up.
LEMMA RowsAreFromGroups ==
  ASSUME Inv, NEW j \in Job, ~ParseFails(j), NEW r \in Parsed(j)
  PROVE  \E g \in table[j] : r = ParsedLine(LineOf(j, g))
<1>1. PICK l \in Text(j) : l.fields = 4 /\ l.numbers /\ r = ParsedLine(l)
  BY DEF Parsed, FourFields, ParseFails
<1>2. l \notin foreign[j]
  BY <1>1 DEF Inv
<1>3. QED
  BY <1>1, <1>2 DEF Text

\* The rows of a reply are rows that were to be written.
LEMMA WrittenRows ==
  ASSUME NEW kind, NEW rows
  PROVE  WriteJSON(kind, rows).rows \subseteq rows /\ WriteJSON(kind, rows).kind = kind
BY DEF WriteJSON, Reply

\* No line of a reducer is lost, and no two groups make the same row: a table
\* that is parsed has as many rows as groups.
LEMMA ParsedIsTable ==
  ASSUME Inv, NEW j \in Job, ~ParseFails(j)
  PROVE  /\ \A g \in table[j] : ParsedLine(LineOf(j, g)) \in Parsed(j)
         /\ IsFiniteSet(Parsed(j)) /\ Cardinality(Parsed(j)) = Cardinality(table[j])
<1>1. \A g \in table[j] : ParsedLine(LineOf(j, g)) \in Parsed(j)
  <2>1. TAKE g \in table[j]
  <2>2. LineOf(j, g) \in Text(j) /\ LineOf(j, g).fields = 4
    BY DEF Text, LineOf
  <2>3. QED
    BY <2>2 DEF Parsed, FourFields
<1>2. PICK f : f = [g \in table[j] |-> ParsedLine(LineOf(j, g))]
  OBVIOUS
<1>3. f \in [table[j] -> Parsed(j)]
  BY <1>1, <1>2
<1>4. IsInjective(f)
  <2>1. SUFFICES ASSUME NEW g \in table[j], NEW h \in table[j], f[g] = f[h]
                 PROVE  g = h
    BY <1>2 DEF IsInjective
  <2>2. ParsedLine(LineOf(j, g)).key = g.key /\ ParsedLine(LineOf(j, h)).key = h.key
    BY DEF ParsedLine, LineOf
  <2>3. g.key = h.key
    BY <1>2, <2>1, <2>2
  <2>4. QED
    BY <2>3 DEF Inv
<1>5. \A r \in Parsed(j) : \E g \in table[j] : f[g] = r
  BY <1>2, RowsAreFromGroups
<1>6. f \in Bijection(table[j], Parsed(j))
  BY <1>3, <1>4, <1>5 DEF Bijection, Injection, Surjection
<1>7. ExistsBijection(table[j], Parsed(j))
  BY <1>6 DEF ExistsBijection
<1>8. IsFiniteSet(table[j])
  BY DEF Inv
<1>9. QED
  BY <1>1, <1>7, <1>8, FS_Bijection

\* A table is written whole, but for a rate of job 4 that is not a number.
LEMMA WrittenWhole ==
  ASSUME Inv, NEW j \in Job, ~ParseFails(j), answer' = WriteJSON(j, Parsed(j)),
         table' = table
  PROVE  TablesAreAnsweredWhole'
<1>1. CASE Parsed(j) = {}
  <2>1. answer'.rows = Parsed(j) /\ answer'.kind = j
    BY <1>1 DEF WriteJSON, Reply
  <2>2. QED
    BY <1>1, <2>1, ParsedIsTable DEF TablesAreAnsweredWhole
<1>2. CASE Parsed(j) # {} /\ \E r \in Parsed(j) : ~r.finite
  <2>1. answer'.body = "none" /\ answer'.kind = j
    BY <1>2 DEF WriteJSON, Reply
  <2>2. PICK r \in Parsed(j) : ~r.finite
    BY <1>2
  <2>3. PICK g \in table[j] : r = ParsedLine(LineOf(j, g))
    BY RowsAreFromGroups
  <2>4. j = "job4"
    BY <2>2, <2>3 DEF ParsedLine, LineOf
  <2>5. QED
    BY <2>1, <2>4 DEF TablesAreAnsweredWhole
<1>3. CASE Parsed(j) # {} /\ ~\E r \in Parsed(j) : ~r.finite
  <2>1. answer'.rows = Parsed(j) /\ answer'.kind = j
    BY <1>3 DEF WriteJSON, Reply
  <2>2. \A g \in table[j] : ParsedLine(LineOf(j, g)).key = g.key
    BY DEF ParsedLine, LineOf
  <2>3. \A g \in table[j] : \E r \in Parsed(j) : r.key = g.key
    BY <2>2, ParsedIsTable
  <2>4. QED
    BY <2>1, <2>3, ParsedIsTable DEF TablesAreAnsweredWhole
<1>4. QED
  BY <1>1, <1>2, <1>3

-----------------------------------------------------------------------------
\* A rate that was rounded to no more than another is above it by no more than
\* the rounding of the two.
LEMMA RoundedInOrder ==
  ASSUME NEW d \in Nat, NEW t \in Nat, t > 0, NEW r \in Rounded(d, t),
         NEW e \in Nat, NEW u \in Nat, u > 0, NEW s \in Rounded(e, u), r <= s
  PROVE  d * u - e * t <= (t * u) \div 10000
<1> r \in Int /\ s \in Int
  BY DEF Rounded
<1>1. 2 * (10000 * d - r * t) * u <= t * u
  <2>1. 2 * (10000 * d - r * t) <= t
    BY DEF Rounded
  <2>2. QED
    BY <2>1, Z3
<1>2. 2 * (s * u - 10000 * e) * t <= u * t
  <2>1. 2 * (s * u - 10000 * e) <= u
    BY DEF Rounded
  <2>2. QED
    BY <2>1, Z3
<1>3. r * (t * u) <= s * (t * u)
  <2>1. t * u \in Nat
    OBVIOUS
  <2>2. QED
    BY <2>1, Z3
<1>4. PICK x \in Int, y \in Int, p \in Int, q \in Int, v \in Nat :
        x = d * u /\ y = e * t /\ v = t * u /\ p = r * (t * u) /\ q = s * (t * u)
  <2>1. d * u \in Int /\ e * t \in Int /\ t * u \in Nat
    OBVIOUS
  <2>2. QED
    BY <2>1
<1>5. 2 * (10000 * d - r * t) * u = 20000 * x - 2 * p
  BY <1>4, Z3
<1>6. 2 * (s * u - 10000 * e) * t = 2 * q - 20000 * y
  BY <1>4, Z3
<1>7. t * u = v /\ u * t = v
  BY <1>4, Z3
<1>8. 10000 * (x - y) <= v
  BY <1>1, <1>2, <1>3, <1>4, <1>5, <1>6, <1>7
<1>9. x - y <= v \div 10000
  BY <1>8
<1>10. QED
  BY <1>4, <1>9

\* The same of two groups: NotAbove of NamesTheRightGrades.
LEMMA GroupsInOrder ==
  ASSUME NEW a \in Group, NEW b \in Group, a.rate <= b.rate
  PROVE  a.defaults * b.total - b.defaults * a.total <= (a.total * b.total) \div 10000
<1>1. \A g \in Group : /\ g.total \in Nat /\ g.total > 0 /\ g.defaults \in Nat
                       /\ g.rate \in Rounded(g.defaults, g.total)
  BY DEF Group
<1>2. QED
  BY <1>1, RoundedInOrder

\* The rows sort.Slice puts first and last are of groups whose rates are the
\* highest and the lowest.
LEMMA EndsAreRight ==
  ASSUME Inv, ~ParseFails("job1"), NEW s,
         s.highest \in Worst(Parsed("job1")), s.lowest \in Best(Parsed("job1"))
  PROVE  NamesTheRightGrades(s)
<1>1. "job1" \in Job
  BY DEF Job
<1>2. PICK w \in table["job1"] : s.highest = ParsedLine(LineOf("job1", w))
  BY <1>1, RowsAreFromGroups DEF Worst
<1>3. PICK b \in table["job1"] : s.lowest = ParsedLine(LineOf("job1", b))
  BY <1>1, RowsAreFromGroups DEF Best
<1>4. \A g \in table["job1"] : /\ ParsedLine(LineOf("job1", g)).key = g.key
                               /\ ParsedLine(LineOf("job1", g)).rate = g.rate
  BY DEF ParsedLine, LineOf
<1>5. \A g \in table["job1"] : g.rate <= w.rate /\ b.rate <= g.rate
  BY <1>1, <1>2, <1>3, <1>4, ParsedIsTable DEF Worst, Best
<1>6. SUFFICES ASSUME NEW g \in table["job1"], NEW h \in table["job1"]
               PROVE  /\ h.key = s.highest.key =>
                           g.defaults * h.total - h.defaults * g.total
                             <= (g.total * h.total) \div 10000
                      /\ h.key = s.lowest.key =>
                           h.defaults * g.total - g.defaults * h.total
                             <= (h.total * g.total) \div 10000
  BY DEF NamesTheRightGrades
<1>7. g \in Group /\ h \in Group
  BY <1>1 DEF Inv
<1>8. h.key = s.highest.key => h = w
  BY <1>1, <1>2, <1>4 DEF Inv
<1>9. h.key = s.lowest.key => h = b
  BY <1>1, <1>3, <1>4 DEF Inv
<1>10. QED
  BY <1>5, <1>7, <1>8, <1>9, GroupsInOrder

\* What a rounded rate, and so any rate beyond it, says of the counts.
LEMMA RateBounds ==
  ASSUME NEW d \in Nat, NEW t \in Nat, t > 0, NEW r \in Rounded(d, t), NEW h \in Int
  PROVE  /\ r <= h => 20000 * d <= (2 * h + 1) * t
         /\ h <= r => (2 * h - 1) * t <= 20000 * d
<1> r \in Int
  BY DEF Rounded
<1>1. /\ 2 * (r * t - 10000 * d) <= t
      /\ 2 * (10000 * d - r * t) <= t
  BY DEF Rounded
<1>2. r <= h => r * t <= h * t
  BY Z3
<1>3. h <= r => h * t <= r * t
  BY Z3
<1>4. (2 * h + 1) * t = 2 * (h * t) + t /\ (2 * h - 1) * t = 2 * (h * t) - t
  BY Z3
<1>5. r * t \in Int /\ h * t \in Int
  OBVIOUS
<1>6. QED
  BY <1>1, <1>2, <1>3, <1>4, <1>5

\* Each row keeps the bounds of the first and the last, and so do the sums.
LEMMA OverallLiesBetween ==
  ASSUME Inv, ~ParseFails("job1"), NEW s,
         s.highest \in Worst(Parsed("job1")), s.lowest \in Best(Parsed("job1")),
         s.defaults = AllDefaults(Parsed("job1")), s.total = AllLoans(Parsed("job1"))
  PROVE  OverallIsBetween(s)
<1>1. "job1" \in Job
  BY DEF Job
<1>2. PICK rows : rows = Parsed("job1")
  OBVIOUS
<1>3. IsFiniteSet(rows)
  BY <1>1, <1>2, ParsedIsTable
<1>4. PICK v, w : v = [r \in rows |-> r.third] /\ w = [r \in rows |-> r.total]
  OBVIOUS
<1>5. ASSUME NEW r \in rows
      PROVE  /\ v[r] \in Nat /\ w[r] \in Nat /\ w[r] > 0
             /\ r.rate \in Rounded(v[r], w[r]) /\ r.rate \in Int
  <2>1. PICK g \in table["job1"] : r = ParsedLine(LineOf("job1", g))
    BY <1>1, <1>2, RowsAreFromGroups
  <2>2. r.third = g.defaults /\ r.total = g.total /\ r.rate = g.rate
    BY <2>1 DEF ParsedLine, LineOf
  <2>3. g \in Group
    BY <1>1 DEF Inv
  <2>4. /\ g.total \in Nat /\ g.total > 0 /\ g.defaults \in Nat
        /\ g.rate \in Rounded(g.defaults, g.total)
    BY <2>3 DEF Group
  <2>5. v[r] = g.defaults /\ w[r] = g.total
    BY <1>4, <2>2
  <2>6. r.rate \in Rounded(v[r], w[r])
    BY <2>2, <2>4, <2>5
  <2>7. r.rate \in Int
    <3>1. ASSUME NEW d, NEW t, NEW rate \in Rounded(d, t) PROVE rate \in Int
      BY DEF Rounded
    <3>2. QED
      BY <2>6, <3>1
  <2>8. QED
    BY <2>4, <2>5, <2>6, <2>7
<1>6. v \in [rows -> Int] /\ w \in [rows -> Int]
  BY <1>4, <1>5
<1>7. PICK hi, lo : hi = 2 * s.highest.rate + 1 /\ lo = 2 * s.lowest.rate - 1
  OBVIOUS
<1>8. hi \in Int /\ lo \in Int
  BY <1>2, <1>5, <1>7 DEF Worst, Best
<1>9. ASSUME NEW r \in rows
      PROVE  20000 * v[r] <= hi * w[r] /\ lo * w[r] <= 20000 * v[r]
  <2>2. r.rate <= s.highest.rate /\ s.lowest.rate <= r.rate
    BY <1>2 DEF Worst, Best
  <2>3. s.highest.rate \in Int /\ s.lowest.rate \in Int
    BY <1>2, <1>5 DEF Worst, Best
  <2>4. QED
    BY <1>5, <1>7, <2>2, <2>3, RateBounds
<1>10. PICK f : Adds(f, SUBSET rows, v) /\ s.defaults = f[rows]
  BY <1>2, <1>3, <1>4, FoldsAreSums
<1>11. PICK g : Adds(g, SUBSET rows, w) /\ s.total = g[rows]
  BY <1>2, <1>3, <1>4, FoldsAreSums
<1>12. f[rows] \in Int /\ g[rows] \in Int /\ 20000 * f[rows] <= hi * g[rows]
  <2>1. PICK k \in Int : k = 20000
    OBVIOUS
  <2>2. \A r \in rows : k * v[r] <= hi * w[r]
    BY <1>9, <2>1
  <2>3. f[rows] \in Int /\ g[rows] \in Int /\ k * f[rows] <= hi * g[rows]
    BY <1>3, <1>6, <1>8, <1>10, <1>11, <2>2, SumsKeepBounds
  <2>4. QED
    BY <2>1, <2>3
<1>13. lo * g[rows] <= 20000 * f[rows]
  <2>1. \A r \in rows : lo * w[r] <= 20000 * v[r]
    BY <1>9
  <2>2. QED
    BY <1>3, <1>6, <1>8, <1>10, <1>11, <2>1, SumsKeepBounds
<1>14. lo * g[rows] \in Int
  BY <1>8, <1>12
<1>15. QED
  BY <1>7, <1>10, <1>11, <1>12, <1>13, <1>14 DEF OverallIsBetween

-----------------------------------------------------------------------------
LEMMA GetResultsKeepsInv ==
  ASSUME Inv, NEW j \in Job, GetResults(j)
  PROVE  Inv'
<1>1. table' = table /\ foreign' = foreign
  BY DEF GetResults
<1>2. RiskIsNeverUnderstated'
  <2>1. CASE ParseFails(j)
    BY <2>1, <1>1 DEF GetResults, Reply, RiskIsNeverUnderstated
  <2>2. CASE ~ParseFails(j)
    <3>1. answer'.kind = j /\ answer'.rows \subseteq Parsed(j)
      BY <2>2, WrittenRows DEF GetResults
    <3>2. SUFFICES ASSUME NEW r \in answer'.rows
                   PROVE  \E g \in table[j] :
                            /\ r.key = g.key /\ r.total = g.total
                            /\ Rank[LeastLevel(g.defaults, g.total)] <= Rank[r.level]
                            /\ Rank[r.level] <= Rank[GreatestLevel(g.defaults, g.total)]
      BY <1>1, <3>1 DEF RiskIsNeverUnderstated
    <3>3. PICK g \in table[j] : r = ParsedLine(LineOf(j, g))
      BY <2>2, <3>1, RowsAreFromGroups
    <3>4. /\ g.total \in Nat /\ g.total > 0 /\ g.defaults \in Nat
          /\ g.rate \in Rounded(g.defaults, g.total)
      <4>1. g \in Group
        BY DEF Inv
      <4>2. QED
        BY <4>1 DEF Group
    <3>5. r.key = g.key /\ r.total = g.total /\ r.level = ClassifyRisk(g.rate)
      BY <3>3 DEF ParsedLine, LineOf
    <3>6. QED
      BY <3>4, <3>5, TierOfRounded
  <2>3. QED
    BY <2>1, <2>2
<1>3. TablesAreAnsweredWhole'
  <2>1. CASE ParseFails(j)
    BY <2>1 DEF GetResults, Reply, TablesAreAnsweredWhole
  <2>2. CASE ~ParseFails(j)
    BY <1>1, <2>2, WrittenWhole DEF GetResults
  <2>3. QED
    BY <2>1, <2>2
<1>4. SummaryAgreesWithTables'
  <2>1. answer'.kind = j
    BY WrittenRows DEF GetResults, Reply
  <2>2. QED
    BY <2>1 DEF SummaryAgreesWithTables, Job
<1>5. QED
  BY <1>1, <1>2, <1>3, <1>4 DEF Inv

LEMMA GetSummaryKeepsInv ==
  ASSUME Inv, GetSummary
  PROVE  Inv'
<1>1. table' = table /\ foreign' = foreign
  BY DEF GetSummary
<1>2. answer'.kind = "summary"
  BY DEF GetSummary, Reply
<1>3. SummaryAgreesWithTables'
  <2>1. CASE answer'.rows = {}
    BY <2>1 DEF SummaryAgreesWithTables
  <2>2. CASE answer'.rows # {}
    <3>1. /\ ~ParseFails("job1")
          /\ \E s \in Summaries : answer' = Reply("summary", 200, "json", {s})
      BY <2>2 DEF GetSummary, Summarised, Reply
    <3>2. PICK s \in Summaries : answer' = Reply("summary", 200, "json", {s})
      BY <3>1
    <3>3. /\ s.highest \in Worst(Parsed("job1")) /\ s.lowest \in Best(Parsed("job1"))
          /\ s.defaults = AllDefaults(Parsed("job1")) /\ s.total = AllLoans(Parsed("job1"))
      BY DEF Summaries
    <3>4. NamesTheRightGrades(s)
      BY <3>1, <3>3, EndsAreRight
    <3>5. OverallIsBetween(s)
      BY <3>1, <3>3, OverallLiesBetween
    <3>6. answer'.rows = {s}
      BY <3>2 DEF Reply
    <3>7. QED
      BY <1>1, <3>4, <3>5, <3>6 DEF SummaryAgreesWithTables, NamesTheRightGrades, OverallIsBetween
  <2>3. QED
    BY <2>1, <2>2
<1>4. QED
  BY <1>1, <1>2, <1>3 DEF Inv, RiskIsNeverUnderstated, TablesAreAnsweredWhole, Job

-----------------------------------------------------------------------------
LEMMA InitInv ==
  ASSUME Init
  PROVE  Inv
<1>1. table \in [Job -> SUBSET Group] /\ OneRowPerKey(table)
  BY ReportAssumption DEF Init
<1>2. foreign \in [Job -> SUBSET {l \in Line : l.fields = 4 => ~l.numbers}]
  BY ReportAssumption DEF Init
<1>3. answer.kind = "none"
  BY DEF Init, NoReply, Reply
<1>4. RiskIsNeverUnderstated /\ TablesAreAnsweredWhole /\ SummaryAgreesWithTables
  BY <1>3 DEF RiskIsNeverUnderstated, TablesAreAnsweredWhole, SummaryAgreesWithTables, Job
<1>5. QED
  BY <1>1, <1>2, <1>4 DEF Inv, OneRowPerKey

LEMMA InvIsKept == Inv /\ [Next]_vars => Inv'
<1>1. SUFFICES ASSUME Inv, [Next]_vars PROVE Inv'
  OBVIOUS
<1>2. CASE UNCHANGED vars
  BY <1>1, <1>2 DEF vars, Inv, RiskIsNeverUnderstated, TablesAreAnsweredWhole,
                    SummaryAgreesWithTables, NamesTheRightGrades, OverallIsBetween
<1>3. QED
  BY <1>1, <1>2, GetResultsKeepsInv, GetSummaryKeepsInv DEF Next

\* For every set of tables and every line from elsewhere: a group is never
\* answered with a lower risk level than the documented tiers give its exact
\* default rate, and with a higher one only within the rounding of its rate; a
\* rate that rounds to 25 may have either of the two levels it lies between.
THEOREM RiskNeverUnderstated == Spec => []RiskIsNeverUnderstated
<1>1. Inv => RiskIsNeverUnderstated
  BY DEF Inv
<1>2. QED
  BY <1>1, InitInv, InvIsKept, PTL DEF Spec

\* For every set of tables and every line from elsewhere that the parsers do not
\* take for a row: the handlers of the four jobs answer a row for each group and no others, or an error, or, for a
\* rate of job 4 that is not a number, nothing at all.
THEOREM TablesAnsweredWhole == Spec => []TablesAreAnsweredWhole
<1>1. Inv => TablesAreAnsweredWhole
  BY DEF Inv
<1>2. QED
  BY <1>1, InitInv, InvIsKept, PTL DEF Spec

\* For every set of tables: the grade buildRiskSummary warns of has the highest
\* exact default rate and the one it recommends the lowest, but for what the
\* rounding of two rates can hide, and the overall rate lies between the two.
THEOREM SummaryAgrees == Spec => []SummaryAgreesWithTables
<1>1. Inv => SummaryAgreesWithTables
  BY DEF Inv
<1>2. QED
  BY <1>1, InitInv, InvIsKept, PTL DEF Spec
=============================================================================
