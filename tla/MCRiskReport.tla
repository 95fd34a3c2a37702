---------------------------- MODULE MCRiskReport ----------------------------
(***************************************************************************)
(* Tables for RiskReport: up to three groups with rates at, and as close   *)
(* as rounding can see to, the thresholds of the risk levels.              *)
(***************************************************************************)
EXTENDS RiskReport

\* <<defaults, total>>: none, all, exactly 5%, 15% and 25%, the closest below
\* that is rounded up to them (4.9950, 14.9950, 24.9950), 5.004% and a tie.
Counts == {<<0, 1>>, <<1, 1>>, <<1, 20>>, <<3, 20>>, <<1, 4>>, <<50, 1001>>, <<151, 1007>>,
           <<1250, 5001>>, <<50, 999>>, <<1, 32>>}

Groups(key) ==
  UNION {{[key |-> key, total |-> c[2], defaults |-> c[1], rate |-> r, average |-> "finite"] :
            r \in Rounded(c[1], c[2])} : c \in Counts}

UpToOne(key) == {{}} \cup {{g} : g \in Groups(key)}

GradeTables == {a \cup b \cup c : a \in UpToOne("A"), b \in UpToOne("B"), c \in UpToOne("C")}

NaN(g) == [g EXCEPT !.average = "nan"]

\* Job 1 has any table; the other three have a smaller one.
MCTables ==
  {[j \in Job |-> CASE j = "job1" -> grades
                    [] j = "job4" -> IF rest = {} THEN grades
                                     ELSE {NaN(g) : g \in rest} \cup {g \in grades : g.key = "B"}
                    [] OTHER -> rest] :
     grades \in GradeTables, rest \in {{}, {CHOOSE g \in Groups("A") : g.total = 20}}}

Short == [fields |-> 3, numbers |-> TRUE, finite |-> TRUE, key |-> "A",
          total |-> 1, third |-> 1, rate |-> 1]

MCForeign == {Short, [Short EXCEPT !.fields = 4, !.numbers = FALSE]}
=============================================================================
