------------------------ MODULE ResultAggregator_proofs ------------------------
(***************************************************************************)
(* That a table is the whole output of one application or nothing, and     *)
(* that a request that nothing meddles with gets everything, for any       *)
(* directories, applications and clients, and any removal or rewriting of  *)
(* a directory between the calls of a request.                             *)
(***************************************************************************)
EXTENDS ResultAggregator, TLAPS

Output(d) == {<<out[d].part[p], p>> : p \in Part}

\* What is read of a directory is one file or nothing, and so is a table.
OneFile(text) == text = {} \/ \E a \in App : text = {<<a, 0>>}

ReadsOneFile(x) ==
  /\ x.pc \in {"list", "open"} => Len(x.tables) < Len(x.dirs)
  /\ x.files \subseteq Part
  /\ x.text # {} => x.files = {}
  /\ OneFile(x.text)
  /\ \A k \in DOMAIN x.tables : OneFile(x.tables[k])

\* The jobs have run, and nothing has happened since the request came in.
Undisturbed(x) ==
  x.quiet /\ \A k \in DOMAIN x.dirs : \E a \in App \ EmptyApp : HoldsOutputOf(x.dirs[k], a)

\* Then what is read so far is what is there: the tables in their places, and of
\* the directory being read the file that is not still to be read.
ReadsAll(x) ==
  Undisturbed(x) =>
    /\ \A k \in DOMAIN x.tables : x.tables[k] = Output(x.dirs[k])
    /\ x.pc = "open" => \/ x.files = Part /\ x.text = {}
                        \/ x.files = {} /\ x.text = Output(x.dirs[Len(x.tables) + 1])
    /\ x.pc = "answered" => x.code = "ok" /\ Len(x.tables) = Len(x.dirs)

IInv ==
  /\ ClusterTypeOK /\ req \in [Client -> Request]
  /\ \A c \in Client : ReadsOneFile(req[c]) /\ ReadsAll(req[c])

-----------------------------------------------------------------------------
(* Whoever runs jobs *)

LEMMA RemoveKeepsTypes ==
  ASSUME ClusterTypeOK, NEW d \in Dir, Remove(d)
  PROVE  ClusterTypeOK'
<1>1. Missing \in [dir : BOOLEAN, part : [Part -> App \cup {Nil}], success : BOOLEAN]
  BY DEF Missing, NoParts
<1>2. QED
  BY <1>1 DEF Remove, ClusterTypeOK

LEMMA StartKeepsTypes ==
  ASSUME ClusterTypeOK, NEW a \in App, NEW d \in Dir, StartClient(a, d)
  PROVE  ClusterTypeOK'
<1>1. app' \in [App -> [dir : Dir \cup {Nil}, phase : Phase, done : SUBSET Part]]
  BY DEF StartClient, ClusterTypeOK, Phase, Live
<1>2. \A b \in App : app'[b].phase # "none" => app'[b].dir \in Dir
  BY DEF StartClient, ClusterTypeOK
<1>3. QED
  BY <1>1, <1>2 DEF StartClient, ClusterTypeOK

LEMMA AppStepKeepsTypes ==
  ASSUME ClusterTypeOK, NEW a \in App, AppStep(a)
  PROVE  ClusterTypeOK'
<1> DEFINE d == app[a].dir
<1>1. app[a].phase # "none" /\ d \in Dir
  BY DEF AppStep, CheckOutput, SetUp, Publish, CommitJob, Abort, Live, ClusterTypeOK
<1>2. ASSUME NEW phase \in Phase, app' = [app EXCEPT ![a].phase = phase]
      PROVE  /\ app' \in [App -> [dir : Dir \cup {Nil}, phase : Phase, done : SUBSET Part]]
             /\ \A b \in App : app'[b].phase # "none" => app'[b].dir \in Dir
  BY <1>1, <1>2 DEF ClusterTypeOK
<1>3. CASE CheckOutput(a) \/ Abort(a)
  <2>1. PICK phase \in Phase : app' = [app EXCEPT ![a].phase = phase]
    BY <1>3 DEF CheckOutput, Abort, Phase, Live
  <2>2. QED
    BY <1>2, <1>3, <2>1 DEF CheckOutput, Abort, ClusterTypeOK
<1>4. CASE SetUp(a)
  <2>1. "running" \in Phase
    BY DEF Phase, Live
  <2>2. out' \in [Dir -> [dir : BOOLEAN, part : [Part -> App \cup {Nil}], success : BOOLEAN]]
    BY <1>1, <1>4 DEF SetUp, ClusterTypeOK
  <2>3. QED
    BY <1>2, <1>4, <2>1, <2>2 DEF SetUp, ClusterTypeOK
<1>5. CASE CommitJob(a)
  <2>1. "succeeded" \in Phase
    BY DEF Phase
  <2>2. out' \in [Dir -> [dir : BOOLEAN, part : [Part -> App \cup {Nil}], success : BOOLEAN]]
    BY <1>1, <1>5 DEF CommitJob, ClusterTypeOK
  <2>3. QED
    BY <1>2, <1>5, <2>1, <2>2 DEF CommitJob, ClusterTypeOK
<1>6. ASSUME NEW p \in Part, Publish(a, p)
      PROVE  ClusterTypeOK'
  <2>1. /\ app' = [app EXCEPT ![a].done = @ \cup {p}]
        /\ out' = [out EXCEPT ![d].dir = TRUE, ![d].part[p] = a]
    BY <1>6 DEF Publish
  <2>2. app' \in [App -> [dir : Dir \cup {Nil}, phase : Phase, done : SUBSET Part]]
    BY <2>1 DEF ClusterTypeOK
  <2>3. \A b \in App : app'[b].phase # "none" => app'[b].dir \in Dir
    BY <2>1 DEF ClusterTypeOK
  <2>4. out' \in [Dir -> [dir : BOOLEAN, part : [Part -> App \cup {Nil}], success : BOOLEAN]]
    <3>1. [out[d].part EXCEPT ![p] = a] \in [Part -> App \cup {Nil}]
      BY <1>1 DEF ClusterTypeOK
    <3>2. QED
      BY <1>1, <2>1, <3>1 DEF ClusterTypeOK
  <2>5. QED
    BY <2>2, <2>3, <2>4 DEF ClusterTypeOK
<1>7. QED
  BY <1>3, <1>4, <1>5, <1>6 DEF AppStep

\* A request that something happens to in the cluster is disturbed, and keeps what it
\* has read.
LEMMA RunsJobsKeepsIInv ==
  ASSUME IInv, RunsJobs
  PROVE  IInv'
<1>1. ClusterTypeOK'
  BY RemoveKeepsTypes, StartKeepsTypes, AppStepKeepsTypes DEF RunsJobs, IInv
<1>2. req' = [c \in Client |-> [req[c] EXCEPT !.quiet = FALSE]]
  BY DEF RunsJobs, Noticed
<1>3. req' \in [Client -> Request]
  BY <1>2 DEF IInv, Request
<1>4. ASSUME NEW c \in Client
      PROVE  /\ ~req'[c].quiet
             /\ req'[c].pc = req[c].pc /\ req'[c].tables = req[c].tables
             /\ req'[c].dirs = req[c].dirs /\ req'[c].text = req[c].text
             /\ req'[c].files = req[c].files
  BY <1>2 DEF IInv, Request
<1>5. ASSUME NEW c \in Client
      PROVE  ReadsOneFile(req[c])' /\ ReadsAll(req[c])'
  BY <1>4 DEF IInv, ReadsOneFile, OneFile, ReadsAll, Undisturbed
<1>6. QED
  BY <1>1, <1>3, <1>5 DEF IInv

-----------------------------------------------------------------------------
(* The handlers *)

LEMMA OnePart ==
  /\ Part = {0}
  /\ \A d : Output(d) = {<<out[d].part[0], 0>>}
BY DEF Part, Output

\* A handler changes its own request, and nothing in the cluster.
LEMMA OwnRequest ==
  ASSUME IInv, NEW c \in Client, NEW x \in Request, Goto(c, x), UNCHANGED cluster,
         ReadsOneFile(x), ReadsAll(x)
  PROVE  IInv'
<1>1. req' \in [Client -> Request] /\ req'[c] = x /\ \A b \in Client \ {c} : req'[b] = req[b]
  BY DEF Goto, IInv
<1>2. ClusterTypeOK' /\ out' = out
  BY DEF IInv, ClusterTypeOK, cluster
<1>3. ASSUME NEW b \in Client
      PROVE  ReadsOneFile(req[b])' /\ ReadsAll(req[b])'
  <2>1. ReadsOneFile(req'[b]) /\ ReadsAll(req'[b])
    BY <1>1 DEF IInv
  <2>2. QED
    BY <1>2, <2>1 DEF ReadsOneFile, ReadsAll, Undisturbed, Output, HoldsOutputOf
<1>4. QED
  BY <1>1, <1>2, <1>3 DEF IInv

LEMMA NewRequestReadsNothing ==
  ASSUME NEW kind \in {"results", "summary"}, NEW dirs \in Seq(Dir), dirs # << >>
  PROVE  /\ NewRequest(kind, dirs) \in Request
         /\ ReadsOneFile(NewRequest(kind, dirs)) /\ ReadsAll(NewRequest(kind, dirs))
<1> DEFINE x == NewRequest(kind, dirs)
<1>1. x = [pc |-> "list", code |-> "none", kind |-> kind, dirs |-> dirs, tables |-> << >>,
           text |-> {}, files |-> {}, quiet |-> TRUE]
  BY DEF NewRequest
<1>2. << >> \in Seq(SUBSET Text) /\ Len(<< >>) = 0
  OBVIOUS
<1>3. Len(dirs) \in Nat /\ Len(dirs) # 0
  OBVIOUS
<1>4. /\ x.pc = "list" /\ x.dirs = dirs /\ x.tables = << >> /\ x.text = {} /\ x.files = {}
  BY <1>1
<1>5. x \in Request
  BY <1>1, <1>2 DEF Request
<1> HIDE DEF x
<1>6. ReadsOneFile(x)
  BY <1>2, <1>3, <1>4 DEF ReadsOneFile, OneFile
<1>7. ReadsAll(x)
  BY <1>2, <1>4 DEF ReadsAll
<1>8. QED
  BY <1>5, <1>6, <1>7 DEF x

LEMMA GetKeepsIInv ==
  ASSUME IInv, NEW c \in Client, GetResults(c) \/ GetSummary(c)
  PROVE  IInv'
<1>1. CASE GetResults(c)
  <2>1. PICK d \in Dir : Goto(c, NewRequest("results", <<d>>)) /\ UNCHANGED cluster
    BY <1>1 DEF GetResults
  <2>2. <<d>> \in Seq(Dir) /\ <<d>> # << >>
    OBVIOUS
  <2>3. QED
    BY <2>1, <2>2, NewRequestReadsNothing, OwnRequest
<1>2. CASE GetSummary(c)
  <2>1. Goto(c, NewRequest("summary", SummaryDirs)) /\ UNCHANGED cluster
    BY <1>2 DEF GetSummary
  <2>2. SummaryDirs \in Seq(Dir) /\ SummaryDirs # << >>
    BY AggregatorAssumption DEF AggregatorAssumption
  <2>3. QED
    BY <2>1, <2>2, NewRequestReadsNothing, OwnRequest
<1>3. QED
  BY <1>1, <1>2

\* The fields of a request that is being worked on.
LEMMA RequestType ==
  ASSUME IInv, NEW c \in Client
  PROVE  /\ req[c] \in Request /\ ReadsOneFile(req[c]) /\ ReadsAll(req[c])
         /\ req[c].dirs \in Seq(Dir) /\ req[c].tables \in Seq(SUBSET Text)
         /\ Len(req[c].tables) \in Nat /\ Len(req[c].dirs) \in Nat
         /\ req[c].pc \in {"list", "open"} =>
              /\ Len(req[c].tables) + 1 \in DOMAIN req[c].dirs
              /\ Current(c) \in Dir
<1>1. /\ req[c] \in Request /\ ReadsOneFile(req[c]) /\ ReadsAll(req[c])
      /\ req[c].dirs \in Seq(Dir) /\ req[c].tables \in Seq(SUBSET Text)
  BY DEF IInv, Request
<1>2. Len(req[c].tables) \in Nat /\ Len(req[c].dirs) \in Nat
  BY <1>1
<1>3. ASSUME req[c].pc \in {"list", "open"}
      PROVE  Len(req[c].tables) + 1 \in DOMAIN req[c].dirs /\ Current(c) \in Dir
  <2>1. Len(req[c].tables) < Len(req[c].dirs)
    BY <1>1, <1>3 DEF ReadsOneFile
  <2>2. Len(req[c].tables) + 1 \in 1..Len(req[c].dirs)
    BY <1>2, <2>1
  <2>3. QED
    BY <1>1, <2>2 DEF Current
<1>4. QED
  BY <1>1, <1>2, <1>3

\* The one file is listed when it is there.
LEMMA ListKeepsIInv ==
  ASSUME IInv, NEW c \in Client, ListDir(c)
  PROVE  IInv'
<1> DEFINE d == Current(c)
           files == {p \in Part : out[d].part[p] # Nil}
           x == [req[c] EXCEPT !.pc = "open", !.text = {}, !.files = files]
<1>1. req[c].pc = "list" /\ Goto(c, x) /\ UNCHANGED cluster
  BY DEF ListDir
<1>2. req[c] \in Request /\ ReadsOneFile(req[c]) /\ ReadsAll(req[c]) /\ files \in SUBSET Nat
  BY RequestType, OnePart
<1>3. /\ x \in Request /\ x.pc = "open" /\ x.text = {} /\ x.files = files
      /\ x.dirs = req[c].dirs /\ x.tables = req[c].tables /\ x.quiet = req[c].quiet
  BY <1>2 DEF Request
<1> HIDE DEF x
<1>4. ReadsOneFile(x)
  BY <1>1, <1>2, <1>3 DEF ReadsOneFile, OneFile
<1>5. ReadsAll(x)
  <2>1. SUFFICES ASSUME Undisturbed(x)
                 PROVE  /\ \A k \in DOMAIN x.tables : x.tables[k] = Output(x.dirs[k])
                        /\ x.files = Part
    BY <1>3 DEF ReadsAll
  <2>2. Undisturbed(req[c])
    BY <1>3, <2>1 DEF Undisturbed
  <2>3. PICK a \in App : HoldsOutputOf(d, a)
    BY <1>1, <2>2, RequestType DEF Undisturbed, Current
  <2>4. out[d].part[0] = a /\ a # Nil
    BY <2>3, OnePart, ClusterAssumption DEF HoldsOutputOf, ClusterAssumption
  <2>5. files = Part
    BY <2>4, OnePart
  <2>6. QED
    BY <1>2, <1>3, <2>2, <2>5 DEF ReadsAll
<1>6. QED
  BY <1>1, <1>3, <1>4, <1>5, OwnRequest

\* A list that fails says that something is missing, or has failed.
LEMMA ListFailsKeepsIInv ==
  ASSUME IInv, NEW c \in Client, ListDirFails(c)
  PROVE  IInv'
<1>1. /\ req[c].pc = "list" /\ UNCHANGED cluster
      /\ req[c] \in Request /\ ReadsOneFile(req[c]) /\ ReadsAll(req[c])
  BY RequestType DEF ListDirFails
<1>2. PICK x : /\ Goto(c, x)
               /\ x \in Request /\ x.pc = "answered" /\ x.text = req[c].text
               /\ x.files = req[c].files /\ x.dirs = req[c].dirs /\ x.tables = req[c].tables
               /\ x.quiet => req[c].quiet /\ ~out[Current(c)].dir
  <2>1. CASE ~out[Current(c)].dir /\ Answer(c, req[c], "unavailable")
    <3> DEFINE x == [req[c] EXCEPT !.pc = "answered", !.code = "unavailable"]
    <3>1. Goto(c, x)
      BY <2>1 DEF Answer
    <3>2. /\ x \in Request /\ x.pc = "answered" /\ x.text = req[c].text
          /\ x.files = req[c].files /\ x.dirs = req[c].dirs /\ x.tables = req[c].tables
          /\ x.quiet = req[c].quiet
      BY <1>1 DEF Request
    <3> HIDE DEF x
    <3>3. QED
      BY <2>1, <3>1, <3>2
  <2>2. CASE Answer(c, [req[c] EXCEPT !.quiet = FALSE], "unavailable")
    <3> DEFINE x == [[req[c] EXCEPT !.quiet = FALSE] EXCEPT !.pc = "answered", !.code = "unavailable"]
    <3>1. Goto(c, x)
      BY <2>2 DEF Answer
    <3>2. /\ x \in Request /\ x.pc = "answered" /\ x.text = req[c].text
          /\ x.files = req[c].files /\ x.dirs = req[c].dirs /\ x.tables = req[c].tables
          /\ ~x.quiet
      BY <1>1 DEF Request
    <3> HIDE DEF x
    <3>3. QED
      BY <3>1, <3>2
  <2>3. QED
    BY <2>1, <2>2 DEF ListDirFails
<1>3. ReadsOneFile(x)
  BY <1>1, <1>2 DEF ReadsOneFile
<1>4. ~Undisturbed(x)
  <2>1. SUFFICES ASSUME Undisturbed(x)
                 PROVE  FALSE
    OBVIOUS
  <2>2. PICK a \in App : HoldsOutputOf(Current(c), a)
    BY <1>1, <1>2, <2>1, RequestType DEF Undisturbed, Current
  <2>3. QED
    BY <1>2, <2>1, <2>2 DEF HoldsOutputOf, Undisturbed
<1>5. QED
  BY <1>1, <1>2, <1>3, <1>4, OwnRequest DEF ReadsAll

\* An OPEN returns the whole of the one file, whoever has written it.
LEMMA OpenKeepsIInv ==
  ASSUME IInv, NEW c \in Client, OpenFile(c)
  PROVE  IInv'
<1> DEFINE d == Current(c)
           a == out[d].part[0]
           x == [req[c] EXCEPT !.files = @ \ {0}, !.text = @ \cup {<<a, 0>>}]
<1>1. /\ req[c] \in Request /\ ReadsOneFile(req[c]) /\ ReadsAll(req[c])
      /\ req[c].pc = "open" /\ d \in Dir
  BY RequestType DEF OpenFile
<1>2. req[c].files = {0} /\ req[c].text = {}
  BY <1>1, OnePart DEF OpenFile, ReadsOneFile
<1>3. Goto(c, x) /\ a # Nil /\ UNCHANGED cluster
  BY <1>2 DEF OpenFile
<1>4. a \in App
  BY <1>1, <1>3, OnePart DEF IInv, ClusterTypeOK
<1>5. req[c].files \ {0} = {} /\ req[c].text \cup {<<a, 0>>} = {<<a, 0>>}
  BY <1>2
<1>6. {<<a, 0>>} \in SUBSET Text
  BY <1>4 DEF Text
<1>7. /\ x \in Request /\ x.pc = "open" /\ x.text = {<<a, 0>>} /\ x.files = {}
      /\ x.dirs = req[c].dirs /\ x.tables = req[c].tables /\ x.quiet = req[c].quiet
  BY <1>1, <1>5, <1>6 DEF Request
<1> HIDE DEF x
<1>8. ReadsOneFile(x)
  BY <1>1, <1>4, <1>7 DEF ReadsOneFile, OneFile
<1>9. ReadsAll(x)
  BY <1>1, <1>7, OnePart DEF ReadsAll, Undisturbed, Current
<1>10. QED
  BY <1>3, <1>7, <1>8, <1>9, OwnRequest

\* A file that is skipped has gone, or could not be read.
LEMMA SkipKeepsIInv ==
  ASSUME IInv, NEW c \in Client, SkipFile(c)
  PROVE  IInv'
<1> DEFINE d == Current(c)
<1>1. /\ req[c] \in Request /\ ReadsOneFile(req[c]) /\ ReadsAll(req[c])
      /\ req[c].pc = "open" /\ d \in Dir /\ UNCHANGED cluster
      /\ Len(req[c].tables) + 1 \in DOMAIN req[c].dirs
  BY RequestType DEF SkipFile
<1>2. req[c].files = {0} /\ req[c].text = {} /\ req[c].files \ {0} = {}
  BY <1>1, OnePart DEF SkipFile, ReadsOneFile
<1>3. PICK x : /\ Goto(c, x)
               /\ x \in Request /\ x.pc = "open" /\ x.text = {} /\ x.files = {}
               /\ x.dirs = req[c].dirs /\ x.tables = req[c].tables
               /\ x.quiet => req[c].quiet /\ out[d].part[0] = Nil
  <2> DEFINE y == [req[c] EXCEPT !.files = @ \ {0}]
  <2>1. /\ y \in Request /\ y.pc = "open" /\ y.text = {} /\ y.files = {}
        /\ y.dirs = req[c].dirs /\ y.tables = req[c].tables /\ y.quiet = req[c].quiet
    BY <1>1, <1>2 DEF Request
  <2>2. \/ out[d].part[0] = Nil /\ Goto(c, y)
        \/ Goto(c, [y EXCEPT !.quiet = FALSE])
    BY <1>2 DEF SkipFile
  <2> HIDE DEF y
  <2>3. CASE out[d].part[0] = Nil /\ Goto(c, y)
    BY <2>1, <2>3
  <2>4. CASE Goto(c, [y EXCEPT !.quiet = FALSE])
    <3> DEFINE z == [y EXCEPT !.quiet = FALSE]
    <3>1. /\ z \in Request /\ z.pc = "open" /\ z.text = {} /\ z.files = {}
          /\ z.dirs = req[c].dirs /\ z.tables = req[c].tables /\ ~z.quiet
      BY <2>1 DEF Request
    <3>2. Goto(c, z)
      BY <2>4
    <3> HIDE DEF z
    <3>3. QED
      BY <3>1, <3>2
  <2>5. QED
    BY <2>2, <2>3, <2>4
<1>4. ReadsOneFile(x)
  BY <1>1, <1>3 DEF ReadsOneFile, OneFile
<1>5. ~Undisturbed(x)
  <2>1. SUFFICES ASSUME Undisturbed(x)
                 PROVE  FALSE
    OBVIOUS
  <2>2. PICK a \in App : HoldsOutputOf(d, a)
    BY <1>1, <1>3, <2>1 DEF Undisturbed, Current
  <2>3. out[d].part[0] = a /\ a # Nil
    BY <2>2, OnePart, ClusterAssumption DEF HoldsOutputOf, ClusterAssumption
  <2>4. QED
    BY <1>3, <2>1, <2>3 DEF Undisturbed
<1>6. QED
  BY <1>1, <1>3, <1>4, <1>5, OwnRequest DEF ReadsAll

\* What was read of the last directory becomes its table; an application that has
\* rows gives the summary its grades.
LEMMA ParseKeepsIInv ==
  ASSUME IInv, NEW c \in Client, ParseText(c)
  PROVE  IInv'
<1> DEFINE tables == Append(req[c].tables, req[c].text)
           x == [req[c] EXCEPT !.tables = tables]
           code == IF x.kind = "summary" /\ Rows(x.tables[1]) = {} THEN "panic" ELSE "ok"
           n == Len(req[c].tables)
<1>1. /\ req[c] \in Request /\ ReadsOneFile(req[c]) /\ ReadsAll(req[c])
      /\ req[c].pc = "open" /\ req[c].files = {} /\ UNCHANGED cluster
      /\ req[c].tables \in Seq(SUBSET Text) /\ req[c].text \in SUBSET Text
      /\ n \in Nat /\ Len(req[c].dirs) \in Nat /\ n < Len(req[c].dirs)
  <2>1. req[c] \in Request /\ ReadsOneFile(req[c]) /\ req[c].pc = "open"
    BY RequestType DEF ParseText
  <2>2. req[c].text \in SUBSET Text
    BY <2>1 DEF Request
  <2>3. QED
    BY <2>1, <2>2, RequestType DEF ParseText, ReadsOneFile
<1>2. /\ tables \in Seq(SUBSET Text) /\ Len(tables) = n + 1 /\ DOMAIN tables = 1..(n + 1)
      /\ tables[n + 1] = req[c].text /\ \A k \in 1..n : tables[k] = req[c].tables[k]
      /\ DOMAIN req[c].tables = 1..n
  BY <1>1
<1>3. \A k \in DOMAIN tables : OneFile(tables[k])
  BY <1>1, <1>2 DEF ReadsOneFile
<1>4. Undisturbed(req[c]) => \A k \in DOMAIN tables : tables[k] = Output(req[c].dirs[k])
  <2>1. SUFFICES ASSUME Undisturbed(req[c]), NEW k \in 1..(n + 1)
                 PROVE  tables[k] = Output(req[c].dirs[k])
    BY <1>2
  <2>2. CASE k = n + 1
    BY <1>1, <1>2, <2>1, <2>2, OnePart DEF ReadsAll
  <2>3. CASE k # n + 1
    BY <1>1, <1>2, <2>1, <2>3 DEF ReadsAll
  <2>4. QED
    BY <2>2, <2>3
<1>5. Undisturbed(req[c]) => Rows(tables[1]) # {}
  <2>1. SUFFICES ASSUME Undisturbed(req[c])
                 PROVE  Rows(tables[1]) # {}
    OBVIOUS
  <2>2. 1 \in DOMAIN tables /\ 1 \in DOMAIN req[c].dirs
    BY <1>1, <1>2, RequestType
  <2>3. PICK a \in App \ EmptyApp : HoldsOutputOf(req[c].dirs[1], a)
    BY <2>1, <2>2 DEF Undisturbed
  <2>4. out[req[c].dirs[1]].part[0] = a
    BY <2>3, OnePart DEF HoldsOutputOf
  <2>5. tables[1] = {<<a, 0>>}
    BY <1>4, <2>1, <2>2, <2>4, OnePart
  <2>6. <<a, 0>> \in Rows(tables[1])
    BY <2>3, <2>5 DEF Rows
  <2>7. QED
    BY <2>6
<1> HIDE DEF tables
<1>6. /\ x \in Request /\ x.tables = tables /\ x.dirs = req[c].dirs /\ x.text = req[c].text
      /\ x.files = {} /\ x.quiet = req[c].quiet
  BY <1>1, <1>2 DEF Request
<1>7. Len(x.tables) = n + 1 /\ Len(x.dirs) = Len(req[c].dirs)
  BY <1>2, <1>6
<1>8. IF Len(x.tables) < Len(x.dirs) THEN Goto(c, [x EXCEPT !.pc = "list"])
                                      ELSE Answer(c, x, code)
  <2>1. (CASE Len(x.tables) < Len(x.dirs) -> Goto(c, [x EXCEPT !.pc = "list"])
           [] Len(x.tables) = Len(x.dirs) -> Answer(c, x, code))
    BY Zenon DEF ParseText, tables
  <2> HIDE DEF x, code
  <2>2. CASE Len(x.tables) < Len(x.dirs)
    <3>1. Len(x.tables) # Len(x.dirs)
      BY <1>1, <1>7, <2>2
    <3>2. QED
      BY <2>1, <2>2, <3>1
  <2>3. CASE ~(Len(x.tables) < Len(x.dirs))
    <3>1. Len(x.tables) = Len(x.dirs)
      BY <1>1, <1>7, <2>3
    <3>2. QED
      BY <2>1, <2>3, <3>1
  <2>4. QED
    BY <2>2, <2>3
<1>9. code \in {"ok", "panic"} /\ (Undisturbed(req[c]) => code = "ok")
  BY <1>5, <1>6
<1> HIDE DEF x, code
<1>10. CASE n + 1 < Len(req[c].dirs)
  <2> DEFINE y == [x EXCEPT !.pc = "list"]
  <2>1. /\ y \in Request /\ y.pc = "list" /\ y.tables = tables /\ y.dirs = req[c].dirs
        /\ y.text = req[c].text /\ y.files = {} /\ y.quiet = req[c].quiet
    BY <1>6 DEF Request
  <2>2. Goto(c, y)
    BY <1>7, <1>8, <1>10
  <2> HIDE DEF y
  <2>3. ReadsOneFile(y)
    BY <1>1, <1>2, <1>3, <1>10, <2>1 DEF ReadsOneFile
  <2>4. ReadsAll(y)
    BY <1>4, <2>1 DEF ReadsAll, Undisturbed
  <2>5. QED
    BY <1>1, <2>1, <2>2, <2>3, <2>4, OwnRequest
<1>11. CASE ~(n + 1 < Len(req[c].dirs))
  <2> DEFINE y == [x EXCEPT !.pc = "answered", !.code = code]
  <2>1. /\ y \in Request /\ y.pc = "answered" /\ y.code = code /\ y.tables = tables
        /\ y.dirs = req[c].dirs /\ y.text = req[c].text /\ y.files = {} /\ y.quiet = req[c].quiet
    BY <1>6, <1>9 DEF Request
  <2>2. Goto(c, y)
    BY <1>7, <1>8, <1>11 DEF Answer
  <2> HIDE DEF y
  <2>3. ReadsOneFile(y)
    BY <1>1, <1>3, <2>1 DEF ReadsOneFile
  <2>4. Len(y.tables) = Len(y.dirs)
    BY <1>1, <1>2, <1>11, <2>1
  <2>5. ReadsAll(y)
    BY <1>4, <1>9, <2>1, <2>4 DEF ReadsAll, Undisturbed
  <2>6. QED
    BY <1>1, <2>1, <2>2, <2>3, <2>5, OwnRequest
<1>12. QED
  BY <1>10, <1>11

-----------------------------------------------------------------------------
LEMMA InitIInv ==
  ASSUME Init
  PROVE  IInv
<1>1. ClusterTypeOK
  BY DEF Init, ClusterInit, ClusterTypeOK, Missing, NoParts, Phase, Live
<1>2. PICK x : x = NoRequest
  OBVIOUS
<1>3. << >> \in Seq(Dir) /\ << >> \in Seq(SUBSET Text)
  OBVIOUS
<1>4. /\ x \in Request /\ x.pc = "none" /\ x.files = {} /\ x.text = {} /\ DOMAIN x.tables = {}
  <2>1. x = [pc |-> "none", code |-> "none", kind |-> "results", dirs |-> << >>,
             tables |-> << >>, text |-> {}, files |-> {}, quiet |-> TRUE]
    BY <1>2 DEF NoRequest, NewRequest
  <2>2. QED
    BY <1>3, <2>1 DEF Request
<1>5. req = [c \in Client |-> x]
  BY <1>2 DEF Init
<1>6. ReadsOneFile(x) /\ ReadsAll(x)
  BY <1>4 DEF ReadsOneFile, OneFile, ReadsAll
<1>7. QED
  BY <1>1, <1>4, <1>5, <1>6 DEF IInv

\* The invariant the theorems rest on.
THEOREM Invariance == Spec => []IInv
<1>1. Init => IInv
  BY InitIInv
<1>2. IInv /\ [Next]_vars => IInv'
  <2> SUFFICES ASSUME IInv, [Next]_vars
               PROVE  IInv'
    OBVIOUS
  <2>1. ASSUME NEW c \in Client, Handle(c)
        PROVE  IInv'
    BY <2>1, GetKeepsIInv, ListKeepsIInv, ListFailsKeepsIInv, OpenKeepsIInv, SkipKeepsIInv,
       ParseKeepsIInv DEF Handle
  <2>2. CASE UNCHANGED vars
    <3>1. ClusterTypeOK' /\ out' = out /\ req' = req
      BY <2>2 DEF vars, IInv, ClusterTypeOK
    <3>2. ASSUME NEW c \in Client
          PROVE  ReadsOneFile(req[c])' /\ ReadsAll(req[c])'
      BY <3>1 DEF IInv, ReadsOneFile, ReadsAll, Undisturbed, Output, HoldsOutputOf
    <3>3. QED
      BY <3>1, <3>2 DEF IInv
  <2>3. QED
    BY <2>1, <2>2, RunsJobsKeepsIInv DEF Next
<1>3. QED
  BY <1>1, <1>2, PTL DEF Spec

\* Every variable has its shape, and a request that is being worked on has a directory
\* to read: buildRiskSummary and handleJobResult never run past the last one.
THEOREM TypeCorrect == Spec => []TypeOK
<1>1. IInv => TypeOK
  BY DEF IInv, TypeOK, ReadsOneFile
<1>2. QED
  BY <1>1, Invariance, PTL

\* However a directory is rewritten between LISTSTATUS and OPEN in readHDFSOutput, a
\* table is the whole output of one application, or nothing.
THEOREM TablesWhole == Spec => []TablesAreWhole
<1>1. IInv => TablesAreWhole
  BY OnePart DEF IInv, ReadsOneFile, OneFile, TablesAreWhole
<1>2. QED
  BY <1>1, Invariance, PTL

\* A request during which nothing goes on or fails is answered with every job's output
\* in its place, and the summary finds the grades it needs.
THEOREM QuietComplete == Spec => []QuietAnswersAreComplete
<1>1. IInv => QuietAnswersAreComplete
  <2> SUFFICES ASSUME IInv, NEW c \in Client, req[c].pc = "answered", Undisturbed(req[c])
               PROVE  /\ req[c].code = "ok"
                      /\ Len(req[c].tables) = Len(req[c].dirs)
                      /\ \A k \in DOMAIN req[c].dirs : req[c].tables[k] = Output(req[c].dirs[k])
    BY DEF QuietAnswersAreComplete, Undisturbed, Output
  <2>1. /\ req[c].code = "ok" /\ Len(req[c].tables) = Len(req[c].dirs)
        /\ \A k \in DOMAIN req[c].tables : req[c].tables[k] = Output(req[c].dirs[k])
    BY DEF IInv, ReadsAll
  <2>2. DOMAIN req[c].tables = DOMAIN req[c].dirs
    BY <2>1, RequestType
  <2>3. QED
    BY <2>1, <2>2
<1>2. QED
  BY <1>1, Invariance, PTL

=============================================================================
