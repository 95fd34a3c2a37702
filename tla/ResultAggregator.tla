-------------------------- MODULE ResultAggregator --------------------------
(***************************************************************************)
(* The result aggregator (services/result-aggregator): it keeps no state   *)
(* and reads HDFS on every request.  For each job it lists the job's       *)
(* output directory, then opens the part files one by one, while whoever   *)
(* runs jobs (the orchestrator, the scripts) removes that directory and    *)
(* writes it anew.  A file that cannot be opened is skipped.  The risk     *)
(* summary reads the directories of three jobs one after another.          *)
(*                                                                         *)
(* What is in part file p of application a is named <<a, p>>; the text of  *)
(* an application in EmptyApp has no row.  The reducers write rows the     *)
(* parsers accept, so a parse is what turns a text into its rows.          *)
(***************************************************************************)
EXTENDS HadoopCluster, Sequences

CONSTANTS
  Client,         \* HTTP clients, each with one request at a time
  SummaryDirs,    \* the directories the risk summary is made from, in order
  EmptyApp,       \* applications whose mappers emitted nothing
  NamenodeFails   \* may a WebHDFS call fail by itself?

ASSUME AggregatorAssumption ==
  /\ SummaryDirs \in Seq(Dir) /\ SummaryDirs # << >>
  /\ EmptyApp \subseteq App
  /\ NamenodeFails \in BOOLEAN

VARIABLE req   \* req[c]: c's request

vars == <<out, app, req>>

-----------------------------------------------------------------------------
Text == App \X Nat

\* dirs: what the request reads; tables: the texts read of the directories
\* that are done; text, files: those read, and still to be read, of the current
\* one; quiet: has nothing happened in the cluster, and has no call failed by
\* itself, since the request came in.
Request == [pc : {"none", "list", "open", "answered"},
            code : {"none", "ok", "unavailable", "panic"},
            kind : {"results", "summary"},
            dirs : Seq(Dir), tables : Seq(SUBSET Text),
            text : SUBSET Text, files : SUBSET Nat,
            quiet : BOOLEAN]

NewRequest(kind, dirs) ==
  [pc |-> "list", code |-> "none", kind |-> kind, dirs |-> dirs, tables |-> << >>,
   text |-> {}, files |-> {}, quiet |-> TRUE]

NoRequest == [NewRequest("results", << >>) EXCEPT !.pc = "none"]

Init == ClusterInit /\ req = [c \in Client |-> NoRequest]

-----------------------------------------------------------------------------
(* The handlers *)

\* Mutant of Current: buildRiskSummary reads the directory of job 1 every time.
CurrentFirst(c) == req[c].dirs[1]

\* The directory a request is at.
Current(c) == req[c].dirs[Len(req[c].tables) + 1]

Goto(c, x) == req' = [req EXCEPT ![c] = x]

Answer(c, x, code) == Goto(c, [x EXCEPT !.pc = "answered", !.code = code])

\* GET /internal/results/<job>
GetResults(c) ==
  /\ req[c].pc \in {"none", "answered"}
  /\ \E d \in Dir : Goto(c, NewRequest("results", <<d>>))
  /\ UNCHANGED cluster

\* GET /internal/results/risk-summary
GetSummary(c) ==
  /\ req[c].pc \in {"none", "answered"}
  /\ Goto(c, NewRequest("summary", SummaryDirs))
  /\ UNCHANGED cluster

\* LISTSTATUS names the files of the directory; _SUCCESS is left out.
ListDir(c) ==
  LET d == Current(c) IN
  /\ req[c].pc = "list"
  /\ out[d].dir
  /\ Goto(c, [req[c] EXCEPT !.pc = "open", !.text = {},
                            !.files = {p \in Part : out[d].part[p] # Nil}])
  /\ UNCHANGED cluster

\* No directory, or no answer: the handler replies 503.
ListDirFails(c) ==
  /\ req[c].pc = "list"
  /\ \/ ~out[Current(c)].dir /\ Answer(c, req[c], "unavailable")
     \/ NamenodeFails /\ Answer(c, [req[c] EXCEPT !.quiet = FALSE], "unavailable")
  /\ UNCHANGED cluster

\* OPEN returns the file that has the name now, whatever was listed.
OpenFile(c) ==
  /\ req[c].pc = "open"
  /\ \E p \in req[c].files :
       LET a == out[Current(c)].part[p] IN
       /\ a # Nil
       /\ Goto(c, [req[c] EXCEPT !.files = @ \ {p}, !.text = @ \cup {<<a, p>>}])
  /\ UNCHANGED cluster

\* A file that is gone, or cannot be read, is skipped.
SkipFile(c) ==
  /\ req[c].pc = "open"
  /\ \E p \in req[c].files :
       LET x == [req[c] EXCEPT !.files = @ \ {p}] IN
       \/ out[Current(c)].part[p] = Nil /\ Goto(c, x)
       \/ NamenodeFails /\ Goto(c, [x EXCEPT !.quiet = FALSE])
  /\ UNCHANGED cluster

\* The rows of a table.
Rows(t) == {x \in t : x[1] \notin EmptyApp}

\* Mutant of ParseText: one more directory is listed.
ParseTextPastEnd(c) ==
  LET x == [req[c] EXCEPT !.tables = Append(@, req[c].text)] IN
  /\ req[c].pc = "open"
  /\ req[c].files = {}
  /\ IF Len(x.tables) <= Len(x.dirs) THEN Goto(c, [x EXCEPT !.pc = "list"])
                                     ELSE Answer(c, x, "ok")
  /\ UNCHANGED cluster

\* All files are read: the text is parsed, and the next directory, if any, is
\* listed.  The summary needs a row of its first table: without one, grades[0]
\* is out of range, and net/http drops the connection.
ParseText(c) ==
  LET x == [req[c] EXCEPT !.tables = Append(@, req[c].text)] IN
  /\ req[c].pc = "open"
  /\ req[c].files = {}
  /\ CASE Len(x.tables) < Len(x.dirs) -> Goto(c, [x EXCEPT !.pc = "list"])
       [] Len(x.tables) = Len(x.dirs) ->
            Answer(c, x, IF x.kind = "summary" /\ Rows(x.tables[1]) = {}
                         THEN "panic" ELSE "ok")
  /\ UNCHANGED cluster

-----------------------------------------------------------------------------
(* Whoever runs jobs: any removal, any new application, at any time *)

Noticed == req' = [c \in Client |-> [req[c] EXCEPT !.quiet = FALSE]]

RunsJobs ==
  /\ \/ \E d \in Dir : out[d] # Missing /\ Remove(d)
     \/ \E a \in App, d \in Dir : StartClient(a, d)
     \/ \E a \in App : AppStep(a)
  /\ Noticed

Handle(c) == \/ GetResults(c) \/ GetSummary(c) \/ ListDir(c) \/ ListDirFails(c)
             \/ OpenFile(c) \/ SkipFile(c) \/ ParseText(c)

Next == RunsJobs \/ \E c \in Client : Handle(c)

Spec == Init /\ [][Next]_vars

-----------------------------------------------------------------------------
(* Properties *)

\* Every variable has the shape the code gives it, and a request that is being
\* worked on has a directory to read.
TypeOK ==
  /\ ClusterTypeOK
  /\ req \in [Client -> Request]
  /\ \A c \in Client : req[c].pc \in {"list", "open"} => Len(req[c].tables) < Len(req[c].dirs)

\* However the directory is rewritten between LISTSTATUS and the OPENs, and
\* although nobody looks at _SUCCESS: a table is the whole output of one
\* application, or nothing.  It takes a single part file for that.
TablesAreWhole ==
  \A c \in Client : \A k \in DOMAIN req[c].tables :
    LET t == req[c].tables[k] IN
    t # {} => \E a \in App : t = {<<a, p>> : p \in Part}

\* Once the jobs have run, and as long as nothing goes on or fails in the
\* cluster, a request gets every job's output in its place, and the summary has
\* the grades it needs.
QuietAnswersAreComplete ==
  \A c \in Client :
    /\ req[c].pc = "answered" /\ req[c].quiet
    /\ \A k \in DOMAIN req[c].dirs : \E a \in App \ EmptyApp : HoldsOutputOf(req[c].dirs[k], a)
    => /\ req[c].code = "ok"
       /\ Len(req[c].tables) = Len(req[c].dirs)
       /\ \A k \in DOMAIN req[c].dirs :
            req[c].tables[k] = {<<out[req[c].dirs[k]].part[p], p>> : p \in Part}

-----------------------------------------------------------------------------
(* What the code says of the aggregator and does not do *)

\* buildRiskSummary: "if len(grades) > 0" guards the use of the grades, so
\* there may be none.  So the handler survives it.
SummaryNeverPanics ==
  \A c \in Client : req[c].code # "panic"
=============================================================================
