--------------------------- MODULE HadoopCluster ---------------------------
(***************************************************************************)
(* What the repository relies on outside itself, seen from the commands    *)
(* and URLs it uses: the output directories in HDFS, and the `hadoop jar'  *)
(* clients with the YARN applications they start.                          *)
(*                                                                         *)
(* An application stands for one client and for the application it         *)
(* submits.  The client refuses to start when the output directory exists; *)
(* otherwise the application makes the directory, each reduce task moves   *)
(* its part file there when it commits, and the job adds _SUCCESS at the   *)
(* end.  A failing application leaves the directory as it is.  Nothing in  *)
(* HDFS stops `hdfs dfs -rm -r -f' from deleting a directory under an      *)
(* application that is writing to it: its next write makes it again.       *)
(***************************************************************************)
EXTENDS Naturals

CONSTANTS
  Dir,   \* output directories
  App,   \* clients, each with the application it may submit
  Nil    \* no application

ASSUME ClusterAssumption == Nil \notin App \cup Dir

VARIABLES
  out,   \* out[d]: does d exist, whose part files are in it, is _SUCCESS there
  app    \* app[a]: the output directory of a and how far it is

cluster == <<out, app>>

\* Mutant of Part: mapreduce.job.reduces=2.
PartTwo == {0, 1}

\* The part files of a job: one per reducer, and mapreduce.job.reduces=1.
Part == {0}

NoParts == [p \in Part |-> Nil]
Missing == [dir |-> FALSE, part |-> NoParts, success |-> FALSE]

Live  == {"starting", "submitted", "running"}
Phase == {"none", "succeeded", "failed"} \cup Live

ClusterInit ==
  /\ out = [d \in Dir |-> Missing]
  /\ app = [a \in App |-> [dir |-> Nil, phase |-> "none", done |-> {}]]

-----------------------------------------------------------------------------
(* hdfs dfs -rm -r -f d, which may fail *)

Remove(d) ==
  /\ out' = [out EXCEPT ![d] = Missing]
  /\ UNCHANGED app

RemoveFails == UNCHANGED cluster

-----------------------------------------------------------------------------
(* hadoop jar ... -output d *)

StartClient(a, d) ==
  /\ app[a].phase = "none"
  /\ app' = [app EXCEPT ![a].dir = d, ![a].phase = "starting"]
  /\ UNCHANGED out

\* The client checks that there is no output yet, and submits or gives up.
CheckOutput(a) ==
  /\ app[a].phase = "starting"
  /\ app' = [app EXCEPT ![a].phase =
               IF out[app[a].dir].dir THEN "failed" ELSE "submitted"]
  /\ UNCHANGED out

\* The application makes the directory, with its temporary files.
SetUp(a) ==
  /\ app[a].phase = "submitted"
  /\ app' = [app EXCEPT ![a].phase = "running"]
  /\ out' = [out EXCEPT ![app[a].dir].dir = TRUE]

\* A reduce task commits: its part file replaces one of the same name.
Publish(a, p) ==
  /\ app[a].phase = "running"
  /\ p \notin app[a].done
  /\ app' = [app EXCEPT ![a].done = @ \cup {p}]
  /\ out' = [out EXCEPT ![app[a].dir].dir = TRUE, ![app[a].dir].part[p] = a]

\* All reduce tasks have committed, and so does the job.
CommitJob(a) ==
  /\ app[a].phase = "running"
  /\ app[a].done = Part
  /\ app' = [app EXCEPT ![a].phase = "succeeded"]
  /\ out' = [out EXCEPT ![app[a].dir].dir = TRUE, ![app[a].dir].success = TRUE]

\* The client cannot submit, or the application fails; what it has published
\* stays.
Abort(a) ==
  /\ app[a].phase \in Live
  /\ app' = [app EXCEPT ![a].phase = "failed"]
  /\ UNCHANGED out

AppStep(a) == \/ CheckOutput(a) \/ SetUp(a) \/ CommitJob(a) \/ Abort(a)
              \/ \E p \in Part : Publish(a, p)

-----------------------------------------------------------------------------
ClusterTypeOK ==
  /\ out \in [Dir -> [dir : BOOLEAN, part : [Part -> App \cup {Nil}], success : BOOLEAN]]
  /\ app \in [App -> [dir : Dir \cup {Nil}, phase : Phase, done : SUBSET Part]]
  /\ \A a \in App : app[a].phase # "none" => app[a].dir \in Dir

\* Directory d holds what a wrote, all of it, and says so.
HoldsOutputOf(d, a) ==
  out[d] = [dir |-> TRUE, part |-> [p \in Part |-> a], success |-> TRUE]
=============================================================================
