----------------------------- MODULE JobScripts -----------------------------
(***************************************************************************)
(* What is done by hand on the master's host, one script at a time:        *)
(* upload-dataset.sh, run-all-jobs.sh and fetch-results.sh, while the      *)
(* container stops and starts and the orchestrator runs jobs of its own on *)
(* the same directories.                                                   *)
(*                                                                         *)
(* The outputs are HadoopCluster's; here it matters too what an            *)
(* application has read.  A directory without a file is a valid input: the *)
(* job ends well, with an empty table.                                     *)
(***************************************************************************)
EXTENDS MasterNode, HadoopCluster, Sequences

CONSTANT Dirs   \* the output directories in the order of run-all-jobs.sh

\* It lists them all; and an application is told from a file without its output.
ASSUME ScriptsAssumption ==
  /\ Dirs \in Seq(Dir) /\ Dirs # << >>
  /\ \A d \in Dir : \E k \in DOMAIN Dirs : Dirs[k] = d
  /\ {"none", "empty"} \cap App = {}

VARIABLES
  run,      \* run-all-jobs.sh: how far it is, which job it is at, and its application; for
            \* each directory the application that has filled it, and the input of that
  fetch,    \* fetch-results.sh: how far it is, and which directories are left; file[d] is what
            \* it has made of the local copy of d: "none" if nothing, "empty", or the application
            \* that wrote it
  meddled   \* has anybody else touched the outputs since the script began

scripts == <<run, fetch, meddled>>
vars == <<master, dataset, host, cluster, scripts>>

\* No script runs, and the last one is what the operator still sees.
Idle == upload \in {"no", "done"} /\ run.pc \in {"no", "completed"} /\ fetch.pc \in {"no", "saved"}

NoRun   == [pc |-> "no", job |-> 1, app |-> Nil, own |-> [d \in Dir |-> Nil],
            input |-> [d \in Dir |-> Nil]]
NoFetch == [pc |-> "no", left |-> {}, file |-> [d \in Dir |-> "none"]]

\* The directories that fetch-results.sh has found.
Found == {d \in Dir : fetch.file[d] # "none"}

\* -input is the directory: whatever is in it is read.
Contents == <<input, copying>>

SomeAppLives == \E a \in App : app[a].phase \in Live

Init ==
  /\ MasterInit /\ ClusterInit
  /\ run = NoRun /\ fetch = NoFetch
  /\ meddled = FALSE

-----------------------------------------------------------------------------
(* run-all-jobs.sh, and the run.sh of each job *)

\* The pre-flight check is for the directory.
BeginRun ==
  /\ Idle /\ Reachable /\ inputDir
  /\ run' = [NoRun EXCEPT !.pc = "rm"]
  /\ fetch' = NoFetch /\ upload' = "no" /\ meddled' = SomeAppLives
  /\ UNCHANGED <<master, dataset, local, gunzipCut, cluster>>

\* hdfs dfs -rm -r -f || true
RemoveOld ==
  /\ run.pc = "rm"
  /\ (Writable /\ Remove(Dirs[run.job])) \/ RemoveFails
  /\ run' = [run EXCEPT !.pc = "jar"]
  /\ UNCHANGED <<master, dataset, host, fetch, meddled>>

RunJar ==
  /\ run.pc = "jar"
  /\ \E a \in App : StartClient(a, Dirs[run.job]) /\ run' = [run EXCEPT !.pc = "wait", !.app = a]
  /\ UNCHANGED <<master, dataset, host, fetch, meddled>>

\* The client and its application; their input is what is there on submission.
RunApp(a) ==
  /\ AppStep(a)
  /\ app'[a].phase # "failed" => Writable
  /\ app'[a].phase = "submitted" => inputDir
  /\ run' = IF run.pc = "wait" /\ a = run.app /\ app'[a].phase = "submitted"
            THEN [run EXCEPT !.input[Dirs[run.job]] = Contents] ELSE run
  /\ UNCHANGED <<master, dataset, host, fetch, meddled>>

\* The next job of the list, or the end of it, with a's output for this one.
NextJob(a) ==
  run' = [run EXCEPT !.app = Nil, !.own[Dirs[run.job]] = a,
                     !.pc = IF run.job < Len(Dirs) THEN "rm" ELSE "completed",
                     !.job = IF run.job < Len(Dirs) THEN @ + 1 ELSE @]

\* Mutant of JarFails: without set -e, like the orchestrator.
JarFailsOn == NextJob(run.app)

\* set -e
JarFails == run' = NoRun

EndJar ==
  /\ run.pc = "wait" /\ app[run.app].phase \in {"succeeded", "failed"}
  /\ IF app[run.app].phase = "failed" THEN JarFails ELSE NextJob(run.app)
  /\ UNCHANGED <<master, dataset, host, cluster, fetch, meddled>>

\* The script is stopped, or its client loses touch and set -e stops it; the
\* application goes on.
KillRun ==
  /\ run.pc \in {"rm", "jar", "wait"} /\ run' = NoRun
  /\ UNCHANGED <<master, dataset, host, cluster, fetch, meddled>>

-----------------------------------------------------------------------------
(* fetch-results.sh *)

BeginFetch ==
  /\ Idle
  /\ fetch' = [NoFetch EXCEPT !.pc = "test", !.left = Dir]
  /\ run' = NoRun /\ upload' = "no" /\ meddled' = SomeAppLives
  /\ UNCHANGED <<master, dataset, local, gunzipCut, cluster>>

\* hdfs dfs -test -e; a directory is passed over if it is not there, and if the
\* command fails.  The redirection empties the local file before cat has read anything.
TestDir(d) ==
  /\ fetch.pc = "test" /\ d \in fetch.left
  /\ \/ /\ Reachable /\ out[d].dir
        /\ fetch' = [fetch EXCEPT !.pc = "cat", !.left = @ \ {d}, !.file[d] = "empty"]
     \/ fetch' = [fetch EXCEPT !.left = @ \ {d}]
  /\ UNCHANGED <<master, dataset, host, cluster, run, meddled>>

\* Mutant of CatFails: the next directory is tried.
CatFailsOn == fetch' = [fetch EXCEPT !.pc = "test"]

\* set -e
CatFails == fetch' = NoFetch

\* d is the directory that has just been found.
Cat(d) ==
  /\ fetch.pc = "cat" /\ fetch.file[d] = "empty"
  /\ \/ /\ Reachable /\ out[d].part[0] # Nil
        /\ fetch' = [fetch EXCEPT !.pc = "test", !.file[d] = out[d].part[0]]
     \/ CatFails
  /\ UNCHANGED <<master, dataset, host, cluster, run, meddled>>

EndFetch ==
  /\ fetch.pc = "test" /\ fetch.left = {}
  /\ fetch' = [fetch EXCEPT !.pc = "saved"]
  /\ UNCHANGED <<master, dataset, host, cluster, run, meddled>>

-----------------------------------------------------------------------------
\* The rest of the system: the orchestrator's runJob, see Orchestrator.
Meddle ==
  /\ boot = "up"
  /\ \E d \in Dir : (Writable /\ Remove(d)) \/ \E a \in App : StartClient(a, d)
  /\ meddled' = TRUE
  /\ UNCHANGED <<master, dataset, host, run, fetch>>

BeginUpload ==
  /\ Idle /\ upload' = "begin"
  /\ run' = NoRun /\ fetch' = NoFetch
  /\ UNCHANGED <<master, dataset, local, gunzipCut, cluster, meddled>>

\* A format takes the outputs too.
FormatAll ==
  /\ BeginFormat /\ out' = [d \in Dir |-> Missing]
  /\ UNCHANGED <<app, scripts>>

MasterStep ==
  /\ \/ PowerOn \/ EndFormat \/ StartDaemons \/ LeaveSafeMode \/ WaitForSafeMode \/ StartServices
     \/ Die \/ Stop
  /\ UNCHANGED <<cluster, scripts>>

RunAll == BeginRun \/ RemoveOld \/ RunJar \/ EndJar \/ KillRun
FetchAll == BeginFetch \/ EndFetch \/ \E d \in Dir : TestDir(d) \/ Cat(d)

Next == \/ MasterStep \/ FormatAll \/ BeginUpload \/ RunAll \/ FetchAll \/ Meddle
        \/ (UploadStep /\ UNCHANGED <<cluster, scripts>>)
        \/ \E a \in App : RunApp(a)

\* The entry point goes on; nothing is asked of the operator and of Hadoop.
Spec == Init /\ [][Next]_vars
             /\ WF_vars((Boot /\ UNCHANGED <<cluster, scripts>>) \/ FormatAll)

-----------------------------------------------------------------------------
(* Properties *)

\* "All Jobs Completed": if nobody else has touched the outputs meanwhile, each
\* is the whole output of the application that this call has started for it,
\* and all are made from what is in the input directory still: all from the same
\* files, which may be none, or the dataset with a copy that a put has left.
CompletedMeansTables ==
  run.pc = "completed" /\ ~meddled =>
    \A d \in Dir : HoldsOutputOf(d, run.own[d]) /\ run.input[d] = Contents

\* "Results saved": a directory that was found has been copied, and if nobody
\* else has touched it the copy is what it holds.  The other files are as some
\* call before has left them, which may be empty.
SavedMeansCopied ==
  fetch.pc = "saved" => \A d \in Found :
    fetch.file[d] \in App /\ (~meddled => fetch.file[d] = out[d].part[0])
=============================================================================
