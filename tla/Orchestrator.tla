---------------------------- MODULE Orchestrator ----------------------------
(***************************************************************************)
(* The job orchestrator together with the cluster it drives: runJob        *)
(* removes the output directory of a job, starts a `hadoop jar' client,    *)
(* waits for it to exit and takes its exit status for the job's outcome.   *)
(*                                                                         *)
(* Every step of JobRegistry that talks to the cluster is conjoined with   *)
(* what the cluster does then; the others leave the cluster alone.  A      *)
(* client and its application are named by the run and the position of     *)
(* the job in its request.  The encoding of replies does not touch the     *)
(* cluster and is left out here.                                           *)
(***************************************************************************)
EXTENDS JobRegistry

CONSTANTS
  MaxJobs,           \* bound: positions of jobs in a request
  LoseTouch          \* clients that may exit while their application goes on

VARIABLES out, app   \* the cluster, as in HadoopCluster

App == Run \X (1..MaxJobs)

Cluster == INSTANCE HadoopCluster WITH Dir <- Job

ASSUME OrchestratorAssumption ==
  /\ MaxJobs \in Nat \ {0}
  /\ \A ids \in Requests : Len(Expand(ids)) <= MaxJobs
  /\ LoseTouch \subseteq App

cluster == <<out, app>>

allVars == <<up, heap, states, lock, runner, call, out, app>>

-----------------------------------------------------------------------------
\* JobDefinition.OutputDir: each job has its own.
OutputDir(j) == j

\* The current job of a run, and its client.
CurrentDir(r) == OutputDir(heap[r][runner[r].i].job)
CurrentApp(r) == <<r, runner[r].i>>

Init2 == Init /\ Cluster!ClusterInit

\* hdfsRemove: the error is ignored.
RemoveStaleOutput(r) ==
  /\ RemoveOutput(r)
  /\ Cluster!Remove(CurrentDir(r)) \/ Cluster!RemoveFails

\* cmd.Run starts a client, or fails at once.
LaunchClient(r) ==
  /\ Launch(r)
  /\ IF runner'[r].pc = "wait"
     THEN Cluster!StartClient(CurrentApp(r), CurrentDir(r))
     ELSE UNCHANGED cluster

Phase(r) == app[CurrentApp(r)].phase

\* Mutant of ClientSucceeds: cmd.Start where cmd.Run is needed.
ClientStarted(r) == Phase(r) # "none"

\* The client exits with status 0 when its application has succeeded.
ClientSucceeds(r) == Phase(r) = "succeeded"

\* It exits with another status when the application failed, or when it loses
\* touch with an application it has submitted.
ClientFails(r) ==
  \/ Phase(r) = "failed"
  \/ CurrentApp(r) \in LoseTouch /\ Phase(r) \in {"submitted", "running", "succeeded"}

WaitForClient(r) ==
  /\ \/ ExitZero(r) /\ ClientSucceeds(r)
     \/ ExitNonzero(r) /\ ClientFails(r)
  /\ UNCHANGED cluster

\* Steps of the goroutine that only concern the registry.
RegistryStep(r) ==
  /\ \/ AcquireLock(r) \/ StoreStatus(r) \/ StoreError(r) \/ StoreCompletedAt(r)
     \/ FindStreamingJar(r) \/ StoreAppId(r)
  /\ UNCHANGED cluster

RunJobStep(r) ==
  RegistryStep(r) \/ RemoveStaleOutput(r) \/ LaunchClient(r) \/ WaitForClient(r)

\* YARN goes on whatever the orchestrator does, and also without it.
ClusterStep(a) == Cluster!AppStep(a) /\ UNCHANGED vars

Next2 ==
  \/ \E r \in Run : RunJobStep(r) \/ (Submit(r) /\ UNCHANGED cluster)
  \/ \E a \in App : ClusterStep(a)
  \/ (Stop \/ Restart) /\ UNCHANGED cluster

\* Goroutines run, and so does YARN: every application ends some day.
Fairness2 == /\ \A r \in Run : WF_allVars(RunJobStep(r))
             /\ \A a \in App : WF_allVars(ClusterStep(a))

Spec2 == Init2 /\ [][Next2]_allVars /\ Fairness2

-----------------------------------------------------------------------------
(* Properties *)

\* Another run, or a client that was left behind (by a run that is gone, or by
\* an earlier job of r that only seems to have failed), has got to the output of
\* job k of run r.
Contended(r, k) ==
  LET d == OutputDir(heap[r][k].job) IN
  \/ \E a \in App : a[1] # r /\ app[a].dir = d
  \/ \E m \in 1..(k - 1) : heap[r][m].status = "FAILED" /\ OutputDir(heap[r][m].job) = d
  \/ \E q \in Run \ {r} : \E m \in DOMAIN heap[q] :
       m <= runner[q].i /\ OutputDir(heap[q][m].job) = d

\* A request that names job k again has got to the second time.
Repeated(r, k) ==
  \E m \in DOMAIN heap[r] : k < m /\ m <= runner[r].i /\ heap[r][m].job = heap[r][k].job

\* As long as nothing else works on that output, a job that is COMPLETED has its
\* own, complete output in HDFS: not what an earlier application left there
\* when the removal failed, and not what a later job of the run made of it.
CompletedMeansOutput ==
  \A r \in Run : \A k \in DOMAIN heap[r] :
    heap[r][k].status = "COMPLETED" /\ ~Contended(r, k) /\ ~Repeated(r, k)
      => Cluster!HoldsOutputOf(OutputDir(heap[r][k].job), <<r, k>>)

\* Every accepted run is eventually worked off, or lost with the process: no
\* failing job and no other run's use of the mutex holds it up for ever.  With a
\* cluster whose applications end, runs do: the fairness JobRegistry assumes of
\* the hadoop client follows from that of YARN.
RunsEnd == \A r \in Run : runner[r].pc # "none" ~> runner[r].pc \in {"done", "none"}
=============================================================================
