------------------------- MODULE Orchestrator_proofs -------------------------
(***************************************************************************)
(* Proof that a COMPLETED job has its own, whole output in HDFS, for any   *)
(* runs, jobs and requests, any cluster and any stops of the orchestrator, *)
(* unless something else has got to that output.  It rests on the          *)
(* invariant of JobRegistry, which the composition keeps.                  *)
(***************************************************************************)
EXTENDS Orchestrator, JobRegistry_proofs

\* Clients are started at the current position of a run, and only there.
AppsFollowRuns ==
  /\ \A r \in Run : Len(heap[r]) <= MaxJobs
  /\ \A a \in App : app[a].phase = "none" => app[a].dir = Nil
  /\ \A a \in App : app[a].phase \in {"none", "starting", "submitted"} => app[a].done = {}
  /\ \A r \in Run, k \in 1..MaxJobs : app[<<r, k>>].phase # "none" =>
       /\ call[r].code \notin {"none", "rejected"}
       /\ heap[r] # << >> =>
            /\ runner[r].pc # "none" /\ k \in DOMAIN heap[r] /\ k <= runner[r].i
            /\ app[<<r, k>>].dir = OutputDir(heap[r][k].job)

\* How far the client of the current job is, by where its goroutine is.
PhaseFollowsRunner ==
  \A r \in Run : runner[r].pc # "none" =>
    /\ \/ runner[r].pc \in {"findJar", "remove", "launch"}
       \/ runner[r].pc \in {"setStatus", "status", "error"} /\ runner[r].want = "RUNNING"
       => Phase(r) = "none"
    /\ \/ runner[r].pc \in {"recordApp", "appId"}
       \/ runner[r].pc \in {"setStatus", "status"} /\ runner[r].want = "COMPLETED"
       => Phase(r) = "succeeded"

CompletedSucceeded ==
  \A r \in Run : \A k \in DOMAIN heap[r] :
    heap[r][k].status = "COMPLETED" => app[<<r, k>>].phase = "succeeded"

\* A directory that is not there has nothing in it.
MissingIsEmpty == \A d \in Job : out[d].dir \/ out[d] = Cluster!Missing

Alone(r, k) == ~Contended(r, k) /\ ~Repeated(r, k)

\* Directory d is as application a, which nobody disturbs, has left it so far.
MadeBy(a, d) ==
  /\ app[a].phase = "submitted" => out[d] = Cluster!Missing
  /\ app[a].phase = "running" =>
       out[d] = [dir |-> out[d].dir,
                 part |-> [p \in Cluster!Part |-> IF p \in app[a].done THEN a ELSE Nil],
                 success |-> FALSE]
  /\ app[a].phase = "succeeded" => Cluster!HoldsOutputOf(d, a)

OwnOutput ==
  \A r \in Run : \A k \in DOMAIN heap[r] :
    Alone(r, k) => MadeBy(<<r, k>>, OutputDir(heap[r][k].job))

HInv == /\ Cluster!ClusterTypeOK /\ AppsFollowRuns /\ PhaseFollowsRunner
        /\ CompletedSucceeded /\ MissingIsEmpty /\ OwnOutput
-----------------------------------------------------------------------------
(* How a run goes on *)

\* The jobs of a run stay what they are, FAILED ones stay FAILED, and its goroutine
\* does not go back.
Kept(r) ==
  /\ Len(heap'[r]) = Len(heap[r]) /\ DOMAIN heap'[r] = DOMAIN heap[r]
  /\ \A k \in DOMAIN heap[r] :
       /\ heap'[r][k].job = heap[r][k].job
       /\ heap[r][k].status = "FAILED" => heap'[r][k].status = "FAILED"
  /\ runner[r].i <= runner'[r].i
  /\ runner[r].pc # "none" => runner'[r].pc # "none"

\* A store leaves the ids of the jobs alone.
LEMMA StorageKeepsJobs ==
  ASSUME IInv, NEW q \in Run, Storage(q), NEW r \in Run, NEW k \in DOMAIN heap[r]
  PROVE  heap'[r][k].job = heap[r][k].job
<1>1. CASE r = q /\ k = runner[q].i
  <2>1. heap'[r][k] = [heap[r][k] EXCEPT ![runner[q].pc] = Incoming(q, runner[q].pc)]
    BY <1>1 DEF Storage, Stored
  <2>2. runner[q].pc \in Storing /\ heap[r][k] \in JobState
    BY <1>1 DEF Storage, IInv, TypeOK
  <2> QED BY <1>1, <2>1, <2>2 DEF Storing, JobState
<1>2. CASE ~ (r = q /\ k = runner[q].i)
  BY <1>2 DEF Storage, Stored
<1> QED BY <1>1, <1>2

\* A step of a goroutine stays on its object or goes to the next one.
LEMMA RunnerAdvances ==
  ASSUME IInv, NEW r \in Run, RunnerStep(r)
  PROVE  /\ \A q \in Run \ {r} : runner'[q] = runner[q]
         /\ runner[r].pc # "none" /\ runner'[r].pc # "none"
         /\ runner[r].i \in DOMAIN heap[r]
         /\ \/ runner'[r].i = runner[r].i
            \/ /\ runner'[r].i = runner[r].i + 1 /\ runner'[r].i \in DOMAIN heap[r]
               /\ runner'[r].pc = "setStatus" /\ runner'[r].want = "RUNNING"
<1>1. /\ TypeOK /\ runner \in [Run -> [pc : PC, i : Nat, want : Status \ {"PENDING"}]]
      /\ runner[r] \in [pc : PC, i : Nat, want : Status \ {"PENDING"}]
      /\ GoesOn(r)
  BY RunnerGoesOn DEF IInv, TypeOK
<1>2. runner[r].pc # "none" /\ runner[r].i \in 1..Len(heap[r])
  <2>1. runner[r].pc # "none"
    BY DEF RunnerStep, AcquireLock, StoreStatus, StoreError, StoreCompletedAt, StoreAppId,
           FindStreamingJar, RemoveOutput, Launch, ExitZero, ExitNonzero
  <2> QED BY <1>1, <2>1, RunnerType
<1>3. DOMAIN heap[r] = 1..Len(heap[r]) /\ Len(heap[r]) \in Nat
  <2>1. heap[r] \in Seq(JobState)
    BY <1>1 DEF TypeOK
  <2> QED BY <2>1
<1>4. CASE StoreCompletedAt(r)
  <2>1. Advance(r)
    BY <1>4 DEF StoreCompletedAt
  <2>2. PICK x : /\ runner'[r] = x
                 /\ \/ /\ runner[r].i < Len(heap[r])
                       /\ x = [pc |-> "setStatus", i |-> runner[r].i + 1, want |-> "RUNNING"]
                    \/ x = [pc |-> "done", i |-> runner[r].i, want |-> runner[r].want]
    BY <1>1, <1>2, <2>1, AdvanceType
  <2>3. \/ x.pc = "done" /\ x.i = runner[r].i
        \/ /\ runner[r].i < Len(heap[r]) /\ x.pc = "setStatus" /\ x.want = "RUNNING"
           /\ x.i = runner[r].i + 1
    BY <2>2
  <2> QED BY <1>1, <1>2, <1>3, <2>2, <2>3 DEF GoesOn
<1>5. ASSUME NEW pc, Goto(r, pc), pc # "none"
      PROVE  runner'[r].pc # "none" /\ runner'[r].i = runner[r].i
  <2>1. runner'[r] = [runner[r] EXCEPT !.pc = pc]
    BY <1>1, <1>5 DEF Goto
  <2> QED BY <1>1, <1>5, <2>1
<1>6. ASSUME NEW w, SetStatus(r, w)
      PROVE  runner'[r].pc # "none" /\ runner'[r].i = runner[r].i
  <2>1. runner'[r].pc = "setStatus" /\ runner'[r].i = runner[r].i
    BY <1>1, <1>6 DEF SetStatus
  <2> QED BY <2>1
<1>7. ASSUME ~ StoreCompletedAt(r)
      PROVE  runner'[r].pc # "none" /\ runner'[r].i = runner[r].i
  BY <1>5, <1>6, <1>7 DEF RunnerStep, AcquireLock, StoreStatus, StoreError, StoreAppId,
         FindStreamingJar, RemoveOutput, Launch, ExitZero, ExitNonzero
<1> QED BY <1>1, <1>2, <1>3, <1>4, <1>7 DEF GoesOn

\* A step of any goroutine keeps every run.
LEMMA RunnerKeeps ==
  ASSUME IInv, NEW q \in Run, RunnerStep(q), NEW r \in Run
  PROVE  Kept(r)
<1>1. Storage(q) \/ UNCHANGED <<up, heap, states, call>>
  BY RunnerStorage
<1>2. Len(heap'[r]) = Len(heap[r]) /\ DOMAIN heap'[r] = DOMAIN heap[r]
  BY <1>1 DEF Storage, Stored
<1>3. ASSUME NEW k \in DOMAIN heap[r]
      PROVE  /\ heap'[r][k].job = heap[r][k].job
             /\ heap[r][k].status = "FAILED" => heap'[r][k].status = "FAILED"
  <2>1. Later(r, k)
    BY RunnerKeepsDecisions
  <2> QED BY <1>1, <2>1, StorageKeepsJobs DEF Later, Terminal
<1>4. /\ runner[r].i \in Nat /\ runner[r].i <= runner'[r].i
      /\ runner[r].pc # "none" => runner'[r].pc # "none"
  <2>1. runner[r].i \in Nat
    BY DEF IInv, TypeOK
  <2> QED BY <2>1, RunnerAdvances
<1> QED BY <1>2, <1>3, <1>4 DEF Kept
-----------------------------------------------------------------------------
(* How claims on an output directory go on *)

\* Every run with objects keeps them, and applications their directories.
Steady ==
  /\ \A r \in Run : heap[r] # << >> => Kept(r)
  /\ \A a \in App : app[a].dir # Nil => app'[a].dir = app[a].dir

\* What has got to the output of a job has got to it for good.
LEMMA AloneBefore ==
  ASSUME IInv, IInv', Steady, NEW r \in Run, NEW k \in DOMAIN heap[r], Alone(r, k)'
  PROVE  Alone(r, k) /\ heap'[r][k].job = heap[r][k].job
<1> DEFINE d == heap[r][k].job
<1>1. /\ heap \in [Run -> Seq(JobState)] /\ runner \in [Run -> [pc : PC, i : Nat,
                                                     want : Status \ {"PENDING"}]]
      /\ d \in Job /\ Nil \notin Job
  <2>1. heap \in [Run -> Seq(JobState)]
    BY DEF IInv, TypeOK
  <2>2. heap[r][k] \in JobState
    BY <2>1
  <2> QED BY <2>1, <2>2, JobAssumption DEF IInv, TypeOK, JobState
<1>2. \A q \in Run : \A m \in DOMAIN heap[q] :
        /\ m \in DOMAIN heap'[q] /\ heap'[q][m].job = heap[q][m].job
        /\ heap[q][m].status = "FAILED" => heap'[q][m].status = "FAILED"
        /\ runner[q].i <= runner'[q].i
  BY <1>1 DEF Steady, Kept
<1>3. heap'[r][k].job = d
  BY <1>2
<1>4. \A q \in Run : \A m \in DOMAIN heap[q] : m \in Nat
  BY <1>1
<1>5. \A q \in Run : \A m \in DOMAIN heap[q] : m <= runner[q].i => m <= runner'[q].i
  <2> SUFFICES ASSUME NEW q \in Run, NEW m \in DOMAIN heap[q], m <= runner[q].i
               PROVE  m <= runner'[q].i
    OBVIOUS
  <2>1. runner[q].i <= runner'[q].i /\ m \in Nat /\ runner[q].i \in Nat
    BY <1>1, <1>2, <1>4
  <2>2. runner'[q].i \in Nat
    BY DEF IInv, TypeOK
  <2> QED BY <2>1, <2>2
<1>6. ~ Contended(r, k)
  <2> SUFFICES ASSUME Contended(r, k) PROVE Contended(r, k)'
    BY DEF Alone
  <2>1. ASSUME NEW a \in App, a[1] # r, app[a].dir = OutputDir(d)
        PROVE  Contended(r, k)'
    <3>1. app'[a].dir = OutputDir(d)
      BY <1>1, <2>1 DEF Steady, OutputDir
    <3> QED BY <2>1, <3>1, <1>3 DEF Contended
  <2>2. ASSUME NEW m \in 1..(k - 1), heap[r][m].status = "FAILED",
               OutputDir(heap[r][m].job) = OutputDir(d)
        PROVE  Contended(r, k)'
    <3>1. m \in DOMAIN heap[r]
      BY <1>1, <2>2
    <3> QED BY <3>1, <1>2, <1>3, <2>2 DEF Contended, OutputDir
  <2>3. ASSUME NEW q \in Run \ {r}, NEW m \in DOMAIN heap[q], m <= runner[q].i,
               OutputDir(heap[q][m].job) = OutputDir(d)
        PROVE  Contended(r, k)'
    <3>1. /\ m \in DOMAIN heap'[q] /\ m <= runner'[q].i
          /\ heap'[q][m].job = heap[q][m].job
      BY <1>2, <1>5, <2>3
    <3> QED BY <3>1, <1>3, <2>3 DEF Contended
  <2> QED BY <2>1, <2>2, <2>3 DEF Contended
<1>7. ~ Repeated(r, k)
  <2> SUFFICES ASSUME Repeated(r, k) PROVE Repeated(r, k)'
    BY DEF Alone
  <2>1. PICK m \in DOMAIN heap[r] : /\ k < m /\ m <= runner[r].i
                                    /\ heap[r][m].job = heap[r][k].job
    BY DEF Repeated
  <2>2. /\ m \in DOMAIN heap'[r] /\ m <= runner'[r].i
        /\ heap'[r][m].job = heap'[r][k].job
    BY <1>2, <1>5, <2>1
  <2> QED BY <2>1, <2>2 DEF Repeated
<1> QED BY <1>3, <1>6, <1>7 DEF Alone
\* The client of job k does not depend on the output directory now, or nothing that
\* it depends on has changed.
Undisturbed(r, k) ==
  \/ app'[<<r, k>>].phase \in {"none", "starting", "failed"}
  \/ /\ k \in DOMAIN heap[r]
     /\ app'[<<r, k>>] = app[<<r, k>>]
     /\ out'[OutputDir(heap[r][k].job)] = out[OutputDir(heap[r][k].job)]

\* A step that disturbs no client which is alone with its output.
LEMMA OwnOutputStays ==
  ASSUME IInv, IInv', OwnOutput, Steady,
         \A r \in Run : \A k \in DOMAIN heap'[r] : Alone(r, k)' => Undisturbed(r, k)
  PROVE  OwnOutput'
<1> SUFFICES ASSUME NEW r \in Run, NEW k \in DOMAIN heap'[r], Alone(r, k)'
             PROVE  MadeBy(<<r, k>>, OutputDir(heap[r][k].job))'
  BY DEF OwnOutput
<1>1. CASE app'[<<r, k>>].phase \in {"none", "starting", "failed"}
  BY <1>1 DEF MadeBy
<1>2. CASE ~ (app'[<<r, k>>].phase \in {"none", "starting", "failed"})
  <2>1. /\ k \in DOMAIN heap[r] /\ app'[<<r, k>>] = app[<<r, k>>]
        /\ out'[OutputDir(heap[r][k].job)] = out[OutputDir(heap[r][k].job)]
    BY <1>2 DEF Undisturbed
  <2>2. Alone(r, k) /\ heap'[r][k].job = heap[r][k].job
    BY <2>1, AloneBefore
  <2>3. MadeBy(<<r, k>>, OutputDir(heap[r][k].job))
    BY <2>1, <2>2 DEF OwnOutput
  <2> QED BY <2>1, <2>2, <2>3 DEF MadeBy, Cluster!HoldsOutputOf, OutputDir
<1> QED BY <1>1, <1>2

-----------------------------------------------------------------------------
(* Steps of a goroutine *)

\* What a step of run r's goroutine may do to the applications: start the current one.
Starts(r) ==
  \A a \in App :
    \/ app'[a] = app[a]
    \/ /\ a = CurrentApp(r) /\ app[a].phase = "none"
       /\ app'[a].phase = "starting" /\ app'[a].dir = CurrentDir(r) /\ app'[a].done = {}

\* Positions of jobs are within the bound.
LEMMA PositionsBounded ==
  ASSUME IInv, AppsFollowRuns, NEW r \in Run, NEW k \in DOMAIN heap[r]
  PROVE  k \in 1..MaxJobs /\ <<r, k>> \in App
<1>1. heap[r] \in Seq(JobState) /\ Len(heap[r]) \in Nat /\ Len(heap[r]) <= MaxJobs
  BY DEF IInv, TypeOK, AppsFollowRuns
<1>2. k \in 1..Len(heap[r]) /\ MaxJobs \in Nat
  BY <1>1, OrchestratorAssumption
<1> QED BY <1>1, <1>2 DEF App

\* A step of a goroutine keeps every run, and every application its directory.
LEMMA RunnerSteady ==
  ASSUME IInv, HInv, NEW r \in Run, RunnerStep(r), Starts(r)
  PROVE  Steady
<1>1. \A q \in Run : Kept(q)
  BY RunnerKeeps
<1>2. ASSUME NEW a \in App, app[a].dir # Nil PROVE app'[a].dir = app[a].dir
  BY <1>2 DEF Starts, HInv, AppsFollowRuns
<1> QED BY <1>1, <1>2 DEF Steady

LEMMA RunnerKeepsApps ==
  ASSUME IInv, HInv, NEW r \in Run, RunnerStep(r), Starts(r)
  PROVE  AppsFollowRuns'
<1>1. /\ runner[r].pc # "none" /\ runner'[r].pc # "none"
      /\ runner[r].i \in DOMAIN heap[r]
  BY RunnerAdvances
<1>2. \A q \in Run : Kept(q)
  BY RunnerKeeps
<1>3. /\ call' = call
      /\ heap \in [Run -> Seq(JobState)] /\ heap' \in [Run -> Seq(JobState)]
      /\ runner \in [Run -> [pc : PC, i : Nat, want : Status \ {"PENDING"}]]
      /\ runner' \in [Run -> [pc : PC, i : Nat, want : Status \ {"PENDING"}]]
  <2>1. call' = call
    BY RunnerStorage DEF Storage
  <2>2. IInv'
    BY NextKeepsIInv DEF Next
  <2> QED BY <2>1, <2>2 DEF IInv, TypeOK
<1>4. call[r].code \notin {"none", "rejected"}
  BY <1>1 DEF IInv, CallsFollowRuns
<1>5. \A q \in Run : Len(heap'[q]) <= MaxJobs
  BY <1>2 DEF Kept, HInv, AppsFollowRuns
<1>6. \A a \in App : app'[a].phase = "none" => app'[a].dir = Nil
  BY DEF Starts, HInv, AppsFollowRuns
<1>7. \A a \in App : app'[a].phase \in {"none", "starting", "submitted"} => app'[a].done = {}
  BY DEF Starts, HInv, AppsFollowRuns
<1>8. ASSUME NEW q \in Run, NEW k \in 1..MaxJobs, app'[<<q, k>>].phase # "none"
      PROVE  /\ call'[q].code \notin {"none", "rejected"}
             /\ heap'[q] # << >> =>
                  /\ runner'[q].pc # "none" /\ k \in DOMAIN heap'[q] /\ k <= runner'[q].i
                  /\ app'[<<q, k>>].dir = OutputDir(heap'[q][k].job)
  <2>0. <<q, k>> \in App
    BY DEF App
  <2>1. Kept(q)
    BY <1>2
  <2>2. heap'[q] # << >> => heap[q] # << >>
    BY <1>3, <2>1 DEF Kept
  <2>3. CASE app'[<<q, k>>] = app[<<q, k>>]
    <3>1. /\ call[q].code \notin {"none", "rejected"}
          /\ heap[q] # << >> =>
               /\ runner[q].pc # "none" /\ k \in DOMAIN heap[q] /\ k <= runner[q].i
               /\ app[<<q, k>>].dir = OutputDir(heap[q][k].job)
      BY <2>3, <1>8 DEF HInv, AppsFollowRuns
    <3>2. k <= runner[q].i => k <= runner'[q].i
      <4>1. runner[q].i \in Nat /\ runner'[q].i \in Nat /\ runner[q].i <= runner'[q].i
        BY <1>3, <2>1 DEF Kept
      <4> QED BY <4>1
    <3> QED BY <1>3, <2>1, <2>2, <2>3, <3>1, <3>2 DEF Kept
  <2>4. CASE app'[<<q, k>>] # app[<<q, k>>]
    <3>1. /\ q = r /\ k = runner[r].i
          /\ app'[<<q, k>>].dir = OutputDir(heap[r][k].job)
      BY <2>0, <2>4 DEF Starts, CurrentApp, CurrentDir
    <3> QED BY <1>1, <1>3, <1>4, <2>1, <3>1 DEF Kept
  <2> QED BY <2>3, <2>4
<1> QED BY <1>5, <1>6, <1>7, <1>8 DEF AppsFollowRuns
\* PhaseFollowsRunner of one run.
PhaseFits(r) ==
  runner[r].pc # "none" =>
    /\ \/ runner[r].pc \in {"findJar", "remove", "launch"}
       \/ runner[r].pc \in {"setStatus", "status", "error"} /\ runner[r].want = "RUNNING"
       => Phase(r) = "none"
    /\ \/ runner[r].pc \in {"recordApp", "appId"}
       \/ runner[r].pc \in {"setStatus", "status"} /\ runner[r].want = "COMPLETED"
       => Phase(r) = "succeeded"

LEMMA PhaseByRun == PhaseFollowsRunner <=> \A r \in Run : PhaseFits(r)
BY DEF PhaseFollowsRunner, PhaseFits

\* A step of a goroutine that stays on its job: the client of that job is as the step
\* found it, or has just been started.
LEMMA PhaseOfSameJob ==
  ASSUME IInv, NEW r \in Run, RunJobStep(r), PhaseFits(r), ~ StoreCompletedAt(r)
  PROVE  PhaseFits(r)'
<1>1. /\ runner \in [Run -> [pc : PC, i : Nat, want : Status \ {"PENDING"}]]
      /\ runner[r] \in [pc : PC, i : Nat, want : Status \ {"PENDING"}]
  BY DEF IInv, TypeOK
<1>2. ASSUME NEW pc, Goto(r, pc)
      PROVE  /\ runner'[r].pc = pc /\ runner'[r].i = runner[r].i
             /\ runner'[r].want = runner[r].want
  <2>1. runner'[r] = [runner[r] EXCEPT !.pc = pc]
    BY <1>1, <1>2 DEF Goto
  <2> QED BY <1>1, <2>1
<1>3. ASSUME NEW w, SetStatus(r, w)
      PROVE  /\ runner'[r].pc = "setStatus" /\ runner'[r].i = runner[r].i
             /\ runner'[r].want = w
  <2>1. runner'[r] = [runner[r] EXCEPT !.pc = "setStatus", !.want = w]
    BY <1>1, <1>3 DEF SetStatus
  <2> QED BY <1>1, <2>1
<1>4. UNCHANGED cluster /\ runner'[r].i = runner[r].i => Phase(r)' = Phase(r)
  BY DEF cluster, Phase, CurrentApp
<1>5. CASE AcquireLock(r) /\ UNCHANGED cluster
  BY <1>2, <1>4, <1>5 DEF AcquireLock, PhaseFits
<1>6. CASE StoreStatus(r) /\ UNCHANGED cluster
  BY <1>2, <1>4, <1>6 DEF StoreStatus, PhaseFits
<1>7. CASE StoreError(r) /\ UNCHANGED cluster
  BY <1>1, <1>2, <1>4, <1>7 DEF StoreError, PhaseFits, Terminal, Status
<1>8. CASE FindStreamingJar(r) /\ UNCHANGED cluster
  BY <1>2, <1>3, <1>4, <1>8 DEF FindStreamingJar, PhaseFits
<1>9. CASE StoreAppId(r) /\ UNCHANGED cluster
  BY <1>2, <1>3, <1>4, <1>9 DEF StoreAppId, PhaseFits
<1>10. CASE RemoveStaleOutput(r)
  <2>1. app' = app
    BY <1>10 DEF RemoveStaleOutput, Cluster!Remove, Cluster!RemoveFails, Cluster!cluster
  <2> QED BY <1>2, <1>10, <2>1 DEF RemoveStaleOutput, RemoveOutput, PhaseFits, Phase, CurrentApp
<1>11. CASE LaunchClient(r)
  BY <1>2, <1>3, <1>11 DEF LaunchClient, Launch, PhaseFits
<1>12. CASE WaitForClient(r)
  BY <1>2, <1>3, <1>4, <1>12
     DEF WaitForClient, ExitZero, ExitNonzero, ClientSucceeds, PhaseFits
<1> QED BY <1>5, <1>6, <1>7, <1>8, <1>9, <1>10, <1>11, <1>12 DEF RunJobStep, RegistryStep

\* The client of the next job has not been started.
LEMMA PhaseOfNextJob ==
  ASSUME IInv, HInv, NEW r \in Run, RunJobStep(r), StoreCompletedAt(r)
  PROVE  PhaseFits(r)'
<1>1. runner[r].pc = "completedAt" /\ Advance(r) /\ TypeOK
  BY DEF StoreCompletedAt, IInv
<1>2. UNCHANGED cluster
  <2>1. Storing \cap {"remove", "launch", "wait"} = {}
    BY DEF Storing
  <2> QED BY <1>1, <2>1 DEF RunJobStep, RegistryStep, RemoveStaleOutput, RemoveOutput,
                            LaunchClient, Launch, WaitForClient
<1>3. PICK x : /\ runner'[r] = x
               /\ \/ x.pc = "done"
                  \/ /\ runner[r].i < Len(heap[r]) /\ x.pc = "setStatus"
                     /\ x.want = "RUNNING" /\ x.i = runner[r].i + 1
  <2>1. PICK y : /\ runner'[r] = y
                 /\ \/ /\ runner[r].i < Len(heap[r])
                       /\ y = [pc |-> "setStatus", i |-> runner[r].i + 1, want |-> "RUNNING"]
                    \/ y = [pc |-> "done", i |-> runner[r].i, want |-> runner[r].want]
    BY <1>1, AdvanceType
  <2>2. \/ y.pc = "done"
        \/ /\ runner[r].i < Len(heap[r]) /\ y.pc = "setStatus"
           /\ y.want = "RUNNING" /\ y.i = runner[r].i + 1
    BY <2>1
  <2> QED BY <2>1, <2>2
<1>4. CASE x.pc = "done"
  BY <1>3, <1>4 DEF PhaseFits
<1>5. CASE x.pc = "setStatus" /\ x.want = "RUNNING" /\ runner[r].i < Len(heap[r])
           /\ x.i = runner[r].i + 1
  <2>1. /\ runner[r].i \in Nat /\ heap[r] \in Seq(JobState) /\ Len(heap[r]) \in Nat
        /\ Len(heap[r]) <= MaxJobs /\ MaxJobs \in Nat
    BY <1>1, OrchestratorAssumption DEF TypeOK, HInv, AppsFollowRuns
  <2>2. x.i \in 1..MaxJobs /\ heap[r] # << >> /\ ~ (x.i <= runner[r].i)
    BY <1>5, <2>1
  <2>3. app[<<r, x.i>>].phase = "none"
    BY <2>2 DEF HInv, AppsFollowRuns
  <2>4. Phase(r)' = "none"
    BY <1>2, <1>3, <2>3 DEF cluster, Phase, CurrentApp
  <2> QED BY <1>3, <1>5, <2>4 DEF PhaseFits
<1> QED BY <1>3, <1>4, <1>5

\* The other goroutines and their clients do not see it.
LEMMA RunnerKeepsPhases ==
  ASSUME IInv, HInv, NEW r \in Run, RunJobStep(r), RunnerStep(r), Starts(r)
  PROVE  PhaseFollowsRunner'
<1>1. PhaseFits(r)'
  BY PhaseByRun, PhaseOfSameJob, PhaseOfNextJob DEF HInv
<1>2. ASSUME NEW q \in Run \ {r} PROVE PhaseFits(q)'
  <2>1. runner'[q] = runner[q] /\ PhaseFits(q)
    BY PhaseByRun, RunnerAdvances DEF HInv
  <2>2. CASE runner[q].pc = "none"
    BY <2>1, <2>2 DEF PhaseFits
  <2>3. CASE runner[q].pc # "none"
    <3>1. CurrentApp(q) \in App /\ CurrentApp(q) # CurrentApp(r)
      <4>1. runner[q].i \in DOMAIN heap[q]
        BY <2>3 DEF IInv, TypeOK
      <4> QED BY <4>1, PositionsBounded DEF HInv, CurrentApp
    <3>2. app'[CurrentApp(q)] = app[CurrentApp(q)]
      BY <3>1 DEF Starts
    <3>3. Phase(q)' = Phase(q)
      BY <2>1, <3>2 DEF Phase, CurrentApp
    <3> QED BY <2>1, <3>3 DEF PhaseFits
  <2> QED BY <2>2, <2>3
<1>3. \A q \in Run : PhaseFits(q)'
  BY <1>1, <1>2
<1> QED BY <1>3 DEF PhaseFits, PhaseFollowsRunner
\* A step of runJob with its cluster is a step of the goroutine, and what it does to
\* the cluster is to remove the current directory or to start the current client.
LEMMA RunJobSteps ==
  ASSUME IInv, HInv, NEW r \in Run, RunJobStep(r)
  PROVE  /\ RunnerStep(r) /\ Starts(r) /\ Cluster!ClusterTypeOK'
         /\ \/ out' = out
            \/ /\ runner[r].pc = "remove" /\ app' = app
               /\ runner'[r].i = runner[r].i
               /\ out' = [out EXCEPT ![CurrentDir(r)] = Cluster!Missing]
<1>1. RunnerStep(r)
  BY DEF RunJobStep, RegistryStep, RemoveStaleOutput, LaunchClient, WaitForClient, RunnerStep
<1>2. /\ Cluster!ClusterTypeOK
      /\ CurrentDir(r) \in Job /\ CurrentApp(r) \in App
      /\ TypeOK
  <2>1. runner[r].i \in DOMAIN heap[r]
    BY <1>1, RunnerAdvances
  <2>2. heap[r][runner[r].i] \in JobState
    BY <2>1 DEF IInv, TypeOK
  <2> QED BY <2>1, <2>2, PositionsBounded
          DEF HInv, CurrentDir, CurrentApp, OutputDir, JobState, IInv
<1>3. CASE UNCHANGED cluster
  BY <1>1, <1>2, <1>3 DEF cluster, Starts, Cluster!ClusterTypeOK
<1>4. CASE RemoveStaleOutput(r) /\ ~ UNCHANGED cluster
  <2>1. /\ RemoveOutput(r) /\ out' = [out EXCEPT ![CurrentDir(r)] = Cluster!Missing]
        /\ app' = app
    BY <1>4 DEF RemoveStaleOutput, Cluster!Remove, Cluster!RemoveFails, Cluster!cluster, cluster
  <2>2. Cluster!Missing \in [dir : BOOLEAN, part : [Cluster!Part -> App \cup {Nil}],
                             success : BOOLEAN]
    BY DEF Cluster!Missing, Cluster!NoParts
  <2>3. out' \in [Job -> [dir : BOOLEAN, part : [Cluster!Part -> App \cup {Nil}],
                          success : BOOLEAN]]
    BY <1>2, <2>1, <2>2 DEF Cluster!ClusterTypeOK
  <2>4. Cluster!ClusterTypeOK'
    BY <1>2, <2>1, <2>3 DEF Cluster!ClusterTypeOK
  <2>5. runner'[r].i = runner[r].i
    BY <1>2, <2>1 DEF RemoveOutput, Goto, TypeOK
  <2> QED BY <1>1, <2>1, <2>4, <2>5 DEF RemoveOutput, Starts
<1>5. CASE LaunchClient(r) /\ ~ UNCHANGED cluster
  <2> DEFINE a == CurrentApp(r)
             d == CurrentDir(r)
  <2>1. /\ app[a].phase = "none" /\ out' = out
        /\ app' = [app EXCEPT ![a].dir = d, ![a].phase = "starting"]
    BY <1>5 DEF LaunchClient, Cluster!StartClient
  <2>2. /\ app \in [App -> [dir : Job \cup {Nil}, phase : Cluster!Phase,
                            done : SUBSET Cluster!Part]]
        /\ a \in App /\ d \in Job /\ app[a].done = {}
    BY <1>2, <2>1 DEF Cluster!ClusterTypeOK, HInv, AppsFollowRuns
  <2> HIDE DEF a, d
  <2>3. /\ \A b \in App \ {a} : app'[b] = app[b]
        /\ app'[a].dir = d /\ app'[a].phase = "starting" /\ app'[a].done = {}
        /\ app' \in [App -> [dir : Job \cup {Nil}, phase : Cluster!Phase,
                             done : SUBSET Cluster!Part]]
    BY <2>1, <2>2 DEF Cluster!Phase, Cluster!Live
  <2>4. Cluster!ClusterTypeOK'
    BY <1>2, <2>1, <2>2, <2>3 DEF Cluster!ClusterTypeOK
  <2>5. Starts(r)
    BY <2>1, <2>3 DEF Starts, a, d
  <2> QED BY <1>1, <2>1, <2>4, <2>5
<1> QED BY <1>3, <1>4, <1>5 DEF RunJobStep, RegistryStep, WaitForClient

\* A job becomes COMPLETED when its client has exited with status 0.
LEMMA RunnerKeepsSucceeded ==
  ASSUME IInv, HInv, NEW r \in Run, RunnerStep(r), Starts(r)
  PROVE  CompletedSucceeded'
<1> SUFFICES ASSUME NEW q \in Run, NEW k \in DOMAIN heap'[q],
                    heap'[q][k].status = "COMPLETED"
             PROVE  app'[<<q, k>>].phase = "succeeded"
  BY DEF CompletedSucceeded
<1>1. k \in DOMAIN heap[q]
  BY RunnerKeeps DEF Kept
<1>2. <<q, k>> \in App
  BY <1>1, PositionsBounded DEF HInv
<1>3. app[<<q, k>>].phase = "succeeded" => app'[<<q, k>>] = app[<<q, k>>]
  BY <1>2 DEF Starts
<1>4. CASE heap[q][k].status = "COMPLETED"
  BY <1>1, <1>3, <1>4 DEF HInv, CompletedSucceeded
<1>5. CASE heap[q][k].status # "COMPLETED"
  <2>1. Storage(r)
    BY <1>5, RunnerStorage
  <2>2. q = r /\ k = runner[r].i /\ runner[r].pc \in Storing
    BY <1>1, <1>5, <2>1 DEF Storage, Stored
  <2> DEFINE f == runner[r].pc
             v == Incoming(r, f)
             o == heap[r][k]
  <2>3. heap'[r][k] = [o EXCEPT ![f] = v] /\ o \in JobState
    BY <1>1, <2>1, <2>2, ObjectFacts DEF Storage, Stored
  <2>4. f = "status" => v = runner[r].want
    BY DEF Incoming
  <2> HIDE DEF v, o
  <2>5. f = "status" /\ v = "COMPLETED"
    <3>1. [o EXCEPT ![f] = v].status = "COMPLETED" /\ o.status # "COMPLETED"
      BY <1>5, <2>2, <2>3 DEF o
    <3> HIDE DEF f
    <3> QED BY <2>3, <3>1 DEF JobState
  <2>6. Phase(r) = "succeeded"
    BY <2>2, <2>4, <2>5 DEF HInv, PhaseFollowsRunner
  <2> QED BY <1>3, <2>2, <2>6 DEF Phase, CurrentApp
<1> QED BY <1>4, <1>5

\* A removal only concerns the current job of the run that removes, later jobs of the
\* run with the same output, and jobs that are not alone with it.
LEMMA RunnerKeepsOwnOutput ==
  ASSUME IInv, IInv', HInv, NEW r \in Run, RunJobStep(r)
  PROVE  OwnOutput'
<1>1. /\ RunnerStep(r) /\ Starts(r) /\ Steady
      /\ \/ out' = out
         \/ /\ runner[r].pc = "remove" /\ app' = app
            /\ runner'[r].i = runner[r].i
            /\ out' = [out EXCEPT ![CurrentDir(r)] = Cluster!Missing]
  BY RunJobSteps, RunnerSteady
<1>2. ASSUME NEW q \in Run, NEW k \in DOMAIN heap'[q], Alone(q, k)'
      PROVE  Undisturbed(q, k)
  <2>1. k \in DOMAIN heap[q]
    BY <1>1, RunnerKeeps DEF Kept
  <2>2. heap'[q][k].job = heap[q][k].job
    BY <1>1, <2>1, RunnerKeeps DEF Kept
  <2>3. <<q, k>> \in App
    BY <2>1, PositionsBounded DEF HInv
  <2>4. CASE out' = out
    BY <1>1, <2>1, <2>3, <2>4 DEF Undisturbed, Starts
  <2>5. CASE /\ runner[r].pc = "remove" /\ app' = app
             /\ runner'[r].i = runner[r].i
             /\ out' = [out EXCEPT ![CurrentDir(r)] = Cluster!Missing]
    <3>1. CASE OutputDir(heap[q][k].job) # CurrentDir(r)
      BY <2>1, <2>5, <3>1 DEF Undisturbed, HInv, Cluster!ClusterTypeOK
    <3>2. CASE OutputDir(heap[q][k].job) = CurrentDir(r)
      <4> DEFINE i == runner[r].i
      <4>1. /\ i \in DOMAIN heap'[r] /\ heap'[r][i].job = heap[r][i].job
            /\ i \in Nat /\ runner'[r].i = i
            /\ i \in DOMAIN heap[r]
        <5>1. Kept(r) /\ i \in DOMAIN heap[r]
          BY <1>1, RunnerKeeps, RunnerAdvances
        <5> QED BY <5>1, <2>5 DEF Kept, IInv, TypeOK
      <4>2. q = r
        <5> SUFFICES ASSUME q # r PROVE Contended(q, k)'
          BY <1>2 DEF Alone
        <5>1. /\ r \in Run \ {q} /\ i \in DOMAIN heap'[r] /\ i <= runner'[r].i
              /\ OutputDir(heap'[r][i].job) = OutputDir(heap'[q][k].job)
          BY <2>2, <3>2, <4>1 DEF CurrentDir, OutputDir
        <5> QED BY <5>1 DEF Contended
      <4>3. k \in Nat
        BY <2>3 DEF App
      <4>4. ~ (k < i)
        <5> SUFFICES ASSUME k < i PROVE Repeated(q, k)'
          BY <1>2 DEF Alone
        <5>1. /\ i \in DOMAIN heap'[q] /\ i <= runner'[q].i
              /\ heap'[q][i].job = heap'[q][k].job
          BY <2>2, <3>2, <4>1, <4>2 DEF CurrentDir, OutputDir
        <5> QED BY <5>1 DEF Repeated
      <4>5. app[<<q, k>>].phase = "none"
        <5>1. CASE k = i
          BY <2>5, <4>2, <5>1 DEF HInv, PhaseFollowsRunner, Phase, CurrentApp
        <5>2. CASE k > i
          <6>1. ~ (k <= runner[q].i) /\ heap[q] # << >> /\ k \in 1..MaxJobs
            BY <2>1, <2>3, <4>1, <4>2, <4>3, <5>2 DEF App
          <6> QED BY <6>1 DEF HInv, AppsFollowRuns
        <5> QED BY <4>1, <4>3, <4>4, <5>1, <5>2
      <4> QED BY <2>5, <4>5 DEF Undisturbed
    <3> QED BY <3>1, <3>2
  <2> QED BY <1>1, <2>4, <2>5
<1> QED BY <1>1, <1>2, OwnOutputStays DEF HInv

\* A step of runJob with its cluster keeps the invariant.
LEMMA RunJobStepKeepsHInv ==
  ASSUME IInv, IInv', HInv, NEW r \in Run, RunJobStep(r)
  PROVE  HInv'
<1>1. /\ RunnerStep(r) /\ Starts(r) /\ Cluster!ClusterTypeOK'
      /\ \/ out' = out
         \/ out' = [out EXCEPT ![CurrentDir(r)] = Cluster!Missing]
  BY RunJobSteps
<1>2. MissingIsEmpty'
  <2> SUFFICES ASSUME NEW d \in Job PROVE out'[d].dir \/ out'[d] = Cluster!Missing
    BY DEF MissingIsEmpty, Cluster!Missing, Cluster!NoParts, Cluster!Part
  <2>1. out \in [Job -> [dir : BOOLEAN, part : [Cluster!Part -> App \cup {Nil}],
                         success : BOOLEAN]]
    BY DEF HInv, Cluster!ClusterTypeOK
  <2>2. out'[d] = out[d] \/ out'[d] = Cluster!Missing
    BY <1>1, <2>1
  <2> QED BY <2>2 DEF HInv, MissingIsEmpty
<1>3. OwnOutput'
  BY RunnerKeepsOwnOutput
<1> QED
  BY <1>1, <1>2, <1>3, RunnerKeepsApps, RunnerKeepsPhases, RunnerKeepsSucceeded DEF HInv
-----------------------------------------------------------------------------
(* Steps of the cluster *)

\* What a step of application a leaves alone.
AppFrame(a) ==
  /\ UNCHANGED vars
  /\ app[a].phase \in Cluster!Live
  /\ app'[a].dir = app[a].dir /\ app'[a].phase # "none"
  /\ app'[a].phase \in {"starting", "submitted"} => app'[a].done = {}
  /\ \A b \in App \ {a} : app'[b] = app[b]

\* The runs do not see a step of a live application.
LEMMA AppStepUnseen ==
  ASSUME IInv, HInv, NEW a \in App, AppFrame(a)
  PROVE  Steady /\ AppsFollowRuns' /\ PhaseFollowsRunner' /\ CompletedSucceeded'
<1>1. /\ heap' = heap /\ runner' = runner /\ call' = call
      /\ app[a].phase \notin {"none", "succeeded"}
      /\ \A b \in App : app'[b].dir = app[b].dir
      /\ \A b \in App : app'[b].phase = "none" <=> app[b].phase = "none"
      /\ \A b \in App : app[b].phase = "none" \/ app[b].phase = "succeeded"
                          => app'[b] = app[b]
  BY DEF AppFrame, vars, Cluster!Live
<1>2. Steady
  <2>1. runner \in [Run -> [pc : PC, i : Nat, want : Status \ {"PENDING"}]]
    BY DEF IInv, TypeOK
  <2> QED BY <1>1, <2>1 DEF Steady, Kept
<1>3. AppsFollowRuns'
  <2>1. \A b \in App : app'[b].phase \in {"none", "starting", "submitted"} => app'[b].done = {}
    BY DEF AppFrame, HInv, AppsFollowRuns
  <2>2. \A r \in Run, k \in 1..MaxJobs : <<r, k>> \in App
    BY DEF App
  <2> QED BY <1>1, <2>1, <2>2 DEF HInv, AppsFollowRuns
<1>4. PhaseFollowsRunner'
  <2> SUFFICES ASSUME NEW r \in Run, runner[r].pc # "none"
               PROVE  PhaseFits(r)'
    BY <1>1 DEF PhaseFollowsRunner, PhaseFits
  <2>1. CurrentApp(r) \in App
    <3>1. runner[r].i \in DOMAIN heap[r]
      BY DEF IInv, TypeOK
    <3> QED BY <3>1, PositionsBounded DEF HInv, CurrentApp
  <2>2. PhaseFits(r)
    BY PhaseByRun DEF HInv
  <2>3. \/ Phase(r) \in {"none", "succeeded"} /\ Phase(r)' = Phase(r)
        \/ Phase(r) \notin {"none", "succeeded"}
    BY <1>1, <2>1 DEF Phase, CurrentApp
  <2> QED BY <1>1, <2>2, <2>3 DEF PhaseFits
<1>5. CompletedSucceeded'
  <2> SUFFICES ASSUME NEW r \in Run, NEW k \in DOMAIN heap[r],
                      heap[r][k].status = "COMPLETED"
               PROVE  app'[<<r, k>>].phase = "succeeded"
    BY <1>1 DEF CompletedSucceeded
  <2>1. <<r, k>> \in App /\ app[<<r, k>>].phase = "succeeded"
    BY PositionsBounded DEF HInv, CompletedSucceeded
  <2> QED BY <1>1, <2>1
<1> QED BY <1>2, <1>3, <1>4, <1>5

\* A job that is alone with its output while another application is live on it has no
\* client yet.
LEMMA LiveIsAlone ==
  ASSUME IInv, HInv, NEW a \in App, app[a].phase \in Cluster!Live,
         NEW r \in Run, NEW k \in DOMAIN heap[r], <<r, k>> # a,
         app[a].dir = OutputDir(heap[r][k].job), Alone(r, k)
  PROVE  app[<<r, k>>].phase = "none"
<1>1. PICK b \in Run, m \in 1..MaxJobs : a = <<b, m>>
  BY DEF App
<1>2. /\ heap[r] \in Seq(JobState) /\ DOMAIN heap[r] = 1..Len(heap[r]) /\ heap[r] # << >>
      /\ k \in 1..MaxJobs /\ runner[r].i \in Nat /\ MaxJobs \in Nat
  <2>1. heap[r] \in Seq(JobState) /\ runner[r].i \in Nat
    BY DEF IInv, TypeOK
  <2>2. k \in 1..MaxJobs /\ MaxJobs \in Nat
    BY PositionsBounded, OrchestratorAssumption DEF HInv
  <2> QED BY <2>1, <2>2
<1>3. b = r
  <2> SUFFICES ASSUME b # r PROVE Contended(r, k)
    BY DEF Alone
  <2>1. a[1] # r
    BY <1>1
  <2> QED BY <2>1 DEF Contended
<1>4. /\ m \in DOMAIN heap[r] /\ m <= runner[r].i /\ runner[r].pc # "none"
      /\ OutputDir(heap[r][m].job) = OutputDir(heap[r][k].job)
  BY <1>1, <1>2, <1>3 DEF HInv, AppsFollowRuns, Cluster!Live
<1>5. m # k /\ m \in Nat /\ k \in Nat
  BY <1>1, <1>2, <1>3
<1>6. ~ (k < m)
  BY <1>4 DEF Alone, Repeated, OutputDir
<1>7. SUFFICES ASSUME app[<<r, k>>].phase # "none" PROVE FALSE
  OBVIOUS
<1>8. k <= runner[r].i
  BY <1>2, <1>7 DEF HInv, AppsFollowRuns
<1>9. m < runner[r].i /\ m \in 1..(k - 1)
  BY <1>2, <1>1, <1>5, <1>6, <1>8
<1>10. Settled(heap[r][m])
  BY <1>4, <1>9 DEF IInv, JobsRunInOrder
<1>11. heap[r][m].status # "COMPLETED"
  BY <1>1, <1>3, <1>4 DEF HInv, CompletedSucceeded, Cluster!Live
<1>12. heap[r][m].status = "FAILED"
  BY <1>10, <1>11 DEF Settled, Terminal
<1> QED BY <1>4, <1>9, <1>12 DEF Alone, Contended

\* A live application of a run with objects works on the output of its job.
LEMMA LiveDir ==
  ASSUME IInv, HInv, NEW r \in Run, NEW k \in DOMAIN heap[r],
         app[<<r, k>>].phase # "none"
  PROVE  app[<<r, k>>].dir = OutputDir(heap[r][k].job)
<1>1. heap[r] # << >> /\ k \in 1..MaxJobs
  <2>1. heap[r] \in Seq(JobState)
    BY DEF IInv, TypeOK
  <2> QED BY <2>1, PositionsBounded DEF HInv
<1> QED BY <1>1 DEF HInv, AppsFollowRuns

\* It is enough that an application leaves its own output as it should.
LEMMA AppStepKeepsOwnOutput ==
  ASSUME IInv, IInv', HInv, NEW a \in App, AppFrame(a),
         \A d \in Job : d # app[a].dir => out'[d] = out[d],
         MadeBy(a, app[a].dir) => MadeBy(a, app[a].dir)'
  PROVE  OwnOutput'
<1>1. Steady
  BY AppStepUnseen
<1>2. heap' = heap /\ app'[a].dir = app[a].dir /\ app[a].phase \in Cluster!Live
  BY DEF AppFrame, vars
<1> SUFFICES ASSUME NEW r \in Run, NEW k \in DOMAIN heap[r], Alone(r, k)'
             PROVE  MadeBy(<<r, k>>, OutputDir(heap[r][k].job))'
  BY <1>2 DEF OwnOutput
<1> DEFINE d == OutputDir(heap[r][k].job)
<1>3. /\ Alone(r, k) /\ d \in Job /\ <<r, k>> \in App
      /\ OutputDir(heap[r][k].job)' = d
  <2>1. heap[r][k] \in JobState
    BY ObjectFacts
  <2> QED BY <1>1, <1>2, <2>1, AloneBefore, PositionsBounded DEF HInv, OutputDir, JobState
<1>4. MadeBy(<<r, k>>, OutputDir(heap[r][k].job))
  BY <1>3 DEF HInv, OwnOutput
<1>5. CASE <<r, k>> = a
  <2>1. app[a].dir = d
    BY <1>2, <1>5, LiveDir DEF Cluster!Live
  <2>2. MadeBy(a, app[a].dir)
    BY <1>4, <1>5, <2>1
  <2>3. MadeBy(a, app[a].dir)'
    BY <2>2
  <2> QED BY <1>2, <1>3, <1>5, <2>1, <2>3 DEF MadeBy, Cluster!HoldsOutputOf
<1>6. CASE <<r, k>> # a
  <2>1. app'[<<r, k>>] = app[<<r, k>>]
    BY <1>3, <1>6 DEF AppFrame
  <2>2. CASE app[a].dir = d
    <3>1. app[<<r, k>>].phase = "none"
      BY <1>2, <1>3, <1>6, <2>2, LiveIsAlone
    <3> QED BY <2>1, <3>1 DEF MadeBy
  <2>3. CASE app[a].dir # d
    <3>1. out'[d] = out[d]
      BY <1>3, <2>3
    <3> QED BY <1>2, <1>3, <1>4, <2>1, <3>1 DEF MadeBy, Cluster!HoldsOutputOf
  <2> QED BY <2>2, <2>3
<1> QED BY <1>5, <1>6
\* A record of an output directory is given by its fields.
LEMMA OutRecordFields ==
  ASSUME NEW S, NEW o \in [dir : BOOLEAN, part : S, success : BOOLEAN]
  PROVE  o = [dir |-> o.dir, part |-> o.part, success |-> o.success]
OBVIOUS

\* The records that a cluster step makes of it.
WithDir(o) == [o EXCEPT !.dir = TRUE]
WithSuccess(o) == [o EXCEPT !.dir = TRUE, !.success = TRUE]
WithParts(o, x) == [o EXCEPT !.dir = TRUE, !.part = x]

LEMMA OutRecords ==
  ASSUME NEW S, NEW o \in [dir : BOOLEAN, part : S, success : BOOLEAN], NEW x \in S
  PROVE  /\ WithDir(o) = [dir |-> TRUE, part |-> o.part, success |-> o.success]
         /\ WithSuccess(o) = [dir |-> TRUE, part |-> o.part, success |-> TRUE]
         /\ WithParts(o, x) = [dir |-> TRUE, part |-> x, success |-> o.success]
<1>1. PICK n : n = WithDir(o)
  OBVIOUS
<1>2. PICK m : m = WithSuccess(o)
  OBVIOUS
<1>3. PICK l : l = WithParts(o, x)
  OBVIOUS
<1>4. /\ n \in [dir : BOOLEAN, part : S, success : BOOLEAN]
      /\ n.dir = TRUE /\ n.part = o.part /\ n.success = o.success
  BY <1>1 DEF WithDir
<1>5. /\ m \in [dir : BOOLEAN, part : S, success : BOOLEAN]
      /\ m.dir = TRUE /\ m.part = o.part /\ m.success = TRUE
  BY <1>2 DEF WithSuccess
<1>6. /\ l \in [dir : BOOLEAN, part : S, success : BOOLEAN]
      /\ l.dir = TRUE /\ l.part = x /\ l.success = o.success
  BY <1>3 DEF WithParts
<1>7. n = [dir |-> TRUE, part |-> o.part, success |-> o.success]
  BY <1>4, OutRecordFields
<1>8. m = [dir |-> TRUE, part |-> o.part, success |-> TRUE]
  BY <1>5, OutRecordFields
<1>9. l = [dir |-> TRUE, part |-> x, success |-> o.success]
  BY <1>6, OutRecordFields
<1> QED BY <1>1, <1>2, <1>3, <1>7, <1>8, <1>9

\* A step of an application: what it does to its directory and to itself.
LEMMA AppStepKeepsHInv ==
  ASSUME IInv, IInv', HInv, NEW a \in App, ClusterStep(a)
  PROVE  HInv'
<1> DEFINE d == app[a].dir
           n == app'[a]
           AppRecord == [dir : Job \cup {Nil}, phase : Cluster!Phase, done : SUBSET Cluster!Part]
           OutRecord == [dir : BOOLEAN, part : [Cluster!Part -> App \cup {Nil}],
                         success : BOOLEAN]
<1>1. /\ app \in [App -> AppRecord] /\ app[a] \in AppRecord /\ out \in [Job -> OutRecord]
      /\ UNCHANGED vars /\ Cluster!AppStep(a)
  BY DEF HInv, Cluster!ClusterTypeOK, ClusterStep
<1>2. /\ app[a].phase \in Cluster!Live /\ d \in Job /\ out[d] \in OutRecord
  <2>1. app[a].phase \in Cluster!Live
    BY <1>1 DEF Cluster!AppStep, Cluster!CheckOutput, Cluster!SetUp, Cluster!CommitJob,
                Cluster!Abort, Cluster!Publish, Cluster!Live
  <2> QED BY <1>1, <2>1 DEF HInv, Cluster!ClusterTypeOK, Cluster!Live
<1>3. ASSUME app' \in [App -> AppRecord], n.dir = d, n.phase # "none",
             n.phase \in {"starting", "submitted"} => n.done = {},
             \A b \in App \ {a} : app'[b] = app[b],
             out' \in [Job -> OutRecord], \A e \in Job : e # d => out'[e] = out[e],
             out'[d].dir \/ out'[d] = Cluster!Missing,
             MadeBy(a, app[a].dir) => MadeBy(a, app[a].dir)'
      PROVE  HInv'
  <2>1. AppFrame(a)
    BY <1>1, <1>2, <1>3 DEF AppFrame
  <2>2. Cluster!ClusterTypeOK'
    <3>1. \A b \in App : app'[b].phase # "none" => app'[b].dir \in Job
      BY <1>2, <1>3 DEF HInv, Cluster!ClusterTypeOK
    <3> QED BY <1>3, <3>1 DEF Cluster!ClusterTypeOK
  <2>3. MissingIsEmpty'
    <3> SUFFICES ASSUME NEW e \in Job PROVE out'[e].dir \/ out'[e] = Cluster!Missing
      BY DEF MissingIsEmpty, Cluster!Missing, Cluster!NoParts, Cluster!Part
    <3> QED BY <1>3 DEF HInv, MissingIsEmpty
  <2>4. OwnOutput'
    BY <1>3, <2>1, AppStepKeepsOwnOutput
  <2> QED BY <2>1, <2>2, <2>3, <2>4, AppStepUnseen DEF HInv
<1>4. out[d].dir \/ out[d] = Cluster!Missing
  BY <1>2 DEF HInv, MissingIsEmpty
<1>5. ASSUME NEW ph \in Cluster!Phase, app' = [app EXCEPT ![a].phase = ph]
      PROVE  /\ app' \in [App -> AppRecord] /\ n.dir = d /\ n.phase = ph
             /\ n.done = app[a].done /\ \A b \in App \ {a} : app'[b] = app[b]
  BY <1>1, <1>5
<1>6. ASSUME NEW o \in OutRecord, out' = [out EXCEPT ![d] = o]
      PROVE  /\ out' \in [Job -> OutRecord] /\ \A e \in Job : e # d => out'[e] = out[e]
             /\ out'[d] = o
  BY <1>1, <1>2, <1>6
<1>7. /\ app[a].phase \in {"starting", "submitted"} => app[a].done = {}
      /\ Cluster!Live \cup {"failed", "succeeded"} \subseteq Cluster!Phase
  BY DEF HInv, AppsFollowRuns, Cluster!Phase
<1>8. CASE Cluster!CheckOutput(a)
  <2> DEFINE ph == IF out[d].dir THEN "failed" ELSE "submitted"
  <2>1. /\ out' = out /\ app' = [app EXCEPT ![a].phase = ph] /\ ph \in Cluster!Phase
        /\ app[a].phase = "starting" /\ ph # "none"
    BY <1>8 DEF Cluster!CheckOutput, Cluster!Phase, Cluster!Live
  <2>2. MadeBy(a, app[a].dir)'
    <3>1. n.phase = ph /\ n.dir = d
      <4> HIDE DEF ph
      <4> QED BY <1>5, <2>1
    <3>2. n.phase = "submitted" => out[d] = Cluster!Missing
      BY <1>4, <3>1
    <3>3. n.phase \notin {"running", "succeeded"}
      BY <3>1
    <3> QED BY <2>1, <3>1, <3>2, <3>3
            DEF MadeBy, Cluster!Missing, Cluster!NoParts, Cluster!Part
  <2> HIDE DEF ph
  <2> QED BY <1>1, <1>3, <1>4, <1>5, <1>7, <2>1, <2>2
<1>9. CASE Cluster!Abort(a)
  <2>1. /\ out' = out /\ app' = [app EXCEPT ![a].phase = "failed"]
        /\ "failed" \in Cluster!Phase
    BY <1>7, <1>9 DEF Cluster!Abort
  <2>2. MadeBy(a, app[a].dir)'
    BY <1>5, <2>1 DEF MadeBy
  <2> QED BY <1>1, <1>3, <1>4, <1>5, <2>1, <2>2
<1>10. CASE Cluster!SetUp(a)
  <2>1. /\ app' = [app EXCEPT ![a].phase = "running"] /\ "running" \in Cluster!Phase
        /\ out' = [out EXCEPT ![d].dir = TRUE]
        /\ app[a].phase = "submitted" /\ app[a].done = {}
    BY <1>7, <1>10 DEF Cluster!SetUp, Cluster!Live
  <2>2. PICK o \in OutRecord : /\ o = [dir |-> TRUE, part |-> out[d].part,
                                       success |-> out[d].success]
                               /\ out' = [out EXCEPT ![d] = o]
    <3>1. out' = [out EXCEPT ![d] = WithDir(out[d])]
      BY <1>1, <1>2, <2>1 DEF WithDir
    <3> QED BY <1>2, <3>1, OutRecords
  <2>3. o.dir /\ n.phase = "running" /\ n.dir = d /\ n.done = {} /\ out'[d] = o
    BY <1>5, <1>6, <2>1, <2>2
  <2>4. ASSUME MadeBy(a, app[a].dir) PROVE MadeBy(a, app[a].dir)'
    <3>1. out[d] = Cluster!Missing
      BY <2>1, <2>4 DEF MadeBy
    <3>2. o = [dir |-> TRUE, part |-> [p \in Cluster!Part |-> Nil], success |-> FALSE]
      BY <2>2, <3>1 DEF Cluster!Missing, Cluster!NoParts
    <3>3. [p \in Cluster!Part |-> IF p \in {} THEN a ELSE Nil] = [p \in Cluster!Part |-> Nil]
      OBVIOUS
    <3>4. /\ n.phase = "running"
          /\ out'[n.dir] = [dir |-> out'[n.dir].dir,
                            part |-> [p \in Cluster!Part |-> IF p \in n.done THEN a ELSE Nil],
                            success |-> FALSE]
      BY <2>3, <3>2, <3>3
    <3> QED BY <3>4 DEF MadeBy, Cluster!Part
  <2> QED BY <1>1, <1>3, <1>5, <1>6, <2>1, <2>2, <2>3, <2>4
<1>11. CASE Cluster!CommitJob(a)
  <2>1. /\ app' = [app EXCEPT ![a].phase = "succeeded"] /\ "succeeded" \in Cluster!Phase
        /\ out' = [out EXCEPT ![d].dir = TRUE, ![d].success = TRUE]
        /\ app[a].phase = "running" /\ app[a].done = Cluster!Part
    BY <1>7, <1>11 DEF Cluster!CommitJob
  <2>2. PICK o \in OutRecord : /\ o = [dir |-> TRUE, part |-> out[d].part, success |-> TRUE]
                               /\ out' = [out EXCEPT ![d] = o]
    <3>1. out' = [out EXCEPT ![d] = WithSuccess(out[d])]
      BY <1>1, <1>2, <2>1 DEF WithSuccess
    <3> QED BY <1>2, <3>1, OutRecords
  <2>3. o.dir /\ n.phase = "succeeded" /\ n.dir = d /\ out'[d] = o
    BY <1>5, <1>6, <2>1, <2>2
  <2>4. ASSUME MadeBy(a, app[a].dir) PROVE MadeBy(a, app[a].dir)'
    <3>1. out[d].part = [p \in Cluster!Part |-> IF p \in app[a].done THEN a ELSE Nil]
      BY <2>1, <2>4 DEF MadeBy
    <3>2. out[d].part = [p \in Cluster!Part |-> a]
      BY <2>1, <3>1
    <3>3. out'[n.dir] = [dir |-> TRUE, part |-> [p \in Cluster!Part |-> a], success |-> TRUE]
      BY <2>2, <2>3, <3>2
    <3> QED BY <2>3, <3>3 DEF MadeBy, Cluster!HoldsOutputOf, Cluster!Part
  <2> QED BY <1>1, <1>3, <1>5, <1>6, <2>1, <2>2, <2>3, <2>4
<1>12. ASSUME NEW p \in Cluster!Part, Cluster!Publish(a, p) PROVE HInv'
  <2> DEFINE dn == app[a].done \cup {p}
             pt == [out[d].part EXCEPT ![p] = a]
  <2>1. /\ app' = [app EXCEPT ![a].done = dn] /\ dn \in SUBSET Cluster!Part
        /\ out' = [out EXCEPT ![d].dir = TRUE, ![d].part[p] = a]
        /\ app[a].phase = "running"
    BY <1>1, <1>12 DEF Cluster!Publish
  <2>2. pt \in [Cluster!Part -> App \cup {Nil}]
    BY <1>2
  <2>3. PICK o \in OutRecord : /\ o = [dir |-> TRUE, part |-> pt, success |-> out[d].success]
                               /\ out' = [out EXCEPT ![d] = o]
    <3>1. out' = [out EXCEPT ![d] = WithParts(out[d], pt)]
      BY <1>1, <1>2, <2>1 DEF WithParts
    <3> HIDE DEF pt
    <3>2. WithParts(out[d], pt) = [dir |-> TRUE, part |-> pt, success |-> out[d].success]
      BY <1>2, <2>2, OutRecords
    <3>3. [dir |-> TRUE, part |-> pt, success |-> out[d].success] \in OutRecord
      BY <1>2, <2>2
    <3> QED BY <3>1, <3>2, <3>3
  <2>4. /\ app' \in [App -> AppRecord] /\ n.dir = d /\ n.phase = "running"
        /\ n.done = dn /\ \A b \in App \ {a} : app'[b] = app[b]
    <3> HIDE DEF dn
    <3> QED BY <1>1, <2>1
  <2>5. o.dir /\ out'[d] = o
    BY <1>6, <2>3
  <2>6. ASSUME MadeBy(a, app[a].dir) PROVE MadeBy(a, app[a].dir)'
    <3>1. /\ out[d].part = [x \in Cluster!Part |-> IF x \in app[a].done THEN a ELSE Nil]
          /\ out[d].success = FALSE
      BY <2>1, <2>6 DEF MadeBy
    <3>2. pt = [x \in Cluster!Part |-> IF x \in dn THEN a ELSE Nil]
      BY <3>1
    <3>3. out'[n.dir] = [dir |-> out'[n.dir].dir,
                         part |-> [x \in Cluster!Part |-> IF x \in n.done THEN a ELSE Nil],
                         success |-> FALSE]
      <4> HIDE DEF pt, dn
      <4> QED BY <2>3, <2>4, <2>5, <3>1, <3>2
    <3> QED BY <2>4, <3>3 DEF MadeBy, Cluster!Part
  <2> QED BY <1>1, <1>3, <1>6, <2>1, <2>3, <2>4, <2>5, <2>6
<1> QED BY <1>1, <1>8, <1>9, <1>10, <1>11, <1>12 DEF Cluster!AppStep
-----------------------------------------------------------------------------
(* Requests, and the process *)

\* Submit makes as many objects as the request names at most.
LEMMA SubmitBounded ==
  ASSUME IInv, NEW r \in Run, SubmitUnknown(r) \/ SubmitAccepted(r)
  PROVE  \E s \in Seq(Job) : Allocate(r, s) /\ Len(s) <= MaxJobs
<1>1. \A ids \in Requests : Expand(ids) \in Seq(Id)
  BY JobAssumption DEF Expand
<1>2. CASE SubmitUnknown(r)
  <2>1. PICK ids \in Requests : \E k \in DOMAIN Expand(ids) :
          /\ \A m \in 1..(k - 1) : Expand(ids)[m] \in Job
          /\ Allocate(r, SubSeq(Expand(ids), 1, k - 1))
    BY <1>2 DEF SubmitUnknown
  <2> DEFINE t == Expand(ids)
  <2>2. t \in Seq(Id) /\ Len(t) \in Nat /\ Len(t) <= MaxJobs
    BY <1>1, OrchestratorAssumption
  <2> HIDE DEF t
  <2>3. PICK k \in DOMAIN t : /\ \A m \in 1..(k - 1) : t[m] \in Job
                              /\ Allocate(r, SubSeq(t, 1, k - 1))
    BY <2>1 DEF t
  <2>4. k \in 1..Len(t)
    BY <2>2, <2>3
  <2>5. SubSeq(t, 1, k - 1) \in Seq(Job) /\ Len(SubSeq(t, 1, k - 1)) = k - 1
    BY <2>2, <2>3, <2>4, SubSeqProperties
  <2>6. k - 1 <= MaxJobs
    BY <2>2, <2>4, OrchestratorAssumption
  <2> QED BY <2>3, <2>5, <2>6
<1>3. CASE SubmitAccepted(r)
  <2>1. PICK ids \in Requests : /\ \A k \in DOMAIN Expand(ids) : Expand(ids)[k] \in Job
                                /\ Allocate(r, Expand(ids))
    BY <1>3 DEF SubmitAccepted
  <2> DEFINE t == Expand(ids)
  <2>2. t \in Seq(Id) /\ Len(t) <= MaxJobs /\ Allocate(r, t)
        /\ \A k \in DOMAIN t : t[k] \in Job
    BY <1>1, <2>1, OrchestratorAssumption
  <2> HIDE DEF t
  <2>3. t \in Seq(Job)
    BY <2>2
  <2> QED BY <2>2, <2>3
<1> QED BY <1>2, <1>3

\* A run whose request is being handled has no client yet, and no other run sees it.
LEMMA SubmitKeepsHInv ==
  ASSUME IInv, IInv', HInv, NEW r \in Run, Submit(r), UNCHANGED cluster
  PROVE  HInv'
<1>1. /\ TypeOK /\ out' = out /\ app' = app /\ call[r].code = "none" /\ heap[r] = << >>
      /\ runner[r].pc = "none" /\ lock' = lock
  BY DEF cluster, IInv, CallsFollowRuns, Submit, RejectMalformed, SubmitUnknown, SubmitAccepted
<1>2. \A k \in 1..MaxJobs : app[<<r, k>>].phase = "none"
  BY <1>1 DEF HInv, AppsFollowRuns
<1>3. /\ \A q \in Run \ {r} : /\ heap'[q] = heap[q] /\ runner'[q] = runner[q]
                              /\ call'[q] = call[q]
      /\ Len(heap'[r]) <= MaxJobs
      /\ \A k \in DOMAIN heap'[r] : heap'[r][k].status = "PENDING"
      /\ \/ runner'[r].pc = "none"
         \/ /\ runner'[r].pc = "setStatus" /\ runner'[r].want = "RUNNING"
            /\ runner'[r].i = 1
  <2>1. CASE RejectMalformed(r)
    <3>1. heap' = heap /\ runner' = runner /\ call' = [call EXCEPT ![r].code = "rejected"]
      BY <2>1 DEF RejectMalformed
    <3>2. Run \subseteq Caller /\ call \in [Caller -> Call]
      BY <1>1 DEF TypeOK, Caller
    <3>3. \A q \in Run \ {r} : call'[q] = call[q]
      BY <3>1, <3>2
    <3>4. Len(heap'[r]) <= MaxJobs /\ DOMAIN heap'[r] = {}
      BY <1>1, <3>1, OrchestratorAssumption
    <3> QED BY <1>1, <3>1, <3>3, <3>4
  <2>2. CASE SubmitUnknown(r) \/ SubmitAccepted(r)
    <3>1. PICK s \in Seq(Job) : Allocate(r, s) /\ Len(s) <= MaxJobs
      BY <2>2, SubmitBounded
    <3>2. /\ Len(heap'[r]) = Len(s)
          /\ \A k \in DOMAIN heap'[r] : heap'[r][k] = NewState(s[k])
          /\ \A q \in Run \ {r} : heap'[q] = heap[q]
      BY <1>1, <3>1, AllocateChanges
    <3>3. \A j : NewState(j).status = "PENDING"
      BY DEF NewState
    <3>4. PICK u \in Seq(Job) : Accepts(r, u) \/ Rejects(r)
      BY <2>2, SubmitCreation DEF Creation
    <3>5. Run \subseteq Caller /\ call \in [Caller -> Call]
          /\ runner \in [Run -> [pc : PC, i : Nat, want : Status \ {"PENDING"}]]
      BY <1>1 DEF TypeOK, Caller
    <3>6. \A q \in Run \ {r} : call'[q] = call[q] /\ runner'[q] = runner[q]
      BY <3>4, <3>5 DEF Accepts, Rejects
    <3>7. \/ runner'[r].pc = "none"
          \/ /\ runner'[r].pc = "setStatus" /\ runner'[r].want = "RUNNING"
             /\ runner'[r].i = 1
      BY <1>1, <3>4, <3>5 DEF Accepts, Rejects
    <3> QED BY <3>1, <3>2, <3>3, <3>6, <3>7
  <2> QED BY <2>1, <2>2 DEF Submit
<1>4. Steady
  <2>1. runner \in [Run -> [pc : PC, i : Nat, want : Status \ {"PENDING"}]]
    BY <1>1 DEF TypeOK
  <2> QED BY <1>1, <1>3, <2>1 DEF Steady, Kept
<1>5. AppsFollowRuns'
  <2>1. \A q \in Run, k \in 1..MaxJobs : app[<<q, k>>].phase # "none" => q # r
    BY <1>2
  <2> QED BY <1>1, <1>3, <2>1 DEF HInv, AppsFollowRuns
<1>6. PhaseFollowsRunner'
  <2>1. PhaseFits(r)'
    <3>1. app[<<r, 1>>].phase = "none"
      BY <1>2, OrchestratorAssumption
    <3> QED BY <1>1, <1>3, <3>1 DEF PhaseFits, Phase, CurrentApp
  <2>2. ASSUME NEW q \in Run \ {r} PROVE PhaseFits(q)'
    <3>1. PhaseFits(q)
      BY PhaseByRun DEF HInv
    <3> QED BY <1>1, <1>3, <3>1 DEF PhaseFits, Phase, CurrentApp
  <2>3. \A q \in Run : PhaseFits(q)'
    BY <2>1, <2>2
  <2> QED BY <2>3 DEF PhaseFits, PhaseFollowsRunner
<1>7. CompletedSucceeded'
  <2> SUFFICES ASSUME NEW q \in Run, NEW k \in DOMAIN heap'[q],
                      heap'[q][k].status = "COMPLETED"
               PROVE  app'[<<q, k>>].phase = "succeeded"
    BY DEF CompletedSucceeded
  <2>1. q # r /\ heap'[q] = heap[q]
    BY <1>3
  <2> QED BY <1>1, <2>1 DEF HInv, CompletedSucceeded
<1>8. OwnOutput'
  <2>1. ASSUME NEW q \in Run, NEW k \in DOMAIN heap'[q], Alone(q, k)'
        PROVE  Undisturbed(q, k)
    <3>1. CASE q = r
      <4>1. k \in 1..MaxJobs
        <5>1. heap'[q] \in Seq(JobState) /\ Len(heap'[q]) \in Nat /\ MaxJobs \in Nat
          BY OrchestratorAssumption DEF IInv, TypeOK
        <5>2. k \in 1..Len(heap'[q]) /\ Len(heap'[q]) <= MaxJobs
          BY <1>3, <2>1, <3>1, <5>1
        <5> QED BY <5>1, <5>2
      <4> QED BY <1>1, <1>2, <3>1, <4>1 DEF Undisturbed
    <3>2. CASE q # r
      BY <1>1, <1>3, <3>2 DEF Undisturbed
    <3> QED BY <3>1, <3>2
  <2> QED BY <1>4, <2>1, OwnOutputStays DEF HInv
<1>9. Cluster!ClusterTypeOK' /\ MissingIsEmpty'
  BY <1>1 DEF HInv, Cluster!ClusterTypeOK, MissingIsEmpty, Cluster!Missing,
              Cluster!NoParts, Cluster!Part
<1> QED BY <1>5, <1>6, <1>7, <1>8, <1>9 DEF HInv

\* After a stop no run has an object, whatever its clients and applications do.
LEMMA StopKeepsHInv ==
  ASSUME IInv, HInv, Stop, UNCHANGED cluster
  PROVE  HInv'
<1>1. /\ out' = out /\ app' = app
      /\ \A r \in Run : heap'[r] = << >> /\ runner'[r].pc = "none"
  BY DEF cluster, Stop, Idle
<1>2. \A r \in Run : DOMAIN heap'[r] = {} /\ Len(heap'[r]) = 0
  BY <1>1
<1>3. \A r \in Run : call[r].code \notin {"none", "rejected"}
                       => call'[r].code \notin {"none", "rejected"}
  <2> SUFFICES ASSUME NEW r \in Run, call[r].code \notin {"none", "rejected"}
               PROVE  call'[r].code \notin {"none", "rejected"}
    OBVIOUS
  <2>1. r \in Caller /\ call[r] \in Call
    BY DEF IInv, TypeOK, Caller
  <2>2. call'[r] = call[r] \/ call'[r].code = "lost"
    BY <2>1 DEF Stop, Call
  <2> QED BY <2>2
<1>4. AppsFollowRuns'
  BY <1>1, <1>2, <1>3, OrchestratorAssumption DEF HInv, AppsFollowRuns
<1>5. PhaseFollowsRunner' /\ CompletedSucceeded' /\ OwnOutput'
  BY <1>1, <1>2 DEF PhaseFollowsRunner, CompletedSucceeded, OwnOutput
<1>6. Cluster!ClusterTypeOK' /\ MissingIsEmpty'
  BY <1>1 DEF HInv, Cluster!ClusterTypeOK, MissingIsEmpty, Cluster!Missing,
              Cluster!NoParts, Cluster!Part
<1> QED BY <1>4, <1>5, <1>6 DEF HInv
-----------------------------------------------------------------------------
(* The composition *)

\* Every step of the composition is a step of the registry or none.
LEMMA RegistrySteps ==
  ASSUME IInv, HInv, [Next2]_allVars
  PROVE  [Next]_vars
<1>1. ASSUME NEW r \in Run, RunJobStep(r) PROVE Next
  BY <1>1, RunJobSteps DEF Next
<1>2. ASSUME NEW r \in Run, Submit(r) PROVE Next
  BY <1>2 DEF Next
<1>3. ASSUME NEW a \in App, ClusterStep(a) PROVE UNCHANGED vars
  BY <1>3 DEF ClusterStep
<1>4. Stop \/ Restart => Next
  BY DEF Next
<1>5. UNCHANGED allVars => UNCHANGED vars
  BY DEF allVars, vars
<1> QED BY <1>1, <1>2, <1>3, <1>4, <1>5 DEF Next2

LEMMA Init2HInv == Init2 => IInv /\ HInv
<1> SUFFICES ASSUME Init2 PROVE IInv /\ HInv
  OBVIOUS
<1>1. IInv
  BY InitIInv DEF Init2
<1>2. /\ \A r \in Run : heap[r] = << >> /\ runner[r].pc = "none"
      /\ out = [d \in Job |-> Cluster!Missing]
      /\ app = [a \in App |-> [dir |-> Nil, phase |-> "none", done |-> {}]]
  BY DEF Init2, Init, Idle, Cluster!ClusterInit
<1>3. \A r \in Run : DOMAIN heap[r] = {} /\ Len(heap[r]) = 0
  <2>1. DOMAIN << >> = {} /\ Len(<< >>) = 0
    OBVIOUS
  <2> QED BY <1>2, <2>1, Zenon
<1>4. \A a \in App : app[a].phase = "none" /\ app[a].dir = Nil /\ app[a].done = {}
  BY <1>2
<1>5. Cluster!ClusterTypeOK
  <2>1. Cluster!Missing \in [dir : BOOLEAN, part : [Cluster!Part -> App \cup {Nil}],
                             success : BOOLEAN]
    BY DEF Cluster!Missing, Cluster!NoParts
  <2>2. [dir |-> Nil, phase |-> "none", done |-> {}]
          \in [dir : Job \cup {Nil}, phase : Cluster!Phase, done : SUBSET Cluster!Part]
    BY DEF Cluster!Phase
  <2> QED BY <1>2, <1>4, <2>1, <2>2 DEF Cluster!ClusterTypeOK
<1>6. AppsFollowRuns
  <2>1. \A r \in Run, k \in 1..MaxJobs : <<r, k>> \in App
    BY DEF App
  <2> QED BY <1>3, <1>4, <2>1, OrchestratorAssumption DEF AppsFollowRuns
<1>7. PhaseFollowsRunner /\ CompletedSucceeded /\ OwnOutput /\ MissingIsEmpty
  BY <1>2, <1>3 DEF PhaseFollowsRunner, CompletedSucceeded, OwnOutput, MissingIsEmpty
<1> QED BY <1>1, <1>5, <1>6, <1>7 DEF HInv

LEMMA Next2KeepsHInv ==
  ASSUME IInv, HInv, [Next2]_allVars
  PROVE  IInv' /\ HInv'
<1>1. IInv'
  BY RegistrySteps, NextKeepsIInv
<1>2. ASSUME NEW r \in Run, RunJobStep(r) PROVE HInv'
  BY <1>1, <1>2, RunJobStepKeepsHInv
<1>3. ASSUME NEW r \in Run, Submit(r), UNCHANGED cluster PROVE HInv'
  BY <1>1, <1>3, SubmitKeepsHInv
<1>4. ASSUME NEW a \in App, ClusterStep(a) PROVE HInv'
  BY <1>1, <1>4, AppStepKeepsHInv
<1>5. ASSUME Stop, UNCHANGED cluster PROVE HInv'
  BY <1>5, StopKeepsHInv
<1>6. ASSUME UNCHANGED <<heap, runner, call, out, app>> PROVE HInv'
  <2>1. Cluster!ClusterTypeOK' /\ MissingIsEmpty'
    BY <1>6 DEF HInv, Cluster!ClusterTypeOK, MissingIsEmpty, Cluster!Missing,
                Cluster!NoParts, Cluster!Part
  <2>2. AppsFollowRuns' /\ CompletedSucceeded'
    BY <1>6 DEF HInv, AppsFollowRuns, CompletedSucceeded
  <2>3. PhaseFollowsRunner'
    BY <1>6 DEF HInv, PhaseFollowsRunner, Phase, CurrentApp
  <2>4. Steady
    <3>1. runner \in [Run -> [pc : PC, i : Nat, want : Status \ {"PENDING"}]]
      BY DEF IInv, TypeOK
    <3> QED BY <1>6, <3>1 DEF Steady, Kept
  <2>5. OwnOutput'
    BY <1>1, <1>6, <2>4, OwnOutputStays DEF HInv, Undisturbed
  <2> QED BY <2>1, <2>2, <2>3, <2>5 DEF HInv
<1>7. Restart /\ UNCHANGED cluster => UNCHANGED <<heap, runner, call, out, app>>
  BY DEF Restart, cluster
<1>8. UNCHANGED allVars => UNCHANGED <<heap, runner, call, out, app>>
  BY DEF allVars
<1> QED BY <1>1, <1>2, <1>3, <1>4, <1>5, <1>6, <1>7, <1>8 DEF Next2

\* The invariants hold of the composition.
LEMMA CompositionInvariance == Spec2 => [](IInv /\ HInv)
<1>1. Init2 => IInv /\ HInv
  BY Init2HInv
<1>2. (IInv /\ HInv) /\ [Next2]_allVars => (IInv /\ HInv)'
  BY Next2KeepsHInv
<1> QED BY <1>1, <1>2, PTL DEF Spec2

\* With a real cluster under it, the registry does nothing that it does not do alone:
\* what is proved of every behaviour of JobRegistry holds here too.
THEOREM RegistryPreserved == Spec2 => Init /\ [][Next]_vars
<1>1. Init2 => Init
  BY DEF Init2
<1>2. IInv /\ HInv /\ [Next2]_allVars => [Next]_vars
  BY RegistrySteps
<1> QED BY <1>1, <1>2, CompositionInvariance, PTL DEF Spec2

\* What a client may rely on is RunLifecycle also when HDFS and YARN decide how the
\* jobs of runJob end: batches change a job at a time and in order, or are all lost.
THEOREM ComposedRefinement == Spec2 => Lifecycle!Init /\ [][Lifecycle!Next]_Batches
<1>1. Init2 => Lifecycle!Init
  BY InitRefines DEF Init2
<1>2. IInv /\ HInv /\ [Next2]_allVars => [Lifecycle!Next]_Batches
  BY RegistrySteps, NextRefines
<1> QED BY <1>1, <1>2, CompositionInvariance, PTL DEF Spec2

\* The mutex of the registry is held by a goroutine exactly while it stores, also when
\* the steps of the goroutines depend on clients and applications.
THEOREM ComposedLockDiscipline == Spec2 => []LockOwnerStores
<1>1. IInv /\ HInv => LockOwnerStores
  BY DEF IInv
<1> QED BY <1>1, CompositionInvariance, PTL

\* A job that runJob reports COMPLETED has its own, whole output in HDFS, although the
\* removal of old output may fail, the client may lose touch with its application and
\* the orchestrator may stop at any time, unless another run, a client left behind, or
\* the same job named again later in the request has got to that directory.
THEOREM OutputIsOwn == Spec2 => []CompletedMeansOutput
<1>1. IInv /\ HInv => CompletedMeansOutput
  <2> SUFFICES ASSUME IInv, HInv, NEW r \in Run, NEW k \in DOMAIN heap[r],
                      heap[r][k].status = "COMPLETED", ~ Contended(r, k), ~ Repeated(r, k)
               PROVE  Cluster!HoldsOutputOf(OutputDir(heap[r][k].job), <<r, k>>)
    BY DEF CompletedMeansOutput
  <2>1. app[<<r, k>>].phase = "succeeded"
    BY DEF HInv, CompletedSucceeded
  <2>2. MadeBy(<<r, k>>, OutputDir(heap[r][k].job))
    BY DEF HInv, OwnOutput, Alone
  <2> QED BY <2>1, <2>2 DEF MadeBy
<1> QED BY <1>1, CompositionInvariance, PTL
=============================================================================
