# A TLA+ verification of the Hadoop loan-risk pipeline

The repository runs four Hadoop Streaming jobs over the LendingClub dataset and
shows their results: a **job orchestrator** (Go) starts the jobs, **mappers and
reducers** (Python) compute four tables, a **result aggregator** (Go) reads the
tables from HDFS and serves them, an **API gateway** (Go) and a **dashboard**
(one HTML page) are in front. Scripts do by hand what the orchestrator does on
request.

This directory holds TLA+ models of these parts, TLC configurations that check
them on small instances, and proofs for all instances. `PROJECT.json` maps every
definition to the lines it stands for (`map`), lists the runs, and says what is
found and what is left.

* [Inventory](#inventory)
* [Modules](#modules)
* [Runs](#runs)
* [Fairness and other assumptions](#fairness-and-other-assumptions)
* [Proofs](#proofs)
* [Where the code and its documentation disagree](#where-the-code-and-its-documentation-disagree)
* [Not modelled, and the plan](#not-modelled-and-the-plan)

To check a run: `tlc -config X.cfg M`; a proof module: `tlapm M.tla`.

## Inventory

| part | state it keeps | operations | correct when |
|---|---|---|---|
| job-orchestrator registry (`orchestrator/hadoop.go`, `models.go`) | `states` (map `<uuid>:<job>` → `*JobState`), an `RWMutex`; all in memory | `Submit`, `GetState`, `setStatus` | jobs run in order, one at a time; records are consistent; pollers may trust what they read |
| its runner (`runJob`, one goroutine per accepted request) | position in the request | remove output, `hadoop jar`, record outcome | COMPLETED means the output is there; every run ends |
| its HTTP handlers (`main.go`) | the exchange | `POST /jobs/run`, `GET /jobs/{id}/status`, `GET /jobs` | replies show the registry |
| HDFS and YARN (external) | output directories, applications | as the code uses them | – |
| result-aggregator (`result-aggregator/main.go`, `parsers/`, `models/risk.go`) | none; reads HDFS on every request | four tables, one summary | a table is the whole output of one job execution; a quiet system is served completely; no group looks safer than its counts say |
| mappers (`mapreduce/job*/mapper.py`) | none | row → lines | a loan counts once, as what it is, in either layout of the dataset; jobs 1 and 4 agree |
| reducers (`mapreduce/job*/reducer.py`) | current key and its sums | line by line | one whole row per key |
| a job as a whole (`job*/run.sh`, `hadoop.go:152`) | splits, lines, attempts | map, shuffle, reduce, retries | the part file is the table of the dataset |
| api-gateway (`api-gateway/`) | none; a call's clocks | proxies with 10 s and 30 s timeouts, a server with 15 s and 30 s | a failed call is not taken for an answer; the clocks leave room for one another |
| dashboard (`dashboard/templates/index.html`) | Run button, poll counter, the run it polls; job dots and tables | run all, poll, reload; refresh every 30 s | "done" is only said when no job is left; one page never has two runs at work unless it missed something; the button comes back; what is shown becomes what is there |
| scripts (`run-all-jobs.sh`, `job*/run.sh`, `fetch-results.sh`) | local copies of the tables | run the jobs, fetch the results | what they report at the end is so |
| dataset upload (`upload-dataset.sh`) | archive, file, normalised copy; in HDFS the dataset and the copy `put` makes beside it | download, gunzip, put (left out when their result is there), normalise | "upload complete" means that the dataset and nothing else is there; a dataset in HDFS is not lost |
| container entry point (`entrypoint-master.sh`) | the NameNode's directory on a volume | format once, start daemons, wait, make directories, start services | a boot ends and never formats a dataset away |

**How they interact.** The dashboard calls the gateway, and the gateway calls the
orchestrator and the aggregator over HTTP. The orchestrator starts `hdfs dfs -rm`
and `hadoop jar` as child processes and learns of an application only by the exit
status of its client. The aggregator uses WebHDFS. The orchestrator, the scripts
and the aggregator share the output directories in HDFS, and nothing excludes
one of them while another is at work. All of them depend on a NameNode that the
entry point starts once.

**What is hard.**
* *Shared memory:* handlers encode `*JobState` objects after the lock is
  released, while a goroutine stores their fields (`main.go:86`, `main.go:103`).
* *Shared files:* `rm -r -f` and a rewrite of a directory that someone reads
  or writes (`hadoop.go:150`, `main.go:99` of the aggregator).
* *Partial failure:* a request rejected half-way through (`hadoop.go:114`),
  a removal whose error is dropped, an application that leaves its directory
  behind, a skipped file (`main.go:102`).
* *Crashes:* the registry is lost, the applications go on; a stop in the middle
  of a format; a kill in any step of the upload, whose files the next call finds.
* *Timeouts:* three clocks in the gateway, timers of the page that overlap, a
  submission that is served after its caller has given it up.
* *Liveness:* one goroutine per request, no timeout on `cmd.Run`.
* *Data:* a row does not say which layout it has; reducers rely on the order of
  their input and on the pairs of lines job 4 prints.

The full list is under `hazards` in `PROJECT.json`, each at its line with the
properties that watch over it.

## Modules

```
RunLifecycle  <--implements--  JobRegistry  <--EXTENDS--  Orchestrator --INSTANCE-->  HadoopCluster
       ^                           ^                           ^                       ^        ^
       |                   JobRegistry_proofs  <------  Orchestrator_proofs            |        |
       | INSTANCE                                                 ResultAggregator ----+        |
   Dashboard --INSTANCE--> Gateway <--INSTANCE-- ResultsPage             ^                       |
       ^                                                     ResultAggregator_proofs            |
   Dashboard_proofs                                          JobScripts --EXTENDS--> MasterNode |
LoanMappers  <--EXTENDS--  StreamingJob  --EXTENDS-->  Reducer    |  ^--JobScripts_proofs        |
                                ^                                 +------------EXTENDS-----------+
                        StreamingJob_proofs

RiskReport  <--EXTENDS--  RiskReport_proofs            ResultsPage  <--EXTENDS--  ResultsPage_proofs
```

Every `MCx` module extends `x` with the values its configurations need.

**`RunLifecycle`** – the promise of the orchestrator without its machinery: an
accepted batch runs in order, each job PENDING → RUNNING → COMPLETED or FAILED, a
failed job does not stop the batch, and all batches are lost together when the
process goes.

**`JobRegistry`** – the orchestrator, one action per step that another thread can
see between.
* `heap[r]` are the `JobState` objects of request r in order, `states[r]` the map
  (two objects may share a key, the map keeps the last), `lock` the mutex,
  `runner[r]` the goroutine with its program counter, `call[c]` the HTTP exchange.
* `RejectMalformed`, `SubmitUnknown`, `SubmitAccepted` are the three ways through
  the POST handler and `Submit`. `Submit` holds the mutex while it works and
  touches nothing that another holder could see half-way, so it is one step.
* `AcquireLock`, `StoreStatus`, `StoreError`, `StoreCompletedAt` are `setStatus`
  store by store; `FindStreamingJar`, `RemoveOutput`, `Launch`, `ExitZero`,
  `ExitNonzero`, `StoreAppId` the rest of `runJob`.
* `StartGet` is `GetState` with its read lock; `LoadField` reads one field of a
  document. A read that meets a store may return the old value, the new one, or
  for a string a mix of both words, and then the encoder may panic
  (`EncoderPanics`, the connection is dropped).
* `Stop` and `Restart`: the registry is empty afterwards.

**`HadoopCluster`** – external: what the code relies on in HDFS and YARN. A client
checks that its output does not exist, the application makes the directory, each
reduce task moves its part file there, the job adds `_SUCCESS`. A failure leaves
what is there. The number of part files is `mapreduce.job.reduces=1`.

**`Orchestrator`** – `JobRegistry` conjoined with `HadoopCluster`: `RemoveOutput`
removes or fails, `Launch` starts a client, `ExitZero` and `ExitNonzero` need a
client that has ended that way. The clients in the constant `LoseTouch` may also
lose touch with an application that goes on. Applications do not notice that the
orchestrator stops.

**`ResultAggregator`** – the handlers, one WebHDFS call per step, while an
unrestricted environment (`RunsJobs`: any removal, any application, any time)
works on the directories. It stands for the orchestrator and the scripts alike.

**`RiskReport`** – what the aggregator makes of the tables: `LineOf` is what a reducer
prints of a group (rates rounded to two decimals, ties either way), `ParsedLine`
and `ParseFails` the parsers, `ClassifyRisk` the tiers, `WriteJSON` the encoder,
which has no NaN and makes `null` of no rows, `GetSummary` the arithmetic of
`buildRiskSummary`. A table is a set: `sort.Slice` keeps no order among equals. Of
the texts, which are `ResultAggregator`'s part, only the number of fields and
whether they are numbers is kept.

**`Gateway`** – one call of the page and what becomes of it, with its clocks: `age` since
the request came (the server's `ReadTimeout` and `WriteTimeout`), `wait` since the
gateway began to ask (`ClientTimeout`, 10 s or 30 s). `Relay(c)` is whatever may end
it; `Serve(c, answer)` is the moment at which the service behind does what was
asked, and belongs to the module that uses this one. `told` is what the page gets:
an answer, `refused` when nothing has been asked of the service, `unsure` or `cut`
when it cannot know. `Api` says where the page's calls go, see the findings.

**`Dashboard`** – the page's script in front of the gateway and of the orchestrator,
which is an instance of `RunLifecycle`: `JobRegistry` is checked to implement it, so
the page is checked against what the orchestrator promises and not against its
machinery.
* `page` holds the button, the run that is polled, `attempts`, the job whose
  status is fetched next, and `allDone`. Two ghost fields record how the last
  polling ended and whether the page has ever missed what became of a run.
* `Click` opens the POST, `Accept` is the orchestrator's part in it, `EndSubmit` what
  the page makes of the reply. `late` counts the submissions that nobody waits
  for any more, and `AcceptLate` serves them. `StartPoll`, one `FetchStatus` per job
  (it takes a 404, a 503 or an exception for a finished job), `EndPoll`. `Reload`
  forgets everything.
* There is one page, with one call open at a time: the loads are `ResultsPage`'s.

**`ResultsPage`** – the loads of the same page: each opens all its calls at once and
paints what they brought when the last one has returned (`Promise.allSettled`). The
timer (`Refresh`) begins one every 30 s, the user or the end of a polling another
one (`LoadOnDemand`, up to `MaxOnDemand` of them at a time). An answer is a version number, the even
ones can be read. `PollPaints` is what the poller does to the dots, `Change` what the
jobs do to the outputs. `calm` and `doomed` are ghosts: for how long nothing has
changed or failed, and which job a poll has found FAILED without an output.

**`MasterNode`** – `entrypoint-master.sh` and `upload-dataset.sh`. `boot` is how far the
entry point is, `meta` the NameNode's directory, torn while it is being formatted:
the script tests for the directory and not for what is in it. `Stop` ends the
container anywhere, Docker starts it again (`PowerOn`); `Die` takes the NameNode
alone. `local` are the three files on the host's disk, and `KillUpload` leaves that of
the present step cut off. `put -f` is three steps: `BeginPut` opens the file
`._COPYING_` beside the target (`copying`), `Put` completes it and deletes the
target, `Rename` gives it the target's name. One that breaks off (`PutFails`,
`KillUpload`) may leave the copy in the input directory, cut off or complete
(`LeftCopies`). `Verify` ends in `done`: "Dataset upload complete".

**`JobScripts`** – `MasterNode` and `HadoopCluster` together with `run-all-jobs.sh` (the four
`run.sh` are the same but for names), `fetch-results.sh`, and the orchestrator
reduced to what it does to HDFS (`Meddle`). The operator runs one script at a time.
`run.input[d]` is what was in the input directory (`Contents`: the dataset, and a copy
that a `put` has left) when the application for directory `d` began to read it.

**`LoanMappers`** – the four mappers as operators over rows. A row has the
columns that any mapper looks at in any layout; a cell is what the scripts tell
apart. `LoanRow` puts a loan into a row of a given layout with junk in the other
columns, `Expected` says what it should count for.

**`Reducer`** – `reducer.py` line by line. One module stands for all four: a line
adds to the loans and to the defaults of its key, job 4 adds rates as well. Rows
keep sums and not quotients: rounding is left out.

**`StreamingJob`** – a job from rows to the part file: map tasks over splits, a
shuffle that groups by key in any order otherwise, the reduce task, and failing
attempts of both.

## Runs

| run | instance | shows |
|---|---|---|
| `registry_one_run` | 1 request of 5 shapes, 1 poller | types, order of execution, documents, polls, keys, refinement of `RunLifecycle` with liveness |
| `orchestrator` | 2 requests (a job named twice; another one), sharing an output or not, clients of one may lose touch | COMPLETED means the job's own whole output, unless something else has got to it; mutex discipline; every accepted run ends |
| `aggregator_concurrent` | 2 directories, 3 applications, 1 client, namenode failing | a table is one whole output or nothing; quiet answers are complete and in their places |
| `risk_report` | tables of up to 3 groups, 10 pairs of counts around the thresholds, foreign lines, NaN | no group looks safer than the documented tiers have it, 25% left open; tables are answered whole; the summary agrees with the tables |
| `streaming_job` | 2 splits, up to 3 rows, 4 jobs; 10,000 single rows; reduce tasks on all grouped inputs of up to 4 lines | each mapper counts each loan as what it is; jobs 1 and 4 agree on every row; rows are whole; the part file is the table of the dataset |
| `dashboard` | 1 page, 2 runs of 2 jobs, 3 attempts, 5 s clock | done means done; one run at a time; no call to the orchestrator is cut off; the button comes back |
| `results_page` | 2 overlapping loads of a table and the summary, 3 versions, 15 s clock | the page is up to date 90 s after the last change; loads do not pile up; what loads may paint over |
| `operations` | 2 jobs, 2 applications, 1 stop or kill, 1 round of the wait | what "upload complete", "All Jobs Completed" and "Results saved" mean; the dataset is not lost; the boot ends |

The four runs that expect a violation are below, with the line each refutes.

**Bounds, and why they are enough.**
* *Requests.* The shapes cover the alias, a job named twice around another, an
  unknown id after a known one, the alias where it is not expanded, the empty
  list. Goroutines of different runs share only the mutex, so two runs show all
  pairs of steps; the liveness of each depends on the mutex and on its own
  steps. The proofs remove the bounds.
* *Pollers.* GET changes nothing another caller reads, so one poller is as good
  as many. It polls any key, and a bare run id.
* *Aggregator.* Handlers share no memory, so one client is enough. A table is
  read from one directory, and the summary reads one directory after another
  in the same way, so two directories stand for its three. Three applications are a
  writer, the one that replaces it between two calls, and one without rows.
* *Risk report.* A tier depends on one group, so the ten pairs of counts decide:
  both sides of each threshold, on it, and the closest that is rounded onto it.
  Three groups are a worst, a best and one that is neither; two keys may tie. The
  proofs remove the bounds on tables, counts and lines.
* *Reducer.* Four lines over three keys hold every order of "first, same, next,
  last". The proofs remove the bound.
* *Mappers.* In `streaming_job` too, as datasets of one row. The cells are all the classes a script can tell apart, junk is
  varied one cell at a time around a calm row; widths are those next to every
  limit. The proofs remove the bound.
* *Streaming job.* Two splits of up to two rows, three in all, print at most six
  lines. The proofs remove the bounds on splits, rows and lines.
* *Dashboard.* Three attempts stand for 180: the first, one between, the last.
  Two jobs are enough for one poll to read two statuses at different moments,
  two runs for one that is lost or missed and one that is polled. A step of the
  clock is 5 s, the greatest common divisor of the gateway's 10, 15 and 30. The
  proofs remove the bounds on runs, jobs and attempts.
* *Results page.* Of the loads that the timer begins one at most is under way for
  any length of time (that is `LoadsDoNotPileUp`), and of the others one (`MaxOnDemand`; the
  proofs have any number), so two loads: when the timer fires and both are taken, the calls of the one it
  has begun before are due at the same instant, and end first. The calls of a load are independent and alike but for the dot, so a table
  with a dot and the summary stand for the five. The 10 s timeout plays no part, so
  a step is 15 s. Three versions: an output, its removal, the new one. The proofs
  remove the bounds on loads, tables and versions.
* *Operations.* Two jobs are a first and a next one. Two applications let one call
  of `run-all-jobs.sh` end, or one fail or be left behind before another. One stop or
  kill (`MaxFaults`) may hit any step of a boot, of an upload or of a script at work;
  aborting applications, failing commands and killed `run-all-jobs.sh` do not count
  towards it. The proofs remove all of these but for the boot's end.

Deadlock is checked except in `streaming_job`, where a task that has ended has
nothing left to do. In the other runs something can always happen (a poll, a
restart, a new request, another call of a script).

## Fairness and other assumptions

* Weak fairness of `RunnerStep(r)`: a goroutine that can go on does. Waiting for
  the mutex needs no more: the owner is never blocked, and with finitely many
  stores per run no one is overtaken for ever.
* In `JobRegistry` that also says that the `hadoop` client exits: no timeout in the
  code bounds it. `Orchestrator` takes that assumption away again: there
  only the cluster is fair (`ClusterStep`: an application ends some day), and
  `RunsEnd` still holds.
* Weak fairness of `Encode(c)`: a handler writes its reply.
* `Dashboard`: weak fairness of `PageStep` (the browser's timers fire, and it takes
  what its calls return), of `Timeout` (the gateway's timers go off) and of `Wait`
  (time passes). None of the orchestrator or the jobs: the button comes back
  even when they never answer or end.
* `JobScripts`: weak fairness of the entry point's own steps (`Boot`). None of the
  NameNode: the boot ends with or without it.
* None for requests, polls, clicks, reloads, scripts, `Stop` and `Restart`.
* `ResultAggregator`, `RiskReport`, `ResultsPage`, `Reducer` and `StreamingJob` have no
  fairness: only safety is stated. Attempts may fail for ever.
* `Gateway` and `ResultsPage`: no timer that is due is passed over; steps between two
  ticks take no time.
* The passing runs of the page set `Api = "gateway"`: they show what the page does
  once its calls reach the gateway, by an edit of its `API` line or a proxy in front
  of both. As the repository has it, they do not, see the findings.
* `put -f` writes `accepted_2007_to_2018Q4.csv._COPYING_` in the input directory,
  deletes the target, renames; one that breaks off may leave that file, and a streaming
  job reads it, since its name begins with neither `.` nor `_`. A torn NameNode directory does not start, a job
  on an empty directory succeeds: HDFS and MapReduce, not the repository.
* Stores and loads take place in program order, as on amd64. The Go memory
  model promises less.
* uuids are distinct; the streaming jar may or may not be found. In
  `ResultAggregator` the parsers get the rows the reducers print; `RiskReport` adds
  other lines and the HTTP 500 of a parse error, but none that the parsers take for a
  row (four fields, three of them numbers): nothing tells such a line from a group.
* `ResultsPage` paints what a load brought, whatever it is: an exception in one
  `build…Chart`, which would end the load before the others (`index.html:384-421`), is left
  out. Chart.js is loaded, and the tables have the fields the page asks for.
* The status that `Dashboard` gets of a job is one it had at one moment, or none: a string
  that was torn (`JobRegistry`) is taken for a finished job, like a 404, and counts as
  trouble. That a torn `completedAt` makes a garbled document is more than `Encode` does,
  which fails and leaves the reply empty: pollers trust neither.

## Proofs

TLAPS checks the following for every value of the constants.

**`JobRegistry_proofs`** – every safety property of the module, for any runs, jobs,
requests and pollers, from `JobAssumption` alone.
* `TypeCorrect`, `LockDiscipline`, `SequentialExecution`. The inductive invariant
  `IInv` adds `CallsFollowRuns`: a request that is unanswered or rejected has no
  goroutine and, if unanswered, no object. Without it a `Submit` could overwrite the
  objects of a running goroutine, and `JobsRunInOrder` would not be preserved; and
  an encoder could read objects that do not exist. The mutex matters in the
  proof where a step of one run must leave the others alone: `LockOwnerStores` makes
  `AcquireLock` exclusive. There is a lemma per action; `MoveKeepsIInv` takes care
  of all steps that only move the program counter, `StoreInOrder` of all that
  store a field.
* `KeysDecide`: `Submit` writes the keys in the order of the request, so the last
  object always has its own (`LastObjectHasKey`); and by `JobsRunInOrder` a run whose last
  object is final has no other kind.
* `Refinement`: `Spec` implies the initial predicate and `[][Next]` of `RunLifecycle` under the
  refinement mapping. `ObjectsChange` says what any step can do to the objects (one
  store, the objects of one request, the end of the process, nothing); of
  these the store of a status is `Start` or `Finish`, an accepted request `Register`, the end of
  the process `Lose`, and all others stutter.
* `Conclusive`, `Monotone`. `PollersKnow` says of each poller that what it has read of its
  object is still true, or has become true (`Sound`), and so is what its earlier polls have
  shown (`Past`). It is preserved since a step of the goroutine takes nothing back that
  was decided (`Later`, `RunnerKeepsDecisions`): a status counts as decided as soon as
  its store begins, a completion time as soon as its own does, by when the error text
  is final. `StatusRead` is where the lock of `GetState` matters: no store can be under way
  both at an earlier read and still now.

**`Orchestrator_proofs`** – `RegistryPreserved`, `ComposedLockDiscipline`,
`ComposedRefinement`, `OutputIsOwn`, for any
runs and requests, with any clients that lose touch, from `JobAssumption` and
`OrchestratorAssumption` (`MaxJobs` is as large as the longest request).
* The composition does nothing that the registry does not do alone (`RegistrySteps`), so
  `IInv` is its invariant too, and what `JobRegistry_proofs` shows carries over:
  `ComposedRefinement` is the refinement of `RunLifecycle`, on which the page relies.
* `HInv` follows the output through the hands it goes through. `AppsFollowRuns`: a client is
  only ever started at the current position of its run. `PhaseFollowsRunner`: until
  `launch` it has not been, and `recordApp` means it has succeeded. `OwnOutput`: as long as
  nothing else has got to the directory, it is exactly as its application has left it so
  far (`MadeBy`), from the check that nothing is there to `_SUCCESS`.
* `AloneBefore`: what has got to a directory has got to it for good, since a run's
  jobs, its FAILED statuses, its position and the directories of applications stay. So
  a directory that is undisturbed after a step was so before.
* `LiveIsAlone` is the case to argue about: another live application on the same directory.
  One of another run has contended for it; one of a later job of the same run repeats
  it; and one of an earlier job, which the goroutine has left behind, can be live only
  if that job is FAILED, since COMPLETED means that it has succeeded.

**`Dashboard_proofs`** – `TypeCorrect`, `OneRun`, `DoneIsDone`, `NothingIsCut`, for any
number of runs, jobs and attempts. `DashboardAssumption` has that the runs are finitely
many (the page counts those in progress) and that `Nil` is no run and no answer.
While the page has had no trouble, any run in progress is what the page is
occupied with (`NothingMissed`): the run it polls, the run its answer names, or the one
submission it has lost sight of. What one poll has seen done is done and stays so
(`PollIsRight`). Of the clocks (`ClocksLeaveRoom`): a request is read for 15 s at most, and
the question to the orchestrator adds 10 s at most, so the 30 s of `WriteTimeout` are
never reached.

**`ResultAggregator_proofs`** – `TypeCorrect`, `TablesWhole`, `QuietComplete`: for any directories,
applications and clients, whatever is removed and rewritten between LISTSTATUS and
OPEN. A directory has one part file and a rename shows it whole, so what
was read of one directory is one file or nothing (`ReadsOneFile`). A request that nothing has disturbed
has read of each directory so far just what is there now (`ReadsAll`).

**`StreamingJob_proofs`** – the mappers, the reducers, and a job as a whole.
* *Reducers:* `RowsWhole`, `TableComplete`, `TypeCorrect`: for any set of keys and any
  grouped input. The inductive invariant says that the sums are those of the lines
  read so far of the current key, that no line beyond the current position has a
  printed key, and that each key with a loan before the current one has its row.
  `OneMoreLine` is the arithmetic of one line, `KeyChange` what grouping gives when
  the key changes: the old key is over, the new one is new. That an input is grouped
  is `ReducerAssumption`; without it the same key could have two rows.
* *Mappers:* `Agreement`: job 4 never counts a loan that job 1 does not count in the
  same grade and class, on any row whatever. `Recognition`: each mapper counts each
  loan as what it is, in both layouts, whatever is in the other columns, as long as
  the other layout's status column holds no status (`Distinguishable`: it is the
  loan's url in the one layout, the verification status in the other).
  `LoansRecognised` and `GradesAlike` say so of the rows of a job's dataset.
* *Jobs:* `PartFileIsTable` and `DefaultsAreOfLoans`: for any finite set of splits, any rows,
  and any attempts that fail, from `StreamingAssumption` and `InputsAreAll` (the reducer
  is allowed every grouped sequence of lines as its input: `Inputs` is there only to
  bound the runs). Three facts make `JInv` inductive. What a map task has printed adds
  up, key by key, to the rows it has read (`MapOK`; `RowAdds` is one row, of which job 4
  prints up to two lines). The shuffle brings each line once, since an order that
  leaves no line out and is as long as there are lines has none twice, so the counts
  per task become the counts of the whole (`OrderKeepsCounts`, `GluedBijection`,
  `ShuffleCounts`). And from then on the input owes the dataset nothing (`Owed`), while the
  reducer keeps `IInv`.

**`ResultsPage_proofs`** – `OneLoadOfTimer`, `FailedIsKept`, `PageIsCurrent`: for any tables,
any number of loads at once and any number of changes.
* `TimerLoads`: a load of the timer is as old as the timer's period, so its calls are due
  when the timer fires again; and time does not pass a timer that is due. That the
  page's period is not below the gateway's 30 s (`SamePeriods`) is all that keeps
  loads from piling up.
* `DoomedStays`: no load under way brings anything for a job found FAILED without an output.
* `PageCatchesUp` needs `LoadsCatchUp`: a load that began before all was calm has, once the
  period is over, a call that is due and can only end by failing, and then it is not
  calm any more; so after a period all loads are `Fresh`. The next one of the
  timer begins within another period and paints within a third. These are the
  three periods of `DisplayIsCurrent`. The hypothesis is `Api = "gateway"`: the page as it is in the
  repository never gets an answer (see the findings).

**`RiskReport_proofs`** – `RiskNeverUnderstated`, `TablesAnsweredWhole`, `SummaryAgrees`: for
any tables and any foreign lines that are not taken for rows. `ReportAssumption` also
has that a table is finite and has one
row for each of its keys, which is what `RowsWhole` and `TableComplete` prove of the reducers.
* `LeastLevel` and `GreatestLevel` are the documented tiers, for exact rates: below 5, 5 to
  15, 15 to 25, above 25. Documents and code part at 25 (see below), so a rate that
  rounds to 25.00 may have either level. The thresholds are whole hundredths of a
  percent, so rounding a rate to hundredths does not take it below one
  (`RoundedBelow`), and takes it onto one only from half a hundredth away
  (`RoundedAbove`); `TierOfRounded` puts the two together.
* If no line makes the parser give up, rows and groups correspond one to one
  (`ParsedIsTable`, `RowsAreFromGroups`), so nothing is lost or counted twice.
* Two rates in the order of their rounded values differ the other way by no more than
  the rounding of both (`RoundedInOrder`). The sums of `buildRiskSummary` are folds over
  sets: `SumsExist` shows that such a fold is what its recursion says, `SumsKeepBounds` that
  a bound on every row is one on the sums. Both use `Induction`, for which the numbers
  that satisfy a formula are collected into a set.

**`JobScripts_proofs`** – `DatasetWhole` and `DatasetKept`: `UploadedMeansWhole` and `WholeStaysWhole`,
for any number of stops, kills, jobs and applications, from no assumption. The
inductive invariant `IInv` adds `CopyFollowsFile` (the normalised copy that is uploaded was
made from the file gunzip has left: were the step left out when its result is
there, as the others are, a copy that was cut off would get through; and what `put` renames is
complete, whatever copy an earlier one has left) and
`FormatComesFirst` (nothing is in HDFS before a format has begun, and none
begins after).

`TablesAreOwn` and `CopiesAreWhole`: `CompletedMeansTables` and `SavedMeansCopied`, from
`ScriptsAssumption` (`run-all-jobs.sh` lists every directory, perhaps twice) and
`ClusterAssumption`. The directories a call is done with are those no longer in
`Due`, and what holds at the end is kept for each of them from then on (`Owned`). For
the present one `MadeBy` says what the application has made of it so far, and that it
has read what is in the input directory; a fetch keeps the same of its copies
(`CopiesFollowFetch`). Three facts make it inductive. While nobody else
touches the outputs, no application lives but that of the present job
(`OnlyOurs`): a call that begins while one lives starts out `meddled`. A directory
which is not there has nothing in it (`FreshIsEmpty`), so what the check before the
submission lets through starts from nothing. And no format and no upload meets a
script that has dealt with an output (`ScriptsTypeOK`): the first format is the only
one, by `FormatComesFirst`, and a run begins with a NameNode that can be reached.

**Only model-checked:** all liveness (`RunsEnd`, `ButtonComesBack`, `BootEnds`, the
fairness part of `RunLifecycle`), which is out of the prover's reach. Every
invariant that a passing run checks is a theorem too.

## Where the code and its documentation disagree

Each is a run that TLC ends with a violation.

| run | the repository says | the code does |
|---|---|---|
| `registry_leaked_entries` | the registry tracks PENDING → RUNNING → COMPLETED or FAILED (`docs/architecture.md:95`) | a request with an unknown id leaves the jobs before it PENDING for ever (`hadoop.go:114`) |
| `registry_torn_document` | a thread-safe registry (`main.go:3`) | documents are read without the lock: COMPLETED without a completion time (`main.go:103`) |
| `dashboard_same_origin` | `fetch()` to the API Gateway (`docs/architecture.md:106`), Run All Jobs on the dashboard (`README.md:369`) | `API` is empty: all calls go to the dashboard's own server, which has the page and `/health` (`index.html:185`) |
| `aggregator_empty_grades` | `if len(grades) > 0` (`main.go:226`) | `grades[0]` outside that guard: panic (`main.go:252`) |

The models also show smaller differences, listed under `hazards`, for which no run
is kept: `GET /jobs/{run_id}/status` is 404 for a bare run id (`main.go:98` of the
orchestrator, against its comment at line 89); the reply to a submission can show
more than "initial states" (`main.go:86`, against `hadoop.go:100`); a part file that
cannot be opened is skipped with status 200 (`main.go:102` of the aggregator,
against line 92); the summary reads jobs 1 to 3 (`main.go:192`, against
`docs/architecture.md:100`, "all four jobs"); "Remove stale output directory"
(`hadoop.go:149`) may remove that of a live application (`hadoop.go:150`); the
dashboard takes a job for done when its status is a 404, a 503 or an exception
(`index.html:465-466`), which is why `DoneMeansDone` has the premise `~trouble`.

And what came up while modelling the rest:
* The comment on `ClassifyRisk` and the documents put exactly 25% in HIGH (`risk.go:16`,
  `README.md:438`, `docs/risk-analysis-report.md:158`), the code in CRITICAL (`risk.go:23`).
  `RiskIsNeverUnderstated` takes no side: a program with either reading satisfies it.
* The tables of the report were not made with these tiers: grade A with 5.12% is LOW
  (`docs/risk-analysis-report.md:27`), Texas with 15.21% MEDIUM (line 57).
* The gateway's 503 after 30 s of waiting for the aggregator is never seen: the
  server's `WriteTimeout` is 30 s too and ends first (`api-gateway/main.go:60`).
* A load that overlaps with a poll may paint a dot COMPLETED over FAILED, an older
  load an older table over a newer one, and "Last updated" is stamped on loads that
  brought nothing (`index.html:395`, `:385`, `:423`).
* `upload-dataset.sh:4` names `/tmp` for a file placed by hand, the script looks in
  `/tmp/lendingclub`. A decompression killed outright leaves a file that every later
  call takes for the dataset.
* A `put` that breaks off (`upload-dataset.sh:92`) may leave its copy, cut off or complete,
  in the input directory. All jobs read it, beside the dataset (rows count twice) or in
  its place; and if the dataset has its name, a later call of the script ends at line 25
  and leaves it there. `CompletedMeansTables` has only that all jobs read the same.
* A container that stops during its first format never starts its NameNode again,
  and its services come up all the same (`entrypoint-master.sh:30`).
* `run-all-jobs.sh:25` tests for a directory that the entry point always makes: on an
  empty one all jobs succeed with empty tables. `fetch-results.sh` leaves an empty
  file where a `cat` fails, and a later call that finds no directory still ends with
  "Results saved".

## Not modelled, and the plan

Left out for good: the set-up and diagnosis scripts (run once by hand), the Hadoop
configuration and images (values only), `entrypoint-worker.sh` (two daemons and a
sleep) and the compose files' addresses, `ReadHDFSFile` and `ListHDFSDir` of the
orchestrator (called by nothing), CORS, `/health`, the shutdown of gateway, dashboard
and aggregator on a signal (in the container bash is process 1 and passes none on),
logging, counters, charts, the wording of errors. The inner life of HDFS and YARN
is external: `HadoopCluster` and `MasterNode` have what the code relies on.

Nothing of the first plan is left to model, and of the proofs liveness is left.
