----------------------------- MODULE JobRegistry -----------------------------
(***************************************************************************)
(* The job orchestrator (services/job-orchestrator): the in-memory         *)
(* registry of JobState objects behind one RWMutex, the goroutine that     *)
(* Submit starts for each accepted request and that runs its jobs one by   *)
(* one, and the HTTP handlers that encode JobState objects to JSON WITHOUT *)
(* holding the mutex.                                                      *)
(*                                                                         *)
(* A run stands for one POST /jobs/run request and for the uuid Submit     *)
(* draws for it.  heap[r] are the JobState objects allocated for it, in    *)
(* request order; the map Registry.states, keyed "<uuid>:<job>", is        *)
(* states[r][j], the index in heap[r] of the object under that key (0: no  *)
(* such key).  Two objects of one run can share a key: the map keeps the   *)
(* last one.                                                               *)
(*                                                                         *)
(* A handler that encodes an object reads its fields one at a time, in the *)
(* order of the struct, while the runner may be storing them.  A field is  *)
(* being stored while the runner is at the program point of that name: a   *)
(* read then returns the old value, the new one, or a mix of their words.  *)
(* Stores and loads are taken in program order, as the compiler emits them *)
(* and an amd64 machine shows them.                                        *)
(*                                                                         *)
(* Texts are kept as far as a property tells them apart: an error text is  *)
(* "" or "text", a time is "zero" or "set", an application id is "" or     *)
(* "app".  RunID, JobID and StartedAt are written before the object is     *)
(* shared: only the job is kept.                                           *)
(***************************************************************************)
EXTENDS Naturals, Sequences

CONSTANTS
  Run,       \* POST /jobs/run requests, and the uuids drawn for them
  Job,       \* ids with a definition in Registry.definitions
  Id,        \* ids a request can name
  AllAlias,  \* the alias "all"
  AllJobs,   \* what the alias stands for, in order
  Requests,  \* the job_ids lists clients send
  Poller,    \* clients that poll one status URL
  Nil        \* no run, no job

ASSUME JobAssumption ==
  /\ Job \subseteq Id /\ AllAlias \in Id \ Job
  /\ AllJobs \in Seq(Job) /\ AllJobs # << >>
  /\ Requests \subseteq Seq(Id)
  /\ Nil \notin Run \cup Job
  /\ Run \cap Poller = {}

VARIABLES
  up,      \* is the orchestrator process running
  heap,    \* heap[r]: the JobState objects of run r
  states,  \* states[r][j]: the object under key r:j, or 0
  lock,    \* the run whose goroutine holds Registry.mu for writing, or Nil
  runner,  \* runner[r]: the goroutine of run r
  call     \* call[c]: the HTTP exchange of run r's POST, or a poller's last GET

vars == <<up, heap, states, lock, runner, call>>

-----------------------------------------------------------------------------
Terminal == {"COMPLETED", "FAILED"}
Status   == {"PENDING", "RUNNING"} \cup Terminal

\* Mutant of Fields: the error text is encoded before the completion time.
FieldsErrorFirst == <<"status", "error", "completedAt", "appId">>

\* The fields of JobState that change, in the order they are encoded.
Fields == <<"status", "completedAt", "error", "appId">>

JobState == [job : Job, status : Status, completedAt : {"zero", "set"},
             error : {"", "text"}, appId : {"", "app"}]

NewState(j) == [job |-> j, status |-> "PENDING", completedAt |-> "zero",
                error |-> "", appId |-> ""]

\* What a client sees of a field; it may not have read it yet.
Seen == Status \cup {"garbled", "unread", "zero", "set", "", "text", "app"}
Document == [status : Seen, completedAt : Seen, error : Seen, appId : Seen]
Blank == [status |-> "unread", completedAt |-> "unread",
          error |-> "unread", appId |-> "unread"]

\* A goroutine is at a statement of runJob, or inside setStatus at the store
\* of a field ("status", "error", "completedAt"), or at the store of the
\* application id ("appId").  want is the argument of the current setStatus.
Storing == {"status", "error", "completedAt", "appId"}
PC == Storing \cup {"none", "setStatus", "findJar", "remove", "launch", "wait",
                    "recordApp", "done"}
Idle == [pc |-> "none", i |-> 0, want |-> "RUNNING"]

\* An exchange: its outcome so far, the objects still to be encoded, the next
\* field of the first of them, and the document as far as it is read; before
\* is the last status a poller has seen in an earlier document.
Call == [code : {"none", "reading", "ok", "rejected", "notfound", "aborted", "lost"},
         run : Run \cup {Nil}, job : Job \cup {Nil},
         todo : Seq(Nat), field : 1..4,
         doc : Document,
         before : Seen]

NoCall == [code |-> "none", run |-> Nil, job |-> Nil, todo |-> << >>,
           field |-> 1, doc |-> Blank, before |-> "unread"]

Caller == Run \cup Poller

Init ==
  /\ up = TRUE
  /\ heap = [r \in Run |-> << >>]
  /\ states = [r \in Run |-> [j \in Job |-> 0]]
  /\ lock = Nil
  /\ runner = [r \in Run |-> Idle]
  /\ call = [c \in Caller |-> NoCall]

-----------------------------------------------------------------------------
(* POST /jobs/run *)

Expand(ids) == IF ids = <<AllAlias>> THEN AllJobs ELSE ids

IsLast(s, j, k) == /\ k \in DOMAIN s /\ s[k] = j
                   /\ \A m \in DOMAIN s : s[m] = j => m <= k

\* Mutant of Entries: a key that is there already is not overwritten.
EntriesKeepFirst(s) ==
  [j \in Job |-> IF \E k \in DOMAIN s : s[k] = j
                 THEN CHOOSE k \in DOMAIN s : s[k] = j /\ \A m \in 1..(k - 1) : s[m] # j
                 ELSE 0]

\* The map after one assignment states[key] = object per id, in order.
Entries(s) ==
  [j \in Job |-> IF \E k \in DOMAIN s : s[k] = j
                 THEN CHOOSE k \in DOMAIN s : IsLast(s, j, k) ELSE 0]

Allocate(r, s) ==
  /\ heap' = [heap EXCEPT ![r] = [k \in 1..Len(s) |-> NewState(s[k])]]
  /\ states' = [states EXCEPT ![r] = Entries(s)]

\* A body that is not JSON, or that names no job.
RejectMalformed(r) ==
  /\ up /\ call[r].code = "none"
  /\ call' = [call EXCEPT ![r].code = "rejected"]
  /\ UNCHANGED <<up, heap, states, lock, runner>>

\* The loop of Submit meets an unknown id: it returns, and the objects made
\* for the ids before it stay in the map.
SubmitUnknown(r) ==
  /\ up /\ call[r].code = "none" /\ lock = Nil
  /\ \E ids \in Requests :
       LET s == Expand(ids) IN
       \E k \in DOMAIN s :
         /\ s[k] \notin Job
         /\ \A m \in 1..(k - 1) : s[m] \in Job
         /\ Allocate(r, SubSeq(s, 1, k - 1))
  /\ call' = [call EXCEPT ![r].code = "rejected"]
  /\ UNCHANGED <<up, lock, runner>>

\* All ids are known: the objects are in the map, the goroutine is started,
\* and the handler goes on to encode the objects into the 202 reply.
SubmitAccepted(r) ==
  /\ up /\ call[r].code = "none" /\ lock = Nil
  /\ \E ids \in Requests :
       LET s == Expand(ids) IN
         /\ s # << >>
         /\ \A k \in DOMAIN s : s[k] \in Job
         /\ Allocate(r, s)
         /\ call' = [call EXCEPT ![r] = [NoCall EXCEPT
                        !.code = "reading", !.run = r,
                        !.todo = [k \in 1..Len(s) |-> k]]]
  /\ runner' = [runner EXCEPT ![r] = [pc |-> "setStatus", i |-> 1, want |-> "RUNNING"]]
  /\ UNCHANGED <<up, lock>>

-----------------------------------------------------------------------------
(* The goroutine of a run: runJob for each job of the request *)

Goto(r, pc) == runner' = [runner EXCEPT ![r].pc = pc]

SetStatus(r, s) == runner' = [runner EXCEPT ![r].pc = "setStatus", ![r].want = s]

Store(r, f, v) ==
  LET i == runner[r].i IN
  heap' = [heap EXCEPT ![r] = [heap[r] EXCEPT ![i] = [heap[r][i] EXCEPT ![f] = v]]]

\* What setStatus, or the assignment of YARNAppID, is about to put in field f.
Incoming(r, f) ==
  CASE f = "status"      -> runner[r].want
    [] f = "error"       -> IF runner[r].want = "FAILED" THEN "text" ELSE ""
    [] f = "completedAt" -> "set"
    [] f = "appId"       -> "app"

\* Mutant of Advance: the loop runs one index too far.
AdvancePastEnd(r) ==
  runner' = [runner EXCEPT ![r] =
               IF @.i <= Len(heap[r])
               THEN [pc |-> "setStatus", i |-> @.i + 1, want |-> "RUNNING"]
               ELSE [@ EXCEPT !.pc = "done"]]

\* Mutant of Advance: a failed job ends the run.
AdvanceUnlessFailed(r) ==
  runner' = [runner EXCEPT ![r] =
               IF @.i < Len(heap[r]) /\ @.want # "FAILED"
               THEN [pc |-> "setStatus", i |-> @.i + 1, want |-> "RUNNING"]
               ELSE [@ EXCEPT !.pc = "done"]]

\* runJob returns: the loop goes to the next job of the request, if any.
Advance(r) ==
  runner' = [runner EXCEPT ![r] =
               IF @.i < Len(heap[r])
               THEN [pc |-> "setStatus", i |-> @.i + 1, want |-> "RUNNING"]
               ELSE [@ EXCEPT !.pc = "done"]]

\* Mutant of AcquireLock: mu.RLock() where mu.Lock() is needed.
AcquireSharedLock(r) ==
  /\ \/ runner[r].pc = "setStatus" /\ Goto(r, "status")
     \/ runner[r].pc = "recordApp" /\ Goto(r, "appId")
  /\ lock' = r
  /\ UNCHANGED <<up, heap, states, call>>

\* mu.Lock() in setStatus, and around the assignment of YARNAppID.
AcquireLock(r) ==
  /\ lock = Nil
  /\ \/ runner[r].pc = "setStatus" /\ Goto(r, "status")
     \/ runner[r].pc = "recordApp" /\ Goto(r, "appId")
  /\ lock' = r
  /\ UNCHANGED <<up, heap, states, call>>

StoreStatus(r) ==
  /\ runner[r].pc = "status"
  /\ Store(r, "status", Incoming(r, "status"))
  /\ Goto(r, "error")
  /\ UNCHANGED <<up, states, lock, call>>

\* Mutant of StoreError: only COMPLETED jobs get a completion time.
StoreErrorNoStamp(r) ==
  /\ runner[r].pc = "error"
  /\ Store(r, "error", Incoming(r, "error"))
  /\ CASE runner[r].want = "COMPLETED" -> Goto(r, "completedAt") /\ UNCHANGED lock
       [] runner[r].want = "FAILED"    -> Advance(r) /\ lock' = Nil
       [] runner[r].want = "RUNNING"   -> Goto(r, "findJar") /\ lock' = Nil
  /\ UNCHANGED <<up, states, call>>

\* The last store of setStatus(state, RUNNING, ""), which then unlocks.
StoreError(r) ==
  /\ runner[r].pc = "error"
  /\ Store(r, "error", Incoming(r, "error"))
  /\ IF runner[r].want \in Terminal
     THEN Goto(r, "completedAt") /\ UNCHANGED lock
     ELSE Goto(r, "findJar") /\ lock' = Nil
  /\ UNCHANGED <<up, states, call>>

\* Mutant of StoreCompletedAt: the mutex is not released.
StoreCompletedAtNoUnlock(r) ==
  /\ runner[r].pc = "completedAt"
  /\ Store(r, "completedAt", Incoming(r, "completedAt"))
  /\ Advance(r)
  /\ UNCHANGED <<up, states, lock, call>>

StoreCompletedAt(r) ==
  /\ runner[r].pc = "completedAt"
  /\ Store(r, "completedAt", Incoming(r, "completedAt"))
  /\ lock' = Nil
  /\ Advance(r)
  /\ UNCHANGED <<up, states, call>>

FindStreamingJar(r) ==
  /\ runner[r].pc = "findJar"
  /\ Goto(r, "remove") \/ SetStatus(r, "FAILED")
  /\ UNCHANGED <<up, heap, states, lock, call>>

\* hdfs dfs -rm -r -f: its outcome is ignored.
RemoveOutput(r) ==
  /\ runner[r].pc = "remove"
  /\ Goto(r, "launch")
  /\ UNCHANGED <<up, heap, states, lock, call>>

\* cmd.Run starts the hadoop client, or cannot.
Launch(r) ==
  /\ runner[r].pc = "launch"
  /\ Goto(r, "wait") \/ SetStatus(r, "FAILED")
  /\ UNCHANGED <<up, heap, states, lock, call>>

\* The client exits with status 0; its stderr may name the YARN application.
ExitZero(r) ==
  /\ runner[r].pc = "wait"
  /\ Goto(r, "recordApp") \/ SetStatus(r, "COMPLETED")
  /\ UNCHANGED <<up, heap, states, lock, call>>

ExitNonzero(r) ==
  /\ runner[r].pc = "wait"
  /\ SetStatus(r, "FAILED")
  /\ UNCHANGED <<up, heap, states, lock, call>>

StoreAppId(r) ==
  /\ runner[r].pc = "appId"
  /\ Store(r, "appId", Incoming(r, "appId"))
  /\ lock' = Nil
  /\ SetStatus(r, "COMPLETED")
  /\ UNCHANGED <<up, states, call>>

RunnerStep(r) ==
  \/ AcquireLock(r) \/ StoreStatus(r) \/ StoreError(r) \/ StoreCompletedAt(r)
  \/ FindStreamingJar(r) \/ RemoveOutput(r) \/ Launch(r)
  \/ ExitZero(r) \/ ExitNonzero(r) \/ StoreAppId(r)

-----------------------------------------------------------------------------
(* GET /jobs/<uuid>:<job>/status, and the encoding of objects to JSON *)

\* The last path element names a key; job Nil is a path with a bare uuid,
\* which is no key of the map.
Lookup(r, j) == IF j = Nil THEN 0 ELSE states[r][j]

\* What a poller knows of its key when it asks again.
LastSeen(p) == IF call[p].doc.status = "unread" THEN call[p].before ELSE call[p].doc.status

\* Mutant of StartGet: GetState looks the key up without the lock.
StartGetUnlocked(p) ==
  /\ up
  /\ call[p].code # "reading"
  /\ \E r \in Run, j \in Job \cup {Nil} :
       /\ call[r].code = "ok"
       /\ call[p].run = Nil \/ (call[p].run = r /\ call[p].job = j)
       /\ call' = [call EXCEPT ![p] =
            [NoCall EXCEPT !.code = IF Lookup(r, j) = 0 THEN "notfound" ELSE "reading",
                           !.run = r, !.job = j, !.before = LastSeen(p),
                           !.todo = IF Lookup(r, j) = 0 THEN << >> ELSE <<Lookup(r, j)>>]]
  /\ UNCHANGED <<up, heap, states, lock, runner>>

\* A client polls the URL of a run whose 202 reply it has received, and keeps
\* to that URL.  GetState takes the read lock for the lookup only.
StartGet(p) ==
  /\ up /\ lock = Nil
  /\ call[p].code # "reading"
  /\ \E r \in Run, j \in Job \cup {Nil} :
       /\ call[r].code = "ok"
       /\ call[p].run = Nil \/ (call[p].run = r /\ call[p].job = j)
       /\ call' = [call EXCEPT ![p] =
            [NoCall EXCEPT !.code = IF Lookup(r, j) = 0 THEN "notfound" ELSE "reading",
                           !.run = r, !.job = j, !.before = LastSeen(p),
                           !.todo = IF Lookup(r, j) = 0 THEN << >> ELSE <<Lookup(r, j)>>]]
  /\ UNCHANGED <<up, heap, states, lock, runner>>

\* The goroutine of run r is storing field f of object k.
Racing(r, k, f) == runner[r].pc = f /\ runner[r].i = k

\* A string or a time is several words: a racing read can mix those of the
\* old and the new value.  "PENDING" and "RUNNING" have the same length, so a
\* mix of the two is one of them.
Torn(f, old, new) ==
  IF f \in {"status", "completedAt"} /\ old # new /\ new # "RUNNING"
  THEN {"garbled"} ELSE {}

\* What the encoder can read from field f of object k of run r.
Readable(r, k, f) ==
  {heap[r][k][f]} \cup
  IF Racing(r, k, f)
  THEN {Incoming(r, f)} \cup Torn(f, heap[r][k][f], Incoming(r, f)) ELSE {}

\* What is left of an exchange after the reply: a poller keeps the document.
Answered(c, x, doc) ==
  [x EXCEPT !.code = "ok", !.todo = << >>, !.field = 1,
            !.doc = IF c \in Poller THEN doc ELSE Blank]

LoadField(c) ==
  LET x == call[c]
      f == Fields[x.field]
  IN
  /\ x.code = "reading"
  /\ \E v \in Readable(x.run, Head(x.todo), f) :
       LET doc == [IF x.field = 1 THEN Blank ELSE x.doc EXCEPT ![f] = v] IN
       call' = [call EXCEPT ![c] =
         CASE x.field < Len(Fields) -> [x EXCEPT !.field = x.field + 1, !.doc = doc]
           [] x.field = Len(Fields) /\ Len(x.todo) > 1 ->
                [x EXCEPT !.field = 1, !.todo = Tail(x.todo), !.doc = doc]
           [] OTHER -> Answered(c, x, doc)]
  /\ UNCHANGED <<up, heap, states, lock, runner>>

\* The length of a new text read with the nil pointer of the empty one: the
\* encoder panics, net/http recovers and drops the connection.
EncoderPanics(c) ==
  LET x == call[c]
      f == Fields[x.field]
  IN
  /\ x.code = "reading"
  /\ f \in {"error", "appId"}
  /\ Racing(x.run, Head(x.todo), f)
  /\ heap[x.run][Head(x.todo)][f] = "" /\ Incoming(x.run, f) # ""
  /\ call' = [call EXCEPT ![c] = [x EXCEPT !.code = "aborted", !.todo = << >>, !.field = 1,
                                           !.doc = Blank]]
  /\ UNCHANGED <<up, heap, states, lock, runner>>

-----------------------------------------------------------------------------
(* The process *)

\* A crash, or the end of server.Shutdown: main waits for no runner, and the
\* registry is nowhere but in memory.
Stop ==
  /\ up
  /\ up' = FALSE
  /\ heap' = [r \in Run |-> << >>]
  /\ states' = [r \in Run |-> [j \in Job |-> 0]]
  /\ lock' = Nil
  /\ runner' = [r \in Run |-> Idle]
  /\ call' = [c \in Caller |->
                IF call[c].code = "reading"
                THEN [call[c] EXCEPT !.code = "lost", !.todo = << >>, !.field = 1, !.doc = Blank]
                ELSE call[c]]

\* The container starts again, and with it an orchestrator that knows no run.
Restart ==
  /\ ~up
  /\ up' = TRUE
  /\ UNCHANGED <<heap, states, lock, runner, call>>

-----------------------------------------------------------------------------
Submit(r) == RejectMalformed(r) \/ SubmitUnknown(r) \/ SubmitAccepted(r)

Encode(c) == LoadField(c) \/ EncoderPanics(c)

Next == \/ \E r \in Run : Submit(r) \/ RunnerStep(r)
        \/ \E p \in Poller : StartGet(p)
        \/ \E c \in Caller : Encode(c)
        \/ Stop
        \/ Restart

\* Goroutines that can run do run; no timeout bounds cmd.Run, so that the
\* hadoop client exits at all is an assumption about the cluster.
Fairness == /\ \A r \in Run : WF_vars(RunnerStep(r))
            /\ \A c \in Caller : WF_vars(Encode(c))

Spec == Init /\ [][Next]_vars /\ Fairness

-----------------------------------------------------------------------------
(* Properties *)

\* Every variable has the shape the code gives it: a key of the map leads to
\* an object of its run, and a goroutine works on one of its run's objects.
TypeOK ==
  /\ up \in BOOLEAN
  /\ heap \in [Run -> Seq(JobState)]
  /\ states \in [Run -> [Job -> Nat]]
  /\ \A r \in Run, j \in Job : states[r][j] <= Len(heap[r])
  /\ lock \in Run \cup {Nil}
  /\ runner \in [Run -> [pc : PC, i : Nat, want : Status \ {"PENDING"}]]
  /\ \A r \in Run : runner[r].pc # "none" => runner[r].i \in DOMAIN heap[r]
  /\ call \in [Caller -> Call]

\* The mutex of Registry guards every store of setStatus and of runJob: two
\* goroutines are never storing at once, and whoever holds it is storing.
LockOwnerStores ==
  \A r \in Run : runner[r].pc \in Storing <=> lock = r

Fresh(o)   == o = NewState(o.job)
Settled(o) == /\ o.status \in Terminal
              /\ o.completedAt = "set"
              /\ o.error = "text" <=> o.status = "FAILED"

\* The object a goroutine works on agrees with where the goroutine is.
InProgress(pc, want, o) ==
  /\ pc \in {"setStatus", "status"} =>
       IF want = "RUNNING" THEN Fresh(o)
       ELSE o.status = "RUNNING" /\ o.completedAt = "zero" /\ o.error = ""
  /\ pc \in {"error", "completedAt"} => o.status = want /\ o.completedAt = "zero"
  /\ pc = "error" => o.error = ""
  /\ pc = "completedAt" => /\ want \in Terminal
                           /\ o.error = "text" <=> want = "FAILED"
  /\ pc \in {"findJar", "remove", "launch", "wait", "recordApp", "appId"} =>
       o.status = "RUNNING" /\ o.completedAt = "zero" /\ o.error = ""
  /\ pc = "done" => Settled(o)

\* The jobs of a run are executed one at a time, in the order of the request:
\* all before the current one have a final, consistent record, all after it
\* are untouched, and the goroutine ends only after the last.  A run without
\* a goroutine (a rejected request) has only untouched records.
JobsRunInOrder ==
  \A r \in Run : \A k \in DOMAIN heap[r] :
    IF runner[r].pc = "none" THEN Fresh(heap[r][k])
    ELSE /\ k < runner[r].i => Settled(heap[r][k])
         /\ k > runner[r].i => Fresh(heap[r][k])
         /\ k = runner[r].i => InProgress(runner[r].pc, runner[r].want, heap[r][k])
         /\ runner[r].pc = "done" => k <= runner[r].i

\* How a job ends, as soon as that is decided.
Outcome(r, k) ==
  IF Racing(r, k, "status") THEN runner[r].want ELSE heap[r][k].status

\* What a client may conclude from a status document although its fields were
\* read without the mutex, at different moments: a final status is the job's
\* own; with COMPLETED comes the application id, if there is one; and once the
\* completion time shows, the error text is there exactly if the job FAILED.
DocumentsAreConclusive ==
  \A p \in Poller :
    LET d == call[p].doc
        r == call[p].run
        k == Lookup(r, call[p].job)
    IN
    call[p].code \in {"reading", "ok"} /\ heap[r] # << >> =>
      /\ d.status \in Terminal => d.status = Outcome(r, k)
      /\ d.status = "COMPLETED" /\ d.appId # "unread" => d.appId = heap[r][k].appId
      /\ d.completedAt \in {"set", "garbled"} /\ d.error # "unread" =>
           (d.error = "text" <=> Outcome(r, k) = "FAILED")

Rank(s) == CASE s \in {"unread", "PENDING"} -> 0
             [] s = "RUNNING" -> 1
             [] s = "garbled" -> 2
             [] s \in Terminal -> 3

\* A client that polls one key never sees its status go back, nor a final one
\* change, and it sees a garbled one at most once: GetState takes the lock,
\* so by the next poll the store that raced with this one is over.
PollsNeverGoBack ==
  \A p \in Poller :
    LET d == call[p].doc IN
    d.status # "unread" =>
      /\ Rank(call[p].before) <= Rank(d.status)
      /\ call[p].before \in Terminal => d.status = call[p].before
      /\ call[p].before # "garbled" \/ d.status # "garbled"

\* A client knows a run by its keys only, and a key leads to one object even
\* if the request named the job twice.  When all keys it can poll show final
\* states, no job of the run is still to come.
FinalKeysMeanFinalRun ==
  \A r \in Run :
    (\A j \in Job : states[r][j] # 0 => heap[r][states[r][j]].status \in Terminal)
      => \A k \in DOMAIN heap[r] : heap[r][k].status \in Terminal

-----------------------------------------------------------------------------
(* JobRegistry implements RunLifecycle *)

\* The batch a client knows of: none before the 202 and none for a rejected
\* request, whatever is left of it in the map.
Batch(r) ==
  IF call[r].code \in {"none", "rejected"} THEN << >>
  ELSE IF heap[r] = << >> THEN <<"LOST">>
  ELSE [k \in DOMAIN heap[r] |-> heap[r][k].status]

Lifecycle ==
  INSTANCE RunLifecycle WITH batch <- [r \in Run |-> Batch(r)],
                             Sizes <- {Len(Expand(ids)) : ids \in Requests} \ {0}

\* Seen from outside, the registry is the abstract batch runner: no step of a
\* goroutine, of a handler or of the process does more than the promise allows.
ImplementsLifecycle == Lifecycle!Spec

-----------------------------------------------------------------------------
(* What the repository says of the orchestrator and the code does not do *)

\* docs/architecture.md: the registry tracks the state machine PENDING,
\* RUNNING, COMPLETED or FAILED.  So a registered job leaves PENDING some day.
RegisteredJobsEnd ==
  \A r \in Run :
    heap[r] # << >> ~> \A k \in DOMAIN heap[r] : heap[r][k].status \in Terminal

\* main.go: status is tracked "in a thread-safe in-memory registry".  So a
\* status document shows one state: a final status with its completion time.
DocumentsAreStates ==
  \A p \in Poller :
    call[p].code = "ok" =>
      LET d == call[p].doc IN d.status \in Terminal <=> d.completedAt = "set"
=============================================================================
