-------------------------- MODULE JobRegistry_proofs --------------------------
(***************************************************************************)
(* Proofs about JobRegistry for any sets of runs, jobs, requests and       *)
(* pollers: its type invariant, the discipline of the mutex, and that the  *)
(* jobs of a run are executed one at a time in the order of the request.   *)
(***************************************************************************)
EXTENDS JobRegistry, TLAPS, SequenceTheorems, WellFoundedInduction

\* What the HTTP exchanges have to do with the registry: a request that is not
\* answered yet, or was rejected, has no goroutine; before it is handled it has
\* no object either; and a handler that is encoding goes through objects of a
\* run that was accepted.
CallsFollowRuns ==
  /\ \A r \in Run : call[r].code \in {"none", "rejected"} => runner[r].pc = "none"
  /\ \A r \in Run : call[r].code = "none" => heap[r] = << >>
  /\ \A c \in Caller : call[c].run # Nil => call[call[c].run].code \notin {"none", "rejected"}
  /\ \A c \in Caller : call[c].code = "reading" =>
       /\ call[c].run \in Run /\ call[c].todo # << >>
       /\ \A n \in 1..Len(call[c].todo) : call[c].todo[n] \in DOMAIN heap[call[c].run]

IInv == TypeOK /\ LockOwnerStores /\ JobsRunInOrder /\ CallsFollowRuns

-----------------------------------------------------------------------------
(* Operators *)

\* A nonempty set of natural numbers has a least element.
LEMMA LeastElement ==
  ASSUME NEW T \in SUBSET Nat, T # {}
  PROVE  \E x \in T : \A y \in T : x <= y
<1>1. PICK R : /\ IsWellFoundedOn(R, Nat)
               /\ \A x, y \in Nat : x < y => <<x, y>> \in R
  <2> DEFINE S == OpToRel(<, Nat)
  <2>1. IsWellFoundedOn(S, Nat)
    BY NatLessThanWellFounded
  <2>2. \A x, y \in Nat : x < y => <<x, y>> \in S
    BY DEF OpToRel
  <2> HIDE DEF S
  <2> QED BY <2>1, <2>2
<1>2. PICK x \in T : \A y \in T : ~ (<<y, x>> \in R)
  <2>1. IsWellFoundedOn(R, Nat)
    BY <1>1
  <2>2. T \subseteq Nat
    OBVIOUS
  <2> QED BY <2>1, <2>2, WFMin
<1>3. \A y \in T : ~ (y < x)
  BY <1>1, <1>2
<1> QED BY <1>3

\* An id that occurs in a request has a last occurrence.
LEMMA LastExists ==
  ASSUME NEW s \in Seq(Job), NEW j, NEW k0 \in DOMAIN s, s[k0] = j
  PROVE  \E k \in DOMAIN s : IsLast(s, j, k)
<1>1. Len(s) \in Nat /\ DOMAIN s = 1..Len(s)
  OBVIOUS
<1> DEFINE T == {n \in 0..Len(s) : s[Len(s) - n] = j /\ Len(s) - n \in DOMAIN s}
<1>2. T \in SUBSET Nat
  BY <1>1
<1>3. Len(s) - k0 \in T
  <2>1. Len(s) - k0 \in 0..Len(s) /\ Len(s) - (Len(s) - k0) = k0
    BY <1>1
  <2> QED BY <2>1
<1>4. PICK x \in T : \A y \in T : x <= y
  <2> HIDE DEF T
  <2> QED BY <1>2, <1>3, LeastElement
<1>5. Len(s) - x \in DOMAIN s /\ s[Len(s) - x] = j /\ x \in 0..Len(s)
  BY <1>4
<1>6. ASSUME NEW m \in DOMAIN s, s[m] = j
      PROVE  m <= Len(s) - x
  <2>1. Len(s) - m \in 0..Len(s) /\ Len(s) - (Len(s) - m) = m
    BY <1>1
  <2>2. Len(s) - m \in T
    BY <2>1, <1>6
  <2>3. x <= Len(s) - m
    BY <2>2, <1>4
  <2> QED BY <2>3, <1>1, <1>5
<1> QED BY <1>5, <1>6 DEF IsLast

\* The map after Submit leads every job of the request to one of its objects.
LEMMA EntriesType ==
  ASSUME NEW s \in Seq(Job)
  PROVE  /\ Entries(s) \in [Job -> Nat]
         /\ \A j \in Job : Entries(s)[j] <= Len(s)
<1>1. Len(s) \in Nat /\ DOMAIN s = 1..Len(s)
  OBVIOUS
<1>2. ASSUME NEW j \in Job
      PROVE  Entries(s)[j] \in 0..Len(s)
  <2>1. CASE \E k \in DOMAIN s : s[k] = j
    <3>1. \E k \in DOMAIN s : IsLast(s, j, k)
      BY <2>1, LastExists
    <3>2. (CHOOSE k \in DOMAIN s : IsLast(s, j, k)) \in DOMAIN s
      BY <3>1
    <3> QED BY <2>1, <3>2, <1>1 DEF Entries
  <2>2. CASE ~ \E k \in DOMAIN s : s[k] = j
    BY <2>2, <1>1 DEF Entries
  <2> QED BY <2>1, <2>2
<1> DEFINE F(j) == IF \E k \in DOMAIN s : s[k] = j
                   THEN CHOOSE k \in DOMAIN s : IsLast(s, j, k) ELSE 0
<1>3. Entries(s) = [j \in Job |-> F(j)]
  BY DEF Entries
<1> HIDE DEF F
<1> QED BY <1>1, <1>2, <1>3

\* Fields of an untouched object.
LEMMA FreshRecord ==
  ASSUME NEW o, Fresh(o)
  PROVE  o.status = "PENDING" /\ o.completedAt = "zero" /\ o.error = ""
<1> DEFINE j == o.job
<1>1. o = NewState(j)
  BY DEF Fresh
<1> HIDE DEF j
<1> QED BY <1>1 DEF NewState

\* One field of one object has a new value, and nothing else in the heap.
Stored(r, f, v) ==
  /\ heap' \in [Run -> Seq(JobState)]
  /\ \A q \in Run : Len(heap'[q]) = Len(heap[q]) /\ DOMAIN heap'[q] = DOMAIN heap[q]
  /\ \A q \in Run \ {r} : heap'[q] = heap[q]
  /\ \A k \in DOMAIN heap[r] :
       heap'[r][k] = IF k = runner[r].i THEN [heap[r][k] EXCEPT ![f] = v]
                     ELSE heap[r][k]

\* A store changes one field of the current object of r and nothing else.
LEMMA StoreChanges ==
  ASSUME TypeOK, NEW r \in Run, runner[r].pc # "none", NEW f, NEW v,
         [heap[r][runner[r].i] EXCEPT ![f] = v] \in JobState,
         Store(r, f, v)
  PROVE  Stored(r, f, v)
<1> DEFINE i == runner[r].i
           o == [heap[r][i] EXCEPT ![f] = v]
           s == [heap[r] EXCEPT ![i] = o]
<1>1. heap \in [Run -> Seq(JobState)] /\ i \in DOMAIN heap[r]
  BY DEF TypeOK
<1>2. heap[r] \in Seq(JobState) /\ DOMAIN heap[r] = 1..Len(heap[r])
  BY <1>1
<1>3. heap' = [heap EXCEPT ![r] = s]
  BY DEF Store
<1>4. i \in 1..Len(heap[r]) /\ o \in JobState
  BY <1>1, <1>2
<1>5. /\ s \in Seq(JobState) /\ Len(s) = Len(heap[r])
      /\ \A k \in 1..Len(heap[r]) : s[k] = IF k = i THEN o ELSE heap[r][k]
  <2> HIDE DEF o
  <2> QED BY <1>2, <1>4, ExceptSeq
<1>6. DOMAIN s = DOMAIN heap[r]
  BY <1>2, <1>5
<1> HIDE DEF s
<1>7. heap'[r] = s /\ \A q \in Run \ {r} : heap'[q] = heap[q]
  BY <1>1, <1>3
<1> QED
  BY <1>1, <1>2, <1>3, <1>5, <1>6, <1>7 DEF Stored

\* Allocate gives run r untouched objects, and keys that lead to them.
LEMMA AllocateChanges ==
  ASSUME TypeOK, NEW r \in Run, NEW s \in Seq(Job), Allocate(r, s)
  PROVE  /\ heap' \in [Run -> Seq(JobState)]
         /\ Len(heap'[r]) = Len(s) /\ DOMAIN heap'[r] = 1..Len(s)
         /\ \A k \in DOMAIN heap'[r] : heap'[r][k] = NewState(s[k])
         /\ \A q \in Run \ {r} : heap'[q] = heap[q]
         /\ states' \in [Run -> [Job -> Nat]]
         /\ \A q \in Run, j \in Job : states'[q][j] <= Len(heap'[q])
<1> DEFINE h == [k \in 1..Len(s) |-> NewState(s[k])]
<1>1. Len(s) \in Nat /\ \A k \in 1..Len(s) : s[k] \in Job
  OBVIOUS
<1>2. \A k \in 1..Len(s) : NewState(s[k]) \in JobState
  BY <1>1 DEF NewState, JobState, Status, Terminal
<1>3. h \in Seq(JobState) /\ Len(h) = Len(s) /\ DOMAIN h = 1..Len(s)
  <2>1. h \in [1..Len(s) -> JobState]
    BY <1>2
  <2> QED BY <2>1, <1>1
<1>4. heap' = [heap EXCEPT ![r] = h] /\ states' = [states EXCEPT ![r] = Entries(s)]
  BY DEF Allocate
<1>5. heap \in [Run -> Seq(JobState)] /\ states \in [Run -> [Job -> Nat]]
  BY DEF TypeOK
<1>6. heap'[r] = h /\ \A q \in Run \ {r} : heap'[q] = heap[q]
  <2> HIDE DEF h
  <2> QED BY <1>4, <1>5
<1>7. heap' \in [Run -> Seq(JobState)]
  <2> HIDE DEF h
  <2> QED BY <1>3, <1>4, <1>5
<1>8. states' \in [Run -> [Job -> Nat]]
  BY <1>4, <1>5, EntriesType
<1>9. \A q \in Run, j \in Job : states'[q][j] <= Len(heap'[q])
  <2> SUFFICES ASSUME NEW q \in Run, NEW j \in Job PROVE states'[q][j] <= Len(heap'[q])
    OBVIOUS
  <2> HIDE DEF h
  <2>1. CASE q = r
    BY <2>1, <1>3, <1>4, <1>5, <1>6, EntriesType
  <2>2. CASE q # r
    BY <2>2, <1>4, <1>5, <1>6 DEF TypeOK
  <2> QED BY <2>1, <2>2
<1>10. \A k \in 1..Len(s) : heap'[r][k] = NewState(s[k])
  BY <1>6
<1> HIDE DEF h
<1> QED BY <1>3, <1>6, <1>7, <1>8, <1>9, <1>10

\* The goroutine of a run is on one of its objects, and these are its moves.
LEMMA RunnerType ==
  ASSUME TypeOK, NEW r \in Run
  PROVE  /\ runner[r].pc \in PC /\ runner[r].i \in Nat
         /\ runner[r].want \in {"RUNNING", "COMPLETED", "FAILED"}
         /\ runner[r] = [pc |-> runner[r].pc, i |-> runner[r].i, want |-> runner[r].want]
         /\ runner[r].pc # "none" =>
              /\ runner[r].i \in 1..Len(heap[r])
              /\ runner[r].i \in DOMAIN heap[r]
              /\ heap[r][runner[r].i] \in JobState
<1>1. runner[r] \in [pc : PC, i : Nat, want : Status \ {"PENDING"}]
  BY DEF TypeOK
<1>2. heap[r] \in Seq(JobState) /\ DOMAIN heap[r] = 1..Len(heap[r])
  BY DEF TypeOK
<1>3. runner[r].pc # "none" => runner[r].i \in DOMAIN heap[r]
  BY DEF TypeOK
<1>4. \A i \in DOMAIN heap[r] : heap[r][i] \in JobState
  BY <1>2
<1> QED BY <1>1, <1>2, <1>3, <1>4 DEF Status, Terminal

\* Goto and SetStatus keep a goroutine on its object and within runJob.
LEMMA GotoType ==
  ASSUME TypeOK, NEW r \in Run, runner[r].pc # "none", NEW pc \in PC \ {"none"},
         NEW w \in {"RUNNING", "COMPLETED", "FAILED"},
         \/ runner' = [runner EXCEPT ![r].pc = pc, ![r].want = w]
         \/ runner' = [runner EXCEPT ![r].pc = pc] /\ w = runner[r].want
  PROVE  /\ runner' \in [Run -> [pc : PC, i : Nat, want : Status \ {"PENDING"}]]
         /\ runner'[r] = [pc |-> pc, i |-> runner[r].i, want |-> w]
         /\ \A q \in Run \ {r} : runner'[q] = runner[q]
<1>1. runner \in [Run -> [pc : PC, i : Nat, want : Status \ {"PENDING"}]]
  BY DEF TypeOK
<1>2. runner[r] = [pc |-> runner[r].pc, i |-> runner[r].i, want |-> runner[r].want]
  BY <1>1
<1> QED BY <1>1, <1>2 DEF Status, Terminal

\* Advance moves to the next object, or ends the goroutine after the last.
LEMMA AdvanceType ==
  ASSUME TypeOK, NEW r \in Run, runner[r].pc # "none", Advance(r)
  PROVE  /\ runner' \in [Run -> [pc : PC, i : Nat, want : Status \ {"PENDING"}]]
         /\ \A q \in Run \ {r} : runner'[q] = runner[q]
         /\ \/ /\ runner[r].i < Len(heap[r])
               /\ runner'[r] = [pc |-> "setStatus", i |-> runner[r].i + 1, want |-> "RUNNING"]
            \/ /\ runner[r].i = Len(heap[r])
               /\ runner'[r] = [pc |-> "done", i |-> runner[r].i, want |-> runner[r].want]
<1>1. runner \in [Run -> [pc : PC, i : Nat, want : Status \ {"PENDING"}]]
  BY DEF TypeOK
<1>2. /\ runner[r] = [pc |-> runner[r].pc, i |-> runner[r].i, want |-> runner[r].want]
      /\ runner[r].i \in 1..Len(heap[r]) /\ Len(heap[r]) \in Nat
  BY RunnerType DEF TypeOK
<1>3. CASE runner[r].i < Len(heap[r])
  <2>1. runner' = [runner EXCEPT ![r] = [pc |-> "setStatus", i |-> runner[r].i + 1,
                                         want |-> "RUNNING"]]
    BY <1>3, <1>1, <1>2 DEF Advance
  <2> QED BY <2>1, <1>1, <1>2, <1>3 DEF PC, Storing, Status, Terminal
<1>4. CASE ~ (runner[r].i < Len(heap[r]))
  <2>1. runner' = [runner EXCEPT ![r] = [runner[r] EXCEPT !.pc = "done"]]
    BY <1>4, <1>1, <1>2 DEF Advance
  <2>2. runner[r].i = Len(heap[r])
    BY <1>2, <1>4
  <2> QED BY <2>1, <2>2, <1>1, <1>2 DEF PC, Storing, Status, Terminal
<1> QED BY <1>3, <1>4

-----------------------------------------------------------------------------
(* Steps of a goroutine *)

\* What every step of run r's goroutine leaves alone.
RunnerFrame(r) ==
  /\ UNCHANGED <<up, states, call>>
  /\ heap' \in [Run -> Seq(JobState)]
  /\ \A q \in Run : Len(heap'[q]) = Len(heap[q]) /\ DOMAIN heap'[q] = DOMAIN heap[q]
  /\ \A q \in Run \ {r} : heap'[q] = heap[q]
  /\ runner' \in [Run -> [pc : PC, i : Nat, want : Status \ {"PENDING"}]]
  /\ \A q \in Run \ {r} : runner'[q] = runner[q]
  /\ runner[r].pc # "none" /\ runner'[r].pc # "none"
  /\ runner'[r].i \in DOMAIN heap[r]

\* A step of one goroutine keeps the types and what HTTP exchanges rely on.
LEMMA RunnerFrameType ==
  ASSUME IInv, NEW r \in Run, RunnerFrame(r), lock' \in {lock, r, Nil}
  PROVE  TypeOK' /\ CallsFollowRuns'
<1> USE DEF IInv, RunnerFrame
<1>1. \A q \in Run : runner'[q].pc # "none" => runner'[q].i \in DOMAIN heap'[q]
  BY DEF TypeOK
<1>2. \A q \in Run, j \in Job : states'[q][j] <= Len(heap'[q])
  BY DEF TypeOK
<1>3. TypeOK'
  BY <1>1, <1>2 DEF TypeOK
<1>4. \A q \in Run : runner'[q].pc = "none" <=> runner[q].pc = "none"
  OBVIOUS
<1>5. \A q \in Run : heap[q] = << >> => heap'[q] = << >>
  BY DEF TypeOK
<1>6. CallsFollowRuns'
  BY <1>4, <1>5 DEF CallsFollowRuns
<1> QED BY <1>3, <1>6

\* The records of one run agree with its goroutine.
RunInOrder(r) ==
  \A k \in DOMAIN heap[r] :
    IF runner[r].pc = "none" THEN Fresh(heap[r][k])
    ELSE /\ k < runner[r].i => Settled(heap[r][k])
         /\ k > runner[r].i => Fresh(heap[r][k])
         /\ k = runner[r].i => InProgress(runner[r].pc, runner[r].want, heap[r][k])
         /\ runner[r].pc = "done" => k <= runner[r].i

\* JobsRunInOrder, run by run.
LEMMA OrderByRun == JobsRunInOrder <=> \A r \in Run : RunInOrder(r)
BY DEF JobsRunInOrder, RunInOrder

\* A step of one goroutine leaves the order of the other runs alone.
LEMMA OthersInOrder ==
  ASSUME IInv, NEW r \in Run, RunnerFrame(r), RunInOrder(r)'
  PROVE  JobsRunInOrder'
<1>1. ASSUME NEW q \in Run \ {r}
      PROVE  RunInOrder(q)'
  <2>1. heap'[q] = heap[q] /\ runner'[q] = runner[q]
    BY DEF RunnerFrame
  <2>2. RunInOrder(q)
    BY OrderByRun DEF IInv
  <2> QED BY <2>1, <2>2 DEF RunInOrder
<1> QED BY <1>1 DEF RunInOrder, JobsRunInOrder

\* A step that stays on the current object has to answer for that object only.
LEMMA SameJobInOrder ==
  ASSUME IInv, NEW r \in Run, RunnerFrame(r),
         runner'[r].i = runner[r].i, runner[r].pc # "done", runner'[r].pc # "done",
         \A k \in DOMAIN heap[r] : k # runner[r].i => heap'[r][k] = heap[r][k],
         InProgress(runner'[r].pc, runner'[r].want, heap'[r][runner'[r].i])
  PROVE  JobsRunInOrder'
<1>1. RunInOrder(r)
  BY OrderByRun DEF IInv
<1>2. runner[r].i \in Nat /\ DOMAIN heap[r] \subseteq Nat
  BY DEF IInv, TypeOK
<1>3. RunInOrder(r)'
  <2> SUFFICES ASSUME NEW k \in DOMAIN heap'[r]
               PROVE  /\ k < runner'[r].i => Settled(heap'[r][k])
                      /\ k > runner'[r].i => Fresh(heap'[r][k])
                      /\ k = runner'[r].i => InProgress(runner'[r].pc, runner'[r].want, heap'[r][k])
    BY DEF RunInOrder, RunnerFrame
  <2>1. k \in DOMAIN heap[r]
    BY DEF RunnerFrame
  <2>2. CASE k = runner[r].i
    BY <2>2, <1>2
  <2>3. CASE k # runner[r].i
    BY <2>3, <2>1, <1>1, <1>2 DEF RunInOrder, RunnerFrame
  <2> QED BY <2>2, <2>3
<1> QED BY <1>3, OthersInOrder

\* The goroutine is where it is, and its object agrees.
LEMMA CurrentJob ==
  ASSUME IInv, NEW r \in Run, runner[r].pc # "none"
  PROVE  /\ heap[r][runner[r].i] \in JobState
         /\ InProgress(runner[r].pc, runner[r].want, heap[r][runner[r].i])
BY RunnerType DEF IInv, JobsRunInOrder

\* The goroutine of r went to pc, on the same object.
Moved(r, pc, w) ==
  /\ RunnerFrame(r)
  /\ runner'[r] = [pc |-> pc, i |-> runner[r].i, want |-> w]

\* A step that only moves the goroutine, outside the mutex or into it.
LEMMA MoveFrame ==
  ASSUME IInv, NEW r \in Run, runner[r].pc # "none", NEW pc \in PC \ {"none", "done"},
         NEW w \in {"RUNNING", "COMPLETED", "FAILED"},
         \/ runner' = [runner EXCEPT ![r].pc = pc, ![r].want = w]
         \/ runner' = [runner EXCEPT ![r].pc = pc] /\ w = runner[r].want,
         UNCHANGED <<up, heap, states, call>>
  PROVE  Moved(r, pc, w)
<1>1. pc \in PC \ {"none"}
  OBVIOUS
<1>2. TypeOK
  BY DEF IInv
<1>3. /\ runner' \in [Run -> [pc : PC, i : Nat, want : Status \ {"PENDING"}]]
      /\ runner'[r] = [pc |-> pc, i |-> runner[r].i, want |-> w]
      /\ \A q \in Run \ {r} : runner'[q] = runner[q]
  BY <1>1, <1>2, GotoType
<1> QED BY <1>1, <1>2, <1>3, RunnerType DEF Moved, RunnerFrame, TypeOK

\* The goroutine is outside the mutex before and after a step.
LEMMA LockUntouched ==
  ASSUME IInv, NEW r \in Run, RunnerFrame(r), lock' = lock,
         runner[r].pc \in Storing <=> runner'[r].pc \in Storing
  PROVE  LockOwnerStores'
BY DEF IInv, LockOwnerStores, RunnerFrame

\* A step under the mutex that releases it.
LEMMA LockReleased ==
  ASSUME IInv, NEW r \in Run, RunnerFrame(r), lock' = Nil,
         runner[r].pc \in Storing, runner'[r].pc \notin Storing
  PROVE  LockOwnerStores'
BY JobAssumption DEF IInv, LockOwnerStores, RunnerFrame

\* Steps that neither store nor use the mutex: FindStreamingJar, RemoveOutput,
\* Launch, ExitZero, ExitNonzero.
LEMMA MoveKeepsIInv ==
  ASSUME IInv, NEW r \in Run, NEW pc \in {"setStatus", "remove", "launch", "wait", "recordApp"},
         NEW w \in {"RUNNING", "COMPLETED", "FAILED"},
         runner[r].pc \in {"findJar", "remove", "launch", "wait"},
         \/ runner' = [runner EXCEPT ![r].pc = pc, ![r].want = w]
         \/ runner' = [runner EXCEPT ![r].pc = pc] /\ w = runner[r].want,
         pc = "setStatus" => w # "RUNNING",
         UNCHANGED <<up, heap, states, lock, call>>
  PROVE  IInv'
<1>1. pc \in PC \ {"none", "done"} /\ pc \notin Storing /\ runner[r].pc \notin Storing
  BY DEF PC, Storing
<1>2. RunnerFrame(r) /\ runner'[r] = [pc |-> pc, i |-> runner[r].i, want |-> w]
  BY <1>1, MoveFrame DEF Moved
<1>3. TypeOK' /\ CallsFollowRuns'
  BY <1>2, RunnerFrameType
<1>4. LockOwnerStores'
  BY <1>1, <1>2, LockUntouched
<1>5. InProgress(runner'[r].pc, runner'[r].want, heap'[r][runner'[r].i])
  <2> DEFINE o == heap[r][runner[r].i]
  <2>1. o.status = "RUNNING" /\ o.completedAt = "zero" /\ o.error = ""
    BY CurrentJob DEF InProgress
  <2>2. /\ runner'[r].pc = pc /\ runner'[r].want = w
        /\ heap'[r][runner'[r].i] = o
    BY <1>2
  <2> HIDE DEF o
  <2>3. InProgress(pc, w, o)
    BY <2>1 DEF InProgress
  <2> QED BY <2>2, <2>3
<1>6. JobsRunInOrder'
  BY <1>1, <1>2, <1>5, SameJobInOrder
<1> QED BY <1>3, <1>4, <1>6 DEF IInv

\* mu.Lock() in setStatus and in runJob: the free mutex gets an owner that stores.
LEMMA AcquireLockKeepsIInv ==
  ASSUME IInv, NEW r \in Run, AcquireLock(r)
  PROVE  IInv'
<1>1. PICK pc \in {"status", "appId"} :
         /\ runner' = [runner EXCEPT ![r].pc = pc]
         /\ runner[r].pc = IF pc = "status" THEN "setStatus" ELSE "recordApp"
         /\ lock = Nil /\ lock' = r /\ UNCHANGED <<up, heap, states, call>>
  BY DEF AcquireLock, Goto
<1>2. /\ pc \in PC \ {"none", "done"} /\ pc \in Storing
      /\ runner[r].want \in {"RUNNING", "COMPLETED", "FAILED"}
  BY RunnerType DEF PC, Storing, IInv
<1>3. RunnerFrame(r) /\ runner'[r] = [pc |-> pc, i |-> runner[r].i, want |-> runner[r].want]
  BY <1>1, <1>2, MoveFrame DEF Moved
<1>4. TypeOK' /\ CallsFollowRuns'
  BY <1>1, <1>3, RunnerFrameType
<1>5. LockOwnerStores'
  BY <1>1, <1>2, <1>3, JobAssumption DEF IInv, LockOwnerStores, RunnerFrame
<1>6. InProgress(runner'[r].pc, runner'[r].want, heap'[r][runner'[r].i])
  <2>1. InProgress(runner[r].pc, runner[r].want, heap[r][runner[r].i])
    BY <1>1, CurrentJob
  <2>2. /\ runner'[r].pc = pc /\ runner'[r].want = runner[r].want
        /\ heap'[r][runner'[r].i] = heap[r][runner[r].i]
    BY <1>1, <1>3
  <2>3. InProgress(pc, runner[r].want, heap[r][runner[r].i])
    BY <2>1, <1>1 DEF InProgress
  <2> QED BY <2>2, <2>3
<1>7. JobsRunInOrder'
  BY <1>1, <1>3, <1>6, SameJobInOrder
<1> QED BY <1>4, <1>5, <1>7 DEF IInv

\* A store that leaves the goroutine on its object.
LEMMA StoreFrame ==
  ASSUME IInv, NEW r \in Run, runner[r].pc \in Storing, NEW f, NEW v, Stored(r, f, v),
         NEW pc \in PC \ {"none", "done"}, NEW w \in {"RUNNING", "COMPLETED", "FAILED"},
         \/ runner' = [runner EXCEPT ![r].pc = pc, ![r].want = w]
         \/ runner' = [runner EXCEPT ![r].pc = pc] /\ w = runner[r].want,
         UNCHANGED <<up, states, call>>
  PROVE  Moved(r, pc, w)
<1>1. TypeOK /\ runner[r].pc # "none" /\ pc \in PC \ {"none"}
  BY DEF IInv, Storing
<1>2. runner[r].i \in DOMAIN heap[r]
  BY <1>1 DEF TypeOK
<1>3. /\ runner' \in [Run -> [pc : PC, i : Nat, want : Status \ {"PENDING"}]]
      /\ runner'[r] = [pc |-> pc, i |-> runner[r].i, want |-> w]
      /\ \A q \in Run \ {r} : runner'[q] = runner[q]
  BY <1>1, GotoType
<1> QED BY <1>1, <1>2, <1>3 DEF Moved, RunnerFrame, Stored

\* What a store and the move after it mean for the object, and for the others.
LEMMA StoreInOrder ==
  ASSUME IInv, NEW r \in Run, runner[r].pc \in Storing, NEW f, NEW v, Stored(r, f, v),
         NEW pc \in PC \ {"none", "done"}, NEW w, Moved(r, pc, w),
         InProgress(pc, w, [heap[r][runner[r].i] EXCEPT ![f] = v])
  PROVE  JobsRunInOrder'
<1>1. RunnerFrame(r) /\ runner[r].pc # "done" /\ runner[r].pc # "none"
  BY DEF Moved, Storing
<1>2. /\ runner'[r].pc = pc /\ runner'[r].want = w
      /\ runner'[r].i = runner[r].i /\ runner[r].i \in DOMAIN heap[r]
  <2>1. TypeOK
    BY DEF IInv
  <2>2. runner[r].i \in DOMAIN heap[r]
    BY <2>1, <1>1 DEF TypeOK
  <2> QED BY <2>2 DEF Moved
<1>3. /\ \A k \in DOMAIN heap[r] : k # runner[r].i => heap'[r][k] = heap[r][k]
      /\ heap'[r][runner[r].i] = [heap[r][runner[r].i] EXCEPT ![f] = v]
  BY <1>2 DEF Stored
<1>4. InProgress(runner'[r].pc, runner'[r].want, heap'[r][runner'[r].i])
  BY <1>2, <1>3
<1> QED BY <1>1, <1>2, <1>3, <1>4, SameJobInOrder

\* state.Status = status, the first store of setStatus.
LEMMA StoreStatusKeepsIInv ==
  ASSUME IInv, NEW r \in Run, StoreStatus(r)
  PROVE  IInv'
<1> DEFINE o == heap[r][runner[r].i]
           w == runner[r].want
           n == [o EXCEPT !["status"] = w]
<1>1. /\ runner[r].pc = "status" /\ runner[r].pc \in Storing
      /\ Store(r, "status", w)
      /\ runner' = [runner EXCEPT ![r].pc = "error"]
      /\ UNCHANGED <<up, states, lock, call>>
  BY DEF StoreStatus, Incoming, Goto, Storing
<1>2. /\ w \in {"RUNNING", "COMPLETED", "FAILED"} /\ o \in JobState
      /\ "error" \in PC \ {"none", "done"} /\ TypeOK /\ runner[r].pc # "none"
  BY <1>1, RunnerType DEF IInv, PC, Storing
<1>3. /\ n \in JobState /\ n.status = w
      /\ n.completedAt = o.completedAt /\ n.error = o.error
  BY <1>2 DEF JobState, Status, Terminal
<1>4. Stored(r, "status", w)
  BY <1>1, <1>2, <1>3, StoreChanges
<1>5. Moved(r, "error", w)
  BY <1>1, <1>2, <1>4, StoreFrame
<1>6. TypeOK' /\ CallsFollowRuns'
  BY <1>1, <1>5, RunnerFrameType DEF Moved
<1>7. LockOwnerStores'
  BY <1>1, <1>5, LockUntouched DEF Moved, Storing
<1>8. InProgress("error", w, n)
  <2>1. InProgress("status", w, o)
    <3>1. InProgress(runner[r].pc, w, o)
      BY <1>2, CurrentJob
    <3> QED BY <3>1, <1>1
  <2>2. Fresh(o) => o.completedAt = "zero" /\ o.error = ""
    BY FreshRecord
  <2>3. o.completedAt = "zero" /\ o.error = ""
    BY <2>1, <2>2 DEF InProgress
  <2> HIDE DEF n
  <2> QED BY <2>3, <1>3 DEF InProgress
<1>9. JobsRunInOrder'
  BY <1>1, <1>2, <1>4, <1>5, <1>8, StoreInOrder
<1> QED BY <1>6, <1>7, <1>9 DEF IInv

\* state.Error = errMsg; for RUNNING the mutex is released, else it is kept.
LEMMA StoreErrorKeepsIInv ==
  ASSUME IInv, NEW r \in Run, StoreError(r)
  PROVE  IInv'
<1> DEFINE o == heap[r][runner[r].i]
           w == runner[r].want
           v == IF w = "FAILED" THEN "text" ELSE ""
           n == [o EXCEPT !["error"] = v]
           pc == IF w \in Terminal THEN "completedAt" ELSE "findJar"
<1>1. /\ runner[r].pc = "error" /\ runner[r].pc \in Storing
      /\ Store(r, "error", v)
      /\ runner' = [runner EXCEPT ![r].pc = pc]
      /\ lock' = IF w \in Terminal THEN lock ELSE Nil
      /\ UNCHANGED <<up, states, call>>
  BY DEF StoreError, Incoming, Goto, Storing
<1>2. /\ w \in {"RUNNING", "COMPLETED", "FAILED"} /\ o \in JobState
      /\ pc \in PC \ {"none", "done"} /\ TypeOK /\ runner[r].pc # "none"
  BY <1>1, RunnerType DEF IInv, PC, Storing
<1>3. /\ n \in JobState /\ n.error = v
      /\ n.completedAt = o.completedAt /\ n.status = o.status
  BY <1>2 DEF JobState, Status, Terminal
<1>4. Stored(r, "error", v)
  BY <1>1, <1>2, <1>3, StoreChanges
<1>5. Moved(r, pc, w)
  <2> HIDE DEF pc
  <2> QED BY <1>1, <1>2, <1>4, StoreFrame
<1>6. TypeOK' /\ CallsFollowRuns'
  BY <1>1, <1>5, RunnerFrameType DEF Moved
<1>7. LockOwnerStores'
  <2>1. CASE w \in Terminal
    <3>1. RunnerFrame(r) /\ lock' = lock /\ runner'[r].pc = "completedAt"
      <4>1. lock' = lock
        BY <2>1, <1>1
      <4>2. pc = "completedAt"
        BY <2>1
      <4>3. runner'[r].pc = pc /\ RunnerFrame(r)
        <5> HIDE DEF pc
        <5> QED BY <1>5 DEF Moved
      <4> QED BY <4>1, <4>2, <4>3
    <3> QED BY <3>1, <1>1, LockUntouched DEF Storing
  <2>2. CASE w \notin Terminal
    <3>1. RunnerFrame(r) /\ lock' = Nil /\ runner'[r].pc = "findJar"
      <4>1. lock' = Nil
        BY <2>2, <1>1
      <4>2. pc = "findJar"
        BY <2>2
      <4>3. runner'[r].pc = pc /\ RunnerFrame(r)
        <5> HIDE DEF pc
        <5> QED BY <1>5 DEF Moved
      <4> QED BY <4>1, <4>2, <4>3
    <3> QED BY <3>1, <1>1, LockReleased DEF Storing
  <2> QED BY <2>1, <2>2
<1>8. InProgress(pc, w, n)
  <2>1. InProgress("error", w, o)
    <3>1. InProgress(runner[r].pc, w, o)
      BY <1>2, CurrentJob
    <3> QED BY <3>1, <1>1
  <2>2. o.completedAt = "zero" /\ o.status = w
    BY <2>1 DEF InProgress
  <2> HIDE DEF n
  <2> QED BY <2>2, <1>2, <1>3 DEF InProgress, Terminal
<1>9. JobsRunInOrder'
  <2> HIDE DEF pc
  <2> QED BY <1>1, <1>2, <1>4, <1>5, <1>8, StoreInOrder
<1> QED BY <1>6, <1>7, <1>9 DEF IInv

\* state.YARNAppID = appID, and the unlock after it.
LEMMA StoreAppIdKeepsIInv ==
  ASSUME IInv, NEW r \in Run, StoreAppId(r)
  PROVE  IInv'
<1> DEFINE o == heap[r][runner[r].i]
           w == "COMPLETED"
           n == [o EXCEPT !["appId"] = "app"]
<1>1. /\ runner[r].pc = "appId" /\ runner[r].pc \in Storing
      /\ Store(r, "appId", "app")
      /\ runner' = [runner EXCEPT ![r].pc = "setStatus", ![r].want = w]
      /\ lock' = Nil
      /\ UNCHANGED <<up, states, call>>
  BY DEF StoreAppId, Incoming, SetStatus, Storing
<1>2. /\ w \in {"RUNNING", "COMPLETED", "FAILED"} /\ o \in JobState
      /\ "setStatus" \in PC \ {"none", "done"} /\ TypeOK /\ runner[r].pc # "none"
  BY <1>1, RunnerType DEF IInv, PC, Storing
<1>3. /\ n \in JobState /\ n.error = o.error
      /\ n.completedAt = o.completedAt /\ n.status = o.status
  BY <1>2 DEF JobState
<1>4. Stored(r, "appId", "app")
  BY <1>1, <1>2, <1>3, StoreChanges
<1>5. Moved(r, "setStatus", w)
  BY <1>1, <1>2, <1>4, StoreFrame
<1>6. TypeOK' /\ CallsFollowRuns'
  BY <1>1, <1>5, RunnerFrameType DEF Moved
<1>7. LockOwnerStores'
  <2>1. RunnerFrame(r) /\ runner'[r].pc = "setStatus"
    BY <1>5 DEF Moved
  <2> QED BY <2>1, <1>1, LockReleased DEF Storing
<1>8. InProgress("setStatus", w, n)
  <2>1. InProgress("appId", runner[r].want, o)
    <3>1. InProgress(runner[r].pc, runner[r].want, o)
      BY <1>2, CurrentJob
    <3> QED BY <3>1, <1>1
  <2>2. o.completedAt = "zero" /\ o.status = "RUNNING" /\ o.error = ""
    BY <2>1 DEF InProgress
  <2> HIDE DEF n
  <2> QED BY <2>2, <1>3 DEF InProgress
<1>9. JobsRunInOrder'
  BY <1>1, <1>2, <1>4, <1>5, <1>8, StoreInOrder
<1> QED BY <1>6, <1>7, <1>9 DEF IInv

\* state.CompletedAt = time.Now(), the unlock, and the return to the loop of Submit:
\* the object is settled, the next one (if any) is still untouched.
LEMMA StoreCompletedAtKeepsIInv ==
  ASSUME IInv, NEW r \in Run, StoreCompletedAt(r)
  PROVE  IInv'
<1> DEFINE i == runner[r].i
           o == heap[r][i]
           n == [o EXCEPT !["completedAt"] = "set"]
<1>1. /\ runner[r].pc = "completedAt" /\ runner[r].pc \in Storing
      /\ Store(r, "completedAt", "set")
      /\ Advance(r)
      /\ lock' = Nil
      /\ UNCHANGED <<up, states, call>>
  BY DEF StoreCompletedAt, Incoming, Storing
<1>2. /\ o \in JobState /\ i \in DOMAIN heap[r] /\ i \in 1..Len(heap[r])
      /\ TypeOK /\ runner[r].pc # "none"
  BY <1>1, RunnerType DEF IInv
<1>3. /\ n \in JobState /\ n.completedAt = "set"
      /\ n.status = o.status /\ n.error = o.error
  BY <1>2 DEF JobState
<1>4. Stored(r, "completedAt", "set")
  BY <1>1, <1>2, <1>3, StoreChanges
<1>5. /\ heap'[r][i] = n
      /\ \A k \in DOMAIN heap[r] : k # i => heap'[r][k] = heap[r][k]
      /\ DOMAIN heap'[r] = DOMAIN heap[r] /\ DOMAIN heap[r] = 1..Len(heap[r])
      /\ Len(heap[r]) \in Nat
  <2>1. heap[r] \in Seq(JobState)
    BY <1>2 DEF TypeOK
  <2>2. Len(heap[r]) \in Nat /\ DOMAIN heap[r] = 1..Len(heap[r])
    BY <2>1
  <2> QED BY <2>2, <1>2, <1>4 DEF Stored
<1>6. /\ runner' \in [Run -> [pc : PC, i : Nat, want : Status \ {"PENDING"}]]
      /\ \A q \in Run \ {r} : runner'[q] = runner[q]
      /\ \/ /\ i < Len(heap[r])
            /\ runner'[r] = [pc |-> "setStatus", i |-> i + 1, want |-> "RUNNING"]
         \/ /\ i = Len(heap[r])
            /\ runner'[r] = [pc |-> "done", i |-> i, want |-> runner[r].want]
  BY <1>1, <1>2, AdvanceType
<1>7. RunnerFrame(r) /\ runner'[r].pc \notin Storing
  <2>1. runner'[r].pc # "none" /\ runner'[r].i \in 1..Len(heap[r]) /\ runner'[r].pc \notin Storing
    BY <1>2, <1>5, <1>6 DEF Storing
  <2>2. RunnerFrame(r)
    BY <2>1, <1>1, <1>2, <1>4, <1>5, <1>6 DEF RunnerFrame, Stored
  <2> QED BY <2>1, <2>2
<1>8. TypeOK' /\ CallsFollowRuns'
  BY <1>1, <1>7, RunnerFrameType
<1>9. LockOwnerStores'
  BY <1>1, <1>7, LockReleased
<1>10. Settled(n)
  <2>1. InProgress("completedAt", runner[r].want, o)
    <3>1. InProgress(runner[r].pc, runner[r].want, o)
      BY <1>2, CurrentJob
    <3> QED BY <3>1, <1>1
  <2>2. /\ o.status = runner[r].want /\ runner[r].want \in Terminal
        /\ o.error = "text" <=> runner[r].want = "FAILED"
    BY <2>1 DEF InProgress
  <2> HIDE DEF n
  <2> QED BY <2>2, <1>3 DEF Settled
<1>11. JobsRunInOrder'
  <2>1. RunInOrder(r)
    BY OrderByRun DEF IInv
  <2>2. \A k \in DOMAIN heap[r] : /\ k < i => Settled(heap'[r][k])
                                  /\ k = i => Settled(heap'[r][k])
                                  /\ k > i => Fresh(heap'[r][k])
    <3> HIDE DEF n
    <3> QED BY <2>1, <1>1, <1>5, <1>10, <1>2 DEF RunInOrder
  <2>3. i \in Nat /\ DOMAIN heap[r] \subseteq Nat
    BY <1>2, <1>5
  <2>4. \A p : Fresh(p) => InProgress("setStatus", "RUNNING", p)
    BY DEF InProgress
  <2>5. \A p, w : Settled(p) => InProgress("done", w, p)
    BY DEF InProgress
  <2>6. RunInOrder(r)'
    <3>1. CASE runner'[r] = [pc |-> "setStatus", i |-> i + 1, want |-> "RUNNING"]
      BY <3>1, <2>2, <2>3, <2>4, <1>5 DEF RunInOrder
    <3>2. CASE i = Len(heap[r]) /\ runner'[r] = [pc |-> "done", i |-> i, want |-> runner[r].want]
      BY <3>2, <2>2, <2>3, <2>5, <1>5 DEF RunInOrder
    <3> QED BY <3>1, <3>2, <1>6
  <2> QED BY <2>6, <1>7, OthersInOrder
<1> QED BY <1>8, <1>9, <1>11 DEF IInv

\* Every step of a goroutine preserves the invariant.
LEMMA RunnerStepKeepsIInv ==
  ASSUME IInv, NEW r \in Run, RunnerStep(r)
  PROVE  IInv'
<1>0. /\ runner[r].want \in {"RUNNING", "COMPLETED", "FAILED"}
      /\ "FAILED" \in {"RUNNING", "COMPLETED", "FAILED"} /\ "FAILED" # "RUNNING"
      /\ "COMPLETED" \in {"RUNNING", "COMPLETED", "FAILED"} /\ "COMPLETED" # "RUNNING"
  BY RunnerType DEF IInv
<1>1. CASE AcquireLock(r)
  BY <1>1, AcquireLockKeepsIInv
<1>2. CASE StoreStatus(r)
  BY <1>2, StoreStatusKeepsIInv
<1>3. CASE StoreError(r)
  BY <1>3, StoreErrorKeepsIInv
<1>4. CASE StoreCompletedAt(r)
  BY <1>4, StoreCompletedAtKeepsIInv
<1>5. CASE StoreAppId(r)
  BY <1>5, StoreAppIdKeepsIInv
<1>6. CASE FindStreamingJar(r)
  BY <1>0, <1>6, MoveKeepsIInv DEF FindStreamingJar, Goto, SetStatus
<1>7. CASE RemoveOutput(r)
  BY <1>0, <1>7, MoveKeepsIInv DEF RemoveOutput, Goto
<1>8. CASE Launch(r)
  BY <1>0, <1>8, MoveKeepsIInv DEF Launch, Goto, SetStatus
<1>9. CASE ExitZero(r)
  BY <1>0, <1>9, MoveKeepsIInv DEF ExitZero, Goto, SetStatus
<1>10. CASE ExitNonzero(r)
  BY <1>0, <1>10, MoveKeepsIInv DEF ExitNonzero, SetStatus
<1> QED
  BY <1>1, <1>2, <1>3, <1>4, <1>5, <1>6, <1>7, <1>8, <1>9, <1>10 DEF RunnerStep

-----------------------------------------------------------------------------
(* Steps of the HTTP handlers and of the process *)

\* The exchange nobody has started is well typed.
LEMMA NoCallType == NoCall \in Call
<1>1. Blank \in Document
  BY DEF Blank, Seen, Document
<1>2. << >> \in Seq(Nat) /\ 1 \in 1..4 /\ "unread" \in Seen
  BY DEF Seen
<1> HIDE DEF Seen
<1> QED BY <1>1, <1>2 DEF NoCall, Call

\* An orchestrator that has just started satisfies the invariant.
LEMMA InitIInv == Init => IInv
<1> SUFFICES ASSUME Init PROVE IInv
  OBVIOUS
<1> USE DEF Init
<1>1. TypeOK
  BY NoCallType DEF TypeOK, Idle, PC, Status, Terminal
<1>2. LockOwnerStores
  BY JobAssumption DEF LockOwnerStores, Idle, Storing
<1>3. JobsRunInOrder
  BY DEF JobsRunInOrder
<1>4. CallsFollowRuns
  BY DEF CallsFollowRuns, NoCall, Idle, Caller
<1> QED BY <1>1, <1>2, <1>3, <1>4 DEF IInv

\* A body that is rejected before Submit touches no registry state.
LEMMA RejectMalformedKeepsIInv ==
  ASSUME IInv, NEW r \in Run, RejectMalformed(r)
  PROVE  IInv'
<1> USE DEF IInv, RejectMalformed
<1>0. r \in Caller
  BY DEF Caller
<1>1. call' \in [Caller -> Call]
  BY <1>0 DEF TypeOK, Call
<1>2. TypeOK'
  BY <1>1 DEF TypeOK
<1>3. LockOwnerStores' /\ JobsRunInOrder'
  BY DEF LockOwnerStores, JobsRunInOrder
<1>4. CallsFollowRuns'
  <2>1. /\ call'[r].code = "rejected" /\ call'[r].run = call[r].run
        /\ \A c \in Caller \ {r} : call'[c] = call[c]
    BY <1>0 DEF TypeOK, Call
  <2>2. Run \subseteq Caller /\ call[r].code = "none"
    BY DEF Caller
  <2> QED BY <2>1, <2>2 DEF CallsFollowRuns, TypeOK, Call
<1> QED BY <1>2, <1>3, <1>4

\* An unanswered request: nothing in the registry is about it yet.
LEMMA UnansweredRun ==
  ASSUME IInv, NEW r \in Run, call[r].code = "none"
  PROVE  /\ runner[r].pc = "none"
         /\ \A c \in Caller : call[c].run # r
BY JobAssumption DEF IInv, CallsFollowRuns

\* A request that is rejected after objects were made for some of its ids.
LEMMA SubmitUnknownKeepsIInv ==
  ASSUME IInv, NEW r \in Run, SubmitUnknown(r)
  PROVE  IInv'
<1>0. TypeOK /\ r \in Caller /\ Run \subseteq Caller /\ call[r].code = "none"
  BY DEF IInv, Caller, SubmitUnknown
<1>1. PICK s \in Seq(Job) : Allocate(r, s)
  <2>0. PICK ids \in Requests : \E k \in DOMAIN Expand(ids) :
          /\ \A m \in 1..(k - 1) : Expand(ids)[m] \in Job
          /\ Allocate(r, SubSeq(Expand(ids), 1, k - 1))
    BY DEF SubmitUnknown
  <2>1. PICK k \in DOMAIN Expand(ids) :
          /\ \A m \in 1..(k - 1) : Expand(ids)[m] \in Job
          /\ Allocate(r, SubSeq(Expand(ids), 1, k - 1))
    BY <2>0
  <2>2. k \in Int
    <3>1. Expand(ids) \in Seq(Id)
      BY JobAssumption DEF Expand
    <3> QED BY <3>1
  <2>3. SubSeq(Expand(ids), 1, k - 1) \in Seq(Job)
    BY <2>1, <2>2, SubSeqProperties
  <2> QED BY <2>1, <2>3
<1>2. /\ heap' \in [Run -> Seq(JobState)]
      /\ \A k \in DOMAIN heap'[r] : heap'[r][k] = NewState(s[k])
      /\ DOMAIN heap'[r] = 1..Len(s)
      /\ \A q \in Run \ {r} : heap'[q] = heap[q]
      /\ states' \in [Run -> [Job -> Nat]]
      /\ \A q \in Run, j \in Job : states'[q][j] <= Len(heap'[q])
  BY <1>0, <1>1, AllocateChanges
<1>3. /\ call' = [call EXCEPT ![r].code = "rejected"]
      /\ UNCHANGED <<up, lock, runner>>
  BY DEF SubmitUnknown
<1>4. call' \in [Caller -> Call]
  BY <1>0, <1>3 DEF TypeOK, Call
<1>5. runner[r].pc = "none" /\ \A c \in Caller : call[c].run # r
  BY <1>0, UnansweredRun
<1>6. TypeOK'
  <2>1. \A q \in Run : runner'[q].pc # "none" => runner'[q].i \in DOMAIN heap'[q]
    BY <1>0, <1>2, <1>3, <1>5 DEF TypeOK
  <2> QED BY <2>1, <1>0, <1>2, <1>3, <1>4 DEF TypeOK
<1>7. LockOwnerStores'
  BY <1>3 DEF IInv, LockOwnerStores
<1>8. JobsRunInOrder'
  <2>1. RunInOrder(r)'
    <3>1. \A j : Fresh(NewState(j))
      BY DEF Fresh, NewState
    <3> QED BY <3>1, <1>2, <1>3, <1>5 DEF RunInOrder
  <2>2. \A q \in Run \ {r} : RunInOrder(q)'
    BY <1>2, <1>3, OrderByRun DEF IInv, RunInOrder
  <2> QED BY <2>1, <2>2 DEF RunInOrder, JobsRunInOrder
<1>9. CallsFollowRuns'
  <2>1. /\ call'[r].code = "rejected" /\ call'[r].run = call[r].run
        /\ \A c \in Caller \ {r} : call'[c] = call[c]
    BY <1>0, <1>3 DEF TypeOK, Call
  <2>2. CallsFollowRuns
    BY DEF IInv
  <2>3. \A c \in Caller : call'[c].run = call[c].run
    BY <2>1
  <2>4. \A c \in Caller : call'[c].code = "reading" => c # r /\ call[c].code = "reading"
    BY <2>1
  <2>5. \A c \in Caller : call'[c].run # Nil =>
          call'[call'[c].run].code \notin {"none", "rejected"}
    <3> SUFFICES ASSUME NEW c \in Caller, call[c].run # Nil
                 PROVE  call'[call[c].run].code \notin {"none", "rejected"}
      BY <2>3
    <3>1. call[c].run \in Run \ {r}
      BY <1>0, <1>5 DEF TypeOK, Call
    <3> QED BY <3>1, <1>0, <2>1, <2>2 DEF CallsFollowRuns
  <2>6. \A c \in Caller : call'[c].code = "reading" =>
          /\ call'[c].run \in Run /\ call'[c].todo # << >>
          /\ \A n \in 1..Len(call'[c].todo) : call'[c].todo[n] \in DOMAIN heap'[call'[c].run]
    BY <1>2, <1>5, <2>1, <2>2, <2>4 DEF CallsFollowRuns
  <2>7. \A q \in Run : /\ call'[q].code \in {"none", "rejected"} => runner'[q].pc = "none"
                       /\ call'[q].code = "none" => heap'[q] = << >>
    BY <1>0, <1>2, <1>3, <1>5, <2>1, <2>2 DEF CallsFollowRuns
  <2> QED BY <2>5, <2>6, <2>7 DEF CallsFollowRuns
<1> QED BY <1>6, <1>7, <1>8, <1>9 DEF IInv

\* An accepted request: untouched objects, their keys, and a goroutine at the first.
LEMMA SubmitAcceptedKeepsIInv ==
  ASSUME IInv, NEW r \in Run, SubmitAccepted(r)
  PROVE  IInv'
<1>0. TypeOK /\ r \in Caller /\ Run \subseteq Caller /\ call[r].code = "none" /\ r # Nil
  BY JobAssumption DEF IInv, Caller, SubmitAccepted
<1>1. PICK ids \in Requests :
        /\ Expand(ids) # << >>
        /\ \A k \in DOMAIN Expand(ids) : Expand(ids)[k] \in Job
        /\ Allocate(r, Expand(ids))
        /\ call' = [call EXCEPT ![r] = [NoCall EXCEPT !.code = "reading", !.run = r,
                                          !.todo = [k \in 1..Len(Expand(ids)) |-> k]]]
  BY DEF SubmitAccepted
<1> DEFINE s == Expand(ids)
           t == [k \in 1..Len(s) |-> k]
           x == [NoCall EXCEPT !.code = "reading", !.run = r, !.todo = t]
<1>2. s \in Seq(Job) /\ Len(s) \in Nat /\ Len(s) > 0
  <2>1. s \in Seq(Id) /\ s # << >>
    BY <1>1, JobAssumption DEF Expand
  <2> HIDE DEF s
  <2>2. s \in Seq(Job)
    BY <1>1, <2>1 DEF s
  <2> QED BY <2>1, <2>2
<1>3. /\ heap' \in [Run -> Seq(JobState)]
      /\ \A k \in DOMAIN heap'[r] : heap'[r][k] = NewState(s[k])
      /\ DOMAIN heap'[r] = 1..Len(s)
      /\ \A q \in Run \ {r} : heap'[q] = heap[q]
      /\ states' \in [Run -> [Job -> Nat]]
      /\ \A q \in Run, j \in Job : states'[q][j] <= Len(heap'[q])
  <2> HIDE DEF s
  <2>1. Allocate(r, s)
    BY <1>1 DEF s
  <2> QED BY <1>0, <1>2, <2>1, AllocateChanges
<1>4. /\ runner' = [runner EXCEPT ![r] = [pc |-> "setStatus", i |-> 1, want |-> "RUNNING"]]
      /\ UNCHANGED <<up, lock>> /\ lock = Nil
  BY DEF SubmitAccepted
<1>5. /\ x \in Call /\ x.code = "reading" /\ x.run = r /\ x.todo = t
      /\ t \in Seq(Nat) /\ t # << >> /\ Len(t) = Len(s)
      /\ \A n \in 1..Len(t) : t[n] \in 1..Len(s)
  <2> HIDE DEF s
  <2>1. /\ t \in Seq(Nat) /\ t # << >> /\ Len(t) = Len(s)
        /\ \A n \in 1..Len(t) : t[n] \in 1..Len(s)
    BY <1>2
  <2> HIDE DEF t
  <2>2. x \in Call /\ x.code = "reading" /\ x.run = r /\ x.todo = t
    BY <2>1, NoCallType DEF Call
  <2> QED BY <2>1, <2>2
<1>6. call'[r] = x /\ \A c \in Caller \ {r} : call'[c] = call[c]
  <2> HIDE DEF x
  <2>1. call' = [call EXCEPT ![r] = x]
    BY <1>1 DEF x
  <2> QED BY <2>1, <1>0 DEF TypeOK
<1>7. call' \in [Caller -> Call]
  <2> HIDE DEF x
  <2>1. call' = [call EXCEPT ![r] = x]
    BY <1>1 DEF x
  <2> QED BY <2>1, <1>5, <1>0 DEF TypeOK
<1> HIDE DEF x, t, s
<1>8. /\ runner' \in [Run -> [pc : PC, i : Nat, want : Status \ {"PENDING"}]]
      /\ runner'[r] = [pc |-> "setStatus", i |-> 1, want |-> "RUNNING"]
      /\ \A q \in Run \ {r} : runner'[q] = runner[q]
  BY <1>0, <1>4 DEF TypeOK, PC, Status, Terminal
<1>9. runner[r].pc = "none" /\ \A c \in Caller : call[c].run # r
  BY <1>0, UnansweredRun
<1>10. TypeOK'
  <2>1. \A q \in Run : runner'[q].pc # "none" => runner'[q].i \in DOMAIN heap'[q]
    <3>1. runner'[r].i \in DOMAIN heap'[r]
      BY <1>2, <1>3, <1>8
    <3>2. \A q \in Run \ {r} : runner'[q].pc # "none" => runner'[q].i \in DOMAIN heap'[q]
      BY <1>0, <1>3, <1>8 DEF TypeOK
    <3> QED BY <3>1, <3>2
  <2> QED BY <2>1, <1>0, <1>3, <1>4, <1>7, <1>8 DEF TypeOK
<1>11. LockOwnerStores'
  BY <1>4, <1>8, <1>0, <1>9 DEF IInv, LockOwnerStores, Storing
<1>12. JobsRunInOrder'
  <2>1. RunInOrder(r)'
    <3>1. \A j : Fresh(NewState(j))
      BY DEF Fresh, NewState
    <3>2. \A o : Fresh(o) => InProgress("setStatus", "RUNNING", o)
      BY DEF InProgress
    <3>3. \A k \in DOMAIN heap'[r] : Fresh(heap'[r][k]) /\ k \in Nat /\ ~ (k < 1)
      BY <3>1, <1>2, <1>3
    <3> QED BY <3>2, <3>3, <1>8 DEF RunInOrder
  <2>2. \A q \in Run \ {r} : RunInOrder(q)'
    BY <1>3, <1>8, OrderByRun DEF IInv, RunInOrder
  <2> QED BY <2>1, <2>2 DEF RunInOrder, JobsRunInOrder
<1>13. CallsFollowRuns'
  <2>1. CallsFollowRuns
    BY DEF IInv
  <2>2. \A c \in Caller : call'[c].run # Nil =>
          call'[call'[c].run].code \notin {"none", "rejected"}
    <3> SUFFICES ASSUME NEW c \in Caller, call'[c].run # Nil
                 PROVE  call'[call'[c].run].code \notin {"none", "rejected"}
      OBVIOUS
    <3>1. CASE c = r
      BY <3>1, <1>5, <1>6
    <3>2. CASE c # r
      <4>1. call'[c].run = call[c].run /\ call[c].run \in Run \ {r}
        BY <3>2, <1>0, <1>6, <1>9 DEF TypeOK, Call
      <4> QED BY <4>1, <1>0, <1>6, <2>1 DEF CallsFollowRuns
    <3> QED BY <3>1, <3>2
  <2>3. \A c \in Caller : call'[c].code = "reading" =>
          /\ call'[c].run \in Run /\ call'[c].todo # << >>
          /\ \A n \in 1..Len(call'[c].todo) : call'[c].todo[n] \in DOMAIN heap'[call'[c].run]
    <3> SUFFICES ASSUME NEW c \in Caller, call'[c].code = "reading"
                 PROVE  /\ call'[c].run \in Run /\ call'[c].todo # << >>
                        /\ \A n \in 1..Len(call'[c].todo) :
                             call'[c].todo[n] \in DOMAIN heap'[call'[c].run]
      OBVIOUS
    <3>1. CASE c = r
      BY <3>1, <1>3, <1>5, <1>6
    <3>2. CASE c # r
      BY <3>2, <1>3, <1>6, <1>9, <2>1 DEF CallsFollowRuns
    <3> QED BY <3>1, <3>2
  <2>4. \A q \in Run : /\ call'[q].code \in {"none", "rejected"} => runner'[q].pc = "none"
                       /\ call'[q].code = "none" => heap'[q] = << >>
    BY <1>0, <1>3, <1>5, <1>6, <1>8, <2>1 DEF CallsFollowRuns
  <2> QED BY <2>2, <2>3, <2>4 DEF CallsFollowRuns
<1> QED BY <1>10, <1>11, <1>12, <1>13 DEF IInv

\* A step of a handler that leaves the registry alone.
LEMMA HandlerKeepsIInv ==
  ASSUME IInv, NEW c \in Caller, NEW x \in Call,
         call' = [call EXCEPT ![c] = x],
         UNCHANGED <<up, heap, states, lock, runner>>,
         c \in Run => call[c].code \notin {"none", "rejected"},
         x.code \notin {"none", "rejected"},
         x.run # Nil => call[x.run].code \notin {"none", "rejected"},
         x.code = "reading" =>
           /\ x.run \in Run /\ x.todo # << >>
           /\ \A n \in 1..Len(x.todo) : x.todo[n] \in DOMAIN heap[x.run]
  PROVE  IInv'
<1>1. TypeOK /\ CallsFollowRuns /\ Run \subseteq Caller
  BY DEF IInv, Caller
<1>2. call' \in [Caller -> Call] /\ call'[c] = x /\ \A d \in Caller \ {c} : call'[d] = call[d]
  BY <1>1 DEF TypeOK
<1>3. TypeOK'
  BY <1>1, <1>2 DEF TypeOK
<1>4. LockOwnerStores' /\ JobsRunInOrder'
  BY DEF IInv, LockOwnerStores, JobsRunInOrder
<1>5. \A q \in Caller : call[q].code \notin {"none", "rejected"} =>
                          call'[q].code \notin {"none", "rejected"}
  BY <1>2
<1>6. \A d \in Caller : call[d] \in Call
  BY <1>1 DEF TypeOK
<1>7. \A d \in Caller : call'[d].run # Nil =>
        call'[call'[d].run].code \notin {"none", "rejected"}
  <2> SUFFICES ASSUME NEW d \in Caller, call'[d].run # Nil
               PROVE  call'[call'[d].run].code \notin {"none", "rejected"}
    OBVIOUS
  <2>1. call'[d].run \in Run
    BY <1>2 DEF Call
  <2>2. call[call'[d].run].code \notin {"none", "rejected"}
    BY <1>1, <1>2 DEF CallsFollowRuns
  <2> QED BY <2>1, <2>2, <1>1, <1>5
<1>8. CallsFollowRuns'
  BY <1>1, <1>2, <1>7 DEF CallsFollowRuns
<1> QED BY <1>3, <1>4, <1>8 DEF IInv

\* A GET that looks up a key starts to encode an object of an accepted run, or fails.
LEMMA StartGetKeepsIInv ==
  ASSUME IInv, NEW p \in Poller, StartGet(p)
  PROVE  IInv'
<1>1. PICK r \in Run, j \in Job \cup {Nil} :
        /\ call[r].code = "ok"
        /\ call' = [call EXCEPT ![p] =
             [NoCall EXCEPT !.code = IF Lookup(r, j) = 0 THEN "notfound" ELSE "reading",
                            !.run = r, !.job = j, !.before = LastSeen(p),
                            !.todo = IF Lookup(r, j) = 0 THEN << >> ELSE <<Lookup(r, j)>>]]
        /\ UNCHANGED <<up, heap, states, lock, runner>>
  BY DEF StartGet
<1> DEFINE k == Lookup(r, j)
           code == IF k = 0 THEN "notfound" ELSE "reading"
           todo == IF k = 0 THEN << >> ELSE <<k>>
           x == [NoCall EXCEPT !.code = code, !.run = r, !.job = j, !.before = LastSeen(p),
                               !.todo = todo]
<1>2. TypeOK /\ p \in Caller /\ r \in Caller /\ p \notin Run /\ r # Nil
  BY JobAssumption DEF IInv, Caller
<1>3. k \in Nat /\ (k # 0 => k \in DOMAIN heap[r])
  <2>1. heap[r] \in Seq(JobState) /\ DOMAIN heap[r] = 1..Len(heap[r])
    BY <1>2 DEF TypeOK
  <2>2. CASE j = Nil
    BY <2>2 DEF Lookup
  <2>3. CASE j \in Job
    <3>1. k = states[r][j]
      BY <2>3, JobAssumption DEF Lookup
    <3>2. states[r][j] \in Nat /\ states[r][j] <= Len(heap[r])
      BY <2>3, <1>2 DEF TypeOK
    <3> QED BY <3>1, <3>2, <2>1
  <2> QED BY <2>2, <2>3
<1>4. LastSeen(p) \in Seen
  BY <1>2 DEF TypeOK, Call, LastSeen, Document
<1>5. todo \in Seq(Nat) /\ \A n \in 1..Len(todo) : todo[n] = k
  <2> HIDE DEF k
  <2> QED BY <1>3
<1>6. code = "reading" => todo # << >> /\ k # 0
  BY <1>3
<1>7. code \in {"notfound", "reading"}
  OBVIOUS
<1>8. /\ x \in Call /\ x.code = code /\ x.run = r /\ x.todo = todo
  <2> HIDE DEF code, todo, k
  <2> QED BY <1>4, <1>5, <1>7, NoCallType DEF Call
<1>9. call' = [call EXCEPT ![p] = x] /\ UNCHANGED <<up, heap, states, lock, runner>>
  BY <1>1
<1> HIDE DEF x, code, todo, k
<1>10. /\ x.code \notin {"none", "rejected"}
       /\ call[x.run].code \notin {"none", "rejected"}
       /\ x.code = "reading" =>
            /\ x.run \in Run /\ x.todo # << >>
            /\ \A n \in 1..Len(x.todo) : x.todo[n] \in DOMAIN heap[x.run]
  BY <1>1, <1>3, <1>5, <1>6, <1>7, <1>8
<1> QED BY <1>2, <1>8, <1>9, <1>10, HandlerKeepsIInv

\* The three ways an exchange that is encoding goes on.
LEMMA NextField ==
  ASSUME NEW x \in Call, NEW d \in Document, NEW n \in 1..4
  PROVE  LET y == [x EXCEPT !.field = n, !.doc = d] IN
         y \in Call /\ y.code = x.code /\ y.run = x.run /\ y.todo = x.todo
BY DEF Call

\* The encoder goes on to the next object of the reply.
LEMMA NextObject ==
  ASSUME NEW x \in Call, NEW d \in Document, NEW t \in Seq(Nat)
  PROVE  LET y == [x EXCEPT !.field = 1, !.todo = t, !.doc = d] IN
         y \in Call /\ y.code = x.code /\ y.run = x.run /\ y.todo = t
<1>1. 1 \in 1..4
  OBVIOUS
<1> QED BY <1>1 DEF Call

\* The exchange is over.
LEMMA EndOfExchange ==
  ASSUME NEW x \in Call, NEW d \in Document, NEW code \in {"ok", "aborted", "lost"}
  PROVE  LET y == [x EXCEPT !.code = code, !.todo = << >>, !.field = 1, !.doc = d] IN
         y \in Call /\ y.code = code /\ y.run = x.run
<1>1. << >> \in Seq(Nat) /\ 1 \in 1..4
  OBVIOUS
<1> QED BY <1>1 DEF Call

\* What is read is shown, and a document stays a document.
LEMMA ReadType ==
  ASSUME IInv, NEW c \in Caller, call[c].code = "reading",
         NEW v \in Readable(call[c].run, Head(call[c].todo), Fields[call[c].field]),
         NEW d \in Document
  PROVE  [d EXCEPT ![Fields[call[c].field]] = v] \in Document
<1> DEFINE r == call[c].run
           k == Head(call[c].todo)
           f == Fields[call[c].field]
<1>1. TypeOK /\ CallsFollowRuns /\ call[c] \in Call
  BY DEF IInv, TypeOK
<1>2. f \in {"status", "completedAt", "error", "appId"}
  BY <1>1 DEF Call, Fields
<1>3. r \in Run /\ k \in DOMAIN heap[r]
  BY <1>1 DEF CallsFollowRuns, Call
<1>4. heap[r][k] \in JobState
  BY <1>1, <1>3 DEF TypeOK
<1>5. runner[r].want \in Status
  BY <1>1, <1>3 DEF TypeOK
<1> HIDE DEF r, k, f
<1>6. v \in Seen
  <2>1. v \in Readable(r, k, f)
    BY DEF r, k, f
  <2>2. heap[r][k][f] \in Seen
    BY <1>2, <1>4 DEF JobState, Seen
  <2>3. Incoming(r, f) \in Seen
    BY <1>2, <1>5 DEF Incoming, Seen
  <2>4. Torn(f, heap[r][k][f], Incoming(r, f)) \subseteq Seen
    BY DEF Torn, Seen
  <2> QED BY <2>1, <2>2, <2>3, <2>4 DEF Readable
<1>7. [d EXCEPT ![f] = v] \in Document
  <2> HIDE DEF Seen
  <2>1. CASE f = "status"
    BY <2>1, <1>6 DEF Document
  <2>2. CASE f = "completedAt"
    BY <2>2, <1>6 DEF Document
  <2>3. CASE f = "error"
    BY <2>3, <1>6 DEF Document
  <2>4. CASE f = "appId"
    BY <2>4, <1>6 DEF Document
  <2> QED BY <2>1, <2>2, <2>3, <2>4, <1>2
<1> QED BY <1>7 DEF f

\* One unlocked load of the encoder changes the exchange only.
LEMMA LoadFieldKeepsIInv ==
  ASSUME IInv, NEW c \in Caller, LoadField(c)
  PROVE  IInv'
<1> DEFINE x == call[c]
<1>0. TypeOK /\ CallsFollowRuns /\ x \in Call /\ x.code = "reading"
  BY DEF IInv, TypeOK, LoadField
<1>1. /\ x.run \in Run /\ x.todo # << >>
      /\ \A n \in 1..Len(x.todo) : x.todo[n] \in DOMAIN heap[x.run]
      /\ c \in Run => x.code \notin {"none", "rejected"}
      /\ x.run # Nil => call[x.run].code \notin {"none", "rejected"}
  BY <1>0 DEF CallsFollowRuns
<1>2. x.doc \in Document /\ Blank \in Document
  BY <1>0, NoCallType DEF Call, NoCall
<1>3. PICK v \in Readable(x.run, Head(x.todo), Fields[x.field]) :
        call' = [call EXCEPT ![c] =
          CASE x.field < Len(Fields) ->
                 [x EXCEPT !.field = x.field + 1,
                           !.doc = [IF x.field = 1 THEN Blank ELSE x.doc
                                      EXCEPT ![Fields[x.field]] = v]]
            [] x.field = Len(Fields) /\ Len(x.todo) > 1 ->
                 [x EXCEPT !.field = 1, !.todo = Tail(x.todo),
                           !.doc = [IF x.field = 1 THEN Blank ELSE x.doc
                                      EXCEPT ![Fields[x.field]] = v]]
            [] OTHER -> Answered(c, x, [IF x.field = 1 THEN Blank ELSE x.doc
                                          EXCEPT ![Fields[x.field]] = v])]
  BY DEF LoadField
<1> DEFINE old == IF x.field = 1 THEN Blank ELSE x.doc
           doc == [old EXCEPT ![Fields[x.field]] = v]
<1>4. doc \in Document
  <2>1. old \in Document
    BY <1>2
  <2> HIDE DEF old
  <2> QED BY <1>0, <2>1, ReadType
<1> DEFINE more == [x EXCEPT !.field = x.field + 1, !.doc = doc]
           next == [x EXCEPT !.field = 1, !.todo = Tail(x.todo), !.doc = doc]
           z == CASE x.field < Len(Fields) -> more
                  [] x.field = Len(Fields) /\ Len(x.todo) > 1 -> next
                  [] OTHER -> Answered(c, x, doc)
<1>10. call' = [call EXCEPT ![c] = z]
  BY <1>3
<1> HIDE DEF doc
<1>5. UNCHANGED <<up, heap, states, lock, runner>>
  BY DEF LoadField
<1>6. Len(Fields) = 4 /\ x.field \in 1..4
  BY <1>0 DEF Fields, Call
<1>7. CASE x.field < 4
  <2> DEFINE y == [x EXCEPT !.field = x.field + 1, !.doc = doc]
  <2>1. call' = [call EXCEPT ![c] = y]
    <3> HIDE DEF y
    <3>1. z = y
      BY <1>6, <1>7 DEF y
    <3> QED BY <3>1, <1>10
  <2>2. y \in Call /\ y.code = x.code /\ y.run = x.run /\ y.todo = x.todo
    <3>1. x.field + 1 \in 1..4
      BY <1>6, <1>7
    <3> QED BY <3>1, <1>0, <1>4, NextField
  <2> HIDE DEF y
  <2> QED BY <2>1, <2>2, <1>0, <1>1, <1>5, HandlerKeepsIInv
<1>8. CASE x.field = 4 /\ Len(x.todo) > 1
  <2> DEFINE y == [x EXCEPT !.field = 1, !.todo = Tail(x.todo), !.doc = doc]
  <2>1. call' = [call EXCEPT ![c] = y]
    <3> HIDE DEF y
    <3>1. z = y
      BY <1>6, <1>8 DEF y
    <3> QED BY <3>1, <1>10
  <2>2. x.todo \in Seq(Nat)
    BY <1>0 DEF Call
  <2>3. /\ Tail(x.todo) \in Seq(Nat) /\ Tail(x.todo) # << >>
        /\ \A n \in 1..Len(Tail(x.todo)) : Tail(x.todo)[n] \in DOMAIN heap[x.run]
    <3> DEFINE t == x.todo
    <3>1. t \in Seq(Nat) /\ Len(t) > 1 /\ \A n \in 1..Len(t) : t[n] \in DOMAIN heap[x.run]
      BY <2>2, <1>1, <1>8
    <3> HIDE DEF t
    <3>2. /\ Tail(t) \in Seq(Nat) /\ Len(Tail(t)) = Len(t) - 1 /\ Len(t) \in Nat
          /\ \A n \in 1..Len(Tail(t)) : Tail(t)[n] = t[n + 1]
      BY <3>1, HeadTailProperties
    <3>3. Tail(t) # << >> /\ \A n \in 1..Len(Tail(t)) : n + 1 \in 1..Len(t)
      <4>1. Len(Tail(t)) # 0 /\ \A n \in 1..Len(Tail(t)) : n + 1 \in 1..Len(t)
        BY <3>1, <3>2
      <4>2. Len(<< >>) = 0
        OBVIOUS
      <4> QED BY <4>1, <4>2
    <3>4. \A n \in 1..Len(Tail(t)) : Tail(t)[n] \in DOMAIN heap[x.run]
      BY <3>1, <3>2, <3>3
    <3> QED BY <3>2, <3>3, <3>4 DEF t
  <2>4. y \in Call /\ y.code = x.code /\ y.run = x.run /\ y.todo = Tail(x.todo)
    BY <2>3, <1>0, <1>4, NextObject
  <2> HIDE DEF y
  <2> QED BY <2>1, <2>3, <2>4, <1>0, <1>1, <1>5, HandlerKeepsIInv
<1>9. CASE x.field = 4 /\ ~ (Len(x.todo) > 1)
  <2> DEFINE y == Answered(c, x, doc)
  <2>1. call' = [call EXCEPT ![c] = y]
    <3> HIDE DEF y
    <3>1. z = y
      BY <1>6, <1>9 DEF y
    <3> QED BY <3>1, <1>10
  <2>2. y \in Call /\ y.code = "ok" /\ y.run = x.run
    <3> DEFINE d == IF c \in Poller THEN doc ELSE Blank
    <3>1. d \in Document
      BY <1>2, <1>4
    <3>2. y = [x EXCEPT !.code = "ok", !.todo = << >>, !.field = 1, !.doc = d]
      BY DEF Answered
    <3> HIDE DEF d, y
    <3> QED BY <3>1, <3>2, <1>0, EndOfExchange
  <2> HIDE DEF y
  <2> QED BY <2>1, <2>2, <1>0, <1>1, <1>5, HandlerKeepsIInv
<1> QED BY <1>6, <1>7, <1>8, <1>9

\* A panic of the encoder ends the exchange only.
LEMMA EncoderPanicsKeepsIInv ==
  ASSUME IInv, NEW c \in Caller, EncoderPanics(c)
  PROVE  IInv'
<1> DEFINE x == call[c]
           y == [x EXCEPT !.code = "aborted", !.todo = << >>, !.field = 1, !.doc = Blank]
<1>1. TypeOK /\ CallsFollowRuns /\ x \in Call /\ x.code = "reading"
  BY DEF IInv, TypeOK, EncoderPanics
<1>2. call' = [call EXCEPT ![c] = y] /\ UNCHANGED <<up, heap, states, lock, runner>>
  BY DEF EncoderPanics
<1>3. Blank \in Document
  BY NoCallType DEF Call, NoCall
<1>4. y \in Call /\ y.code = "aborted" /\ y.run = x.run
  BY <1>1, <1>3, EndOfExchange
<1>5. x.run # Nil => call[x.run].code \notin {"none", "rejected"}
  BY <1>1 DEF CallsFollowRuns
<1>6. c \in Run => x.code \notin {"none", "rejected"}
  BY <1>1
<1> HIDE DEF y
<1> QED BY <1>1, <1>2, <1>4, <1>5, <1>6, HandlerKeepsIInv

\* The process stops: no object, no goroutine and no open exchange is left.
LEMMA StopKeepsIInv == ASSUME IInv, Stop PROVE IInv'
<1>1. TypeOK /\ CallsFollowRuns /\ Run \subseteq Caller
  BY DEF IInv, Caller
<1>2. /\ call' \in [Caller -> Call]
      /\ \A c \in Caller : /\ call'[c].code # "reading" /\ call'[c].run = call[c].run
                           /\ call'[c].code \in {"none", "rejected"} <=>
                                call[c].code \in {"none", "rejected"}
  <2> DEFINE lost(c) == [call[c] EXCEPT !.code = "lost", !.todo = << >>, !.field = 1,
                                        !.doc = Blank]
  <2>1. Blank \in Document
    BY NoCallType DEF Call, NoCall
  <2>2. \A c \in Caller : lost(c) \in Call /\ lost(c).code = "lost" /\ lost(c).run = call[c].run
    BY <2>1, <1>1, EndOfExchange DEF TypeOK
  <2>3. call' = [c \in Caller |-> IF call[c].code = "reading" THEN lost(c) ELSE call[c]]
    BY DEF Stop
  <2> HIDE DEF lost
  <2> QED BY <2>2, <2>3, <1>1 DEF TypeOK
<1>3. /\ heap' = [r \in Run |-> << >>] /\ states' = [r \in Run |-> [j \in Job |-> 0]]
      /\ lock' = Nil /\ runner' = [r \in Run |-> Idle] /\ up' = FALSE
  BY DEF Stop
<1>4. TypeOK'
  <2>1. runner' \in [Run -> [pc : PC, i : Nat, want : Status \ {"PENDING"}]]
    BY <1>3 DEF Idle, PC, Status, Terminal
  <2>2. \A r \in Run : runner'[r].pc = "none" /\ heap'[r] = << >> /\ Len(heap'[r]) = 0
    BY <1>3 DEF Idle
  <2>3. heap' \in [Run -> Seq(JobState)] /\ states' \in [Run -> [Job -> Nat]]
    BY <1>3
  <2>4. \A r \in Run, j \in Job : states'[r][j] <= Len(heap'[r])
    BY <1>3, <2>2
  <2> QED BY <1>2, <1>3, <2>1, <2>2, <2>3, <2>4 DEF TypeOK
<1>5. LockOwnerStores' /\ JobsRunInOrder'
  BY <1>3, JobAssumption DEF LockOwnerStores, JobsRunInOrder, Idle, Storing
<1>6. CallsFollowRuns'
  <2>1. \A c \in Caller : call[c].run \in Run \cup {Nil}
    BY <1>1 DEF TypeOK, Call
  <2> QED BY <2>1, <1>1, <1>2, <1>3 DEF CallsFollowRuns, Idle
<1> QED BY <1>4, <1>5, <1>6 DEF IInv

\* A restarted process finds the empty registry.
LEMMA RestartKeepsIInv == ASSUME IInv, Restart PROVE IInv'
BY DEF IInv, Restart, TypeOK, LockOwnerStores, JobsRunInOrder, CallsFollowRuns

-----------------------------------------------------------------------------
(* Theorems *)

\* The invariant is inductive.
LEMMA NextKeepsIInv == IInv /\ [Next]_vars => IInv'
<1> SUFFICES ASSUME IInv, [Next]_vars PROVE IInv'
  OBVIOUS
<1>1. ASSUME NEW r \in Run, Submit(r) PROVE IInv'
  BY <1>1, RejectMalformedKeepsIInv, SubmitUnknownKeepsIInv, SubmitAcceptedKeepsIInv DEF Submit
<1>2. ASSUME NEW r \in Run, RunnerStep(r) PROVE IInv'
  BY <1>2, RunnerStepKeepsIInv
<1>3. ASSUME NEW p \in Poller, StartGet(p) PROVE IInv'
  BY <1>3, StartGetKeepsIInv
<1>4. ASSUME NEW c \in Caller, Encode(c) PROVE IInv'
  BY <1>4, LoadFieldKeepsIInv, EncoderPanicsKeepsIInv DEF Encode
<1>5. CASE Stop
  BY <1>5, StopKeepsIInv
<1>6. CASE Restart
  BY <1>6, RestartKeepsIInv
<1>7. CASE UNCHANGED vars
  BY <1>7 DEF vars, IInv, TypeOK, LockOwnerStores, JobsRunInOrder, CallsFollowRuns
<1> QED
  BY <1>1, <1>2, <1>3, <1>4, <1>5, <1>6, <1>7 DEF Next

\* The inductive invariant holds in every reachable state, for all sets of runs, jobs,
\* requests and pollers: types, the discipline of the mutex, the order of the jobs, and
\* that an open exchange goes through objects of an accepted run.
THEOREM Invariance == Spec => []IInv
BY InitIInv, NextKeepsIInv, PTL DEF Spec

\* The variables keep their types: in particular a key of Registry.states always
\* leads to an object of its run, and a goroutine never leaves its request.
THEOREM TypeCorrect == Spec => []TypeOK
<1>1. IInv => TypeOK
  BY DEF IInv
<1> QED BY <1>1, Invariance, PTL

\* Registry.mu does its work among the goroutines, however many runs there are:
\* only its owner stores into a JobState.
THEOREM LockDiscipline == Spec => []LockOwnerStores
<1>1. IInv => LockOwnerStores
  BY DEF IInv
<1> QED BY <1>1, Invariance, PTL

\* The jobs of every run, of any length and with any duplicates, are executed one
\* at a time and in order, and a finished one has a consistent record.
THEOREM SequentialExecution == Spec => []JobsRunInOrder
<1>1. IInv => JobsRunInOrder
  BY DEF IInv
<1> QED BY <1>1, Invariance, PTL
-----------------------------------------------------------------------------
(* What a step does to the objects, whoever takes it *)

\* A store gives the current object of r the value it was about to get.
LEMMA StoreRecorded ==
  ASSUME IInv, NEW r \in Run, runner[r].pc \in Storing,
         Store(r, runner[r].pc, Incoming(r, runner[r].pc))
  PROVE  Stored(r, runner[r].pc, Incoming(r, runner[r].pc))
<1> DEFINE f == runner[r].pc
           v == Incoming(r, f)
           o == heap[r][runner[r].i]
<1>1. /\ TypeOK /\ f # "none" /\ f \in Storing /\ o \in JobState
      /\ runner[r].want \in {"RUNNING", "COMPLETED", "FAILED"}
  BY RunnerType DEF IInv, Storing
<1>2. [o EXCEPT ![f] = v] \in JobState
  <2>1. CASE f = "status"
    BY <2>1, <1>1 DEF Incoming, JobState, Status, Terminal
  <2>2. CASE f = "error"
    BY <2>2, <1>1 DEF Incoming, JobState
  <2>3. CASE f = "completedAt"
    BY <2>3, <1>1 DEF Incoming, JobState
  <2>4. CASE f = "appId"
    BY <2>4, <1>1 DEF Incoming, JobState
  <2> QED BY <2>1, <2>2, <2>3, <2>4, <1>1 DEF Storing
<1> HIDE DEF f, v, o
<1>3. Store(r, f, v) /\ runner[r].pc # "none"
  BY <1>1 DEF f, v
<1>4. Stored(r, f, v)
  BY <1>1, <1>2, <1>3, StoreChanges DEF o
<1> QED BY <1>4 DEF f, v

\* A goroutine stores one field, the one it is at.
Storage(r) ==
  /\ runner[r].pc \in Storing
  /\ Stored(r, runner[r].pc, Incoming(r, runner[r].pc))
  /\ UNCHANGED <<up, states, call>>

\* Submit makes the objects of a request, and rejects it or starts its goroutine.
Accepts(r, s) ==
  /\ s # << >> /\ Len(s) \in {Len(Expand(ids)) : ids \in Requests}
  /\ call' = [call EXCEPT ![r] = [NoCall EXCEPT !.code = "reading", !.run = r,
                                    !.todo = [k \in 1..Len(s) |-> k]]]
  /\ runner' = [runner EXCEPT ![r] = [pc |-> "setStatus", i |-> 1, want |-> "RUNNING"]]

Rejects(r) ==
  /\ call' = [call EXCEPT ![r].code = "rejected"]
  /\ UNCHANGED runner

Creation(r) ==
  /\ up /\ call[r].code = "none"
  /\ UNCHANGED <<up, lock>>
  /\ \E s \in Seq(Job) : Allocate(r, s) /\ (Accepts(r, s) \/ Rejects(r))

\* A step of a goroutine stores one field, or only moves on.
LEMMA RunnerStorage ==
  ASSUME IInv, NEW r \in Run, RunnerStep(r)
  PROVE  Storage(r) \/ UNCHANGED <<up, heap, states, call>>
<1>1. CASE AcquireLock(r) \/ FindStreamingJar(r) \/ RemoveOutput(r) \/ Launch(r)
             \/ ExitZero(r) \/ ExitNonzero(r)
  BY <1>1 DEF AcquireLock, FindStreamingJar, RemoveOutput, Launch, ExitZero, ExitNonzero
<1>2. CASE StoreStatus(r) \/ StoreError(r) \/ StoreCompletedAt(r) \/ StoreAppId(r)
  <2>1. /\ runner[r].pc \in Storing
        /\ Store(r, runner[r].pc, Incoming(r, runner[r].pc))
        /\ UNCHANGED <<up, states, call>>
    BY <1>2 DEF StoreStatus, StoreError, StoreCompletedAt, StoreAppId, Storing
  <2> QED BY <2>1, StoreRecorded DEF Storage
<1> QED BY <1>1, <1>2 DEF RunnerStep

\* Submit makes the objects of a request that has none, in the order of its ids.
LEMMA SubmitCreation ==
  ASSUME IInv, NEW r \in Run, SubmitUnknown(r) \/ SubmitAccepted(r)
  PROVE  Creation(r)
<1>1. CASE SubmitUnknown(r)
  <2>1. PICK ids \in Requests : \E k \in DOMAIN Expand(ids) :
          /\ \A m \in 1..(k - 1) : Expand(ids)[m] \in Job
          /\ Allocate(r, SubSeq(Expand(ids), 1, k - 1))
    BY <1>1 DEF SubmitUnknown
  <2>2. PICK k \in DOMAIN Expand(ids) :
          /\ \A m \in 1..(k - 1) : Expand(ids)[m] \in Job
          /\ Allocate(r, SubSeq(Expand(ids), 1, k - 1))
    BY <2>1
  <2>3. k \in Int
    <3>1. Expand(ids) \in Seq(Id)
      BY JobAssumption DEF Expand
    <3> QED BY <3>1
  <2>4. SubSeq(Expand(ids), 1, k - 1) \in Seq(Job)
    BY <2>2, <2>3, SubSeqProperties
  <2>5. \E s \in Seq(Job) : Allocate(r, s)
    BY <2>2, <2>4
  <2> QED BY <1>1, <2>5 DEF SubmitUnknown, Creation, Rejects
<1>2. CASE SubmitAccepted(r)
  <2>1. PICK ids \in Requests :
          /\ Expand(ids) # << >>
          /\ \A k \in DOMAIN Expand(ids) : Expand(ids)[k] \in Job
          /\ Allocate(r, Expand(ids))
          /\ call' = [call EXCEPT ![r] = [NoCall EXCEPT !.code = "reading", !.run = r,
                                            !.todo = [k \in 1..Len(Expand(ids)) |-> k]]]
    BY <1>2 DEF SubmitAccepted
  <2>2. PICK s \in Seq(Job) : s = Expand(ids)
    <3>1. Expand(ids) \in Seq(Id)
      BY JobAssumption DEF Expand
    <3> DEFINE t == Expand(ids)
    <3>2. t \in Seq(Id) /\ \A k \in DOMAIN t : t[k] \in Job
      BY <3>1, <2>1
    <3> HIDE DEF t
    <3>3. t \in Seq(Job)
      BY <3>2
    <3> QED BY <3>3 DEF t
  <2>3. Allocate(r, s) /\ Accepts(r, s)
    BY <2>1, <2>2, <1>2 DEF SubmitAccepted, Accepts
  <2> QED BY <1>2, <2>3 DEF SubmitAccepted, Creation
<1> QED BY <1>1, <1>2

\* A step stores a field, makes the objects of one request, ends the process with
\* all it has in memory, or leaves the objects and the keys as they are.
LEMMA ObjectsChange ==
  ASSUME IInv, [Next]_vars
  PROVE  \/ \E r \in Run : Storage(r)
         \/ \E r \in Run : Creation(r)
         \/ Stop
         \/ UNCHANGED <<heap, states>>
<1>1. ASSUME NEW r \in Run, Submit(r) PROVE Creation(r) \/ UNCHANGED <<heap, states>>
  BY <1>1, SubmitCreation DEF Submit, RejectMalformed
<1>2. ASSUME NEW r \in Run, RunnerStep(r) PROVE Storage(r) \/ UNCHANGED <<heap, states>>
  BY <1>2, RunnerStorage
<1>3. ASSUME NEW p \in Poller, StartGet(p) PROVE UNCHANGED <<heap, states>>
  BY <1>3 DEF StartGet
<1>4. ASSUME NEW c \in Caller, Encode(c) PROVE UNCHANGED <<heap, states>>
  BY <1>4 DEF Encode, LoadField, EncoderPanics
<1>5. ASSUME Restart \/ UNCHANGED vars PROVE UNCHANGED <<heap, states>>
  BY <1>5 DEF Restart, vars
<1> QED BY <1>1, <1>2, <1>3, <1>4, <1>5 DEF Next

-----------------------------------------------------------------------------
(* The keys of a run *)

\* The key of the last object of a run leads to that object and to no earlier one.
LastObjectHasKey ==
  \A r \in Run : heap[r] # << >> =>
    states[r][heap[r][Len(heap[r])].job] = Len(heap[r])

\* Submit writes the keys in the order of the request: the last id has its own.
LEMMA LastEntry ==
  ASSUME NEW s \in Seq(Job), s # << >>
  PROVE  Entries(s)[s[Len(s)]] = Len(s)
<1> DEFINE j == s[Len(s)]
<1>1. Len(s) \in Nat /\ DOMAIN s = 1..Len(s) /\ Len(s) \in DOMAIN s /\ j \in Job
  OBVIOUS
<1>2. \E k \in DOMAIN s : s[k] = j
  BY <1>1
<1>3. \E k \in DOMAIN s : IsLast(s, j, k)
  BY <1>1, LastExists
<1> DEFINE k == CHOOSE n \in DOMAIN s : IsLast(s, j, n)
<1>4. k \in DOMAIN s /\ IsLast(s, j, k)
  BY <1>3
<1>5. Entries(s)[j] = k
  BY <1>1, <1>2 DEF Entries
<1> HIDE DEF k
<1>6. k = Len(s)
  BY <1>1, <1>4 DEF IsLast
<1> QED BY <1>5, <1>6

\* No step takes the key of its last object from a run.
LEMMA NextKeepsLastKey ==
  ASSUME IInv, LastObjectHasKey, [Next]_vars
  PROVE  LastObjectHasKey'
<1>0. TypeOK
  BY DEF IInv
<1>1. ASSUME NEW r \in Run, Storage(r) PROVE LastObjectHasKey'
  <2>1. /\ \A q \in Run : Len(heap'[q]) = Len(heap[q]) /\ DOMAIN heap'[q] = DOMAIN heap[q]
        /\ heap' \in [Run -> Seq(JobState)] /\ heap \in [Run -> Seq(JobState)]
        /\ states' = states
    BY <1>0, <1>1 DEF Storage, Stored, TypeOK
  <2>2. \A q \in Run : \A k \in DOMAIN heap[q] : heap'[q][k].job = heap[q][k].job
    <3> SUFFICES ASSUME NEW q \in Run, NEW k \in DOMAIN heap[q]
                 PROVE  heap'[q][k].job = heap[q][k].job
      OBVIOUS
    <3>1. CASE q = r /\ k = runner[r].i
      <4>1. heap'[r][k] = [heap[r][k] EXCEPT ![runner[r].pc] = Incoming(r, runner[r].pc)]
        BY <3>1, <1>1 DEF Storage, Stored
      <4>2. runner[r].pc \in Storing /\ heap[r][k] \in JobState
        BY <3>1, <1>0, <1>1 DEF Storage, TypeOK
      <4> QED BY <3>1, <4>1, <4>2 DEF Storing, JobState
    <3>2. CASE ~ (q = r /\ k = runner[r].i)
      BY <3>2, <1>1 DEF Storage, Stored
    <3> QED BY <3>1, <3>2
  <2> SUFFICES ASSUME NEW q \in Run, heap'[q] # << >>
               PROVE  states'[q][heap'[q][Len(heap'[q])].job] = Len(heap'[q])
    BY DEF LastObjectHasKey
  <2>3. heap[q] # << >> /\ Len(heap[q]) \in DOMAIN heap[q]
    BY <2>1
  <2>4. states[q][heap[q][Len(heap[q])].job] = Len(heap[q])
    BY <2>3 DEF LastObjectHasKey
  <2> QED BY <2>1, <2>2, <2>3, <2>4
<1>2. ASSUME NEW r \in Run, Creation(r) PROVE LastObjectHasKey'
  <2>1. PICK s \in Seq(Job) : Allocate(r, s)
    BY <1>2 DEF Creation
  <2>2. /\ heap' \in [Run -> Seq(JobState)]
        /\ Len(heap'[r]) = Len(s) /\ DOMAIN heap'[r] = 1..Len(s)
        /\ \A k \in DOMAIN heap'[r] : heap'[r][k] = NewState(s[k])
        /\ \A q \in Run \ {r} : heap'[q] = heap[q]
    BY <1>0, <2>1, AllocateChanges
  <2>3. states'[r] = Entries(s) /\ \A q \in Run \ {r} : states'[q] = states[q]
    BY <1>0, <2>1 DEF Allocate, TypeOK
  <2> SUFFICES ASSUME NEW q \in Run, heap'[q] # << >>
               PROVE  states'[q][heap'[q][Len(heap'[q])].job] = Len(heap'[q])
    BY DEF LastObjectHasKey
  <2>4. CASE q = r
    <3>1. s # << >> /\ Len(s) \in 1..Len(s)
      BY <2>2, <2>4
    <3>2. heap'[r][Len(s)].job = s[Len(s)]
      <4>1. heap'[r][Len(s)] = NewState(s[Len(s)])
        BY <3>1, <2>2
      <4>2. \A j : NewState(j).job = j
        BY DEF NewState
      <4> QED BY <4>1, <4>2
    <3> QED BY <3>1, <3>2, <2>2, <2>3, <2>4, LastEntry
  <2>5. CASE q # r
    BY <2>5, <2>2, <2>3 DEF LastObjectHasKey
  <2> QED BY <2>4, <2>5
<1>3. CASE Stop
  BY <1>3 DEF Stop, LastObjectHasKey
<1>4. CASE UNCHANGED <<heap, states>>
  BY <1>4 DEF LastObjectHasKey
<1> QED BY <1>1, <1>2, <1>3, <1>4, ObjectsChange

\* If the last object is final, so is the run: the jobs are executed in order.
LEMMA LastKeyDecides ==
  ASSUME IInv, LastObjectHasKey
  PROVE  FinalKeysMeanFinalRun
<1> SUFFICES ASSUME NEW r \in Run,
                    \A j \in Job : states[r][j] # 0 =>
                      heap[r][states[r][j]].status \in Terminal,
                    NEW k \in DOMAIN heap[r]
             PROVE  heap[r][k].status \in Terminal
  BY DEF FinalKeysMeanFinalRun
<1> DEFINE n == Len(heap[r])
<1>1. /\ heap[r] \in Seq(JobState) /\ n \in Nat /\ DOMAIN heap[r] = 1..n
      /\ n \in DOMAIN heap[r] /\ heap[r] # << >> /\ n # 0
      /\ runner[r].pc # "none" => runner[r].i \in 1..n
  BY DEF IInv, TypeOK
<1>2. heap[r][n].job \in Job
  <2>1. heap[r][n] \in JobState
    BY <1>1
  <2> QED BY <2>1 DEF JobState
<1>3. heap[r][n].status \in Terminal
  BY <1>1, <1>2 DEF LastObjectHasKey
<1>4. ~ Fresh(heap[r][n])
  BY <1>3, FreshRecord DEF Terminal
<1>5. RunInOrder(r)
  BY OrderByRun DEF IInv
<1>6. runner[r].pc # "none" /\ runner[r].i = n
  BY <1>1, <1>4, <1>5 DEF RunInOrder
<1>7. CASE k = n
  BY <1>3, <1>7
<1>8. CASE k # n
  <2>1. k < runner[r].i
    BY <1>1, <1>6, <1>8
  <2> QED BY <2>1, <1>5, <1>6 DEF RunInOrder, Settled
<1> QED BY <1>7, <1>8

\* When every key of a run leads to a final status, every job of the request has one,
\* the ones whose object no key leads to included: the runner works in the order in
\* which Submit wrote the keys.  For requests of any length, with any repetitions.
THEOREM KeysDecide == Spec => []FinalKeysMeanFinalRun
<1>1. Init => LastObjectHasKey
  BY DEF Init, LastObjectHasKey
<1>2. IInv /\ LastObjectHasKey /\ [Next]_vars => LastObjectHasKey'
  BY NextKeepsLastKey
<1>3. IInv /\ LastObjectHasKey => FinalKeysMeanFinalRun
  BY LastKeyDecides
<1> QED BY <1>1, <1>2, <1>3, Invariance, PTL DEF Spec
-----------------------------------------------------------------------------
(* The registry implements RunLifecycle, step by step *)

\* The batches of RunLifecycle, as JobRegistry instantiates it.
Batches == [r \in Run |-> Batch(r)]

\* An accepted batch that is still known.
LEMMA KnownBatch ==
  ASSUME TypeOK, NEW r \in Run, call[r].code \notin {"none", "rejected"}, heap[r] # << >>
  PROVE  /\ Batch(r) = [k \in DOMAIN heap[r] |-> heap[r][k].status]
         /\ Batch(r) # << >> /\ Batch(r) # Lifecycle!Lost
<1>1. Batch(r) = [k \in DOMAIN heap[r] |-> heap[r][k].status]
  BY DEF Batch
<1>2. /\ heap[r] \in Seq(JobState) /\ DOMAIN heap[r] = 1..Len(heap[r])
      /\ 1 \in DOMAIN heap[r]
  BY DEF TypeOK
<1>3. heap[r][1].status \in Status
  <2>1. heap[r][1] \in JobState
    BY <1>2
  <2> QED BY <2>1 DEF JobState
<1>4. Batch(r)[1] = heap[r][1].status /\ 1 \in DOMAIN Batch(r)
  BY <1>1, <1>2
<1>5. Lifecycle!Lost[1] = "LOST" /\ DOMAIN << >> = {}
  BY DEF Lifecycle!Lost
<1>6. heap[r][1].status # "LOST"
  BY <1>3 DEF Status, Terminal
<1>7. Batch(r) # Lifecycle!Lost
  BY <1>4, <1>5, <1>6
<1>8. Batch(r) # << >>
  BY <1>4, <1>5
<1> QED BY <1>1, <1>7, <1>8

\* A batch that is not known to anybody, or is lost, shows that.
LEMMA OtherBatch ==
  ASSUME NEW r \in Run
  PROVE  /\ call[r].code \in {"none", "rejected"} => Batch(r) = << >>
         /\ call[r].code \notin {"none", "rejected"} /\ heap[r] = << >> =>
              Batch(r) = Lifecycle!Lost /\ Lifecycle!Lost # << >>
<1>1. Lifecycle!Lost # << >> /\ Lifecycle!Lost = <<"LOST">>
  BY DEF Lifecycle!Lost
<1> QED BY <1>1 DEF Batch

\* The store of a status changes the status of one object, no other store does.
LEMMA StoredStatus ==
  ASSUME TypeOK, NEW r \in Run, Storage(r), NEW q \in Run, NEW k \in DOMAIN heap[q]
  PROVE  heap'[q][k].status = IF q = r /\ k = runner[r].i /\ runner[r].pc = "status"
                              THEN runner[r].want ELSE heap[q][k].status
<1>1. CASE q = r /\ k = runner[r].i
  <2>1. heap'[r][k] = [heap[r][k] EXCEPT ![runner[r].pc] = Incoming(r, runner[r].pc)]
    BY <1>1 DEF Storage, Stored
  <2>2. runner[r].pc \in Storing /\ heap[r][k] \in JobState
    BY <1>1 DEF Storage, TypeOK
  <2>3. Incoming(r, "status") = runner[r].want
    BY DEF Incoming
  <2> DEFINE o == heap[r][k]
             f == runner[r].pc
             v == Incoming(r, f)
  <2>4. o \in JobState /\ f \in Storing /\ heap'[r][k] = [o EXCEPT ![f] = v]
    BY <2>1, <2>2
  <2> HIDE DEF o, f, v
  <2>5. CASE f = "status"
    <3>1. heap'[r][k].status = v
      BY <2>4, <2>5 DEF JobState
    <3>2. v = runner[r].want
      BY <2>3, <2>5 DEF f, v
    <3> QED BY <1>1, <2>5, <3>1, <3>2 DEF f
  <2>6. CASE f # "status"
    <3>1. heap'[r][k].status = o.status
      BY <2>4, <2>6 DEF JobState, Storing
    <3> QED BY <1>1, <2>6, <3>1 DEF f, o
  <2> QED BY <2>5, <2>6
<1>2. CASE ~ (q = r /\ k = runner[r].i)
  BY <1>2 DEF Storage, Stored
<1> QED BY <1>1, <1>2

\* A store is seen from outside as a job that starts or ends, or not at all.
LEMMA StorageRefines ==
  ASSUME IInv, NEW r \in Run, Storage(r)
  PROVE  Lifecycle!Start(r) \/ Lifecycle!Finish(r) \/ Batches' = Batches
<1> DEFINE i == runner[r].i
           w == runner[r].want
<1>1. /\ TypeOK /\ CallsFollowRuns /\ runner[r].pc \in Storing /\ runner[r].pc # "none"
      /\ \A q \in Run : Len(heap'[q]) = Len(heap[q]) /\ DOMAIN heap'[q] = DOMAIN heap[q]
      /\ \A q \in Run \ {r} : heap'[q] = heap[q]
      /\ heap' \in [Run -> Seq(JobState)] /\ heap \in [Run -> Seq(JobState)]
      /\ call' = call
  BY DEF IInv, TypeOK, Storage, Stored, Storing
<1>2. /\ w \in {"RUNNING", "COMPLETED", "FAILED"}
      /\ i \in 1..Len(heap[r]) /\ i \in DOMAIN heap[r] /\ DOMAIN heap[r] = 1..Len(heap[r])
      /\ Len(heap[r]) \in Nat
  <2>1. heap[r] \in Seq(JobState)
    BY <1>1
  <2>2. DOMAIN heap[r] = 1..Len(heap[r]) /\ Len(heap[r]) \in Nat
    BY <2>1
  <2> QED BY <2>2, <1>1, RunnerType
<1>3. call[r].code \notin {"none", "rejected"} /\ heap[r] # << >> /\ heap'[r] # << >>
  BY <1>1, <1>2 DEF CallsFollowRuns
<1>4. /\ Batch(r) = [k \in DOMAIN heap[r] |-> heap[r][k].status]
      /\ Batch(r) # Lifecycle!Lost
  BY <1>1, <1>3, KnownBatch
<1>5. Batch(r)' = [k \in DOMAIN heap[r] |-> heap'[r][k].status]
  BY <1>1, <1>3 DEF Batch
<1>6. \A q \in Run \ {r} : Batch(q)' = Batch(q)
  BY <1>1 DEF Batch
<1>7. CASE runner[r].pc # "status"
  <2>1. Batch(r)' = Batch(r)
    BY <1>1, <1>4, <1>5, <1>7, StoredStatus
  <2> QED BY <2>1, <1>6 DEF Batches
<1>8. CASE runner[r].pc = "status"
  <2>1. Batch(r)' = [Batch(r) EXCEPT ![i] = w]
    <3>1. \A k \in DOMAIN heap[r] :
            heap'[r][k].status = IF k = i THEN w ELSE heap[r][k].status
      BY <1>1, <1>8, StoredStatus
    <3> QED BY <3>1, <1>2, <1>4, <1>5
  <2>2. Batches' = [Batches EXCEPT ![r] = [Batches[r] EXCEPT ![i] = w]]
    BY <2>1, <1>6 DEF Batches
  <2>3. /\ \A k \in 1..(i - 1) : Batch(r)[k] \in Terminal
        /\ i \in DOMAIN Batch(r)
        /\ Batch(r)[i] = IF w = "RUNNING" THEN "PENDING" ELSE "RUNNING"
    <3>1. RunInOrder(r)
      BY OrderByRun DEF IInv
    <3>2. \A k \in 1..(i - 1) : k \in DOMAIN heap[r] /\ k < i
      BY <1>2
    <3>3. \A k \in 1..(i - 1) : heap[r][k].status \in Terminal
      BY <3>1, <3>2, <1>1 DEF RunInOrder, Settled
    <3>4. InProgress("status", w, heap[r][i])
      BY <1>1, <1>8, CurrentJob
    <3>5. heap[r][i].status = IF w = "RUNNING" THEN "PENDING" ELSE "RUNNING"
      BY <3>4, FreshRecord DEF InProgress
    <3> QED BY <3>2, <3>3, <3>5, <1>2, <1>4
  <2>4. Batches[r] = Batch(r) /\ Batches[r] # Lifecycle!Lost
    BY <1>4 DEF Batches
  <2>5. CASE w = "RUNNING"
    <3>1. /\ Batches[r] # Lifecycle!Lost
          /\ i \in DOMAIN Batches[r]
          /\ Batches[r][i] = "PENDING"
          /\ \A k \in 1..(i - 1) : Batches[r][k] \in Lifecycle!Terminal
          /\ Batches' = [Batches EXCEPT ![r] = [Batches[r] EXCEPT ![i] = "RUNNING"]]
      BY <2>2, <2>3, <2>4, <2>5 DEF Lifecycle!Terminal, Terminal
    <3> QED BY <3>1 DEF Lifecycle!Start, Batches
  <2>6. CASE w # "RUNNING"
    <3>1. /\ Batches[r] # Lifecycle!Lost
          /\ i \in DOMAIN Batches[r] /\ w \in Lifecycle!Terminal
          /\ Batches[r][i] = "RUNNING"
          /\ Batches' = [Batches EXCEPT ![r] = [Batches[r] EXCEPT ![i] = w]]
      BY <2>2, <2>3, <2>4, <2>6, <1>2 DEF Lifecycle!Terminal
    <3> QED BY <3>1 DEF Lifecycle!Finish, Batches
  <2> QED BY <2>5, <2>6
<1> QED BY <1>7, <1>8

\* An accepted request is a batch of pending jobs; of a rejected one nobody knows.
LEMMA CreationRefines ==
  ASSUME IInv, NEW r \in Run, Creation(r)
  PROVE  Lifecycle!Register(r) \/ Batches' = Batches
<1>1. PICK s \in Seq(Job) : Allocate(r, s) /\ (Accepts(r, s) \/ Rejects(r))
  BY DEF Creation
<1>2. TypeOK /\ r \in Caller /\ Run \subseteq Caller /\ call[r].code = "none"
  BY DEF IInv, Creation, Caller
<1>3. /\ heap' \in [Run -> Seq(JobState)]
      /\ Len(heap'[r]) = Len(s) /\ DOMAIN heap'[r] = 1..Len(s)
      /\ \A k \in DOMAIN heap'[r] : heap'[r][k] = NewState(s[k])
      /\ \A q \in Run \ {r} : heap'[q] = heap[q]
  BY <1>1, <1>2, AllocateChanges
<1>4. Batch(r) = << >>
  BY <1>2, OtherBatch
<1>5. CASE Rejects(r)
  <2>1. call'[r].code = "rejected" /\ \A q \in Run \ {r} : call'[q] = call[q]
    BY <1>2, <1>5 DEF Rejects, TypeOK, Call
  <2>2. Batch(r)' = << >>
    BY <2>1 DEF Batch
  <2>3. \A q \in Run \ {r} : Batch(q)' = Batch(q)
    BY <2>1, <1>3 DEF Batch
  <2> QED BY <2>2, <2>3, <1>4 DEF Batches
<1>6. CASE Accepts(r, s)
  <2> DEFINE pending == [k \in 1..Len(s) |-> "PENDING"]
             t == [k \in 1..Len(s) |-> k]
  <2>1. \A todo : [NoCall EXCEPT !.code = "reading", !.run = r, !.todo = todo].code = "reading"
    BY DEF NoCall
  <2>2. call' = [call EXCEPT ![r] = [NoCall EXCEPT !.code = "reading", !.run = r, !.todo = t]]
    BY <1>6 DEF Accepts
  <2> HIDE DEF t
  <2>3. call'[r].code = "reading" /\ \A q \in Run \ {r} : call'[q] = call[q]
    BY <2>1, <2>2, <1>2 DEF TypeOK
  <2>4. s # << >> /\ Len(s) \in {Len(Expand(ids)) : ids \in Requests} /\ Len(s) # 0
    BY <1>6 DEF Accepts
  <2>5. \A j : NewState(j).status = "PENDING"
    BY DEF NewState
  <2>6. Batch(r)' = pending
    <3>1. heap'[r] # << >>
      BY <2>4, <1>3
    <3>2. Batch(r)' = [k \in DOMAIN heap'[r] |-> heap'[r][k].status]
      BY <3>1, <2>3 DEF Batch
    <3>3. \A k \in 1..Len(s) : heap'[r][k].status = "PENDING"
      BY <1>3, <2>5
    <3> QED BY <3>2, <3>3, <1>3
  <2>7. \A q \in Run \ {r} : Batch(q)' = Batch(q)
    BY <2>3, <1>3 DEF Batch
  <2>8. /\ Batches' = [Batches EXCEPT ![r] = pending] /\ Batches[r] = << >>
        /\ Len(s) \in {Len(Expand(ids)) : ids \in Requests} \ {0}
    BY <2>4, <2>6, <2>7, <1>4 DEF Batches
  <2> QED BY <2>8 DEF Lifecycle!Register, Batches
<1> QED BY <1>1, <1>5, <1>6

\* A process that ends takes all batches with it.
LEMMA StopRefines ==
  ASSUME IInv, Stop
  PROVE  Lifecycle!Lose
<1>1. TypeOK /\ Run \subseteq Caller
  BY DEF IInv, Caller
<1>2. \A r \in Run : heap'[r] = << >>
  BY DEF Stop
<1>3. \A r \in Run : call'[r].code \in {"none", "rejected"} <=>
                       call[r].code \in {"none", "rejected"}
  <2> SUFFICES ASSUME NEW r \in Run
               PROVE  call'[r].code \in {"none", "rejected"} <=>
                        call[r].code \in {"none", "rejected"}
    OBVIOUS
  <2>1. call[r] \in Call /\ r \in Caller
    BY <1>1 DEF TypeOK
  <2>2. CASE call[r].code = "reading"
    <3>1. call'[r] = [call[r] EXCEPT !.code = "lost", !.todo = << >>, !.field = 1, !.doc = Blank]
      BY <2>1, <2>2 DEF Stop
    <3> QED BY <2>1, <2>2, <3>1 DEF Call
  <2>3. CASE call[r].code # "reading"
    BY <2>1, <2>3 DEF Stop
  <2> QED BY <2>2, <2>3
<1>4. \A r \in Run : Batch(r)' = IF Batch(r) = << >> THEN << >> ELSE Lifecycle!Lost
  <2> SUFFICES ASSUME NEW r \in Run
               PROVE  Batch(r)' = IF Batch(r) = << >> THEN << >> ELSE Lifecycle!Lost
    OBVIOUS
  <2>1. CASE call[r].code \in {"none", "rejected"}
    <3>1. Batch(r) = << >> /\ Batch(r)' = << >>
      BY <1>3, <2>1 DEF Batch
    <3> QED BY <3>1
  <2>2. CASE call[r].code \notin {"none", "rejected"}
    <3>1. Batch(r)' = Lifecycle!Lost
      BY <1>2, <1>3, <2>2 DEF Batch, Lifecycle!Lost
    <3>2. Batch(r) # << >>
      BY <1>1, <2>2, KnownBatch, OtherBatch
    <3> QED BY <3>1, <3>2
  <2> QED BY <2>1, <2>2
<1>5. Batches' = [r \in Run |-> IF Batches[r] = << >> THEN << >> ELSE Lifecycle!Lost]
  BY <1>4 DEF Batches
<1> QED BY <1>5 DEF Lifecycle!Lose, Batches

\* The other steps are not seen from outside: no batch is accepted, none changes.
LEMMA UnseenSteps ==
  ASSUME IInv, UNCHANGED heap,
         \A r \in Run : call'[r].code \in {"none", "rejected"} <=>
                          call[r].code \in {"none", "rejected"}
  PROVE  Batches' = Batches
BY DEF Batches, Batch

\* An exchange that is encoded stays accepted: it goes on, is answered or aborted.
LEMMA ReadingGoesOn ==
  ASSUME IInv, NEW c \in Caller, Encode(c)
  PROVE  call'[c].code \notin {"none", "rejected"}
<1> DEFINE x == call[c]
<1>1. TypeOK /\ x \in Call /\ x.code = "reading"
  BY DEF IInv, TypeOK, Encode, LoadField, EncoderPanics
<1>2. CASE EncoderPanics(c)
  <2>1. call'[c] = [x EXCEPT !.code = "aborted", !.todo = << >>, !.field = 1, !.doc = Blank]
    BY <1>1, <1>2 DEF EncoderPanics, TypeOK
  <2> QED BY <1>1, <2>1 DEF Call
<1>3. CASE LoadField(c)
  <2>1. PICK d : call' = [call EXCEPT ![c] =
          CASE x.field < Len(Fields) -> [x EXCEPT !.field = x.field + 1, !.doc = d]
            [] x.field = Len(Fields) /\ Len(x.todo) > 1 ->
                 [x EXCEPT !.field = 1, !.todo = Tail(x.todo), !.doc = d]
            [] OTHER -> Answered(c, x, d)]
    BY <1>3 DEF LoadField
  <2> DEFINE z == CASE x.field < Len(Fields) -> [x EXCEPT !.field = x.field + 1, !.doc = d]
                    [] x.field = Len(Fields) /\ Len(x.todo) > 1 ->
                         [x EXCEPT !.field = 1, !.todo = Tail(x.todo), !.doc = d]
                    [] OTHER -> Answered(c, x, d)
  <2>2. call'[c] = z
    <3>1. call' = [call EXCEPT ![c] = z]
      BY <2>1
    <3> HIDE DEF z
    <3> QED BY <3>1, <1>1 DEF TypeOK
  <2>3. Len(Fields) = 4 /\ x.field \in 1..4
    BY <1>1 DEF Fields, Call
  <2>4. z.code \in {"reading", "ok"}
    <3>1. CASE x.field < 4
      BY <3>1, <2>3, <1>1 DEF Call
    <3>2. CASE x.field = 4 /\ Len(x.todo) > 1
      BY <3>2, <2>3, <1>1 DEF Call
    <3>3. CASE x.field = 4 /\ ~ (Len(x.todo) > 1)
      <4>1. z = Answered(c, x, d)
        BY <3>3, <2>3
      <4>2. Answered(c, x, d).code = "ok"
        BY <1>1 DEF Answered, Call
      <4> QED BY <4>1, <4>2
    <3> QED BY <3>1, <3>2, <3>3, <2>3
  <2> HIDE DEF z
  <2> QED BY <2>2, <2>4
<1> QED BY <1>2, <1>3 DEF Encode

\* No step of a poll or of an encoder makes a request accepted or rejected.
LEMMA HandlersUnseen ==
  ASSUME IInv, \/ \E p \in Poller : StartGet(p)
               \/ \E c \in Caller : Encode(c)
  PROVE  Batches' = Batches
<1>1. TypeOK /\ Run \subseteq Caller /\ Run \cap Poller = {}
  BY JobAssumption DEF IInv, Caller
<1>2. ASSUME NEW p \in Poller, StartGet(p) PROVE Batches' = Batches
  <2>1. PICK x : call' = [call EXCEPT ![p] = x] /\ UNCHANGED heap
    BY <1>2 DEF StartGet
  <2>2. \A r \in Run : call'[r] = call[r]
    BY <2>1, <1>1
  <2> QED BY <2>1, <2>2, UnseenSteps
<1>3. ASSUME NEW c \in Caller, Encode(c) PROVE Batches' = Batches
  <2>1. PICK x : call' = [call EXCEPT ![c] = x]
    BY <1>3 DEF Encode, LoadField, EncoderPanics
  <2>2. call[c].code = "reading" /\ UNCHANGED heap
    BY <1>3 DEF Encode, LoadField, EncoderPanics
  <2>3. call'[c].code \notin {"none", "rejected"}
    BY <1>3, ReadingGoesOn
  <2>4. \A d \in Caller \ {c} : call'[d] = call[d]
    BY <2>1, <1>1 DEF TypeOK
  <2> QED BY <2>2, <2>3, <2>4, <1>1, UnseenSteps
<1> QED BY <1>2, <1>3

\* Every step of the registry is a step of RunLifecycle, or none.
LEMMA NextRefines ==
  ASSUME IInv, [Next]_vars
  PROVE  Lifecycle!Next \/ Batches' = Batches
<1>1. ASSUME NEW r \in Run, Submit(r) PROVE Lifecycle!Next \/ Batches' = Batches
  <2>1. CASE RejectMalformed(r)
    <3>1. TypeOK /\ r \in Caller /\ Run \subseteq Caller
      BY DEF IInv, Caller
    <3>2. /\ call[r].code = "none" /\ call'[r].code = "rejected" /\ UNCHANGED heap
          /\ \A q \in Run \ {r} : call'[q] = call[q]
      BY <2>1, <3>1 DEF RejectMalformed, TypeOK, Call
    <3> QED BY <3>2, UnseenSteps
  <2>2. CASE SubmitUnknown(r) \/ SubmitAccepted(r)
    BY <2>2, SubmitCreation, CreationRefines DEF Lifecycle!Next
  <2> QED BY <1>1, <2>1, <2>2 DEF Submit
<1>2. ASSUME NEW r \in Run, RunnerStep(r) PROVE Lifecycle!Next \/ Batches' = Batches
  <2>1. CASE Storage(r)
    BY <2>1, StorageRefines DEF Lifecycle!Next
  <2>2. CASE UNCHANGED <<up, heap, states, call>>
    BY <2>2, UnseenSteps
  <2> QED BY <1>2, <2>1, <2>2, RunnerStorage
<1>3. CASE Stop
  BY <1>3, StopRefines DEF Lifecycle!Next
<1>4. CASE Restart \/ UNCHANGED vars
  BY <1>4, UnseenSteps DEF Restart, vars
<1>5. CASE \/ \E p \in Poller : StartGet(p)
           \/ \E c \in Caller : Encode(c)
  BY <1>5, HandlersUnseen
<1> QED BY <1>1, <1>2, <1>3, <1>4, <1>5 DEF Next

\* At first nobody knows of any batch.
LEMMA InitRefines == Init => Lifecycle!Init
<1> SUFFICES ASSUME Init PROVE Lifecycle!Init
  OBVIOUS
<1>1. \A r \in Run : r \in Caller /\ call[r].code = "none"
  BY DEF Init, NoCall, Caller
<1>2. \A r \in Run : Batch(r) = << >>
  BY <1>1, OtherBatch
<1> QED BY <1>2 DEF Lifecycle!Init

\* JobRegistry implements the safety part of RunLifecycle, for all sets of runs, jobs,
\* requests and pollers: what a client can know of its batches changes only as the
\* promise allows, a job at a time, in the order of the request, and with a crash
\* all batches at once.
THEOREM Refinement == Spec => Lifecycle!Init /\ [][Lifecycle!Next]_Batches
<1>1. Init => Lifecycle!Init
  BY InitRefines
<1>2. IInv /\ [Next]_vars => [Lifecycle!Next]_Batches
  BY NextRefines
<1> QED BY <1>1, <1>2, Invariance, PTL DEF Spec
-----------------------------------------------------------------------------
(* What a poller sees, and what it may conclude *)

\* A completion time can be seen of object k: it is there, or being stored.
Stamped(r, k) == heap[r][k].completedAt = "set" \/ Racing(r, k, "completedAt")

\* What a status document can show as a status.
Shown == Status \cup {"unread", "garbled"}

\* What is read of object k is still true of it, or has become true: the status was
\* decided when it could be seen, and so was the rest when the completion time could.
Sound(d, r, k) ==
  /\ d.status \in Terminal => d.status = Outcome(r, k)
  /\ d.status = "RUNNING" => Outcome(r, k) # "PENDING"
  /\ d.status = "garbled" => Outcome(r, k) \in Terminal
  /\ d.status = "COMPLETED" /\ d.appId # "unread" => d.appId = heap[r][k].appId
  /\ d.completedAt \in {"set", "garbled"} => Stamped(r, k)
  /\ d.completedAt \in {"set", "garbled"} /\ d.error # "unread" =>
       (d.error = "text" <=> Outcome(r, k) = "FAILED")

\* What an earlier poll has shown is no longer being stored: GetState took the lock.
Past(b, r, k) ==
  /\ b \in Terminal => heap[r][k].status = b
  /\ b = "RUNNING" => heap[r][k].status # "PENDING"
  /\ b = "garbled" => heap[r][k].status \in Terminal

\* The order of two statuses that a poller has seen, as PollsNeverGoBack has it.
NeverBack(b, s) ==
  s # "unread" => /\ Rank(b) <= Rank(s)
                  /\ b \in Terminal => s = b
                  /\ b # "garbled" \/ s # "garbled"

\* A poller and the key it polls.
Polls(x) ==
  LET k == Lookup(x.run, x.job) IN
  /\ x.run = Nil => x.job = Nil /\ x.code = "none" /\ x.doc = Blank /\ x.before = "unread"
  /\ x.code = "reading" => k # 0 /\ x.todo = <<k>>
  /\ x.code = "reading" /\ x.field = 2 => x.doc.error = "unread"
  /\ x.code \in {"reading", "ok"} /\ k = 0 => heap[x.run] = << >>
  /\ x.doc.status \in Shown /\ x.before \in Shown
  /\ k # 0 => Sound(x.doc, x.run, k) /\ Past(x.before, x.run, k)
  /\ NeverBack(x.before, x.doc.status)

PollersKnow == \A p \in Poller : Polls(call[p])
-----------------------------------------------------------------------------
(* How one object goes on *)

\* What the order of the stores means for one object, whatever its goroutine is at.
LEMMA ObjectFacts ==
  ASSUME IInv, NEW r \in Run, NEW k \in DOMAIN heap[r]
  PROVE  /\ heap[r][k] \in JobState /\ heap[r][k].status \in Status
         /\ runner[r].want \in {"RUNNING", "COMPLETED", "FAILED"}
         /\ Racing(r, k, "status") =>
              \/ heap[r][k].status = "PENDING" /\ runner[r].want = "RUNNING"
              \/ heap[r][k].status = "RUNNING" /\ runner[r].want \in Terminal
         /\ Racing(r, k, "appId") => heap[r][k].status = "RUNNING"
         /\ Stamped(r, k) =>
              /\ heap[r][k].status \in Terminal
              /\ heap[r][k].error = "text" <=> heap[r][k].status = "FAILED"
              /\ ~ Racing(r, k, "error")
<1> DEFINE o == heap[r][k]
           pc == runner[r].pc
           w == runner[r].want
<1>1. o \in JobState /\ o.status \in Status /\ w \in {"RUNNING", "COMPLETED", "FAILED"}
  <2>1. o \in JobState
    BY DEF IInv, TypeOK
  <2> QED BY <2>1, RunnerType DEF IInv, JobState
<1>2. RunInOrder(r) /\ runner[r].i \in Nat /\ k \in Nat
  BY OrderByRun DEF IInv, TypeOK
<1>3. pc # "none" /\ k = runner[r].i => InProgress(pc, w, o)
  BY <1>2 DEF RunInOrder
<1>4. Fresh(o) => o.status = "PENDING" /\ o.completedAt = "zero" /\ o.error = ""
  BY FreshRecord
<1>5. Racing(r, k, "status") =>
        \/ o.status = "PENDING" /\ w = "RUNNING"
        \/ o.status = "RUNNING" /\ w \in Terminal
  BY <1>1, <1>3, <1>4 DEF Racing, InProgress, Terminal
<1>6. Racing(r, k, "appId") => o.status = "RUNNING"
  BY <1>3 DEF Racing, InProgress
<1>7. ASSUME Stamped(r, k)
      PROVE  /\ o.status \in Terminal
             /\ o.error = "text" <=> o.status = "FAILED"
             /\ ~ Racing(r, k, "error")
  <2>1. CASE Racing(r, k, "completedAt")
    <3>1. InProgress("completedAt", w, o)
      BY <2>1, <1>3 DEF Racing
    <3> QED BY <2>1, <3>1 DEF Racing, InProgress
  <2>2. CASE o.completedAt = "set" /\ ~ Racing(r, k, "completedAt")
    <3>1. ~ Fresh(o)
      BY <2>2, <1>4
    <3>2. pc # "none" /\ k <= runner[r].i
      BY <3>1, <1>2 DEF RunInOrder
    <3>3. CASE k < runner[r].i
      BY <3>2, <3>3, <1>2 DEF RunInOrder, Settled, Racing
    <3>4. CASE k = runner[r].i
      <4>1. pc \in PC
        BY RunnerType DEF IInv
      <4>2. InProgress(pc, w, o) /\ pc # "completedAt"
        BY <3>2, <3>4, <1>3, <2>2 DEF Racing
      <4>3. pc = "done"
        BY <4>1, <4>2, <2>2, <3>1, <3>2 DEF InProgress, PC, Storing
      <4> QED BY <4>2, <4>3 DEF InProgress, Settled, Racing
    <3> QED BY <3>2, <3>3, <3>4, <1>2
  <2> QED BY <2>1, <2>2, <1>7 DEF Stamped
<1> QED BY <1>1, <1>5, <1>6, <1>7

\* A goroutine goes to a store of the same object that follows, or out of the mutex.
GoesOn(r) ==
  /\ \A q \in Run \ {r} : runner'[q] = runner[q]
  /\ \/ runner'[r].pc \notin Storing
     \/ /\ runner'[r].i = runner[r].i /\ runner'[r].want = runner[r].want
        /\ \/ runner[r].pc = "setStatus" /\ runner'[r].pc = "status"
           \/ runner[r].pc = "recordApp" /\ runner'[r].pc = "appId"
           \/ runner[r].pc = "status" /\ runner'[r].pc = "error"
           \/ runner[r].pc = "error" /\ runner'[r].pc = "completedAt"

\* So does every step of a goroutine.
LEMMA RunnerGoesOn ==
  ASSUME IInv, NEW r \in Run, RunnerStep(r)
  PROVE  GoesOn(r)
<1>1. /\ TypeOK /\ runner \in [Run -> [pc : PC, i : Nat, want : Status \ {"PENDING"}]]
      /\ runner[r] \in [pc : PC, i : Nat, want : Status \ {"PENDING"}]
  BY DEF IInv, TypeOK
<1>2. CASE StoreCompletedAt(r)
  <2>1. runner[r].pc # "none" /\ Advance(r)
    BY <1>2 DEF StoreCompletedAt
  <2>2. PICK x : /\ runner'[r] = x
                 /\ \/ x = [pc |-> "setStatus", i |-> runner[r].i + 1, want |-> "RUNNING"]
                    \/ x = [pc |-> "done", i |-> runner[r].i, want |-> runner[r].want]
    BY <1>1, <2>1, AdvanceType
  <2>3. x.pc \in {"setStatus", "done"}
    BY <2>2
  <2>4. \A q \in Run \ {r} : runner'[q] = runner[q]
    BY <1>1, <2>1, AdvanceType
  <2> QED BY <2>2, <2>3, <2>4 DEF GoesOn, Storing
<1>3. ASSUME NEW pc, Goto(r, pc),
             \/ pc \notin Storing
             \/ runner[r].pc = "setStatus" /\ pc = "status"
             \/ runner[r].pc = "recordApp" /\ pc = "appId"
             \/ runner[r].pc = "status" /\ pc = "error"
             \/ runner[r].pc = "error" /\ pc = "completedAt"
      PROVE  GoesOn(r)
  <2>1. /\ \A q \in Run \ {r} : runner'[q] = runner[q]
        /\ runner'[r] = [runner[r] EXCEPT !.pc = pc]
    BY <1>1, <1>3 DEF Goto
  <2>2. runner'[r].pc = pc /\ runner'[r].i = runner[r].i /\ runner'[r].want = runner[r].want
    BY <1>1, <2>1
  <2> QED BY <1>3, <2>1, <2>2 DEF GoesOn
<1>4. ASSUME NEW w, SetStatus(r, w)
      PROVE  GoesOn(r)
  <2>1. /\ \A q \in Run \ {r} : runner'[q] = runner[q]
        /\ runner'[r].pc = "setStatus"
    BY <1>1, <1>4 DEF SetStatus
  <2> QED BY <2>1 DEF GoesOn, Storing
<1>5. CASE AcquireLock(r)
  BY <1>3, <1>5 DEF AcquireLock
<1>6. CASE StoreStatus(r)
  BY <1>3, <1>6 DEF StoreStatus
<1>7. CASE StoreError(r)
  BY <1>3, <1>7 DEF StoreError, Storing
<1>8. CASE FindStreamingJar(r) \/ RemoveOutput(r) \/ Launch(r)
  BY <1>3, <1>4, <1>8 DEF FindStreamingJar, RemoveOutput, Launch, Storing
<1>9. CASE ExitZero(r) \/ ExitNonzero(r) \/ StoreAppId(r)
  BY <1>3, <1>4, <1>9 DEF ExitZero, ExitNonzero, StoreAppId, Storing
<1> QED BY <1>2, <1>5, <1>6, <1>7, <1>8, <1>9 DEF RunnerStep
\* A goroutine that is at a store does store.
LEMMA StoringStores ==
  ASSUME IInv, NEW r \in Run, RunnerStep(r), runner[r].pc \in Storing
  PROVE  Storage(r)
<1>1. StoreStatus(r) \/ StoreError(r) \/ StoreCompletedAt(r) \/ StoreAppId(r)
  BY DEF RunnerStep, Storing, AcquireLock, FindStreamingJar, RemoveOutput, Launch,
         ExitZero, ExitNonzero
<1>2. /\ Store(r, runner[r].pc, Incoming(r, runner[r].pc))
      /\ UNCHANGED <<up, states, call>>
  BY <1>1 DEF StoreStatus, StoreError, StoreCompletedAt, StoreAppId
<1> QED BY <1>2, StoreRecorded DEF Storage

\* What is decided of an object stays decided.
Later(r, k) ==
  /\ Outcome(r, k) \in Terminal => Outcome(r, k)' = Outcome(r, k)
  /\ Outcome(r, k) # "PENDING" => Outcome(r, k)' # "PENDING"
  /\ heap[r][k].status \in Terminal => heap'[r][k].status = heap[r][k].status
  /\ heap[r][k].status # "PENDING" => heap'[r][k].status # "PENDING"
  /\ Outcome(r, k) = "COMPLETED" => heap'[r][k].appId = heap[r][k].appId
  /\ Stamped(r, k) => Stamped(r, k)'

\* A step of a goroutine takes nothing back that was decided.
LEMMA RunnerKeepsDecisions ==
  ASSUME IInv, NEW q \in Run, RunnerStep(q), NEW r \in Run, NEW k \in DOMAIN heap[r]
  PROVE  Later(r, k)
<1> DEFINE o == heap[r][k]
           f == runner[r].pc
           v == Incoming(r, f)
<1>1. /\ GoesOn(q)
      /\ Storage(q) \/ UNCHANGED heap
      /\ o \in JobState /\ o.status \in Status /\ TypeOK
  BY RunnerGoesOn, RunnerStorage, ObjectFacts DEF IInv
<1>2. CASE q # r
  <2>1. runner'[r] = runner[r] /\ heap'[r] = heap[r]
    BY <1>1, <1>2 DEF GoesOn, Storage, Stored
  <2> QED BY <2>1 DEF Later, Outcome, Racing, Stamped
<1>3. CASE q = r /\ k # runner[r].i
  <2>1. heap'[r][k] = heap[r][k]
    BY <1>1, <1>3 DEF Storage, Stored
  <2>2. \A g \in Storing : ~ Racing(r, k, g) /\ ~ Racing(r, k, g)'
    BY <1>1, <1>3 DEF GoesOn, Racing
  <2> QED BY <2>1, <2>2 DEF Later, Outcome, Stamped, Storing
<1>4. CASE q = r /\ k = runner[r].i
  <2>1. /\ Racing(r, k, "status") =>
             \/ o.status = "PENDING" /\ runner[r].want = "RUNNING"
             \/ o.status = "RUNNING" /\ runner[r].want \in Terminal
        /\ Racing(r, k, "appId") => o.status = "RUNNING"
        /\ runner[r].want \in {"RUNNING", "COMPLETED", "FAILED"}
    BY ObjectFacts
  <2>2. /\ f \in Storing => heap'[r][k] = [o EXCEPT ![f] = v]
        /\ f \notin Storing => heap'[r][k] = o
    <3>1. CASE Storage(r)
      <4>1. f \in Storing /\ Stored(r, f, v)
        BY <3>1 DEF Storage
      <4> HIDE DEF f, v
      <4> QED BY <4>1, <1>4 DEF Stored
    <3>2. CASE UNCHANGED heap /\ f \notin Storing
      BY <3>2
    <3>3. f \in Storing => Storage(r)
      BY <1>4, StoringStores
    <3> QED BY <3>1, <3>2, <3>3, <1>1, <1>4
  <2>3. /\ Racing(r, k, "status")' => f = "setStatus" /\ runner'[r].want = runner[r].want
        /\ Racing(r, k, "completedAt")' <=> runner'[r].pc = "completedAt"
        /\ runner'[r].pc = "completedAt" => f = "error"
    BY <1>1, <1>4 DEF GoesOn, Racing, Storing
  <2>4. CASE f = "status"
    <3>1. v = runner[r].want
      BY <2>4 DEF Incoming
    <3>2. /\ heap'[r][k].status = v /\ heap'[r][k].appId = o.appId
          /\ heap'[r][k].completedAt = o.completedAt
      <4> HIDE DEF o, v
      <4> QED BY <1>1, <2>2, <2>4 DEF JobState, Storing
    <3>3. /\ Racing(r, k, "status") /\ ~ Racing(r, k, "status")'
          /\ ~ Racing(r, k, "completedAt")
      BY <1>4, <2>3, <2>4 DEF Racing
    <3> QED BY <2>1, <3>1, <3>2, <3>3 DEF Later, Outcome, Stamped, Terminal
  <2>5. CASE f = "error"
    <3>1. /\ heap'[r][k].status = o.status /\ heap'[r][k].appId = o.appId
          /\ heap'[r][k].completedAt = o.completedAt
      <4> HIDE DEF o, v
      <4> QED BY <1>1, <2>2, <2>5 DEF JobState, Storing
    <3>2. /\ ~ Racing(r, k, "status") /\ ~ Racing(r, k, "status")'
          /\ ~ Racing(r, k, "completedAt")
      BY <1>4, <2>3, <2>5 DEF Racing
    <3> QED BY <3>1, <3>2 DEF Later, Outcome, Stamped
  <2>6. CASE f = "completedAt"
    <3>1. /\ heap'[r][k].status = o.status /\ heap'[r][k].appId = o.appId
          /\ heap'[r][k].completedAt = "set"
      <4>1. v = "set"
        BY <2>6 DEF Incoming
      <4> HIDE DEF o, v
      <4> QED BY <1>1, <2>2, <2>6, <4>1 DEF JobState, Storing
    <3>2. ~ Racing(r, k, "status") /\ ~ Racing(r, k, "status")'
      BY <1>4, <2>3, <2>6 DEF Racing
    <3> QED BY <3>1, <3>2 DEF Later, Outcome, Stamped
  <2>7. CASE f = "appId"
    <3>1. /\ heap'[r][k].status = o.status /\ heap'[r][k].completedAt = o.completedAt
      <4> HIDE DEF o, v
      <4> QED BY <1>1, <2>2, <2>7 DEF JobState, Storing
    <3>2. /\ ~ Racing(r, k, "status") /\ ~ Racing(r, k, "status")'
          /\ ~ Racing(r, k, "completedAt") /\ o.status = "RUNNING"
      BY <1>4, <2>1, <2>3, <2>7 DEF Racing
    <3> QED BY <3>1, <3>2 DEF Later, Outcome, Stamped
  <2>8. CASE f \notin Storing
    <3>1. heap'[r][k] = o /\ ~ Racing(r, k, "status") /\ ~ Racing(r, k, "completedAt")
      BY <1>4, <2>2, <2>8 DEF Racing, Storing
    <3>2. CASE ~ Racing(r, k, "status")'
      BY <3>1, <3>2 DEF Later, Outcome, Stamped
    <3>3. CASE Racing(r, k, "status")'
      <4>1. f = "setStatus" /\ Outcome(r, k)' = runner[r].want
        BY <2>3, <3>3 DEF Outcome
      <4>2. InProgress("setStatus", runner[r].want, o)
        <5>1. RunInOrder(r) /\ f # "none"
          BY <4>1, OrderByRun DEF IInv
        <5> QED BY <4>1, <5>1, <1>4 DEF RunInOrder
      <4>3. o.status = IF runner[r].want = "RUNNING" THEN "PENDING" ELSE "RUNNING"
        BY <4>2, FreshRecord DEF InProgress
      <4> QED BY <2>1, <3>1, <4>1, <4>3 DEF Later, Outcome, Stamped, Terminal
    <3> QED BY <3>2, <3>3
  <2> QED BY <2>4, <2>5, <2>6, <2>7, <2>8 DEF Storing
<1> QED BY <1>2, <1>3, <1>4

\* An object of a run and its key stay, and what is decided of it, until the process
\* ends: only the submission of the run itself makes objects and keys for it.
LEMMA ObjectGoesOn ==
  ASSUME IInv, [Next]_vars, ~ Stop, NEW r \in Run, call[r].code # "none"
  PROVE  /\ states'[r] = states[r] /\ DOMAIN heap'[r] = DOMAIN heap[r]
         /\ heap[r] = << >> => heap'[r] = << >>
         /\ \A k \in DOMAIN heap[r] : Later(r, k)
<1>1. TypeOK
  BY DEF IInv
<1>2. CASE \E q \in Run : RunnerStep(q)
  <2>1. PICK q \in Run : RunnerStep(q)
    BY <1>2
  <2>2. Storage(q) \/ UNCHANGED <<up, heap, states, call>>
    BY <2>1, RunnerStorage
  <2>3. /\ states' = states /\ Len(heap'[r]) = Len(heap[r])
        /\ DOMAIN heap'[r] = DOMAIN heap[r]
    BY <2>2 DEF Storage, Stored
  <2>4. heap' \in [Run -> Seq(JobState)]
    BY <2>2, <1>1 DEF Storage, Stored, TypeOK
  <2>5. heap[r] = << >> => heap'[r] = << >>
    BY <2>3, <2>4
  <2> QED BY <2>1, <2>3, <2>5, RunnerKeepsDecisions
<1>3. CASE \E q \in Run : Creation(q)
  <2>1. PICK q \in Run : Creation(q)
    BY <1>3
  <2>2. q # r
    BY <2>1 DEF Creation
  <2>3. PICK s \in Seq(Job) : Allocate(q, s) /\ (Accepts(q, s) \/ Rejects(q))
    BY <2>1 DEF Creation
  <2>4. heap'[r] = heap[r] /\ states'[r] = states[r]
    BY <2>2, <2>3, <1>1 DEF Allocate, TypeOK
  <2>5. runner'[r] = runner[r]
    BY <2>2, <2>3, <1>1 DEF Accepts, Rejects, TypeOK
  <2> QED BY <2>4, <2>5 DEF Later, Outcome, Racing, Stamped
<1>4. CASE UNCHANGED <<heap, states, runner>>
  BY <1>4 DEF Later, Outcome, Racing, Stamped
<1>5. ASSUME NEW q \in Run, Submit(q)
      PROVE  Creation(q) \/ UNCHANGED <<heap, states, runner>>
  BY <1>5, SubmitCreation DEF Submit, RejectMalformed
<1>6. ASSUME \/ \E p \in Poller : StartGet(p)
             \/ \E c \in Caller : Encode(c)
             \/ Restart
             \/ UNCHANGED vars
      PROVE  UNCHANGED <<heap, states, runner>>
  BY <1>6 DEF StartGet, Encode, LoadField, EncoderPanics, Restart, vars
<1> QED BY <1>2, <1>3, <1>4, <1>5, <1>6 DEF Next
-----------------------------------------------------------------------------
(* How a poller goes on *)

\* A key that is there leads to an object.
LEMMA KeyLeads ==
  ASSUME TypeOK, NEW r \in Run, NEW j \in Job \cup {Nil}
  PROVE  /\ Lookup(r, j) \in Nat
         /\ Lookup(r, j) # 0 => j \in Job /\ Lookup(r, j) \in DOMAIN heap[r]
<1>1. heap[r] \in Seq(JobState) /\ DOMAIN heap[r] = 1..Len(heap[r]) /\ Len(heap[r]) \in Nat
  BY DEF TypeOK
<1>2. CASE j = Nil
  BY <1>2 DEF Lookup
<1>3. CASE j # Nil
  <2>1. j \in Job /\ Lookup(r, j) = states[r][j]
    BY <1>3 DEF Lookup
  <2>2. states[r][j] \in Nat /\ states[r][j] <= Len(heap[r])
    BY <2>1 DEF TypeOK
  <2> QED BY <1>1, <2>1, <2>2
<1> QED BY <1>2, <1>3

\* What was sound of an object stays sound while the object only goes on.
LEMMA SoundStays ==
  ASSUME IInv, NEW r \in Run, NEW k \in DOMAIN heap[r], Later(r, k), NEW d, NEW b,
         Sound(d, r, k), Past(b, r, k)
  PROVE  Sound(d, r, k)' /\ Past(b, r, k)'
<1>1. "COMPLETED" \in Terminal /\ "FAILED" \in Terminal /\ "PENDING" \notin Terminal
  BY DEF Terminal
<1>2. Past(b, r, k)'
  BY <1>1 DEF Later, Past
<1>3. Stamped(r, k) => Outcome(r, k) \in Terminal
  BY ObjectFacts DEF Outcome, Terminal
<1> HIDE DEF Terminal
<1>4. Sound(d, r, k)'
  BY <1>1, <1>3 DEF Later, Sound
<1> QED BY <1>2, <1>4

\* An exchange that no step touches stays true of a registry that only goes on.
LEMMA PollStays ==
  ASSUME IInv, [Next]_vars, ~ Stop, NEW x \in Call, Polls(x),
         x.run # Nil => call[x.run].code # "none"
  PROVE  Polls(x)'
<1> DEFINE k == Lookup(x.run, x.job)
<1>1. x.run \in Run \cup {Nil} /\ x.job \in Job \cup {Nil} /\ TypeOK
  BY DEF Call, IInv
<1>2. CASE x.run = Nil
  <2>1. k = 0 /\ k' = 0 /\ x.code = "none"
    BY <1>2 DEF Polls, Lookup
  <2> QED BY <2>1 DEF Polls
<1>3. CASE x.run # Nil
  <2>1. /\ x.run \in Run
        /\ states'[x.run] = states[x.run]
        /\ heap[x.run] = << >> => heap'[x.run] = << >>
        /\ \A n \in DOMAIN heap[x.run] : Later(x.run, n)
    BY <1>1, <1>3, ObjectGoesOn
  <2>2. k' = k
    BY <2>1 DEF Lookup
  <2>3. k # 0 => k \in DOMAIN heap[x.run]
    BY <1>1, <2>1, KeyLeads
  <2>4. k # 0 => Sound(x.doc, x.run, k)' /\ Past(x.before, x.run, k)'
    <3> SUFFICES ASSUME k # 0 PROVE Sound(x.doc, x.run, k)' /\ Past(x.before, x.run, k)'
      OBVIOUS
    <3>1. PICK n : n = k
      OBVIOUS
    <3>2. n \in DOMAIN heap[x.run] /\ n' = n
      BY <2>3, <3>1
    <3>3. Sound(x.doc, x.run, n) /\ Past(x.before, x.run, n)
      BY <3>1 DEF Polls
    <3>4. Sound(x.doc, x.run, n)' /\ Past(x.before, x.run, n)'
      BY <2>1, <3>2, <3>3, SoundStays
    <3>5. n = k'
      BY <2>2, <3>1
    <3> HIDE DEF k
    <3> QED BY <3>4, <3>5 DEF Sound, Past, Outcome, Racing, Stamped
  <2> QED BY <1>3, <2>1, <2>2, <2>4 DEF Polls
<1> QED BY <1>2, <1>3

\* A step that leaves the registry alone leaves alone what is true of an exchange.
LEMMA PollsFrame ==
  ASSUME NEW x, Polls(x), UNCHANGED <<heap, states, runner>>
  PROVE  Polls(x)'
<1>1. \A r, j : Lookup(r, j)' = Lookup(r, j)
  BY DEF Lookup
<1>2. \A r, k, f : Racing(r, k, f)' <=> Racing(r, k, f)
  BY DEF Racing
<1>3. \A r, k : Outcome(r, k)' = Outcome(r, k)
  BY <1>2 DEF Outcome
<1>4. \A r, k : Stamped(r, k)' <=> Stamped(r, k)
  BY <1>2 DEF Stamped
<1>5. \A d, r, k : Sound(d, r, k)' <=> Sound(d, r, k)
  BY <1>3, <1>4 DEF Sound
<1>6. \A b, r, k : Past(b, r, k)' <=> Past(b, r, k)
  BY DEF Past
<1> QED BY <1>1, <1>5, <1>6 DEF Polls

\* The exchange of a poller is the one it has after the step.
LEMMA PollIs ==
  ASSUME NEW p \in Poller, NEW x, call'[p] = x, Polls(x)'
  PROVE  Polls(call[p])'
BY DEF Polls, Sound, Past, Outcome, Racing, Stamped, Lookup
\* What the encoder reads as a status, on top of what earlier polls have shown.
LEMMA StatusRead ==
  ASSUME IInv, NEW r \in Run, NEW k \in DOMAIN heap[r], NEW b \in Shown, Past(b, r, k),
         NEW v \in Readable(r, k, "status")
  PROVE  /\ v \in Shown /\ NeverBack(b, v)
         /\ v \in Terminal => v = Outcome(r, k)
         /\ v = "RUNNING" => Outcome(r, k) # "PENDING"
         /\ v = "garbled" => Outcome(r, k) \in Terminal
<1> DEFINE s == heap[r][k].status
           w == runner[r].want
           racing == Racing(r, k, "status")
<1>1. /\ s \in {"PENDING", "RUNNING", "COMPLETED", "FAILED"}
      /\ w \in {"RUNNING", "COMPLETED", "FAILED"}
      /\ racing => \/ s = "PENDING" /\ w = "RUNNING"
                   \/ s = "RUNNING" /\ w \in {"COMPLETED", "FAILED"}
  BY ObjectFacts DEF Status, Terminal
<1>2. Outcome(r, k) = IF racing THEN w ELSE s
  BY DEF Outcome
<1>3. \/ v = s
      \/ racing /\ v = w
      \/ racing /\ v = "garbled" /\ w # "RUNNING"
  <2>1. heap[r][k]["status"] = s /\ Incoming(r, "status") = w
    BY DEF Incoming
  <2>2. Readable(r, k, "status") =
          {s} \cup IF racing THEN {w} \cup Torn("status", s, w) ELSE {}
    BY <2>1 DEF Readable
  <2>3. Torn("status", s, w) \subseteq {"garbled"} /\ (w = "RUNNING" => Torn("status", s, w) = {})
    BY DEF Torn
  <2> HIDE DEF s, w, racing
  <2> QED BY <2>2, <2>3
<1>4. /\ b \in {"PENDING", "RUNNING", "COMPLETED", "FAILED", "unread", "garbled"}
      /\ b \in {"COMPLETED", "FAILED"} => s = b
      /\ b = "RUNNING" => s # "PENDING"
      /\ b = "garbled" => s \in {"COMPLETED", "FAILED"}
  BY DEF Shown, Past, Status, Terminal
<1> HIDE DEF s, w, racing
<1>5. v \in {"PENDING", "RUNNING", "COMPLETED", "FAILED", "garbled"}
  BY <1>1, <1>3
<1>6. /\ Rank("unread") = 0 /\ Rank("PENDING") = 0 /\ Rank("RUNNING") = 1
      /\ Rank("garbled") = 2 /\ Rank("COMPLETED") = 3 /\ Rank("FAILED") = 3
  BY DEF Rank, Terminal
<1>7. NeverBack(b, v)
  <2>1. b \in {"COMPLETED", "FAILED"} => v = b
    BY <1>1, <1>3, <1>4
  <2>2. b = "garbled" => v \in {"COMPLETED", "FAILED"}
    BY <1>1, <1>3, <1>4
  <2>3. b = "RUNNING" => v # "PENDING"
    BY <1>1, <1>3, <1>4
  <2>4. Rank(b) <= Rank(v)
    BY <2>1, <2>2, <2>3, <1>4, <1>5, <1>6
  <2> QED BY <2>1, <2>2, <2>4 DEF NeverBack, Terminal
<1>8. v \in Shown
  BY <1>5 DEF Shown, Status, Terminal
<1> QED BY <1>1, <1>2, <1>3, <1>7, <1>8 DEF Terminal

\* A field that nobody is storing is read as it is.
LEMMA QuietRead ==
  ASSUME NEW r \in Run, NEW k, NEW f, ~ Racing(r, k, f), NEW v \in Readable(r, k, f)
  PROVE  v = heap[r][k][f]
BY DEF Readable

\* A completion time is only seen when it is there, or being stored.
LEMMA StampRead ==
  ASSUME NEW r \in Run, NEW k, NEW v \in Readable(r, k, "completedAt"),
         v \in {"set", "garbled"}, heap[r][k].completedAt # "garbled"
  PROVE  Stamped(r, k)
BY DEF Readable, Stamped

\* A document with field n read as v.
Filled(d, n, v) == [d EXCEPT ![Fields[n]] = v]

\* A document with one more field read of object k.
LEMMA SoundRead ==
  ASSUME IInv, NEW r \in Run, NEW k \in DOMAIN heap[r], NEW b \in Shown, Past(b, r, k),
         NEW d \in Document, Sound(d, r, k), d.status \in Shown, NeverBack(b, d.status),
         NEW n \in 1..4, n = 1 => d = Blank, n = 2 => d.error = "unread",
         NEW v \in Readable(r, k, Fields[n]),
         NEW e, e = Filled(d, n, v)
  PROVE  /\ Sound(e, r, k) /\ e.status \in Shown /\ NeverBack(b, e.status)
         /\ n = 1 => e.error = "unread"
<1> USE DEF Filled
<1>1. /\ heap[r][k] \in JobState
      /\ Racing(r, k, "appId") => heap[r][k].status = "RUNNING"
      /\ Racing(r, k, "status") => heap[r][k].status # "COMPLETED"
      /\ Stamped(r, k) =>
           /\ heap[r][k].status \in Terminal
           /\ heap[r][k].error = "text" <=> heap[r][k].status = "FAILED"
           /\ ~ Racing(r, k, "error") /\ ~ Racing(r, k, "status")
  BY ObjectFacts DEF Terminal
<1>2. CASE n = 1
  <2>1. Fields[n] = "status"
    BY <1>2 DEF Fields
  <2>2. /\ e.status = v /\ e.completedAt = "unread" /\ e.error = "unread"
        /\ e.appId = "unread"
    BY <1>2, <2>1 DEF Blank
  <2>3. /\ v \in Shown /\ NeverBack(b, v)
        /\ v \in Terminal => v = Outcome(r, k)
        /\ v = "RUNNING" => Outcome(r, k) # "PENDING"
        /\ v = "garbled" => Outcome(r, k) \in Terminal
    BY <2>1, StatusRead
  <2> QED BY <2>2, <2>3 DEF Sound
<1>3. CASE n = 2
  <2>1. Fields[n] = "completedAt"
    BY <1>3 DEF Fields
  <2>2. /\ e.status = d.status /\ e.completedAt = v /\ e.error = "unread"
        /\ e.appId = d.appId
    BY <1>3, <2>1 DEF Document
  <2>3. v \in {"set", "garbled"} => Stamped(r, k)
    BY <1>1, <2>1, StampRead DEF JobState
  <2> QED BY <1>3, <2>2, <2>3 DEF Sound
<1>4. CASE n = 3
  <2>1. Fields[n] = "error"
    BY <1>4 DEF Fields
  <2>2. /\ e.status = d.status /\ e.completedAt = d.completedAt /\ e.error = v
        /\ e.appId = d.appId
    BY <1>4, <2>1 DEF Document
  <2>3. d.completedAt \in {"set", "garbled"} => (v = "text" <=> Outcome(r, k) = "FAILED")
    BY <1>1, <2>1, QuietRead DEF Sound, Outcome
  <2> QED BY <1>4, <2>2, <2>3 DEF Sound
<1>5. CASE n = 4
  <2>1. Fields[n] = "appId"
    BY <1>5 DEF Fields
  <2>2. /\ e.status = d.status /\ e.completedAt = d.completedAt /\ e.error = d.error
        /\ e.appId = v
    BY <1>5, <2>1 DEF Document
  <2>3. d.status = "COMPLETED" => v = heap[r][k].appId
    <3>1. d.status = "COMPLETED" => Outcome(r, k) = "COMPLETED"
      BY DEF Sound, Terminal
    <3>2. Outcome(r, k) = "COMPLETED" => ~ Racing(r, k, "appId")
      BY <1>1 DEF Outcome, Racing
    <3> QED BY <2>1, <3>1, <3>2, QuietRead
  <2> QED BY <1>5, <2>2, <2>3 DEF Sound
<1> QED BY <1>2, <1>3, <1>4, <1>5
\* A GET finds no store of its object under way: it takes the lock for the lookup.
LEMMA StartGetPolls ==
  ASSUME IInv, NEW p \in Poller, Polls(call[p]), StartGet(p)
  PROVE  Polls(call[p])'
<1> DEFINE x == call[p]
<1>1. PICK r \in Run, j \in Job \cup {Nil} :
        /\ x.run = Nil \/ (x.run = r /\ x.job = j)
        /\ call[r].code = "ok"
        /\ call' = [call EXCEPT ![p] =
             [NoCall EXCEPT !.code = IF Lookup(r, j) = 0 THEN "notfound" ELSE "reading",
                            !.run = r, !.job = j, !.before = LastSeen(p),
                            !.todo = IF Lookup(r, j) = 0 THEN << >> ELSE <<Lookup(r, j)>>]]
  BY DEF StartGet
<1>2. /\ UNCHANGED <<up, heap, states, lock, runner>> /\ lock = Nil
      /\ p \in Caller /\ TypeOK /\ r # Nil /\ r \in Run
  BY JobAssumption DEF StartGet, IInv, Caller
<1> DEFINE k == Lookup(r, j)
           code == IF k = 0 THEN "notfound" ELSE "reading"
           todo == IF k = 0 THEN << >> ELSE <<k>>
           b == LastSeen(p)
           y == [NoCall EXCEPT !.code = code, !.run = r, !.job = j, !.before = b,
                               !.todo = todo]
<1>3. /\ y.code = code /\ y.run = r /\ y.job = j /\ y.before = b /\ y.todo = todo
      /\ y.doc = Blank /\ y.field = 1
  <2> HIDE DEF code, todo, b, k
  <2> QED BY DEF NoCall
<1>4. call'[p] = y
  <2>1. call' = [call EXCEPT ![p] = y]
    BY <1>1
  <2> HIDE DEF y
  <2> QED BY <2>1, <1>2 DEF TypeOK
<1>5. k # 0 => k \in DOMAIN heap[r]
  BY <1>2, KeyLeads
<1>6. ~ Racing(r, k, "status")
  BY <1>2 DEF IInv, LockOwnerStores, Racing, Storing
<1>7. b \in Shown
  BY DEF Polls, LastSeen
<1>8. k # 0 => Past(b, r, k)
  <2> SUFFICES ASSUME k # 0 PROVE Past(b, r, k)
    OBVIOUS
  <2>1. CASE x.run = Nil
    <3>1. b = "unread"
      BY <2>1 DEF Polls, LastSeen, Blank
    <3> QED BY <3>1 DEF Past, Terminal
  <2>2. CASE x.run = r /\ x.job = j
    <3>1. Sound(x.doc, r, k) /\ Past(x.before, r, k)
      BY <2>2 DEF Polls
    <3>2. Outcome(r, k) = heap[r][k].status
      BY <1>6 DEF Outcome
    <3>3. CASE x.doc.status = "unread"
      BY <3>1, <3>3 DEF LastSeen
    <3>4. CASE x.doc.status # "unread"
      <4>1. b = x.doc.status
        BY <3>4 DEF LastSeen
      <4> HIDE DEF k, b
      <4> QED BY <3>1, <3>2, <4>1 DEF Sound, Past
    <3> QED BY <3>3, <3>4
  <2> QED BY <1>1, <2>1, <2>2
<1>9. Sound(Blank, r, k)
  BY DEF Blank, Sound, Terminal
<1> HIDE DEF y, b
<1>10. PICK z : z = y
  OBVIOUS
<1>11. NeverBack(b, "unread") /\ Blank.status = "unread" /\ "unread" \in Shown
  BY DEF NeverBack, Blank, Shown
<1>12. Lookup(y.run, y.job) = k
  BY <1>3
<1> HIDE DEF k
<1>13. Polls(z)
  BY <1>2, <1>3, <1>7, <1>8, <1>9, <1>10, <1>11, <1>12 DEF Polls
<1>14. Polls(z)'
  BY <1>2, <1>13, PollsFrame
<1> QED BY <1>4, <1>10, <1>14, PollIs

\* One load of the encoder for a poller: the exchange keeps its key, and the document
\* has one more field of the object.
LEMMA LoadFieldReads ==
  ASSUME IInv, NEW p \in Poller, LoadField(p), NEW k, call[p].todo = <<k>>
  PROVE  LET x == call[p] IN
         \E y \in Call, v \in Readable(x.run, k, Fields[x.field]) :
           /\ call'[p] = y
           /\ y.run = x.run /\ y.job = x.job /\ y.before = x.before
           /\ y.doc = [IF x.field = 1 THEN Blank ELSE x.doc EXCEPT ![Fields[x.field]] = v]
           /\ \/ x.field < 4 /\ y.code = "reading" /\ y.field = x.field + 1 /\ y.todo = x.todo
              \/ x.field = 4 /\ y.code = "ok"
<1> DEFINE x == call[p]
           old == IF x.field = 1 THEN Blank ELSE x.doc
<1>1. /\ TypeOK /\ p \in Caller /\ x \in Call /\ x.code = "reading" /\ x.field \in 1..4
      /\ Len(x.todo) = 1 /\ Head(x.todo) = k
  <2>1. TypeOK /\ p \in Caller /\ x \in Call /\ x.code = "reading"
    BY DEF IInv, TypeOK, Caller, LoadField
  <2>2. x.field \in 1..4
    BY <2>1 DEF Call
  <2> QED BY <2>1, <2>2
<1>2. PICK v \in Readable(x.run, Head(x.todo), Fields[x.field]) :
        call' = [call EXCEPT ![p] =
          CASE x.field < Len(Fields) ->
                 [x EXCEPT !.field = x.field + 1,
                           !.doc = [IF x.field = 1 THEN Blank ELSE x.doc
                                      EXCEPT ![Fields[x.field]] = v]]
            [] x.field = Len(Fields) /\ Len(x.todo) > 1 ->
                 [x EXCEPT !.field = 1, !.todo = Tail(x.todo),
                           !.doc = [IF x.field = 1 THEN Blank ELSE x.doc
                                      EXCEPT ![Fields[x.field]] = v]]
            [] OTHER -> Answered(p, x, [IF x.field = 1 THEN Blank ELSE x.doc
                                          EXCEPT ![Fields[x.field]] = v])]
  BY DEF LoadField
<1> DEFINE doc == [old EXCEPT ![Fields[x.field]] = v]
           z == CASE x.field < Len(Fields) -> [x EXCEPT !.field = x.field + 1, !.doc = doc]
                  [] x.field = Len(Fields) /\ Len(x.todo) > 1 ->
                       [x EXCEPT !.field = 1, !.todo = Tail(x.todo), !.doc = doc]
                  [] OTHER -> Answered(p, x, doc)
<1>3. doc \in Document
  <2>1. old \in Document
    <3>1. x.doc \in Document /\ Blank \in Document
      BY <1>1, NoCallType DEF Call, NoCall
    <3> QED BY <3>1
  <2> HIDE DEF old
  <2> QED BY <1>1, <2>1, ReadType
<1>4. call'[p] = z
  <2>1. call' = [call EXCEPT ![p] = z]
    BY <1>2
  <2> HIDE DEF z
  <2> QED BY <2>1, <1>1 DEF TypeOK
<1>5. Len(Fields) = 4
  BY DEF Fields
<1>6. v \in Readable(x.run, k, Fields[x.field])
  BY <1>1, <1>2
<1> HIDE DEF doc
<1>7. CASE x.field < 4
  <2>1. z = [x EXCEPT !.field = x.field + 1, !.doc = doc] /\ x.field + 1 \in 1..4
    BY <1>1, <1>5, <1>7
  <2> HIDE DEF z
  <2>2. /\ z \in Call /\ z.code = "reading" /\ z.run = x.run /\ z.job = x.job
        /\ z.before = x.before /\ z.todo = x.todo /\ z.field = x.field + 1 /\ z.doc = doc
    BY <1>1, <1>3, <2>1 DEF Call
  <2> QED BY <1>4, <1>6, <1>7, <2>2 DEF doc
<1>8. CASE x.field = 4
  <2>1. z = Answered(p, x, doc)
    BY <1>1, <1>5, <1>8
  <2> HIDE DEF z
  <2>2. z = [x EXCEPT !.code = "ok", !.todo = << >>, !.field = 1, !.doc = doc]
    BY <2>1 DEF Answered
  <2>3. << >> \in Seq(Nat) /\ 1 \in 1..4
    OBVIOUS
  <2>4. /\ z \in Call /\ z.code = "ok" /\ z.run = x.run /\ z.job = x.job
        /\ z.before = x.before /\ z.doc = doc
    BY <1>1, <1>3, <2>2, <2>3 DEF Call
  <2> QED BY <1>4, <1>6, <1>8, <2>4 DEF doc
<1>9. x.field < 4 \/ x.field = 4
  BY <1>1
<1> QED BY <1>7, <1>8, <1>9, Zenon

\* So the document stays sound.
LEMMA LoadFieldPolls ==
  ASSUME IInv, NEW p \in Poller, Polls(call[p]), LoadField(p)
  PROVE  Polls(call[p])'
<1> DEFINE x == call[p]
           k == Lookup(x.run, x.job)
           old == IF x.field = 1 THEN Blank ELSE x.doc
<1>1. /\ TypeOK /\ p \in Caller /\ x \in Call /\ x.code = "reading" /\ x.run # Nil
      /\ x.run \in Run /\ x.job \in Job \cup {Nil} /\ x.field \in 1..4
      /\ UNCHANGED <<up, heap, states, lock, runner>>
  <2>1. TypeOK /\ p \in Caller /\ x \in Call /\ x.code = "reading"
    BY DEF IInv, TypeOK, Caller, LoadField
  <2>2. x.run \in Run \cup {Nil} /\ x.job \in Job \cup {Nil} /\ x.field \in 1..4
    BY <2>1 DEF Call
  <2>3. x.run # Nil
    BY <2>1 DEF Polls
  <2> QED BY <2>1, <2>2, <2>3 DEF LoadField
<1>2. k # 0 /\ x.todo = <<k>> /\ k \in DOMAIN heap[x.run]
  <2>1. k # 0 /\ x.todo = <<k>>
    BY <1>1 DEF Polls
  <2> QED BY <1>1, <2>1, KeyLeads
<1>3. PICK y \in Call, v \in Readable(x.run, k, Fields[x.field]) :
        /\ call'[p] = y
        /\ y.run = x.run /\ y.job = x.job /\ y.before = x.before
        /\ y.doc = [old EXCEPT ![Fields[x.field]] = v]
        /\ \/ x.field < 4 /\ y.code = "reading" /\ y.field = x.field + 1 /\ y.todo = x.todo
           \/ x.field = 4 /\ y.code = "ok"
  BY <1>2, LoadFieldReads
<1>4. /\ x.before \in Shown /\ Past(x.before, x.run, k) /\ Sound(x.doc, x.run, k)
      /\ x.doc.status \in Shown /\ NeverBack(x.before, x.doc.status)
      /\ x.field = 2 => x.doc.error = "unread"
  BY <1>1, <1>2 DEF Polls
<1>5. /\ Sound(Blank, x.run, k) /\ Blank.status \in Shown
      /\ NeverBack(x.before, Blank.status)
  BY DEF Blank, Sound, Terminal, NeverBack, Shown
<1>6. /\ old \in Document /\ Sound(old, x.run, k) /\ old.status \in Shown
      /\ NeverBack(x.before, old.status)
      /\ x.field = 1 => old = Blank
      /\ x.field = 2 => old.error = "unread"
  <2>1. x.doc \in Document /\ Blank \in Document
    BY <1>1, NoCallType DEF Call, NoCall
  <2> QED BY <2>1, <1>4, <1>5
<1> HIDE DEF old
<1>7. /\ Sound(y.doc, x.run, k) /\ y.doc.status \in Shown
      /\ NeverBack(x.before, y.doc.status)
      /\ x.field = 1 => y.doc.error = "unread"
  <2> DEFINE n == x.field
             r == x.run
             b == x.before
             e == y.doc
  <2>1. /\ r \in Run /\ k \in DOMAIN heap[r] /\ b \in Shown /\ Past(b, r, k)
        /\ old \in Document /\ Sound(old, r, k) /\ old.status \in Shown
        /\ NeverBack(b, old.status) /\ n \in 1..4
        /\ n = 1 => old = Blank
        /\ n = 2 => old.error = "unread"
        /\ v \in Readable(r, k, Fields[n]) /\ e = Filled(old, n, v)
    BY <1>1, <1>2, <1>3, <1>4, <1>6 DEF Filled
  <2> HIDE DEF n, r, b, e, k
  <2>2. /\ Sound(e, r, k) /\ e.status \in Shown /\ NeverBack(b, e.status)
        /\ n = 1 => e.error = "unread"
    BY <2>1, SoundRead
  <2> QED BY <2>2 DEF n, r, b, e
<1>8. Lookup(y.run, y.job) = k
  BY <1>3
<1>9. y.code = "reading" /\ y.field = 2 => x.field = 1
  BY <1>1, <1>3
<1> HIDE DEF k
<1>10. Polls(y)
  BY <1>1, <1>2, <1>3, <1>4, <1>7, <1>8, <1>9 DEF Polls
<1>11. Polls(y)'
  BY <1>1, <1>10, PollsFrame
<1> QED BY <1>3, <1>11, PollIs
\* A poller whose exchange breaks off has no document; what it saw before stays true.
LEMMA BrokenOffPolls ==
  ASSUME IInv, NEW p \in Poller, Polls(call[p]), EncoderPanics(p)
  PROVE  Polls(call[p])'
<1> DEFINE x == call[p]
           y == [x EXCEPT !.code = "aborted", !.todo = << >>, !.field = 1, !.doc = Blank]
           k == Lookup(x.run, x.job)
<1>1. /\ TypeOK /\ p \in Caller /\ x \in Call /\ x.code = "reading" /\ x.run # Nil
      /\ UNCHANGED <<up, heap, states, lock, runner>>
      /\ call' = [call EXCEPT ![p] = y]
  BY DEF IInv, TypeOK, Caller, EncoderPanics, Polls
<1>2. call'[p] = y
  <2> HIDE DEF y
  <2> QED BY <1>1 DEF TypeOK
<1>3. /\ y.code = "aborted" /\ y.run = x.run /\ y.job = x.job /\ y.before = x.before
      /\ y.doc = Blank
  BY <1>1 DEF Call
<1> HIDE DEF y
<1>4. /\ k # 0 => Sound(Blank, x.run, k) /\ Past(x.before, x.run, k)
      /\ x.before \in Shown /\ Blank.status \in Shown
      /\ NeverBack(x.before, Blank.status)
  BY DEF Polls, Blank, Sound, Terminal, NeverBack, Shown
<1>5. PICK z : z = y
  OBVIOUS
<1>6. Polls(z)
  BY <1>1, <1>3, <1>4, <1>5 DEF Polls
<1>7. Polls(z)'
  BY <1>1, <1>6, PollsFrame
<1> QED BY <1>2, <1>5, <1>7, PollIs

\* With the process goes every key: nothing is left to be wrong about.
LEMMA StopPolls ==
  ASSUME IInv, NEW p \in Poller, Polls(call[p]), Stop
  PROVE  Polls(call[p])'
<1> DEFINE x == call[p]
           lost == [x EXCEPT !.code = "lost", !.todo = << >>, !.field = 1, !.doc = Blank]
<1>1. /\ TypeOK /\ p \in Caller /\ x \in Call
      /\ x.run \in Run \cup {Nil} /\ x.job \in Job \cup {Nil}
      /\ x.run = Nil => x.job = Nil
  BY DEF IInv, TypeOK, Caller, Call, Polls
<1>2. call'[p] = IF x.code = "reading" THEN lost ELSE x
  BY <1>1 DEF Stop
<1>3. PICK y : /\ call'[p] = y /\ y.run = x.run /\ y.job = x.job /\ y.before = x.before
               /\ \/ y.code = "lost" /\ y.doc = Blank /\ x.code = "reading"
                  \/ y = x /\ x.code # "reading"
  <2>1. CASE x.code = "reading"
    <3>1. /\ lost.run = x.run /\ lost.job = x.job /\ lost.before = x.before
          /\ lost.code = "lost" /\ lost.doc = Blank
      BY <1>1 DEF Call
    <3> HIDE DEF lost
    <3> QED BY <2>1, <3>1, <1>2
  <2>2. CASE x.code # "reading"
    BY <2>2, <1>2
  <2> QED BY <2>1, <2>2
<1>4. Lookup(y.run, y.job)' = 0
  <2>1. CASE x.job = Nil
    BY <2>1, <1>3 DEF Lookup
  <2>2. CASE x.job # Nil
    <3>1. x.run \in Run /\ x.job \in Job
      BY <1>1, <2>2
    <3>2. states'[x.run][x.job] = 0
      BY <3>1 DEF Stop
    <3> QED BY <1>3, <3>2 DEF Lookup
  <2> QED BY <2>1, <2>2
<1>5. \A r \in Run : heap'[r] = << >>
  BY DEF Stop
<1>6. /\ y.doc.status \in Shown /\ y.before \in Shown /\ NeverBack(y.before, y.doc.status)
      /\ y.run = Nil => y.job = Nil /\ y.code = "none" /\ y.doc = Blank /\ y.before = "unread"
      /\ y.code # "reading"
  <2>1. Blank.status = "unread" /\ "unread" \in Shown
    BY DEF Blank, Shown
  <2> QED BY <1>3, <2>1 DEF Polls, NeverBack
<1>7. y.code = "ok" => y.run \in Run
  BY <1>1, <1>3, <1>6
<1>8. Polls(y)'
  BY <1>4, <1>5, <1>6, <1>7 DEF Polls
<1> QED BY <1>3, <1>8, PollIs

\* No step makes a poller's document wrong.
LEMMA NextKeepsPolls ==
  ASSUME IInv, PollersKnow, [Next]_vars
  PROVE  PollersKnow'
<1> SUFFICES ASSUME NEW p \in Poller PROVE Polls(call[p])'
  BY DEF PollersKnow
<1>0. /\ Polls(call[p]) /\ TypeOK /\ p \in Caller /\ p \notin Run /\ call[p] \in Call
      /\ Run \subseteq Caller
  BY JobAssumption DEF PollersKnow, IInv, TypeOK, Caller
<1>1. CASE StartGet(p)
  BY <1>0, <1>1, StartGetPolls
<1>2. CASE LoadField(p)
  BY <1>0, <1>2, LoadFieldPolls
<1>3. CASE EncoderPanics(p)
  BY <1>0, <1>3, BrokenOffPolls
<1>4. CASE Stop
  BY <1>0, <1>4, StopPolls
<1>5. CASE ~ Stop /\ call'[p] = call[p]
  <2>1. PICK x \in Call : x = call[p]
    BY <1>0
  <2>2. x.run # Nil => call[x.run].code # "none"
    BY <1>0, <2>1 DEF IInv, CallsFollowRuns
  <2>3. Polls(x)'
    BY <1>0, <1>5, <2>1, <2>2, PollStays
  <2> QED BY <1>5, <2>1, <2>3, PollIs
<1>6. \/ StartGet(p) \/ LoadField(p) \/ EncoderPanics(p) \/ Stop
      \/ call'[p] = call[p]
  <2>1. ASSUME NEW r \in Run, Submit(r) PROVE call'[p] = call[p]
    <3>1. PICK y : call' = [call EXCEPT ![r] = y]
      BY <2>1 DEF Submit, RejectMalformed, SubmitUnknown, SubmitAccepted
    <3> QED BY <3>1, <1>0
  <2>2. ASSUME NEW r \in Run, RunnerStep(r) PROVE call'[p] = call[p]
    BY <2>2, RunnerStorage DEF Storage
  <2>3. ASSUME NEW q \in Poller, StartGet(q), q # p PROVE call'[p] = call[p]
    BY <2>3 DEF StartGet
  <2>4. ASSUME NEW c \in Caller, Encode(c), c # p PROVE call'[p] = call[p]
    <3>1. PICK y : call' = [call EXCEPT ![c] = y]
      BY <2>4 DEF Encode, LoadField, EncoderPanics
    <3> QED BY <3>1, <2>4, <1>0
  <2>5. ASSUME Restart \/ UNCHANGED vars PROVE call'[p] = call[p]
    BY <2>5 DEF Restart, vars
  <2> QED BY <2>1, <2>2, <2>3, <2>4, <2>5 DEF Next, Encode
<1> QED BY <1>1, <1>2, <1>3, <1>4, <1>5, <1>6

\* Before anybody asks, nobody knows anything.
LEMMA InitPolls == Init => PollersKnow
<1> SUFFICES ASSUME Init, NEW p \in Poller PROVE Polls(call[p])
  BY DEF PollersKnow
<1>1. call[p] = NoCall
  BY DEF Init, Caller
<1>2. /\ NoCall.run = Nil /\ NoCall.job = Nil /\ NoCall.code = "none" /\ NoCall.doc = Blank
      /\ NoCall.before = "unread" /\ Blank.status = "unread"
  BY DEF NoCall, Blank
<1>3. Lookup(Nil, Nil) = 0
  BY DEF Lookup
<1>4. "unread" \in Shown /\ NeverBack("unread", "unread")
  BY DEF Shown, NeverBack
<1> QED BY <1>1, <1>2, <1>3, <1>4 DEF Polls

\* What a poller knows holds in every reachable state.
LEMMA PollersAlwaysKnow == Spec => []PollersKnow
<1>1. IInv /\ PollersKnow /\ [Next]_vars => PollersKnow'
  BY NextKeepsPolls
<1> QED BY <1>1, InitPolls, Invariance, PTL DEF Spec

\* A status document may be concluded from, although its fields are read without the
\* mutex while the goroutine stores them, at any interleaving and for any number of
\* runs and pollers: the order of the stores in setStatus and of the fields in
\* JobState is enough.
THEOREM Conclusive == Spec => []DocumentsAreConclusive
<1>1. IInv /\ PollersKnow => DocumentsAreConclusive
  <2> SUFFICES ASSUME IInv, PollersKnow, NEW p \in Poller,
                      call[p].code \in {"reading", "ok"}, heap[call[p].run] # << >>
               PROVE  LET d == call[p].doc
                          r == call[p].run
                          k == Lookup(r, call[p].job)
                      IN
                      /\ d.status \in Terminal => d.status = Outcome(r, k)
                      /\ d.status = "COMPLETED" /\ d.appId # "unread" =>
                           d.appId = heap[r][k].appId
                      /\ d.completedAt \in {"set", "garbled"} /\ d.error # "unread" =>
                           (d.error = "text" <=> Outcome(r, k) = "FAILED")
    BY DEF DocumentsAreConclusive
  <2>1. Lookup(call[p].run, call[p].job) # 0
    BY DEF PollersKnow, Polls
  <2>2. Sound(call[p].doc, call[p].run, Lookup(call[p].run, call[p].job))
    BY <2>1 DEF PollersKnow, Polls
  <2> QED BY <2>2 DEF Sound
<1> QED BY <1>1, PollersAlwaysKnow, Invariance, PTL

\* A client that polls one key never sees its status go back, nor a final one change,
\* nor two garbled ones: by the next lookup, which takes the lock, the store that
\* raced with the last document is over.
THEOREM Monotone == Spec => []PollsNeverGoBack
<1>1. PollersKnow => PollsNeverGoBack
  <2> SUFFICES ASSUME PollersKnow, NEW p \in Poller, call[p].doc.status # "unread"
               PROVE  /\ Rank(call[p].before) <= Rank(call[p].doc.status)
                      /\ call[p].before \in Terminal => call[p].doc.status = call[p].before
                      /\ call[p].before # "garbled" \/ call[p].doc.status # "garbled"
    BY DEF PollsNeverGoBack
  <2>1. NeverBack(call[p].before, call[p].doc.status)
    BY DEF PollersKnow, Polls
  <2> QED BY <2>1 DEF NeverBack
<1> QED BY <1>1, PollersAlwaysKnow, PTL
=============================================================================
