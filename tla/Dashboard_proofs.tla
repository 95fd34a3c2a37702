--------------------------- MODULE Dashboard_proofs ---------------------------
(***************************************************************************)
(* That the page keeps to one run at a time, takes a run for done only     *)
(* when it is, and is never cut off by the gateway, for any number of      *)
(* runs, of jobs and of polls.                                             *)
(*                                                                         *)
(* The argument: as long as the page has missed nothing, whatever may be   *)
(* in progress is what the page is occupied with - the run of the open     *)
(* submission, or the one it polls - and a job that a poll has seen done   *)
(* stays done, because the orchestrator never takes a status back.         *)
(***************************************************************************)
EXTENDS Dashboard, FiniteSetTheorems, TLAPS

Told == {"answer", "refused", "unsure", "not found"}

CallRecord ==
  [pc : {"none", "reading", "asking", "over"}, route : {Nil, "submit", "status"},
   age : Nat, wait : Nat, served : BOOLEAN,
   answer : Run \cup Orchestrator!Status \cup {Nil}, told : Told \cup {Nil}]

BatchType ==
  batch \in [Run -> [1..Jobs -> Orchestrator!Status] \cup {<< >>, Orchestrator!Lost}]

\* 15 seconds to read the request and 10 to ask make less than the 30 for the reply.
ClocksLeaveRoom ==
  /\ call["fetch"].pc = "reading" =>
       call["fetch"].age <= 3 /\ call["fetch"].wait = 0
  /\ call["fetch"].pc = "asking" =>
       call["fetch"].age <= call["fetch"].wait + 3 /\ call["fetch"].wait <= 2

\* What the page is doing tells what its call is about.
CallFollowsPage ==
  /\ page.button = "enabled" => call["fetch"].pc = "none" /\ page.job = 0
  /\ page.button = "submitting" =>
       call["fetch"].pc # "none" /\ call["fetch"].route = "submit" /\ page.job = 0
  /\ page.button = "disabled" =>
       /\ page.run \in Run /\ batch[page.run] # << >>
       /\ page.job = 0 => page.attempts < MaxAttempts
       /\ IF page.job \in 1..Jobs
          THEN call["fetch"].pc \in {"asking", "over"} /\ call["fetch"].route = "status"
          ELSE call["fetch"].pc = "none"
  /\ InFlight("fetch") => call["fetch"].told = Nil
  /\ call["fetch"].served => call["fetch"].pc = "asking"
  /\ call["fetch"].pc = "over" => call["fetch"].told \in Told
  /\ page.verdict # "none" => page.button = "enabled" /\ page.run \in Run

\* The call holds what the service has answered.
HasAnswer == call["fetch"].served \/ call["fetch"].told = "answer"

\* An answered submission names a run that was accepted.
AnswerIsRun ==
  page.button = "submitting" /\ HasAnswer =>
    call["fetch"].answer \in Run /\ batch[call["fetch"].answer] # << >>

Settled(r, k) == batch[r] = Orchestrator!Lost \/ batch[r][k] \in Orchestrator!Terminal

\* What the page has seen of a run is still so.
PollIsRight ==
  page.button = "disabled" /\ page.job # 0 =>
    /\ page.allDone /\ ~page.trouble => \A k \in 1..(page.job - 1) : Settled(page.run, k)
    /\ HasAnswer /\ page.job \in 1..Jobs =>
         /\ call["fetch"].answer \in Orchestrator!Status \cup {Nil}
         /\ call["fetch"].answer \in Orchestrator!Terminal => Settled(page.run, page.job)

\* The run the page is occupied with: the only one that may be in progress.
Occupied(r) ==
  \/ page.button = "disabled" /\ r = page.run
  \/ page.button = "submitting" /\ HasAnswer /\ r = call["fetch"].answer
  \/ page.button = "submitting" /\ call["fetch"].told = "unsure"

\* A submission the page has lost sight of stands for a run to come.
NothingMissed ==
  ~page.trouble =>
    /\ \A r \in Run : InProgress(r) => Occupied(r)
    /\ OneRunAtATime
    /\ late > 0 => /\ late = 1 /\ page.button = "submitting" /\ call["fetch"].told = "unsure"
                   /\ \A r \in Run : ~InProgress(r)

IInv ==
  /\ TypeOK /\ BatchType /\ call \in [{"fetch"} -> CallRecord]
  /\ ClocksLeaveRoom /\ CallFollowsPage /\ AnswerIsRun /\ PollIsRight /\ NothingMissed

-----------------------------------------------------------------------------
(* The orchestrator *)

\* The statuses of a batch are neither those of a lost batch nor none at all.
LEMMA StatusesAreNotLost ==
  ASSUME NEW b \in [1..Jobs -> Orchestrator!Status]
  PROVE  b # Orchestrator!Lost /\ b # << >> /\ 1 \in 1..Jobs
<1>1. 1 \in 1..Jobs
  <2>1. Jobs \in Nat \ {0}
    BY DashboardAssumption DEF DashboardAssumption
  <2>2. QED
    BY <2>1
<1>2. b[1] # "LOST"
  BY <1>1 DEF Orchestrator!Status, Orchestrator!Terminal
<1>3. DOMAIN b = 1..Jobs /\ DOMAIN << >> = {}
  OBVIOUS
<1>4. b # << >>
  BY <1>1, <1>3
<1>5. b # Orchestrator!Lost
  BY <1>2 DEF Orchestrator!Lost
<1>6. QED
  BY <1>1, <1>4, <1>5

\* An accepted run is one the orchestrator did not know; the others stay as they are.
LEMMA RegisterAddsARun ==
  ASSUME BatchType, NEW r \in Run, Orchestrator!Register(r)
  PROVE  /\ BatchType'
         /\ batch[r] = << >> /\ batch'[r] # << >>
         /\ \A q \in Run : q # r => batch'[q] = batch[q]
<1>1. /\ batch[r] = << >>
      /\ batch' = [batch EXCEPT ![r] = [i \in 1..Jobs |-> "PENDING"]]
  BY DEF Orchestrator!Register
<1>2. [i \in 1..Jobs |-> "PENDING"] \in [1..Jobs -> Orchestrator!Status]
  BY DEF Orchestrator!Status
<1>3. batch' \in [Run -> [1..Jobs -> Orchestrator!Status] \cup {<< >>, Orchestrator!Lost}]
  BY <1>1, <1>2 DEF BatchType
<1>4. [i \in 1..Jobs |-> "PENDING"] # << >>
  BY <1>2, StatusesAreNotLost
<1>5. QED
  BY <1>1, <1>3, <1>4 DEF BatchType

\* What a run has behind it stays behind it.
Forward(r) ==
  /\ batch[r] = << >> <=> batch'[r] = << >>
  /\ InProgress(r)' => InProgress(r)
  /\ \A k \in 1..Jobs : batch[r] # << >> /\ Settled(r, k) => Settled(r, k)'

\* A job that starts or ends was not terminal, and its run was not lost.
LEMMA JobStepsGoForward ==
  ASSUME BatchType, NEW r \in Run, Orchestrator!Start(r) \/ Orchestrator!Finish(r)
  PROVE  BatchType' /\ \A q \in Run : Forward(q)
<1>1. PICK i \in DOMAIN batch[r], s \in Orchestrator!Status :
        /\ batch[r] # Orchestrator!Lost
        /\ batch[r][i] \in {"PENDING", "RUNNING"}
        /\ batch' = [batch EXCEPT ![r] = [@ EXCEPT ![i] = s]]
  BY DEF Orchestrator!Start, Orchestrator!Finish, Orchestrator!Status
<1>2. batch[r] # << >>
  BY <1>1
<1>3. batch[r] \in [1..Jobs -> Orchestrator!Status]
  BY <1>1, <1>2 DEF BatchType
<1>4. i \in 1..Jobs /\ batch[r][i] \notin Orchestrator!Terminal
  BY <1>1, <1>3 DEF Orchestrator!Terminal
<1>5. /\ [batch[r] EXCEPT ![i] = s] \in [1..Jobs -> Orchestrator!Status]
      /\ batch'[r] = [batch[r] EXCEPT ![i] = s]
      /\ \A q \in Run : q # r => batch'[q] = batch[q]
      /\ batch' \in [Run -> [1..Jobs -> Orchestrator!Status] \cup {<< >>, Orchestrator!Lost}]
  BY <1>1, <1>3, <1>4 DEF BatchType
<1>6. batch'[r] # << >> /\ batch'[r] # Orchestrator!Lost
  BY <1>5, StatusesAreNotLost
<1>7. InProgress(r)
  BY <1>1, <1>4 DEF InProgress
<1>8. \A k \in 1..Jobs : Settled(r, k) => Settled(r, k)'
  BY <1>1, <1>3, <1>4, <1>5 DEF Settled
<1>9. Forward(r)
  BY <1>2, <1>6, <1>7, <1>8 DEF Forward
<1>10. \A q \in Run : q # r => Forward(q)
  BY <1>5 DEF Forward, InProgress, Settled
<1>11. QED
  BY <1>5, <1>9, <1>10 DEF BatchType

\* So does a registry that loses its runs.
LEMMA LosingGoesForward ==
  ASSUME BatchType, Orchestrator!Lose
  PROVE  BatchType' /\ \A q \in Run : Forward(q)
<1>1. batch' = [r \in Run |-> IF batch[r] = << >> THEN << >> ELSE Orchestrator!Lost]
  BY DEF Orchestrator!Lose
<1>2. Orchestrator!Lost # << >>
  BY DEF Orchestrator!Lost
<1>3. BatchType'
  BY <1>1 DEF BatchType
<1>4. \A q \in Run : batch[q] = << >> <=> batch'[q] = << >>
  BY <1>1, <1>2
<1>5. \A q \in Run : ~InProgress(q)'
  BY <1>1 DEF InProgress
<1>6. \A q \in Run, k \in 1..Jobs : batch[q] # << >> => Settled(q, k)'
  BY <1>1 DEF Settled
<1>7. QED
  BY <1>3, <1>4, <1>5, <1>6 DEF Forward

-----------------------------------------------------------------------------
(* The gateway *)

LEMMA Timeouts ==
  /\ ReadTimeout = 3 /\ WriteTimeout = 6
  /\ \A route \in {"submit", "status"} : ClientTimeout(route) = 2
<1>1. TickLength = 5
  BY DashboardAssumption DEF DashboardAssumption
<1>2. 15 \div 5 = 3 /\ 30 \div 5 = 6 /\ 10 \div 5 = 2
  OBVIOUS
<1>3. QED
  BY <1>1, <1>2 DEF ReadTimeout, WriteTimeout, ClientTimeout, Ticks

LEMMA NilIsNoReply ==
  Nil \notin Run /\ Nil \notin Told /\ Nil # "cut"
BY DashboardAssumption DEF DashboardAssumption, Told

\* A call that came back with told.
Over(told) ==
  [pc |-> "over", route |-> call["fetch"].route, age |-> 0, wait |-> 0, served |-> FALSE,
   answer |-> IF told = "answer" THEN call["fetch"].answer ELSE Nil, told |-> told]

\* The open calls of the page, as the invariant has them.
OpenCall ==
  /\ call \in [{"fetch"} -> CallRecord] /\ ClocksLeaveRoom
  /\ call["fetch"].served => call["fetch"].pc = "asking"
  /\ InFlight("fetch") => call["fetch"].route \in {"submit", "status"}

LEMMA ReturnIsOver ==
  ASSUME OpenCall, InFlight("fetch"), NEW told \in Told, Return("fetch", told)
  PROVE  call' = [call EXCEPT !["fetch"] = Over(told)]
<1>1. call["fetch"].route # "results"
  BY DEF OpenCall
<1>2. call' = [call EXCEPT !["fetch"] =
                  [NoCall EXCEPT !.pc = "over", !.route = call["fetch"].route, !.told = told,
                                 !.answer = IF told = "answer" THEN call["fetch"].answer ELSE Nil]]
  BY <1>1 DEF Return
<1>3. call'["fetch"] = Over(told)
  <2> DEFINE answer == IF told = "answer" THEN call["fetch"].answer ELSE Nil
  <2>1. call'["fetch"] = [NoCall EXCEPT !.pc = "over", !.route = call["fetch"].route,
                                        !.told = told, !.answer = answer]
    BY <1>2 DEF OpenCall
  <2>2. Over(told) = [pc |-> "over", route |-> call["fetch"].route, age |-> 0, wait |-> 0,
                      served |-> FALSE, answer |-> answer, told |-> told]
    BY DEF Over
  <2> HIDE DEF answer
  <2>3. QED
    BY <2>1, <2>2 DEF NoCall
<1>4. QED
  BY <1>2, <1>3 DEF OpenCall

\* The server never cuts: a call that is open has not reached the WriteTimeout.
LEMMA ReplyIsOver ==
  ASSUME OpenCall, InFlight("fetch"), NEW told \in Told, Reply("fetch", told)
  PROVE  call' = [call EXCEPT !["fetch"] = Over(told)]
<1>1. call["fetch"].age \in Nat /\ call["fetch"].wait \in Nat
  BY DEF OpenCall, CallRecord
<1>2. call["fetch"].age <= 5
  BY <1>1 DEF OpenCall, ClocksLeaveRoom, InFlight
<1>3. ~(call["fetch"].age >= WriteTimeout)
  BY <1>1, <1>2, Timeouts
<1>4. QED
  BY <1>3, ReturnIsOver DEF Reply

\* What the gateway does with the call: it has the body, or it comes back.
LEMMA RelayReturns ==
  ASSUME OpenCall, Relay("fetch")
  PROVE  /\ InFlight("fetch")
         /\ \/ call["fetch"].pc = "reading" /\ call' = [call EXCEPT !["fetch"].pc = "asking"]
            \/ \E told \in Told :
                 /\ call' = [call EXCEPT !["fetch"] = Over(told)]
                 /\ told = "answer" => call["fetch"].served
                 /\ told = "refused" => ~call["fetch"].served
                 /\ told # "not found"
<1> USE DEF InFlight
<1>1. CASE ReadBody("fetch")
  BY <1>1 DEF ReadBody
<1>2. CASE ReadBodyLate("fetch")
  <2>1. call["fetch"].pc = "reading" /\ Reply("fetch", "refused") /\ ~call["fetch"].served
    BY <1>2 DEF ReadBodyLate, OpenCall, ClocksLeaveRoom
  <2>2. QED
    BY <2>1, ReplyIsOver DEF Told
<1>3. CASE Unreached("fetch")
  <2>1. call["fetch"].pc = "asking" /\ Reply("fetch", "refused") /\ ~call["fetch"].served
    BY <1>3 DEF Unreached
  <2>2. QED
    BY <2>1, ReplyIsOver DEF Told
<1>4. CASE PassOn("fetch")
  <2>1. call["fetch"].pc = "asking" /\ Reply("fetch", "answer") /\ call["fetch"].served
    BY <1>4 DEF PassOn
  <2>2. QED
    BY <2>1, ReplyIsOver DEF Told
<1>5. CASE PassOnPart("fetch") \/ GiveUp("fetch")
  <2>1. call["fetch"].pc = "asking" /\ Reply("fetch", "unsure")
    BY <1>5 DEF PassOnPart, GiveUp
  <2>2. QED
    BY <2>1, ReplyIsOver DEF Told
<1>6. CASE LoseGateway("fetch")
  <2>1. InFlight("fetch") /\ Return("fetch", "unsure")
    BY <1>6 DEF LoseGateway
  <2>2. QED
    BY <2>1, ReturnIsOver DEF Told
<1>7. QED
  BY <1>1, <1>2, <1>3, <1>4, <1>5, <1>6 DEF Relay

\* A page that opens a call.
LEMMA FetchOpens ==
  ASSUME call \in [{"fetch"} -> CallRecord], NEW route \in {"submit", "status"}, Fetch(route)
  PROVE  /\ call' \in [{"fetch"} -> CallRecord]
         /\ call'["fetch"].pc \in {IF route = "submit" THEN "reading" ELSE "asking", "over"}
         /\ call'["fetch"].route = route
         /\ call'["fetch"].age = 0 /\ call'["fetch"].wait = 0 /\ ~call'["fetch"].served
         /\ call'["fetch"].answer = Nil
         /\ call'["fetch"].told = IF call'["fetch"].pc = "over" THEN "not found" ELSE Nil
<1>1. call' = [call EXCEPT !["fetch"] = Opened(route)]
  BY DEF Fetch
<1>2. call'["fetch"] = Opened(route)
  BY <1>1
<1>3. ASSUME NEW c, c = Opened(route)
      PROVE  /\ c \in CallRecord
             /\ c.pc \in {IF route = "submit" THEN "reading" ELSE "asking", "over"}
             /\ c.route = route /\ c.age = 0 /\ c.wait = 0 /\ ~c.served /\ c.answer = Nil
             /\ c.told = IF c.pc = "over" THEN "not found" ELSE Nil
  <2>1. CASE Api = "same origin"
    <3>1. c = [pc |-> "over", route |-> route, age |-> 0, wait |-> 0,
               served |-> FALSE, answer |-> Nil, told |-> "not found"]
      BY <1>3, <2>1 DEF Opened, NoCall
    <3>2. QED
      BY <3>1 DEF CallRecord, Told
  <2>2. CASE Api # "same origin"
    <3>1. c = [pc |-> IF route = "submit" THEN "reading" ELSE "asking",
               route |-> route, age |-> 0, wait |-> 0,
               served |-> FALSE, answer |-> Nil, told |-> Nil]
      BY <1>3, <2>2 DEF Opened, NoCall
    <3>2. QED
      BY <3>1 DEF CallRecord, Told
  <2>3. QED
    BY <2>1, <2>2
<1>4. QED
  BY <1>1, <1>2, <1>3

LEMMA HangUpCloses ==
  ASSUME call \in [{"fetch"} -> CallRecord], HangUp
  PROVE  /\ call' \in [{"fetch"} -> CallRecord]
         /\ call'["fetch"].pc = "none" /\ ~call'["fetch"].served /\ call'["fetch"].told = Nil
<1>1. call' = [call EXCEPT !["fetch"] = NoCall]
  BY DEF HangUp
<1>2. NoCall \in CallRecord
  BY DEF NoCall, CallRecord
<1>3. NoCall.pc = "none" /\ ~NoCall.served /\ NoCall.told = Nil
  BY DEF NoCall
<1>4. QED
  BY <1>1, <1>2, <1>3

\* A service that does what was asked.
LEMMA ServeAnswers ==
  ASSUME call \in [{"fetch"} -> CallRecord], NEW answer \in Run \cup Orchestrator!Status \cup {Nil},
         Serve("fetch", answer)
  PROVE  /\ call["fetch"].pc = "asking" /\ ~call["fetch"].served
         /\ call' \in [{"fetch"} -> CallRecord]
         /\ call'["fetch"].served /\ call'["fetch"].answer = answer
         /\ call'["fetch"].pc = call["fetch"].pc /\ call'["fetch"].route = call["fetch"].route
         /\ call'["fetch"].age = call["fetch"].age /\ call'["fetch"].wait = call["fetch"].wait
         /\ call'["fetch"].told = call["fetch"].told
<1>1. /\ call["fetch"].pc = "asking" /\ ~call["fetch"].served
      /\ call' = [call EXCEPT !["fetch"].served = TRUE, !["fetch"].answer = answer]
  BY DEF Serve
<1>2. /\ call' \in [{"fetch"} -> CallRecord]
      /\ call'["fetch"] = [call["fetch"] EXCEPT !.served = TRUE, !.answer = answer]
  BY <1>1 DEF CallRecord
<1>3. QED
  BY <1>1, <1>2 DEF CallRecord

-----------------------------------------------------------------------------
(* The steps *)

LEMMA Bounds ==
  /\ Cardinality(Run) \in Nat
  /\ 1 \in 1..Jobs /\ Jobs \in Nat
  /\ MaxAttempts \in Nat /\ 0 < MaxAttempts
<1>1. Jobs \in Nat \ {0} /\ MaxAttempts \in Nat \ {0} /\ IsFiniteSet(Run)
  BY DashboardAssumption DEF DashboardAssumption
<1>2. QED
  BY <1>1, FS_CardinalityType

LEMMA IInvOpenCall ==
  ASSUME IInv
  PROVE  OpenCall
BY DEF IInv, OpenCall, CallFollowsPage, InFlight, TypeOK, Page

LEMMA InitIInv ==
  ASSUME Init
  PROVE  IInv
<1>1. /\ page = Loaded /\ late = 0 /\ batch = [r \in Run |-> << >>]
      /\ call = [c \in {"fetch"} |-> NoCall]
  BY DEF Init, Orchestrator!Init
<1>2. call \in [{"fetch"} -> CallRecord] /\ call["fetch"] = NoCall
  <2>1. NoCall \in CallRecord
    BY DEF NoCall, CallRecord
  <2>2. QED
    BY <1>1, <2>1
<1>3. /\ call["fetch"].pc = "none" /\ ~call["fetch"].served /\ call["fetch"].told = Nil
  BY <1>2 DEF NoCall
<1>4. /\ page.button = "enabled" /\ page.job = 0 /\ page.verdict = "none" /\ page \in Page
  BY <1>1, Bounds DEF Loaded, Page
<1>5. TypeOK
  BY <1>1, <1>4, Bounds DEF TypeOK
<1>6. BatchType /\ \A r \in Run : ~InProgress(r)
  BY <1>1 DEF BatchType, InProgress
<1>7. QED
  BY <1>1, <1>2, <1>3, <1>4, <1>5, <1>6
     DEF IInv, ClocksLeaveRoom, CallFollowsPage, AnswerIsRun, PollIsRight, NothingMissed, OneRunAtATime

LEMMA ClickKeepsIInv ==
  ASSUME IInv, Click
  PROVE  IInv'
<1> USE DEF IInv
<1>1. /\ page' \in Page /\ page'.button = "submitting" /\ page'.verdict = "none"
      /\ page'.job = page.job /\ page'.trouble = page.trouble
  BY DEF Click, TypeOK, Page
<1>2. page.button = "enabled" /\ UNCHANGED <<batch, late>> /\ Fetch("submit")
  BY DEF Click
<1>3. /\ call' \in [{"fetch"} -> CallRecord]
      /\ call'["fetch"].pc \in {"reading", "over"}
      /\ call'["fetch"].route = "submit"
      /\ call'["fetch"].age = 0 /\ call'["fetch"].wait = 0 /\ ~call'["fetch"].served
      /\ call'["fetch"].told = IF call'["fetch"].pc = "over" THEN "not found" ELSE Nil
  BY <1>2, FetchOpens
<1>4. call'["fetch"].told \notin {"answer", "unsure"}
  BY <1>3, NilIsNoReply DEF Told
<1>5. TypeOK' /\ BatchType'
  BY <1>1, <1>2 DEF TypeOK, BatchType
<1>6. ClocksLeaveRoom' /\ CallFollowsPage'
  <2>1. ClocksLeaveRoom'
    <3>1. call'["fetch"].pc # "asking"
      BY <1>3
    <3>2. call'["fetch"].age <= 3 /\ call'["fetch"].wait = 0
      <4>1. call'["fetch"].age = 0 /\ call'["fetch"].wait = 0
        BY <1>3
      <4>2. QED
        BY <4>1
    <3>3. QED
      BY <3>1, <3>2 DEF ClocksLeaveRoom
  <2>2. CallFollowsPage'
    <3>1. InFlight("fetch")' => call'["fetch"].told = Nil
      BY <1>3 DEF InFlight
    <3>2. /\ call'["fetch"].pc # "none" /\ call'["fetch"].route = "submit"
          /\ ~call'["fetch"].served
          /\ call'["fetch"].pc = "over" => call'["fetch"].told \in Told
      BY <1>3 DEF Told
    <3>3. page'.job = 0
      BY <1>1, <1>2 DEF CallFollowsPage
    <3>4. QED
      BY <1>1, <3>1, <3>2, <3>3 DEF CallFollowsPage
  <2>3. QED
    BY <2>1, <2>2
<1>7. AnswerIsRun' /\ PollIsRight'
  BY <1>1, <1>3, <1>4 DEF AnswerIsRun, PollIsRight, HasAnswer
<1>8. NothingMissed'
  <2>1. ~page.trouble => late = 0 /\ \A r \in Run : ~InProgress(r)
    BY <1>2 DEF NothingMissed, Occupied, TypeOK, CallFollowsPage
  <2>2. \A r \in Run : InProgress(r)' <=> InProgress(r)
    BY <1>2 DEF InProgress
  <2>3. QED
    BY <1>1, <1>2, <2>1, <2>2 DEF NothingMissed, OneRunAtATime
<1>9. QED
  BY <1>3, <1>5, <1>6, <1>7, <1>8

LEMMA AcceptKeepsIInv ==
  ASSUME IInv, Accept
  PROVE  IInv'
<1> USE DEF IInv
<1>1. PICK r \in Run : Orchestrator!Register(r) /\ Serve("fetch", r)
  BY DEF Accept
<1>2. call["fetch"].route = "submit" /\ UNCHANGED <<page, late>>
  BY DEF Accept
<1>3. /\ call["fetch"].pc = "asking" /\ ~call["fetch"].served
      /\ call' \in [{"fetch"} -> CallRecord]
  BY <1>1, ServeAnswers
<1>4. /\ call'["fetch"].served /\ call'["fetch"].answer = r
      /\ call'["fetch"].pc = call["fetch"].pc /\ call'["fetch"].route = call["fetch"].route
      /\ call'["fetch"].age = call["fetch"].age /\ call'["fetch"].wait = call["fetch"].wait
      /\ call'["fetch"].told = call["fetch"].told
  BY <1>1, ServeAnswers
<1>5. /\ BatchType' /\ batch[r] = << >> /\ batch'[r] # << >>
      /\ \A q \in Run : q # r => batch'[q] = batch[q]
  BY <1>1, RegisterAddsARun
<1>6. page.button = "submitting"
  BY <1>2, <1>3 DEF CallFollowsPage, TypeOK, Page
<1>7. TypeOK' /\ ClocksLeaveRoom'
  BY <1>2, <1>4 DEF TypeOK, ClocksLeaveRoom
<1>8. CallFollowsPage' /\ AnswerIsRun' /\ PollIsRight'
  <2>1. CallFollowsPage'
    BY <1>2, <1>3, <1>4, <1>6 DEF CallFollowsPage, InFlight
  <2>2. AnswerIsRun'
    BY <1>4, <1>5 DEF AnswerIsRun
  <2>3. PollIsRight'
    BY <1>2, <1>6 DEF PollIsRight
  <2>4. QED
    BY <2>1, <2>2, <2>3
<1>9. NothingMissed'
  <2>1. SUFFICES ASSUME ~page.trouble
                 PROVE  /\ late = 0
                        /\ \A q \in Run : q # r => ~InProgress(q)'
    BY <1>2, <1>4, <1>6 DEF NothingMissed, Occupied, HasAnswer, OneRunAtATime
  <2>2. call["fetch"].told = Nil
    BY <1>3 DEF CallFollowsPage, InFlight
  <2>3. \A q \in Run : ~InProgress(q)
    BY <1>3, <2>1, <2>2, <1>6, NilIsNoReply DEF NothingMissed, Occupied, HasAnswer, Told
  <2>4. late = 0
    <3>1. ~(late > 0)
      BY <2>1, <2>2, NilIsNoReply DEF NothingMissed, Told
    <3>2. QED
      BY <3>1, Bounds DEF TypeOK
  <2>5. QED
    BY <1>5, <2>3, <2>4 DEF InProgress
<1>10. QED
  BY <1>3, <1>5, <1>7, <1>8, <1>9

LEMMA AcceptLateKeepsIInv ==
  ASSUME IInv, AcceptLate
  PROVE  IInv'
<1> USE DEF IInv
<1>1. PICK r \in Run : Orchestrator!Register(r)
  BY DEF AcceptLate
<1>2. late > 0 /\ late' = late - 1 /\ UNCHANGED <<page, call>>
  BY DEF AcceptLate
<1>3. /\ BatchType' /\ batch[r] = << >> /\ batch'[r] # << >>
      /\ \A q \in Run : q # r => batch'[q] = batch[q]
  BY <1>1, RegisterAddsARun
<1>4. TypeOK' /\ call' \in [{"fetch"} -> CallRecord] /\ ClocksLeaveRoom'
  BY <1>2, Bounds DEF TypeOK, ClocksLeaveRoom
<1>5. CallFollowsPage' /\ AnswerIsRun'
  BY <1>2, <1>3 DEF CallFollowsPage, AnswerIsRun, HasAnswer, InFlight
<1>6. PollIsRight'
  <2>1. page.button = "disabled" => page.run \in Run /\ page.run # r
    BY <1>3 DEF CallFollowsPage
  <2>2. QED
    BY <1>2, <1>3, <2>1 DEF PollIsRight, HasAnswer, Settled
<1>7. NothingMissed'
  <2>1. SUFFICES ASSUME ~page.trouble
                 PROVE  /\ late = 1 /\ Occupied(r)'
                        /\ \A q \in Run : q # r => ~InProgress(q)'
    BY <1>2 DEF NothingMissed, OneRunAtATime
  <2>2. /\ late = 1 /\ page.button = "submitting" /\ call["fetch"].told = "unsure"
        /\ \A q \in Run : ~InProgress(q)
    BY <1>2, <2>1 DEF NothingMissed
  <2>3. QED
    BY <1>2, <1>3, <2>2 DEF Occupied, InProgress
<1>8. QED
  BY <1>3, <1>4, <1>5, <1>6, <1>7

LEMMA EndSubmitKeepsIInv ==
  ASSUME IInv, EndSubmit
  PROVE  IInv'
<1> USE DEF IInv
<1>1. /\ page.button = "submitting" /\ call["fetch"].pc = "over"
      /\ UNCHANGED <<batch, late>> /\ call["fetch"].told \in Told
      /\ call["fetch"].route = "submit" /\ page.job = 0 /\ page.verdict = "none"
  BY DEF EndSubmit, Returned, CallFollowsPage, TypeOK, Page
<1>2. /\ call' \in [{"fetch"} -> CallRecord]
      /\ call'["fetch"].pc = "none" /\ ~call'["fetch"].served /\ call'["fetch"].told = Nil
  BY HangUpCloses DEF EndSubmit
<1>3. BatchType' /\ ClocksLeaveRoom'
  BY <1>1, <1>2 DEF BatchType, ClocksLeaveRoom
<1>4. \A r \in Run : InProgress(r)' <=> InProgress(r)
  BY <1>1 DEF InProgress
<1>5. CASE call["fetch"].told = "answer"
  <2>1. /\ call["fetch"].answer \in Run /\ batch[call["fetch"].answer] # << >>
    BY <1>1, <1>5 DEF AnswerIsRun, HasAnswer
  <2>2. /\ page' \in Page /\ page'.button = "disabled" /\ page'.run = call["fetch"].answer
        /\ page'.attempts = 0 /\ page'.job = 0
        /\ page'.verdict = page.verdict /\ page'.trouble = page.trouble
    <3>1. page' = [page EXCEPT !.button = "disabled", !.run = call["fetch"].answer,
                               !.attempts = 0, !.job = 0]
      BY <1>5 DEF EndSubmit
    <3>2. 0 \in 0..MaxAttempts /\ 0 \in 0..(Jobs + 1)
      BY Bounds
    <3>3. QED
      BY <1>1, <2>1, <3>1, <3>2 DEF TypeOK, Page
  <2>3. TypeOK'
    BY <1>1, <2>1, <2>2 DEF TypeOK
  <2>4. CallFollowsPage'
    <3>1. 0 < MaxAttempts
      BY Bounds
    <3>2. QED
      BY <1>1, <1>2, <2>1, <2>2, <3>1 DEF CallFollowsPage, InFlight
  <2>5. AnswerIsRun' /\ PollIsRight'
    BY <1>1, <2>2 DEF AnswerIsRun, PollIsRight
  <2>6. NothingMissed'
    BY <1>1, <1>4, <1>5, <2>2 DEF NothingMissed, OneRunAtATime, Occupied, TypeOK
  <2>7. QED
    BY <1>2, <1>3, <2>3, <2>4, <2>5, <2>6
<1>6. CASE call["fetch"].told # "answer"
  <2>1. /\ page' \in Page /\ page'.button = "enabled" /\ page'.job = 0
        /\ page'.verdict = "none"
        /\ page'.trouble = (page.trouble \/ call["fetch"].told \in {"unsure", "cut"})
    <3>1. page' = [page EXCEPT !.button = "enabled",
                               !.trouble = @ \/ call["fetch"].told \in {"unsure", "cut"}]
      BY <1>6 DEF EndSubmit
    <3>2. QED
      BY <1>1, <3>1 DEF TypeOK, Page
  <2>2. TypeOK'
    BY <1>1, <2>1 DEF TypeOK
  <2>3. CallFollowsPage'
    BY <1>2, <2>1 DEF CallFollowsPage, InFlight
  <2>4. AnswerIsRun' /\ PollIsRight'
    BY <2>1 DEF AnswerIsRun, PollIsRight
  <2>5. NothingMissed'
    <3>1. SUFFICES ASSUME ~page.trouble, call["fetch"].told # "unsure"
                   PROVE  late = 0 /\ \A r \in Run : ~InProgress(r)
      BY <1>1, <1>4, <2>1 DEF NothingMissed, OneRunAtATime
    <3>2. ~HasAnswer
      BY <1>1, <1>6 DEF HasAnswer, CallFollowsPage
    <3>3. QED
      BY <1>1, <3>1, <3>2 DEF NothingMissed, Occupied, TypeOK
  <2>6. QED
    BY <1>2, <1>3, <2>2, <2>3, <2>4, <2>5
<1>7. QED
  BY <1>5, <1>6

\* The next poll begins before the attempts have run out.
LEMMA StartPollKeepsIInv ==
  ASSUME IInv, StartPoll
  PROVE  IInv'
<1> USE DEF IInv
<1>1. /\ page.button = "disabled" /\ page.job = 0 /\ page.attempts < MaxAttempts
      /\ page.run \in Run /\ batch[page.run] # << >> /\ page.verdict = "none"
      /\ UNCHANGED <<batch, late>> /\ Fetch("status")
  BY DEF StartPoll, CallFollowsPage, TypeOK, Page
<1>2. /\ page' \in Page /\ page'.button = page.button /\ page'.run = page.run
      /\ page'.job = 1 /\ page'.verdict = page.verdict /\ page'.trouble = page.trouble
  <2>1. page' = [page EXCEPT !.attempts = @ + 1, !.job = 1, !.allDone = TRUE]
    BY DEF StartPoll
  <2>2. page.attempts + 1 \in 0..MaxAttempts /\ 1 \in 0..(Jobs + 1)
    <3>1. page.attempts \in 0..MaxAttempts
      BY DEF TypeOK, Page
    <3>2. QED
      BY <1>1, <3>1, Bounds
  <2>3. QED
    BY <2>1, <2>2 DEF TypeOK, Page
<1>3. /\ call' \in [{"fetch"} -> CallRecord]
      /\ call'["fetch"].pc \in {"asking", "over"}
      /\ call'["fetch"].route = "status"
      /\ call'["fetch"].age = 0 /\ call'["fetch"].wait = 0 /\ ~call'["fetch"].served
      /\ call'["fetch"].told = IF call'["fetch"].pc = "over" THEN "not found" ELSE Nil
  BY <1>1, FetchOpens
<1>4. TypeOK' /\ BatchType'
  BY <1>1, <1>2 DEF TypeOK, BatchType
<1>5. ClocksLeaveRoom'
  <2>1. call'["fetch"].age = 0 /\ call'["fetch"].wait = 0 /\ call'["fetch"].pc # "reading"
    BY <1>3
  <2>2. QED
    BY <2>1 DEF ClocksLeaveRoom
<1>6. ~HasAnswer'
  BY <1>3, NilIsNoReply DEF HasAnswer, Told
<1>7. CallFollowsPage'
  <2>1. /\ call'["fetch"].pc \in {"asking", "over"} /\ call'["fetch"].route = "status"
        /\ ~call'["fetch"].served
        /\ call'["fetch"].pc = "over" => call'["fetch"].told \in Told
        /\ InFlight("fetch")' => call'["fetch"].told = Nil
    BY <1>3 DEF Told, InFlight
  <2>2. page'.job \in 1..Jobs
    BY <1>2, Bounds
  <2>3. QED
    BY <1>1, <1>2, <2>1, <2>2 DEF CallFollowsPage
<1>8. AnswerIsRun' /\ PollIsRight'
  BY <1>1, <1>2, <1>6 DEF AnswerIsRun, PollIsRight
<1>9. NothingMissed'
  <2>1. \A r \in Run : InProgress(r)' <=> InProgress(r)
    BY <1>1 DEF InProgress
  <2>2. QED
    BY <1>1, <1>2, <2>1 DEF NothingMissed, OneRunAtATime, Occupied
<1>10. QED
  BY <1>3, <1>4, <1>5, <1>7, <1>8, <1>9

\* The orchestrator says how the job is, or nothing that is a status.
LEMMA TellStatusKeepsIInv ==
  ASSUME IInv, TellStatus
  PROVE  IInv'
<1> USE DEF IInv
<1>1. PICK told :
        /\ \/ batch[page.run] # Orchestrator!Lost /\ told = batch[page.run][page.job]
           \/ told = Nil
        /\ call["fetch"].route = "status" /\ UNCHANGED <<batch, page, late>>
        /\ Serve("fetch", told) /\ call["fetch"].pc = "asking"
  BY DEF TellStatus, Serve
<1>2. page.button = "disabled" /\ page.job \in 1..Jobs
  BY <1>1 DEF CallFollowsPage, TypeOK, Page
<1>3. page.run \in Run /\ batch[page.run] # << >>
  BY <1>2 DEF CallFollowsPage
<1>4. /\ told \in Orchestrator!Status \cup {Nil}
      /\ told \in Orchestrator!Terminal => Settled(page.run, page.job)
  <2>1. CASE batch[page.run] # Orchestrator!Lost /\ told = batch[page.run][page.job]
    BY <1>2, <1>3, <2>1 DEF BatchType, Settled
  <2>2. CASE told = Nil
    BY <2>2, DashboardAssumption DEF Orchestrator!Terminal
  <2>3. QED
    BY <1>1, <2>1, <2>2
<1>5. /\ call' \in [{"fetch"} -> CallRecord]
      /\ call'["fetch"].served /\ call'["fetch"].answer = told
      /\ call'["fetch"].pc = call["fetch"].pc /\ call'["fetch"].route = call["fetch"].route
      /\ call'["fetch"].age = call["fetch"].age /\ call'["fetch"].wait = call["fetch"].wait
      /\ call'["fetch"].told = call["fetch"].told
  <2>1. told \in Run \cup Orchestrator!Status \cup {Nil}
    BY <1>4
  <2>2. QED
    BY <1>1, <2>1, ServeAnswers
<1>6. TypeOK' /\ BatchType' /\ ClocksLeaveRoom'
  BY <1>1, <1>5 DEF TypeOK, BatchType, ClocksLeaveRoom
<1>7. CallFollowsPage'
  BY <1>1, <1>2, <1>5 DEF CallFollowsPage, InFlight
<1>8. AnswerIsRun'
  BY <1>1, <1>2 DEF AnswerIsRun
<1>9. PollIsRight'
  <2>1. \A k \in 1..Jobs : Settled(page.run, k)' <=> Settled(page.run, k)
    BY <1>1 DEF Settled
  <2>2. \A k \in 1..(page.job - 1) : k \in 1..Jobs
    BY <1>2, Bounds
  <2>3. page.allDone /\ ~page.trouble => \A k \in 1..(page.job - 1) : Settled(page.run, k)'
    BY <1>2, <2>1, <2>2 DEF PollIsRight
  <2>4. /\ call'["fetch"].answer \in Orchestrator!Status \cup {Nil}
        /\ call'["fetch"].answer \in Orchestrator!Terminal => Settled(page.run, page.job)'
    BY <1>1, <1>2, <1>4, <1>5, <2>1
  <2>5. QED
    BY <1>1, <2>3, <2>4 DEF PollIsRight
<1>10. NothingMissed'
  <2>1. \A r \in Run : InProgress(r)' <=> InProgress(r)
    BY <1>1 DEF InProgress
  <2>2. QED
    BY <1>1, <1>2, <2>1 DEF NothingMissed, OneRunAtATime, Occupied
<1>11. QED
  BY <1>5, <1>6, <1>7, <1>8, <1>9, <1>10

\* A job the poll takes for done has ended: anything that is no status is noted as
\* trouble, and a status the page does not wait on is a terminal one.
LEMMA FetchStatusKeepsIInv ==
  ASSUME IInv, FetchStatus
  PROVE  IInv'
<1> USE DEF IInv
<1> DEFINE status == IF call["fetch"].told = "answer" THEN call["fetch"].answer ELSE Nil
<1>1. /\ page.job \in 1..Jobs /\ call["fetch"].pc = "over" /\ UNCHANGED <<batch, late>>
      /\ page' = [page EXCEPT !.job = @ + 1, !.allDone = @ /\ status \notin Unfinished,
                              !.trouble = @ \/ status = Nil]
      /\ IF page.job < Jobs THEN Fetch("status") ELSE HangUp
  BY DEF FetchStatus, Returned
<1>2. status # Nil => HasAnswer /\ call["fetch"].answer = status
  BY DEF HasAnswer
<1> HIDE DEF status
<1>3. /\ page.button = "disabled" /\ page.run \in Run /\ batch[page.run] # << >>
      /\ page.verdict = "none"
  <2>1. page.job # 0
    BY <1>1, Bounds
  <2>2. page.button = "disabled"
    BY <2>1 DEF CallFollowsPage, TypeOK, Page
  <2>3. QED
    BY <2>2 DEF CallFollowsPage, TypeOK, Page
<1>4. page.job + 1 \in 0..(Jobs + 1) /\ page.job + 1 # 0 /\ page.job \in Nat
  BY <1>1, Bounds
<1>5. /\ page' \in Page /\ page'.button = page.button /\ page'.run = page.run
      /\ page'.job = page.job + 1 /\ page'.verdict = page.verdict
      /\ page'.allDone = (page.allDone /\ status \notin Unfinished)
      /\ page'.trouble = (page.trouble \/ status = Nil)
  BY <1>1, <1>4 DEF TypeOK, Page
<1>6. TypeOK' /\ BatchType'
  BY <1>1, <1>3, <1>5 DEF TypeOK, BatchType
<1>7. /\ call' \in [{"fetch"} -> CallRecord] /\ ClocksLeaveRoom' /\ CallFollowsPage'
      /\ ~HasAnswer'
  <2>1. CASE page.job < Jobs
    <3>1. Fetch("status") /\ page.job + 1 \in 1..Jobs
      BY <1>1, <1>4, <2>1, Bounds
    <3>2. /\ call' \in [{"fetch"} -> CallRecord]
          /\ call'["fetch"].pc \in {"asking", "over"}
          /\ call'["fetch"].route = "status" /\ ~call'["fetch"].served
          /\ call'["fetch"].told = IF call'["fetch"].pc = "over" THEN "not found" ELSE Nil
      BY <3>1, FetchOpens
    <3>3. call'["fetch"].age = 0 /\ call'["fetch"].wait = 0
      BY <3>1, FetchOpens
    <3>4. ClocksLeaveRoom'
      <4>1. call'["fetch"].pc # "reading"
        BY <3>2
      <4>2. QED
        BY <3>3, <4>1 DEF ClocksLeaveRoom
    <3>5. /\ call'["fetch"].pc = "over" => call'["fetch"].told \in Told
          /\ InFlight("fetch")' => call'["fetch"].told = Nil
      BY <3>2 DEF Told, InFlight
    <3>6. CallFollowsPage'
      BY <1>1, <1>3, <1>4, <1>5, <3>1, <3>2, <3>5 DEF CallFollowsPage
    <3>7. ~HasAnswer'
      BY <3>2, NilIsNoReply DEF HasAnswer, Told
    <3>8. QED
      BY <3>2, <3>4, <3>6, <3>7
  <2>2. CASE ~(page.job < Jobs)
    <3>1. HangUp /\ page.job + 1 \notin 1..Jobs
      BY <1>1, <1>4, <2>2, Bounds
    <3>2. /\ call' \in [{"fetch"} -> CallRecord]
          /\ call'["fetch"].pc = "none" /\ ~call'["fetch"].served /\ call'["fetch"].told = Nil
      BY <3>1, HangUpCloses
    <3>3. ClocksLeaveRoom'
      BY <3>2 DEF ClocksLeaveRoom
    <3>4. CallFollowsPage'
      BY <1>1, <1>3, <1>4, <1>5, <3>1, <3>2 DEF CallFollowsPage, InFlight
    <3>5. ~HasAnswer'
      BY <3>2, NilIsNoReply DEF HasAnswer, Told
    <3>6. QED
      BY <3>2, <3>3, <3>4, <3>5
  <2>3. QED
    BY <2>1, <2>2
<1>8. AnswerIsRun'
  BY <1>7 DEF AnswerIsRun
<1>9. PollIsRight'
  <2>1. SUFFICES ASSUME page.allDone, status \notin Unfinished, ~page.trouble, status # Nil,
                        NEW k \in 1..page.job
                 PROVE  Settled(page.run, k)
    <3>1. SUFFICES ASSUME page'.allDone, ~page'.trouble, NEW k \in 1..(page'.job - 1)
                   PROVE  Settled(page.run, k)'
      BY <1>7 DEF PollIsRight
    <3>2. k \in 1..page.job
      BY <1>4, <1>5
    <3>3. Settled(page.run, k)
      BY <1>5, <2>1, <3>1, <3>2
    <3>4. QED
      BY <1>1, <1>5, <3>3 DEF Settled
  <2>2. CASE k # page.job
    BY <1>1, <1>3, <1>4, <2>1, <2>2 DEF PollIsRight
  <2>3. CASE k = page.job
    <3>1. /\ status \in Orchestrator!Status
          /\ status \in Orchestrator!Terminal => Settled(page.run, page.job)
      BY <1>1, <1>2, <1>3, <1>4, <2>1 DEF PollIsRight
    <3>2. QED
      BY <2>1, <2>3, <3>1 DEF Orchestrator!Status, Unfinished
  <2>4. QED
    BY <2>2, <2>3
<1>10. NothingMissed'
  <2>1. \A r \in Run : InProgress(r)' <=> InProgress(r)
    BY <1>1 DEF InProgress
  <2>2. QED
    BY <1>1, <1>3, <1>5, <2>1 DEF NothingMissed, OneRunAtATime, Occupied
<1>11. QED
  BY <1>6, <1>7, <1>8, <1>9, <1>10

\* When the last job has been asked for, all of them have been seen done, or the
\* page has missed something.
LEMMA EndPollKeepsIInv ==
  ASSUME IInv, EndPoll
  PROVE  IInv'
<1> USE DEF IInv
<1>1. page.button = "disabled" /\ page.job = Jobs + 1 /\ UNCHANGED <<batch, call, late>>
  BY DEF EndPoll
<1>2. /\ call["fetch"].pc = "none" /\ page.run \in Run /\ batch[page.run] # << >>
      /\ page.verdict = "none" /\ page.job # 0
  <2>1. page.job # 0 /\ page.job \notin 1..Jobs
    BY <1>1, Bounds
  <2>2. QED
    BY <1>1, <2>1 DEF CallFollowsPage, TypeOK, Page
<1>3. page.allDone /\ ~page.trouble => ~InProgress(page.run)
  <2>1. page.job - 1 = Jobs
    BY <1>1, Bounds
  <2>2. page.allDone /\ ~page.trouble => \A k \in 1..Jobs : Settled(page.run, k)
    BY <1>1, <1>2, <2>1 DEF PollIsRight
  <2>3. batch[page.run] # Orchestrator!Lost => DOMAIN batch[page.run] = 1..Jobs
    BY <1>2 DEF BatchType
  <2>4. QED
    BY <2>2, <2>3 DEF InProgress, Settled
<1>4. \A r \in Run : InProgress(r)' <=> InProgress(r)
  BY <1>1 DEF InProgress
<1>5. BatchType' /\ call' \in [{"fetch"} -> CallRecord] /\ ClocksLeaveRoom'
  BY <1>1 DEF BatchType, ClocksLeaveRoom
<1>6. 0 \in 0..(Jobs + 1) /\ 0 \notin 1..Jobs
  BY Bounds
<1>7. CASE page.allDone \/ GivesUp
  <2>1. page' = [page EXCEPT !.button = "enabled", !.job = 0,
                             !.verdict = IF page.allDone THEN "done" ELSE "gave up",
                             !.trouble = @ \/ ~page.allDone]
    BY <1>7 DEF EndPoll
  <2>2. /\ page' \in Page /\ page'.button = "enabled" /\ page'.job = 0
        /\ page'.run = page.run /\ page'.trouble = (page.trouble \/ ~page.allDone)
    BY <1>6, <2>1 DEF TypeOK, Page
  <2>3. TypeOK' /\ AnswerIsRun' /\ PollIsRight'
    BY <1>1, <2>2 DEF TypeOK, AnswerIsRun, PollIsRight
  <2>4. CallFollowsPage'
    BY <1>1, <1>2, <2>2 DEF CallFollowsPage, InFlight
  <2>5. NothingMissed'
    <3>1. SUFFICES ASSUME ~page.trouble, page.allDone
                   PROVE  late = 0 /\ \A r \in Run : ~InProgress(r)
      BY <1>1, <1>4, <2>2 DEF NothingMissed, OneRunAtATime
    <3>2. QED
      BY <1>1, <1>3, <3>1 DEF NothingMissed, Occupied, TypeOK
  <2>6. QED
    BY <1>5, <2>3, <2>4, <2>5
<1>8. CASE ~(page.allDone \/ GivesUp)
  <2>1. page' = [page EXCEPT !.job = 0] /\ page.attempts < MaxAttempts
    <3>1. page.attempts \in 0..MaxAttempts
      BY DEF TypeOK, Page
    <3>2. QED
      BY <1>8, <3>1, Bounds DEF EndPoll, GivesUp
  <2>2. /\ page' \in Page /\ page'.button = "disabled" /\ page'.job = 0
        /\ page'.run = page.run /\ page'.trouble = page.trouble
        /\ page'.attempts = page.attempts /\ page'.verdict = "none"
    BY <1>1, <1>2, <1>6, <2>1 DEF TypeOK, Page
  <2>3. TypeOK' /\ AnswerIsRun' /\ PollIsRight'
    BY <1>1, <1>2, <2>2 DEF TypeOK, AnswerIsRun, PollIsRight
  <2>4. CallFollowsPage'
    BY <1>1, <1>2, <1>6, <2>1, <2>2 DEF CallFollowsPage, InFlight
  <2>5. NothingMissed'
    BY <1>1, <1>4, <2>2 DEF NothingMissed, OneRunAtATime, Occupied
  <2>6. QED
    BY <1>5, <2>3, <2>4, <2>5
<1>9. QED
  BY <1>7, <1>8

\* A page that is loaded anew has missed nothing only if it waited for nothing.
LEMMA ReloadKeepsIInv ==
  ASSUME IInv, Reload
  PROVE  IInv'
<1> USE DEF IInv
<1>1. HangUp /\ GoesAstray /\ UNCHANGED batch
      /\ page' = [Loaded EXCEPT !.trouble = page.trouble \/ page.button # "enabled"]
  BY DEF Reload
<1>2. /\ page' \in Page /\ page'.button = "enabled" /\ page'.job = 0 /\ page'.verdict = "none"
      /\ page'.trouble = (page.trouble \/ page.button # "enabled")
  <2>1. page' = [button |-> "enabled", run |-> Nil, attempts |-> 0, job |-> 0, allDone |-> FALSE,
                 verdict |-> "none", trouble |-> page.trouble \/ page.button # "enabled"]
    BY <1>1 DEF Loaded
  <2>2. 0 \in 0..MaxAttempts /\ 0 \in 0..(Jobs + 1)
    BY Bounds
  <2>3. QED
    BY <2>1, <2>2 DEF TypeOK, Page
<1>3. /\ call' \in [{"fetch"} -> CallRecord]
      /\ call'["fetch"].pc = "none" /\ ~call'["fetch"].served /\ call'["fetch"].told = Nil
  BY <1>1, HangUpCloses
<1>4. late' \in 0..Cardinality(Run)
  BY <1>1, Bounds DEF GoesAstray, TypeOK
<1>5. TypeOK' /\ BatchType' /\ ClocksLeaveRoom'
  BY <1>1, <1>2, <1>3, <1>4 DEF TypeOK, BatchType, ClocksLeaveRoom
<1>6. CallFollowsPage'
  BY <1>2, <1>3 DEF CallFollowsPage, InFlight
<1>7. AnswerIsRun' /\ PollIsRight'
  BY <1>2 DEF AnswerIsRun, PollIsRight
<1>8. NothingMissed'
  <2>1. \A r \in Run : InProgress(r)' <=> InProgress(r)
    BY <1>1 DEF InProgress
  <2>2. SUFFICES ASSUME ~page.trouble, page.button = "enabled"
                 PROVE  late' = 0 /\ \A r \in Run : ~InProgress(r)
    <3>1. ~page'.trouble => ~page.trouble /\ page.button = "enabled"
      BY <1>2
    <3>2. QED
      BY <3>1, <2>1, Bounds DEF NothingMissed, OneRunAtATime
  <2>3. late = 0 /\ \A r \in Run : ~InProgress(r)
    BY <2>2 DEF NothingMissed, Occupied, TypeOK
  <2>4. call["fetch"].pc = "none"
    BY <2>2 DEF CallFollowsPage
  <2>5. QED
    BY <1>1, <2>3, <2>4 DEF GoesAstray, Abandoned, InFlight
<1>9. QED
  BY <1>3, <1>5, <1>6, <1>7, <1>8

\* What comes back is an answer only when there is one, and a refusal only when
\* nothing has been accepted; of all else the page is unsure.
LEMMA CallStepKeepsIInv ==
  ASSUME IInv, CallStep
  PROVE  IInv'
<1> USE DEF IInv
<1>1. Relay("fetch") /\ GoesAstray /\ UNCHANGED <<batch, page>>
  BY DEF CallStep
<1>2. OpenCall
  BY IInvOpenCall
<1>3. \A r \in Run : InProgress(r)' <=> InProgress(r)
  BY <1>1 DEF InProgress
<1>4. InFlight("fetch") /\ call["fetch"].told = Nil
  BY <1>1, <1>2, RelayReturns DEF CallFollowsPage
<1>5. ~Abandoned("fetch") => late' = late
  BY <1>1 DEF GoesAstray
<1>6. late' \in 0..Cardinality(Run)
  BY <1>1, Bounds DEF GoesAstray, TypeOK
<1>7. TypeOK' /\ BatchType'
  BY <1>1, <1>6 DEF TypeOK, BatchType
<1>8. CASE call["fetch"].pc = "reading" /\ call' = [call EXCEPT !["fetch"].pc = "asking"]
  <2>1. /\ call' \in [{"fetch"} -> CallRecord] /\ call'["fetch"].pc = "asking"
        /\ call'["fetch"].served = call["fetch"].served
        /\ call'["fetch"].answer = call["fetch"].answer
        /\ call'["fetch"].route = call["fetch"].route /\ call'["fetch"].told = call["fetch"].told
        /\ call'["fetch"].age = call["fetch"].age /\ call'["fetch"].wait = call["fetch"].wait
    BY <1>8 DEF CallRecord
  <2>2. late' = late
    BY <1>5, <2>1 DEF Abandoned
  <2>3. call["fetch"].age <= 3 /\ call["fetch"].wait = 0
    BY <1>8 DEF ClocksLeaveRoom
  <2>4. ClocksLeaveRoom'
    BY <2>1, <2>3 DEF ClocksLeaveRoom, CallRecord
  <2>5. CallFollowsPage'
    BY <1>1, <1>4, <1>8, <2>1 DEF CallFollowsPage, InFlight
  <2>6. AnswerIsRun' /\ PollIsRight'
    BY <1>1, <1>8, <2>1 DEF AnswerIsRun, PollIsRight, HasAnswer, Settled
  <2>7. NothingMissed'
    BY <1>1, <1>3, <2>1, <2>2 DEF NothingMissed, OneRunAtATime, Occupied, HasAnswer
  <2>8. QED
    BY <1>7, <2>1, <2>4, <2>5, <2>6, <2>7
<1>9. ASSUME NEW told \in Told, call' = [call EXCEPT !["fetch"] = Over(told)],
             told = "answer" => call["fetch"].served,
             told = "refused" => ~call["fetch"].served, told # "not found"
      PROVE  IInv'
  <2>1. /\ call' \in [{"fetch"} -> CallRecord] /\ call'["fetch"].pc = "over"
        /\ ~call'["fetch"].served /\ call'["fetch"].told = told
        /\ call'["fetch"].route = call["fetch"].route
        /\ told = "answer" => call'["fetch"].answer = call["fetch"].answer
    <3>1. call["fetch"] \in CallRecord
      OBVIOUS
    <3>2. Over(told) \in CallRecord
      BY <3>1 DEF Over, CallRecord
    <3>3. QED
      BY <1>9, <3>2 DEF Over
  <2>2. ClocksLeaveRoom'
    BY <2>1 DEF ClocksLeaveRoom
  <2>3. CallFollowsPage'
    BY <1>1, <1>4, <2>1 DEF CallFollowsPage, InFlight
  <2>4. HasAnswer' => told = "answer" /\ HasAnswer /\ call'["fetch"].answer = call["fetch"].answer
    BY <1>9, <2>1 DEF HasAnswer
  <2>5. AnswerIsRun'
    BY <1>1, <2>4 DEF AnswerIsRun
  <2>6. PollIsRight'
    BY <1>1, <2>4 DEF PollIsRight, Settled
  <2>7. NothingMissed'
    <3>1. SUFFICES ASSUME ~page.trouble
                   PROVE  /\ \A r \in Run : InProgress(r) => Occupied(r)'
                          /\ OneRunAtATime
                          /\ late' > 0 => /\ late' = 1 /\ page.button = "submitting"
                                          /\ told = "unsure"
                                          /\ \A r \in Run : ~InProgress(r)
      BY <1>1, <1>3, <2>1 DEF NothingMissed, OneRunAtATime
    <3>2. late = 0
      <4>1. ~(late > 0)
        BY <1>4, <3>1, NilIsNoReply DEF NothingMissed, Told
      <4>2. QED
        BY <4>1, Bounds DEF TypeOK
    <3>3. OneRunAtATime /\ \A r \in Run : InProgress(r) => Occupied(r)
      BY <3>1 DEF NothingMissed
    <3>4. ASSUME NEW r \in Run, InProgress(r)
          PROVE  Occupied(r)'
      BY <1>1, <1>4, <1>9, <2>1, <3>3, <3>4, NilIsNoReply DEF Occupied, HasAnswer, Told
    <3>5. ASSUME late' > 0
          PROVE  /\ late' = 1 /\ page.button = "submitting" /\ told = "unsure"
                 /\ \A r \in Run : ~InProgress(r)
      <4>1. /\ call["fetch"].route = "submit" /\ ~call["fetch"].served /\ told # "refused"
            /\ late' = 1
        BY <1>1, <2>1, <3>2, <3>5, Bounds DEF GoesAstray, Abandoned
      <4>2. page.button = "submitting"
        BY <1>4, <4>1 DEF CallFollowsPage, InFlight, TypeOK, Page
      <4>3. told = "unsure"
        BY <1>9, <4>1 DEF Told
      <4>4. ~HasAnswer /\ call["fetch"].told # "unsure"
        BY <1>4, <4>1, NilIsNoReply DEF HasAnswer, Told
      <4>5. QED
        BY <3>3, <4>1, <4>2, <4>3, <4>4 DEF Occupied
    <3>6. QED
      BY <3>3, <3>4, <3>5
  <2>8. QED
    BY <1>7, <2>1, <2>2, <2>3, <2>5, <2>6, <2>7
<1>10. QED
  BY <1>1, <1>2, <1>8, <1>9, RelayReturns

\* No timer that is due is passed over, so the clocks keep within the timeouts.
LEMMA WaitKeepsIInv ==
  ASSUME IInv, Wait
  PROVE  IInv'
<1> USE DEF IInv
<1>1. InFlight("fetch") /\ TimePasses /\ UNCHANGED <<batch, page, late>> /\ OpenCall
  BY IInvOpenCall DEF Wait
<1> DEFINE wait == IF call["fetch"].pc = "asking" THEN call["fetch"].wait + 1 ELSE call["fetch"].wait
<1>2. /\ ~Due("fetch")
      /\ call' \in [{"fetch"} -> CallRecord]
      /\ call'["fetch"].age = call["fetch"].age + 1 /\ call'["fetch"].wait = wait
      /\ call'["fetch"].pc = call["fetch"].pc /\ call'["fetch"].route = call["fetch"].route
      /\ call'["fetch"].told = call["fetch"].told /\ call'["fetch"].answer = call["fetch"].answer
      /\ call'["fetch"].served = call["fetch"].served
  <2>1. /\ ~Due("fetch")
        /\ call'["fetch"] = [call["fetch"] EXCEPT !.age = @ + 1, !.wait = wait]
        /\ call' \in [{"fetch"} -> {call'["fetch"]}]
    BY <1>1 DEF TimePasses
  <2>2. call["fetch"].age + 1 \in Nat /\ wait \in Nat
    BY DEF CallRecord
  <2>3. call'["fetch"] \in CallRecord
    BY <2>1, <2>2 DEF CallRecord
  <2>4. QED
    BY <2>1, <2>2, <2>3 DEF CallRecord
<1>3. /\ call["fetch"].pc = "reading" => call["fetch"].age < 3
      /\ call["fetch"].pc = "asking" => call["fetch"].wait < 2
  <2>1. call["fetch"].age \in Nat /\ call["fetch"].wait \in Nat
    BY DEF CallRecord
  <2>2. QED
    BY <1>1, <1>2, <2>1, Timeouts DEF Due, OpenCall, InFlight
<1>4. TypeOK' /\ BatchType'
  BY <1>1 DEF TypeOK, BatchType
<1>5. ClocksLeaveRoom'
  <2>1. call["fetch"].age \in Nat /\ call["fetch"].wait \in Nat
    BY DEF CallRecord
  <2>2. QED
    BY <1>2, <1>3, <2>1 DEF ClocksLeaveRoom
<1>6. CallFollowsPage'
  BY <1>1, <1>2 DEF CallFollowsPage, InFlight
<1>7. AnswerIsRun' /\ PollIsRight'
  BY <1>1, <1>2 DEF AnswerIsRun, PollIsRight, HasAnswer, Settled
<1>8. NothingMissed'
  <2>1. \A r \in Run : InProgress(r)' <=> InProgress(r)
    BY <1>1 DEF InProgress
  <2>2. QED
    BY <1>1, <1>2, <2>1 DEF NothingMissed, OneRunAtATime, Occupied, HasAnswer
<1>9. QED
  BY <1>2, <1>4, <1>5, <1>6, <1>7, <1>8

\* The orchestrator goes on: nothing comes into progress by itself, and what has
\* ended has ended.
LEMMA RegistryStepKeepsIInv ==
  ASSUME IInv, RegistryStep
  PROVE  IInv'
<1> USE DEF IInv
<1>1. UNCHANGED <<page, call, late>>
  BY DEF RegistryStep
<1>2. BatchType' /\ \A r \in Run : Forward(r)
  BY JobStepsGoForward, LosingGoesForward DEF RegistryStep
<1>3. TypeOK' /\ call' \in [{"fetch"} -> CallRecord] /\ ClocksLeaveRoom'
  BY <1>1 DEF TypeOK, ClocksLeaveRoom
<1>4. CallFollowsPage' /\ AnswerIsRun'
  BY <1>1, <1>2 DEF CallFollowsPage, AnswerIsRun, HasAnswer, InFlight, Forward
<1>5. PollIsRight'
  <2>1. SUFFICES ASSUME page.button = "disabled", page.job # 0
                 PROVE  \A k \in 1..Jobs : Settled(page.run, k) => Settled(page.run, k)'
    <3>1. page.job \in 0..(Jobs + 1)
      BY DEF TypeOK, Page
    <3>2. \A k \in 1..(page.job - 1) : k \in 1..Jobs
      BY <3>1, Bounds
    <3>3. QED
      BY <1>1, <2>1, <3>2 DEF PollIsRight, HasAnswer
  <2>2. page.run \in Run /\ batch[page.run] # << >>
    BY <2>1 DEF CallFollowsPage
  <2>3. QED
    BY <1>1, <1>2, <2>2 DEF Forward
<1>6. NothingMissed'
  <2>1. \A r \in Run : InProgress(r)' => InProgress(r)
    BY <1>2 DEF Forward
  <2>2. QED
    BY <1>1, <2>1 DEF NothingMissed, OneRunAtATime, Occupied, HasAnswer
<1>7. QED
  BY <1>2, <1>3, <1>4, <1>5, <1>6

\* The invariant the theorems rest on.
THEOREM Invariance == Spec => []IInv
<1>1. Init => IInv
  BY InitIInv
<1>2. IInv /\ [Next]_vars => IInv'
  <2> SUFFICES ASSUME IInv, [Next]_vars
               PROVE  IInv'
    OBVIOUS
  <2>1. CASE PageStep
    BY <2>1, EndSubmitKeepsIInv, StartPollKeepsIInv, FetchStatusKeepsIInv, EndPollKeepsIInv
       DEF PageStep
  <2>2. CASE UNCHANGED vars
    BY <2>2 DEF vars, IInv, TypeOK, BatchType, ClocksLeaveRoom, CallFollowsPage, InFlight, AnswerIsRun,
                HasAnswer, PollIsRight, Settled, NothingMissed, OneRunAtATime, InProgress, Occupied
  <2>3. QED
    BY <2>1, <2>2, ClickKeepsIInv, AcceptKeepsIInv, AcceptLateKeepsIInv, TellStatusKeepsIInv,
       ReloadKeepsIInv, CallStepKeepsIInv, WaitKeepsIInv, RegistryStepKeepsIInv DEF Next
<1>3. QED
  BY <1>1, <1>2, PTL DEF Spec

\* The page counts its polls and the jobs it asks for within their bounds, and polls
\* only a run it knows.
THEOREM TypeCorrect == Spec => []TypeOK
<1>1. IInv => TypeOK
  BY DEF IInv
<1>2. QED
  BY <1>1, Invariance, PTL

\* A page that has missed nothing never brings two runs about at a time, which would
\* remove each other's output directories: runAllJobs disables the button before the
\* POST, and only the end of the POST or of the polling enables it.
THEOREM OneRun == Spec => []OneRunAtATime
<1>1. IInv => OneRunAtATime
  BY DEF IInv, NothingMissed, OneRunAtATime
<1>2. QED
  BY <1>1, Invariance, PTL

\* When pollJobStatus ends because all jobs were seen done, and each of them by a
\* status, no job of the run is left to do, although the statuses are of different
\* moments.
THEOREM DoneIsDone == Spec => []DoneMeansDone
<1>1. IInv => DoneMeansDone
  <2> SUFFICES ASSUME IInv, page.verdict = "done", ~page.trouble
               PROVE  ~InProgress(page.run)
    BY DEF DoneMeansDone
  <2>1. page.button = "enabled" /\ page.run \in Run
    BY DEF IInv, CallFollowsPage
  <2>2. QED
    BY <2>1 DEF IInv, NothingMissed, Occupied
<1>2. QED
  BY <1>1, Invariance, PTL

\* The server's WriteTimeout never cuts off a submission or a poll: 15 seconds to read
\* the request and 10 to ask the orchestrator are less than 30.
THEOREM NothingIsCut == Spec => []OrchestratorCallsAreAnswered
<1>1. IInv => OrchestratorCallsAreAnswered
  <2> SUFFICES ASSUME IInv
               PROVE  call["fetch"].told # "cut"
    BY DEF OrchestratorCallsAreAnswered
  <2>1. call["fetch"].told \in Told \cup {Nil}
    BY DEF IInv, CallRecord
  <2>2. QED
    BY <2>1, NilIsNoReply DEF Told
<1>2. QED
  BY <1>1, Invariance, PTL

=============================================================================
