------------------------------- MODULE Dashboard -------------------------------
(***************************************************************************)
(* The dashboard page in front of the orchestrator: the Run All Jobs       *)
(* button submits a run and is disabled; then the page asks for the status *)
(* of each job of the run, one after the other, every 10 seconds, until it *)
(* takes all of them for done or has asked maxAttempts times, and enables  *)
(* the button.                                                             *)
(*                                                                         *)
(* The orchestrator is what it promises to be: RunLifecycle.  Between the  *)
(* two is the Gateway.  The page has one call open at a time here: tables  *)
(* and dots are the part of ResultsPage.                                   *)
(***************************************************************************)
EXTENDS Naturals, Sequences, FiniteSets

CONSTANTS
  Run,          \* run ids
  Jobs,         \* how many jobs "all" stands for
  MaxAttempts,  \* maxAttempts: 180
  TickLength, Api, Nil

ASSUME DashboardAssumption ==
  /\ Jobs \in Nat \ {0} /\ MaxAttempts \in Nat \ {0} /\ IsFiniteSet(Run)
  /\ TickLength = 5 /\ Api \in {"gateway", "same origin"}
  /\ Nil \notin Run \cup {"answer", "refused", "unsure", "cut", "not found"}
  /\ Nil \notin {"PENDING", "RUNNING", "COMPLETED", "FAILED"}

VARIABLES
  batch,   \* the runs of the orchestrator
  page,    \* the page
  call,    \* its call
  late     \* submissions nobody waits for that the orchestrator may yet get; more
           \* than there are runs make no difference

vars == <<batch, page, call, late>>

Orchestrator == INSTANCE RunLifecycle WITH Sizes <- {Jobs}

INSTANCE Gateway WITH Call <- {"fetch"}

-----------------------------------------------------------------------------
\* run: the run that is polled; attempts: the polls so far; job: the job whose
\* status is fetched next, or 0 between two polls; allDone: as in the code.
\* Two fields that the code has not: verdict, how the last polling ended, and
\* trouble, has the page ever missed what became of a run.
Page == [button : {"enabled", "submitting", "disabled"}, run : Run \cup {Nil},
         attempts : 0..MaxAttempts, job : 0..(Jobs + 1), allDone : BOOLEAN,
         verdict : {"none", "done", "gave up"}, trouble : BOOLEAN]

Loaded == [button |-> "enabled", run |-> Nil, attempts |-> 0, job |-> 0,
           allDone |-> FALSE, verdict |-> "none", trouble |-> FALSE]

Init ==
  /\ Orchestrator!Init /\ page = Loaded
  /\ call = [c \in {"fetch"} |-> NoCall] /\ late = 0

Fetch(route) == call' = [call EXCEPT !["fetch"] = Opened(route)]
HangUp == call' = [call EXCEPT !["fetch"] = NoCall]

\* A submission that nobody waits for any more may yet be served.
GoesAstray ==
  late' = IF call["fetch"].route = "submit" /\ Abandoned("fetch") /\ late < Cardinality(Run)
          THEN late + 1 ELSE late

\* Mutant of Click: the button is not disabled.
ClickAgain ==
  /\ page.button # "submitting"
  /\ page' = [page EXCEPT !.button = "submitting", !.verdict = "none"]
  /\ Fetch("submit")
  /\ UNCHANGED <<batch, late>>

\* runAllJobs, up to the POST.
Click ==
  /\ page.button = "enabled"
  /\ page' = [page EXCEPT !.button = "submitting", !.verdict = "none"]
  /\ Fetch("submit")
  /\ UNCHANGED <<batch, late>>

\* The run is accepted.
Accept ==
  /\ call["fetch"].route = "submit"
  /\ \E r \in Run : Orchestrator!Register(r) /\ Serve("fetch", r)
  /\ UNCHANGED <<page, late>>

\* And so is one that nobody waits for any more.
AcceptLate ==
  /\ late > 0 /\ late' = late - 1
  /\ \E r \in Run : Orchestrator!Register(r)
  /\ UNCHANGED <<page, call>>

\* The POST comes back.  Unless it brings a run id, the page alerts the user
\* that it failed, and enables the button.
EndSubmit ==
  /\ page.button = "submitting" /\ Returned("fetch")
  /\ IF call["fetch"].told = "answer"
     THEN page' = [page EXCEPT !.button = "disabled", !.run = call["fetch"].answer,
                               !.attempts = 0, !.job = 0]
     ELSE page' = [page EXCEPT !.button = "enabled",
                               !.trouble = @ \/ call["fetch"].told \in {"unsure", "cut"}]
  /\ HangUp
  /\ UNCHANGED <<batch, late>>

-----------------------------------------------------------------------------
(* pollJobStatus *)

\* Mutant of StartPoll: the attempts are not counted.
StartPollUncounted ==
  /\ page.button = "disabled" /\ page.job = 0
  /\ page' = [page EXCEPT !.job = 1, !.allDone = TRUE]
  /\ Fetch("status")
  /\ UNCHANGED <<batch, late>>

\* The timer fires.
StartPoll ==
  /\ page.button = "disabled" /\ page.job = 0
  /\ page' = [page EXCEPT !.attempts = @ + 1, !.job = 1, !.allDone = TRUE]
  /\ Fetch("status")
  /\ UNCHANGED <<batch, late>>

\* The orchestrator reads the status of the job.  Or what it sends is none: 404,
\* if it knows the job no more, or a string that a store has met (JobRegistry).
TellStatus ==
  /\ call["fetch"].route = "status"
  /\ \/ batch[page.run] # Orchestrator!Lost /\ Serve("fetch", batch[page.run][page.job])
     \/ Serve("fetch", Nil)
  /\ UNCHANGED <<batch, page, late>>

\* Mutant of Unfinished: a job that is PENDING is not waited for.
UnfinishedIfRunning == {"RUNNING"}

\* The statuses the page waits on.
Unfinished == {"RUNNING", "PENDING"}

\* A status comes back, or something else: an error from the orchestrator or
\* from the gateway, a document cut off or garbled.  The page goes on as if the job was done.
FetchStatus ==
  /\ page.job \in 1..Jobs /\ Returned("fetch")
  /\ LET status == IF call["fetch"].told = "answer" THEN call["fetch"].answer ELSE Nil
     IN page' = [page EXCEPT !.job = @ + 1, !.allDone = @ /\ status \notin Unfinished,
                             !.trouble = @ \/ status = Nil]
  /\ IF page.job < Jobs THEN Fetch("status") ELSE HangUp
  /\ UNCHANGED <<batch, late>>

\* Mutant of GivesUp: one poll more.
GivesUpLate == page.attempts > MaxAttempts

GivesUp == page.attempts >= MaxAttempts

\* All jobs have been asked for.
EndPoll ==
  /\ page.button = "disabled" /\ page.job = Jobs + 1
  /\ IF page.allDone \/ GivesUp
     THEN page' = [page EXCEPT !.button = "enabled", !.job = 0,
                     !.verdict = IF page.allDone THEN "done" ELSE "gave up",
                     !.trouble = @ \/ ~page.allDone]
     ELSE page' = [page EXCEPT !.job = 0]
  /\ UNCHANGED <<batch, call, late>>

\* The user loads the page anew: it knows nothing of a run it has polled.
Reload ==
  /\ page' = [Loaded EXCEPT !.trouble = page.trouble \/ page.button # "enabled"]
  /\ HangUp
  /\ GoesAstray
  /\ UNCHANGED batch

-----------------------------------------------------------------------------
PageStep == EndSubmit \/ StartPoll \/ FetchStatus \/ EndPoll

CallStep == Relay("fetch") /\ GoesAstray /\ UNCHANGED <<batch, page>>

Wait == InFlight("fetch") /\ TimePasses /\ UNCHANGED <<batch, page, late>>

RegistryStep ==
  /\ Orchestrator!Lose \/ \E r \in Run : Orchestrator!Start(r) \/ Orchestrator!Finish(r)
  /\ UNCHANGED <<page, call, late>>

Next == \/ Click \/ Accept \/ AcceptLate \/ TellStatus \/ PageStep \/ Reload
        \/ CallStep \/ Wait \/ RegistryStep

\* The page's timers fire and it takes what its calls return; time passes, and
\* the gateway's timers go off.  Nothing is asked of the orchestrator and the
\* jobs: they may never answer, and run for ever.
Timeout == (ReadBodyLate("fetch") \/ GiveUp("fetch")) /\ GoesAstray /\ UNCHANGED <<batch, page>>

Spec == Init /\ [][Next]_vars /\ WF_vars(PageStep) /\ WF_vars(Timeout) /\ WF_vars(Wait)

-----------------------------------------------------------------------------
(* Properties *)

\* The page never polls more often, or further, than it should.
TypeOK ==
  /\ page \in Page
  /\ page.button = "disabled" => page.run \in Run
  /\ late \in 0..Cardinality(Run)

InProgress(r) ==
  batch[r] # Orchestrator!Lost /\ \E k \in DOMAIN batch[r] : batch[r][k] \notin Orchestrator!Terminal

\* Statuses of one poll are read at different moments, and jobs go on in
\* between.  Still, when all of them were statuses and the page takes the run
\* for done, no job of the run is left to do.
DoneMeansDone ==
  page.verdict = "done" /\ ~page.trouble => ~InProgress(page.run)

\* Two runs would remove each other's output directories.  A page on its own
\* never brings that about, unless it has missed what became of a run.
OneRunAtATime ==
  ~page.trouble => \A r, q \in Run : InProgress(r) /\ InProgress(q) => r = q

\* The gateway's clocks leave room for one another: however slow the page and
\* the orchestrator are, the server never cuts off a submission or a poll before
\* the handler has answered it.
OrchestratorCallsAreAnswered == call["fetch"].told # "cut"

\* The user gets the button back, even when a job never ends or the
\* orchestrator never answers.
ButtonComesBack == page.button # "enabled" ~> page.button = "enabled"

\* The page's calls reach the gateway.
PageReachesTheGateway == call["fetch"].told # "not found"
=============================================================================
