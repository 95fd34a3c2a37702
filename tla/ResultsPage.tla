----------------------------- MODULE ResultsPage -----------------------------
(***************************************************************************)
(* The charts and the dots of the dashboard.  The page fetches the results *)
(* when it is loaded, every 30 seconds, when the user asks for it, and at  *)
(* the end of a polling, and waits each time until all calls of that load  *)
(* have returned before it paints what they brought.  Loads may overlap;   *)
(* the jobs go on meanwhile, and the poller paints the dots too.           *)
(*                                                                         *)
(* An answer is a table or the summary, by its version: the even ones can  *)
(* be read; an odd one is an output that is gone, not there yet or empty.  *)
(* How the aggregator reads one is ResultAggregator's part, and how the    *)
(* page polls is Dashboard's.                                              *)
(***************************************************************************)
EXTENDS Naturals, FiniteSets

CONSTANTS
  Table,       \* what a load fetches: the tables of the jobs, and the summary
  Dotted,      \* those with a dot: the tables
  Load,        \* the loads that may be under way at once
  MaxVersion,  \* bound on the versions of an answer
  MaxOnDemand, \* bound on the loads under way that no timer has begun
  TickLength, Api, Nil

ASSUME ResultsPageAssumption ==
  Dotted \subseteq Table /\ TickLength \in {5, 15} /\ Api \in {"gateway", "same origin"}

VARIABLES
  out,     \* out[t]: the version in HDFS
  load,    \* load[l]: what began it: "timer", "user", or "none" if it is free
  call,    \* its calls
  shown,   \* shown[t]: the version the page shows
  dot,     \* dot[t]: the colour of the job's dot
  timer,   \* until setInterval fires
  calm,    \* for how long nothing has changed and no call has failed
  doomed   \* has a poll found t FAILED, with no load under way, and nothing changed since

vars == <<out, load, call, shown, dot, timer, calm, doomed>>

INSTANCE Gateway WITH Call <- Load \X Table

RefreshPeriod == Ticks(30)

\* An answer fetchJSON and loadAllData take: a status of 200, and no null.
Readable(version) == version % 2 = 0

-----------------------------------------------------------------------------
Opening(l, why) ==
  /\ load[l] = "none"
  /\ load' = [load EXCEPT ![l] = why]
  /\ call' = [c \in Load \X Table |-> IF c[1] = l THEN Opened("results") ELSE call[c]]

Init ==
  /\ out \in [Table -> {0, 1}]
  /\ \E first \in Load :
       /\ load = [l \in Load |-> IF l = first THEN "timer" ELSE "none"]
       /\ call = [c \in Load \X Table |-> IF c[1] = first THEN Opened("results") ELSE NoCall]
  /\ shown = [t \in Table |-> Nil]
  /\ dot = [t \in Dotted |-> "none"]
  /\ timer = RefreshPeriod /\ calm = 0
  /\ doomed = [t \in Dotted |-> FALSE]

\* setInterval
Refresh ==
  /\ timer = 0 /\ timer' = RefreshPeriod
  /\ \E l \in Load : Opening(l, "timer")
  /\ UNCHANGED <<out, shown, dot, calm, doomed>>

\* The Refresh button, and the end of a polling.  The overlay of a load covers the
\* button, but whichever load ends first takes it away, and no polling minds it.
LoadOnDemand ==
  /\ Cardinality({l \in Load : load[l] = "user"}) < MaxOnDemand
  /\ \E l \in Load : Opening(l, "user")
  /\ UNCHANGED <<out, shown, dot, timer, calm, doomed>>

Answer ==
  /\ \E c \in Load \X Table : Serve(c, out[c[2]])
  /\ UNCHANGED <<out, load, shown, dot, timer, calm, doomed>>

CallReturns ==
  /\ \E c \in Load \X Table : PassOn(c)
  /\ UNCHANGED <<out, load, shown, dot, timer, calm, doomed>>

CallFails ==
  /\ \E c \in Load \X Table : Unreached(c) \/ PassOnPart(c) \/ GiveUp(c) \/ LoseGateway(c)
  /\ calm' = 0
  /\ UNCHANGED <<out, load, shown, dot, timer, doomed>>

AllSettled(l) == load[l] # "none" /\ \A t \in Table : Returned(<<l, t>>)

\* Mutant of Fulfilled: fetchJSON does not look at the status.
FulfilledUnchecked(l) == {t \in Table : call[<<l, t>>].told = "answer"}

\* Mutant of Fulfilled: Promise.all, which is rejected as a whole.
FulfilledTogether(l) ==
  {t \in Table : \A u \in Table : call[<<l, u>>].told = "answer" /\ Readable(call[<<l, u>>].answer)}

Fulfilled(l) == {t \in Table : call[<<l, t>>].told = "answer" /\ Readable(call[<<l, t>>].answer)}

\* Every answer of the load is painted, and its dot COMPLETED, whatever the job
\* is doing; what has failed leaves chart and dot as they are.
Settle(l) ==
  /\ AllSettled(l)
  /\ shown' = [t \in Table |-> IF t \in Fulfilled(l) THEN call[<<l, t>>].answer ELSE shown[t]]
  /\ dot' = [t \in Dotted |-> IF t \in Fulfilled(l) THEN "COMPLETED" ELSE dot[t]]
  /\ load' = [load EXCEPT ![l] = "none"]
  /\ call' = [c \in Load \X Table |-> IF c[1] = l THEN NoCall ELSE call[c]]
  /\ UNCHANGED <<out, timer, calm, doomed>>

\* pollJobStatus, or a click on the button, paints the dot of a job.  A job that
\* has FAILED may have left its output or not; the table of one that is COMPLETED
\* may be empty, or gone again.
PollPaints(t) ==
  /\ \E s \in {"RUNNING", "COMPLETED", "FAILED"} :
       /\ dot' = [dot EXCEPT ![t] = s]
       /\ doomed' = [doomed EXCEPT ![t] =
            s = "FAILED" /\ ~Readable(out[t]) /\ \A l \in Load : load[l] = "none"]
  /\ calm' = 0
  /\ UNCHANGED <<out, load, call, shown, timer>>

\* A job removes its output, or leaves a new one.
Change(t) ==
  /\ out[t] < MaxVersion
  /\ out' = [out EXCEPT ![t] = @ + 1]
  /\ calm' = 0
  /\ doomed' = [u \in Dotted |-> doomed[u] /\ u # t]
  /\ UNCHANGED <<load, call, shown, dot, timer>>

\* The browser does not put off what is due.
ClockTicks ==
  /\ timer > 0 /\ \A l \in Load : ~AllSettled(l)
  /\ TimePasses
  /\ timer' = timer - 1
  /\ calm' = IF calm < 3 * RefreshPeriod THEN calm + 1 ELSE calm
  /\ UNCHANGED <<out, load, shown, dot, doomed>>

Next ==
  \/ Refresh \/ LoadOnDemand \/ Answer \/ CallReturns \/ CallFails \/ ClockTicks
  \/ \E l \in Load : Settle(l)
  \/ \E t \in Dotted : PollPaints(t)
  \/ \E t \in Table : Change(t)

Spec == Init /\ [][Next]_vars

-----------------------------------------------------------------------------
(* Properties *)

\* A slow load may paint an old table over a new one.  But a minute and a half
\* after the last change, if all calls have been answered in that time, the page
\* shows every answer that can be read as it is now, with its dot COMPLETED.
DisplayIsCurrent ==
  calm >= 3 * RefreshPeriod =>
    \A t \in Table : Readable(out[t]) =>
      shown[t] = out[t] /\ (t \in Dotted => dot[t] = "COMPLETED")

\* A load begins every 30 seconds.  However slow the aggregator is, the one before
\* it is over by then: loads do not pile up.
LoadsDoNotPileUp ==
  timer < RefreshPeriod => Cardinality({l \in Load : load[l] = "timer"}) <= 1

\* Loads paint dots COMPLETED whatever the status of the job.  Still, no load
\* that begins after a poll has found a job FAILED, and its output gone, paints
\* over that.
FailedStaysFailed == \A t \in Dotted : doomed[t] => dot[t] = "FAILED"
=============================================================================
