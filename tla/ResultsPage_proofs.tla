--------------------------- MODULE ResultsPage_proofs ---------------------------
(***************************************************************************)
(* Proofs about ResultsPage for any tables, loads and versions: loads do   *)
(* not pile up, no load paints over what a poll has found out before it    *)
(* began, and the page catches up with what is there.                      *)
(***************************************************************************)
EXTENDS ResultsPage, FiniteSetTheorems, TLAPS

\* How long ago the timer has fired last.
Elapsed == RefreshPeriod - timer

-----------------------------------------------------------------------------
(* The inductive invariants *)

CallType ==
  [pc : {"none", "asking", "over"}, route : {Nil, "results"}, age : Nat, wait : Nat,
   served : BOOLEAN, answer : Nat \cup {Nil}, told : {Nil, "answer", "failed", "not found"}]

TypeInv ==
  /\ out \in [Table -> Nat]
  /\ load \in [Load -> {"none", "timer", "user"}]
  /\ call \in [Load \X Table -> CallType]
  /\ shown \in [Table -> Nat \cup {Nil}]
  /\ dot \in [Dotted -> {"none", "RUNNING", "COMPLETED", "FAILED"}]
  /\ timer \in 0..RefreshPeriod /\ calm \in 0..3 * RefreshPeriod
  /\ doomed \in [Dotted -> BOOLEAN]

\* A load has its calls as long as it is under way, and the gateway asks at once.
CallsFollowLoads ==
  \A l \in Load, t \in Table :
    /\ load[l] = "none" <=> call[<<l, t>>].pc = "none"
    /\ call[<<l, t>>].pc = "asking" =>
         call[<<l, t>>].route = "results" /\ call[<<l, t>>].age = call[<<l, t>>].wait

\* The calls of l that have not returned have been under way for w.
Waits(l, w) == \A t \in Table : call[<<l, t>>].pc = "asking" => call[<<l, t>>].wait = w

\* A load of the timer is as old as the timer's period; when the timer has just
\* fired, the one before may still be there, and its calls are due.
TimerLoads ==
  /\ timer < RefreshPeriod =>
       /\ \A l, m \in Load : load[l] = "timer" /\ load[m] = "timer" => l = m
       /\ \A l \in Load : load[l] = "timer" => Waits(l, Elapsed)
  /\ timer = RefreshPeriod =>
       \E new \in Load : \A l \in Load :
         load[l] = "timer" => Waits(l, IF l = new THEN 0 ELSE RefreshPeriod)

\* What a call brings, or will bring, if it has got an answer.
Brings(r) == (r.pc = "asking" /\ r.served) \/ (r.pc = "over" /\ r.told = "answer")

\* No load under way has anything to paint over a doomed job's dot.
DoomedStays ==
  \A t \in Dotted : doomed[t] =>
    /\ dot[t] = "FAILED" /\ ~Readable(out[t])
    /\ \A l \in Load : Brings(call[<<l, t>>]) => ~Readable(call[<<l, t>>].answer)

PageInv == TypeInv /\ CallsFollowLoads /\ TimerLoads /\ DoomedStays

\* Every answer l has got is that of now, and all its calls that are over have one.
Fresh(l) ==
  \A t \in Table :
    /\ Brings(call[<<l, t>>]) => call[<<l, t>>].answer = out[t]
    /\ call[<<l, t>>].pc = "over" => call[<<l, t>>].told = "answer"

\* A load that is not fresh began before all was calm.  After RefreshPeriod it
\* has a call that is due, and cannot end but by failing.
LoadsCatchUp ==
  \A l \in Load : load[l] # "none" =>
    \/ Fresh(l)
    \/ /\ \A t \in Table : call[<<l, t>>].pc = "asking" => call[<<l, t>>].wait >= calm
       /\ \/ calm < RefreshPeriod
          \/ \E t \in Table :
               call[<<l, t>>].pc = "asking" /\ call[<<l, t>>].wait >= RefreshPeriod

\* The page shows what is there.
UpToDate ==
  \A t \in Table : Readable(out[t]) =>
    shown[t] = out[t] /\ (t \in Dotted => dot[t] = "COMPLETED")

Pending(l, w) == load[l] # "none" /\ Fresh(l) /\ Waits(l, w)

\* Until the page is up to date: the timer has not fired since all loads are
\* fresh, or the load it has begun then is still under way.
PageCatchesUp ==
  \/ UpToDate
  \/ calm < RefreshPeriod + Elapsed
  \/ calm < 2 * RefreshPeriod + Elapsed /\ \E l \in Load : Pending(l, Elapsed)
  \/ /\ timer = RefreshPeriod /\ calm < 3 * RefreshPeriod
     /\ \E l \in Load : Pending(l, RefreshPeriod)

CatchInv == PageInv /\ LoadsCatchUp /\ PageCatchesUp

-----------------------------------------------------------------------------
(* The clocks, and single calls *)

\* The timer, the gateway's client and the server all have the same 30 seconds.
LEMMA SamePeriods ==
  /\ RefreshPeriod \in Nat /\ RefreshPeriod >= 1
  /\ WriteTimeout = RefreshPeriod /\ ClientTimeout("results") = RefreshPeriod
<1>1. Ticks(30) \in {2, 6}
  <2>1. TickLength = 5 \/ TickLength = 15
    BY ResultsPageAssumption
  <2>2. CASE TickLength = 5
    BY <2>2 DEF Ticks
  <2>3. CASE TickLength = 15
    BY <2>3 DEF Ticks
  <2> QED BY <2>1, <2>2, <2>3
<1> QED BY <1>1 DEF RefreshPeriod, WriteTimeout, ClientTimeout

\* A call is due when it has been under way for that long.
LEMMA WhenDue ==
  ASSUME TypeInv, CallsFollowLoads, NEW l \in Load, NEW t \in Table
  PROVE  /\ call[<<l, t>>] \in CallType
         /\ InFlight(<<l, t>>) <=> call[<<l, t>>].pc = "asking"
         /\ Due(<<l, t>>) <=> InFlight(<<l, t>>) /\ call[<<l, t>>].wait >= RefreshPeriod
         /\ Returned(<<l, t>>) <=> call[<<l, t>>].pc = "over"
<1>1. PICK r : r = call[<<l, t>>]
  OBVIOUS
<1>2. r \in CallType
  BY <1>1 DEF TypeInv
<1>3. r.pc \in {"none", "asking", "over"}
  BY <1>2 DEF CallType
<1>4. r.pc = "asking" => r.route = "results"
  BY <1>1 DEF CallsFollowLoads
<1>5. Due(<<l, t>>) <=> r.pc = "asking" /\ r.wait >= RefreshPeriod
  <2>1. Due(<<l, t>>) <=> r.pc = "asking" /\ r.wait >= ClientTimeout(r.route)
    BY <1>1, <1>3 DEF Due
  <2>2. CASE r.pc = "asking"
    BY <1>4, <2>1, <2>2, SamePeriods
  <2>3. CASE r.pc # "asking"
    BY <2>1, <2>3
  <2> QED BY <2>2, <2>3
<1>6. InFlight(<<l, t>>) <=> r.pc = "asking"
  BY <1>1, <1>3 DEF InFlight
<1> QED BY <1>1, <1>2, <1>5, <1>6 DEF Returned

\* A call that is passed on is answered with what the service has said.
LEMMA PassedOn ==
  ASSUME TypeInv, CallsFollowLoads, NEW l \in Load, NEW t \in Table, PassOn(<<l, t>>)
  PROVE  \E r \in CallType :
           /\ call' = [call EXCEPT ![<<l, t>>] = r]
           /\ call[<<l, t>>].pc = "asking" /\ call[<<l, t>>].served
           /\ call[<<l, t>>].wait < RefreshPeriod
           /\ r.pc = "over" /\ r.told = "answer" /\ r.answer = call[<<l, t>>].answer
<1>1. PICK q : q = call[<<l, t>>]
  OBVIOUS
<1>2. q \in CallType /\ q.pc = "asking" /\ q.served /\ q.route = "results" /\ q.age = q.wait
  BY <1>1 DEF TypeInv, CallsFollowLoads, PassOn
<1>3. q.wait \in Nat /\ q.wait < RefreshPeriod
  <2>1. q.wait \in Nat
    BY <1>2 DEF CallType
  <2>2. ~(q.wait >= RefreshPeriod)
    BY <1>1, <1>2, WhenDue DEF PassOn
  <2> QED BY <2>1, <2>2, SamePeriods
<1>4. Return(<<l, t>>, "answer")
  BY <1>1, <1>2, <1>3, SamePeriods DEF PassOn, Reply
<1>5. PICK r : r = [NoCall EXCEPT !.pc = "over", !.route = q.route, !.told = "answer",
                                  !.answer = q.answer]
  OBVIOUS
<1>6. r \in CallType /\ r.pc = "over" /\ r.told = "answer" /\ r.answer = q.answer
  BY <1>2, <1>5 DEF NoCall, CallType
<1>7. call' = [call EXCEPT ![<<l, t>>] = r]
  BY <1>1, <1>4, <1>5 DEF Return
<1> QED BY <1>1, <1>2, <1>3, <1>6, <1>7

\* A call that fails brings nothing.
LEMMA Failed ==
  ASSUME TypeInv, CallsFollowLoads, NEW l \in Load, NEW t \in Table,
         \/ Unreached(<<l, t>>) \/ PassOnPart(<<l, t>>)
         \/ GiveUp(<<l, t>>) \/ LoseGateway(<<l, t>>)
  PROVE  \E r \in CallType :
           /\ call' = [call EXCEPT ![<<l, t>>] = r] /\ call[<<l, t>>].pc = "asking"
           /\ r.pc = "over" /\ r.told = "failed"
<1>1. PICK q : q = call[<<l, t>>]
  OBVIOUS
<1>2. q \in CallType /\ q.pc = "asking" /\ q.route = "results"
  <2>1. q.pc = "asking"
    BY <1>1, WhenDue DEF Unreached, PassOnPart, GiveUp, LoseGateway
  <2> QED BY <1>1, <2>1 DEF TypeInv, CallsFollowLoads
<1>3. PICK reply : reply # "answer" /\ Return(<<l, t>>, reply)
  BY DEF Unreached, PassOnPart, GiveUp, LoseGateway, Reply
<1>4. PICK r : r = [NoCall EXCEPT !.pc = "over", !.route = q.route, !.told = "failed",
                                  !.answer = Nil]
  OBVIOUS
<1>5. r \in CallType /\ r.pc = "over" /\ r.told = "failed"
  BY <1>2, <1>4 DEF NoCall, CallType
<1>6. call' = [call EXCEPT ![<<l, t>>] = r]
  BY <1>1, <1>2, <1>3, <1>4 DEF Return
<1> QED BY <1>1, <1>2, <1>5, <1>6

\* A call that opens is asked, or answered by the page's own server.
LEMMA OpensBlank ==
  /\ Opened("results") \in CallType /\ ~Brings(Opened("results"))
  /\ Opened("results").pc # "none"
  /\ Opened("results").pc = "asking" =>
       /\ Opened("results").route = "results"
       /\ Opened("results").age = 0 /\ Opened("results").wait = 0
  /\ Api = "gateway" => Opened("results").pc = "asking"
<1>1. PICK asked : asked = [NoCall EXCEPT !.pc = "asking", !.route = "results"]
  OBVIOUS
<1>2. PICK lost : lost = [NoCall EXCEPT !.pc = "over", !.route = "results", !.told = "not found"]
  OBVIOUS
<1>3. /\ asked \in CallType /\ asked.pc = "asking" /\ asked.route = "results"
      /\ asked.age = 0 /\ asked.wait = 0 /\ asked.served = FALSE
  BY <1>1 DEF NoCall, CallType
<1>4. lost \in CallType /\ lost.pc = "over" /\ lost.told = "not found"
  BY <1>2 DEF NoCall, CallType
<1>5. Opened("results") = IF Api = "same origin" THEN lost ELSE asked
  BY <1>1, <1>2 DEF Opened
<1> QED BY <1>3, <1>4, <1>5 DEF Brings
-----------------------------------------------------------------------------
(* What the steps do to the calls *)

\* A load that begins opens its own calls.
LEMMA OpeningCalls ==
  ASSUME TypeInv, NEW l \in Load, NEW why, Opening(l, why)
  PROVE  /\ load[l] = "none" /\ load' = [load EXCEPT ![l] = why]
         /\ call' \in [Load \X Table -> CallType]
         /\ \A t \in Table : call'[<<l, t>>] = Opened("results")
         /\ \A m \in Load \ {l}, t \in Table : call'[<<m, t>>] = call[<<m, t>>]
<1>1. call' = [c \in Load \X Table |-> IF c[1] = l THEN Opened("results") ELSE call[c]]
  BY DEF Opening
<1>2. PICK opened : opened = Opened("results")
  OBVIOUS
<1>3. opened \in CallType
  BY <1>2, OpensBlank
<1> QED BY <1>1, <1>2, <1>3 DEF Opening, TypeInv

\* A load that is over closes its own.
LEMMA SettledCalls ==
  ASSUME TypeInv, NEW l \in Load, Settle(l)
  PROVE  /\ load[l] # "none" /\ load' = [load EXCEPT ![l] = "none"]
         /\ call' \in [Load \X Table -> CallType]
         /\ \A t \in Table : call[<<l, t>>].pc = "over" /\ call'[<<l, t>>].pc = "none"
         /\ \A m \in Load \ {l}, t \in Table : call'[<<m, t>>] = call[<<m, t>>]
<1>1. call' = [c \in Load \X Table |-> IF c[1] = l THEN NoCall ELSE call[c]]
  BY DEF Settle
<1>2. NoCall \in CallType /\ NoCall.pc = "none"
  BY DEF NoCall, CallType
<1> HIDE DEF NoCall
<1> QED BY <1>1, <1>2 DEF Settle, AllSettled, Returned, TypeInv

\* What a step of one call makes of it: it has got the answer of now, or it is
\* over with the answer it had, or it has failed.
Moved(q, r, now, fails) ==
  /\ q.pc = "asking" /\ r.pc \in {"asking", "over"}
  /\ r.pc = "asking" => r.route = q.route /\ r.age = q.age /\ r.wait = q.wait
  /\ Brings(r) => \/ r.answer = now
                  \/ Brings(q) /\ r.answer = q.answer
  /\ ~fails /\ r.pc = "over" => r.told = "answer" /\ q.wait < RefreshPeriod

LEMMA CallMoves ==
  ASSUME TypeInv, CallsFollowLoads, Answer \/ CallReturns \/ CallFails
  PROVE  \E l \in Load, t \in Table : \E r \in CallType : \E fails \in BOOLEAN :
           /\ call' = [call EXCEPT ![<<l, t>>] = r]
           /\ Moved(call[<<l, t>>], r, out[t], fails)
           /\ calm' = IF fails THEN 0 ELSE calm
<1>1. CASE Answer
  <2>1. PICK c \in Load \X Table : Serve(c, out[c[2]])
    BY <1>1 DEF Answer
  <2>2. PICK l \in Load, t \in Table : c = <<l, t>>
    OBVIOUS
  <2>3. PICK q, r : q = call[c] /\ r = [q EXCEPT !.served = TRUE, !.answer = out[t]]
    OBVIOUS
  <2>4. q \in CallType /\ q.pc = "asking" /\ out[t] \in Nat
    BY <2>1, <2>2, <2>3 DEF TypeInv, Serve
  <2>5. /\ r \in CallType /\ r.pc = "asking" /\ r.answer = out[t]
        /\ r.route = q.route /\ r.age = q.age /\ r.wait = q.wait
    BY <2>3, <2>4 DEF CallType
  <2>6. call' = [call EXCEPT ![<<l, t>>] = r]
    BY <2>1, <2>2, <2>3 DEF Serve, TypeInv
  <2>7. Moved(call[<<l, t>>], r, out[t], FALSE)
    BY <2>2, <2>3, <2>4, <2>5 DEF Moved
  <2> QED BY <1>1, <2>5, <2>6, <2>7 DEF Answer
<1>2. CASE CallReturns
  <2>1. PICK l \in Load, t \in Table : PassOn(<<l, t>>)
    BY <1>2 DEF CallReturns
  <2>2. PICK r \in CallType :
          /\ call' = [call EXCEPT ![<<l, t>>] = r]
          /\ call[<<l, t>>].pc = "asking" /\ call[<<l, t>>].served
          /\ call[<<l, t>>].wait < RefreshPeriod
          /\ r.pc = "over" /\ r.told = "answer" /\ r.answer = call[<<l, t>>].answer
    BY <2>1, PassedOn
  <2>3. Moved(call[<<l, t>>], r, out[t], FALSE)
    BY <2>2 DEF Moved, Brings
  <2> QED BY <1>2, <2>2, <2>3 DEF CallReturns
<1>3. CASE CallFails
  <2>1. PICK l \in Load, t \in Table :
          \/ Unreached(<<l, t>>) \/ PassOnPart(<<l, t>>)
          \/ GiveUp(<<l, t>>) \/ LoseGateway(<<l, t>>)
    BY <1>3 DEF CallFails
  <2>2. PICK r \in CallType :
          /\ call' = [call EXCEPT ![<<l, t>>] = r] /\ call[<<l, t>>].pc = "asking"
          /\ r.pc = "over" /\ r.told = "failed"
    BY <2>1, Failed
  <2>3. Moved(call[<<l, t>>], r, out[t], TRUE)
    BY <2>2 DEF Moved, Brings
  <2> QED BY <1>3, <2>2, <2>3 DEF CallFails
<1> QED BY <1>1, <1>2, <1>3

\* When the clock ticks, no call is due, every load waits for a call, and the
\* calls that are waited for get older.
Older(q, r) ==
  /\ r.pc = q.pc /\ r.route = q.route /\ r.told = q.told
  /\ r.served = q.served /\ r.answer = q.answer
  /\ q.pc = "asking" => r.wait = q.wait + 1 /\ r.age = q.age + 1

LEMMA TickingCalls ==
  ASSUME TypeInv, CallsFollowLoads, ClockTicks
  PROVE  /\ call' \in [Load \X Table -> CallType]
         /\ \A l \in Load, t \in Table :
              /\ call[<<l, t>>].pc = "asking" => call[<<l, t>>].wait < RefreshPeriod
              /\ Older(call[<<l, t>>], call'[<<l, t>>])
         /\ \A l \in Load : load[l] # "none" => \E t \in Table : call[<<l, t>>].pc = "asking"
<1>1. ASSUME NEW l \in Load, NEW t \in Table
      PROVE  /\ call[<<l, t>>].pc = "asking" => call[<<l, t>>].wait < RefreshPeriod
             /\ call'[<<l, t>>] \in CallType /\ Older(call[<<l, t>>], call'[<<l, t>>])
  <2>1. PICK q : q = call[<<l, t>>]
    OBVIOUS
  <2>2. q \in CallType /\ q.wait \in Nat /\ q.age \in Nat
    BY <2>1, WhenDue DEF CallType
  <2>3. ~Due(<<l, t>>)
    BY DEF ClockTicks, TimePasses
  <2>4. q.pc = "asking" => ~(q.wait >= RefreshPeriod)
    BY <2>1, <2>3, WhenDue
  <2>5. q.pc = "asking" => q.wait < RefreshPeriod
    BY <2>2, <2>4, SamePeriods
  <2>6. CASE q.pc = "asking"
    <3>1. PICK r : r = [q EXCEPT !.age = q.age + 1, !.wait = q.wait + 1]
      OBVIOUS
    <3>2. r \in CallType /\ Older(q, r)
      <4>1. q.age + 1 \in Nat /\ q.wait + 1 \in Nat
        BY <2>2
      <4>2. r \in CallType
        BY <2>2, <3>1, <4>1 DEF CallType
      <4>3. r.wait = q.wait + 1 /\ r.age = q.age + 1
        BY <2>2, <3>1 DEF CallType
      <4>4. /\ r.pc = q.pc /\ r.route = q.route /\ r.told = q.told
            /\ r.served = q.served /\ r.answer = q.answer
        BY <2>2, <3>1 DEF CallType
      <4> QED BY <4>2, <4>3, <4>4 DEF Older
    <3>3. call'[<<l, t>>] = r
      BY <2>1, <2>6, <3>1 DEF ClockTicks, TimePasses, InFlight
    <3> QED BY <2>1, <2>5, <3>2, <3>3
  <2>7. CASE q.pc # "asking"
    <3>1. call'[<<l, t>>] = q
      BY <2>1, <2>7, WhenDue DEF ClockTicks, TimePasses
    <3> QED BY <2>1, <2>2, <2>7, <3>1 DEF Older
  <2> QED BY <2>6, <2>7
<1>2. call' \in [Load \X Table -> CallType]
  <2>1. \A c \in Load \X Table : call'[c] \in CallType
    BY <1>1
  <2> QED BY <2>1 DEF ClockTicks, TimePasses
<1>3. ASSUME NEW l \in Load, load[l] # "none" PROVE \E t \in Table : call[<<l, t>>].pc = "asking"
  <2>1. PICK t \in Table : ~Returned(<<l, t>>)
    BY <1>3 DEF ClockTicks, AllSettled
  <2>2. call[<<l, t>>].pc \in {"none", "asking", "over"} /\ call[<<l, t>>].pc # "over"
    BY <2>1, WhenDue DEF CallType
  <2>3. call[<<l, t>>].pc # "none"
    BY <1>3 DEF CallsFollowLoads
  <2> QED BY <2>2, <2>3
<1> QED BY <1>1, <1>2, <1>3
-----------------------------------------------------------------------------
(* Every step preserves the invariants: types, and the calls of the loads *)

\* A load that begins.
LEMMA OpeningKeepsTypes ==
  ASSUME TypeInv, CallsFollowLoads, NEW l \in Load, NEW why \in {"timer", "user"}, Opening(l, why),
         UNCHANGED <<out, shown, dot, calm, doomed>>, timer' \in 0..RefreshPeriod
  PROVE  TypeInv' /\ CallsFollowLoads'
<1>1. /\ load' = [load EXCEPT ![l] = why] /\ call' \in [Load \X Table -> CallType]
      /\ \A t \in Table : call'[<<l, t>>] = Opened("results")
      /\ \A m \in Load \ {l}, t \in Table : call'[<<m, t>>] = call[<<m, t>>]
  BY OpeningCalls
<1>2. TypeInv'
  BY <1>1 DEF TypeInv
<1>3. CallsFollowLoads'
  <2> SUFFICES ASSUME NEW m \in Load, NEW t \in Table
               PROVE  /\ load'[m] = "none" <=> call'[<<m, t>>].pc = "none"
                      /\ call'[<<m, t>>].pc = "asking" =>
                           /\ call'[<<m, t>>].route = "results"
                           /\ call'[<<m, t>>].age = call'[<<m, t>>].wait
    BY DEF CallsFollowLoads
  <2>1. CASE m = l
    <3>1. load'[m] # "none"
      BY <1>1, <2>1 DEF TypeInv
    <3>2. PICK r : r = call'[<<m, t>>] /\ r = Opened("results")
      BY <1>1, <2>1
    <3>3. /\ r.pc # "none"
          /\ r.pc = "asking" => r.route = "results" /\ r.age = r.wait
      BY <3>2, OpensBlank
    <3> QED BY <3>1, <3>2, <3>3
  <2>2. CASE m # l
    <3>1. load'[m] = load[m]
      BY <1>1, <2>2 DEF TypeInv
    <3> QED BY <1>1, <2>2, <3>1 DEF CallsFollowLoads
  <2> QED BY <2>1, <2>2
<1> QED BY <1>2, <1>3

LEMMA SettleKeepsTypes ==
  ASSUME TypeInv, CallsFollowLoads, NEW l \in Load, Settle(l)
  PROVE  TypeInv' /\ CallsFollowLoads'
<1>1. /\ load' = [load EXCEPT ![l] = "none"] /\ call' \in [Load \X Table -> CallType]
      /\ \A t \in Table : call'[<<l, t>>].pc = "none"
      /\ \A m \in Load \ {l}, t \in Table : call'[<<m, t>>] = call[<<m, t>>]
  BY SettledCalls
<1>2. shown' \in [Table -> Nat \cup {Nil}]
  <2>1. \A t \in Table : call[<<l, t>>].answer \in Nat \cup {Nil}
    BY WhenDue DEF CallType
  <2> QED BY <2>1 DEF Settle, TypeInv
<1>3. TypeInv'
  BY <1>1, <1>2 DEF Settle, TypeInv
<1>4. CallsFollowLoads'
  <2> SUFFICES ASSUME NEW m \in Load, NEW u \in Table
               PROVE  /\ load'[m] = "none" <=> call'[<<m, u>>].pc = "none"
                      /\ call'[<<m, u>>].pc = "asking" =>
                           /\ call'[<<m, u>>].route = "results"
                           /\ call'[<<m, u>>].age = call'[<<m, u>>].wait
    BY DEF CallsFollowLoads
  <2>1. CASE m = l
    <3>1. load'[m] = "none" /\ call'[<<m, u>>].pc = "none"
      BY <1>1, <2>1 DEF TypeInv
    <3> QED BY <3>1
  <2>2. CASE m # l
    <3>1. load'[m] = load[m] /\ call'[<<m, u>>] = call[<<m, u>>]
      BY <1>1, <2>2 DEF TypeInv
    <3> QED BY <3>1 DEF CallsFollowLoads
  <2> QED BY <2>1, <2>2
<1> QED BY <1>3, <1>4

LEMMA CallMoveKeepsTypes ==
  ASSUME TypeInv, CallsFollowLoads, Answer \/ CallReturns \/ CallFails
  PROVE  TypeInv' /\ CallsFollowLoads'
<1>1. PICK l \in Load, t \in Table : \E r \in CallType : \E fails \in BOOLEAN :
        /\ call' = [call EXCEPT ![<<l, t>>] = r]
        /\ Moved(call[<<l, t>>], r, out[t], fails)
        /\ calm' = IF fails THEN 0 ELSE calm
  BY CallMoves
<1>2. PICK r \in CallType, fails \in BOOLEAN :
        /\ call' = [call EXCEPT ![<<l, t>>] = r]
        /\ Moved(call[<<l, t>>], r, out[t], fails)
        /\ calm' = IF fails THEN 0 ELSE calm
  BY <1>1
<1>3. UNCHANGED <<out, load, shown, dot, timer, doomed>>
  BY DEF Answer, CallReturns, CallFails
<1>4. calm' \in 0..3 * RefreshPeriod
  <2>1. 0 \in 0..3 * RefreshPeriod
    BY SamePeriods
  <2> QED BY <1>2, <2>1 DEF TypeInv
<1>5. TypeInv'
  BY <1>2, <1>3, <1>4 DEF TypeInv
<1>6. CallsFollowLoads'
  <2> SUFFICES ASSUME NEW m \in Load, NEW u \in Table
               PROVE  /\ load[m] = "none" <=> call'[<<m, u>>].pc = "none"
                      /\ call'[<<m, u>>].pc = "asking" =>
                           /\ call'[<<m, u>>].route = "results"
                           /\ call'[<<m, u>>].age = call'[<<m, u>>].wait
    BY <1>3 DEF CallsFollowLoads
  <2>1. CASE m = l /\ u = t
    <3>1. call'[<<m, u>>] = r
      BY <1>2, <2>1 DEF TypeInv
    <3> QED BY <1>2, <2>1, <3>1 DEF CallsFollowLoads, Moved
  <2>2. CASE ~(m = l /\ u = t)
    <3>1. call'[<<m, u>>] = call[<<m, u>>]
      BY <1>2, <2>2 DEF TypeInv
    <3> QED BY <3>1 DEF CallsFollowLoads
  <2> QED BY <2>1, <2>2
<1> QED BY <1>5, <1>6

LEMMA TickKeepsTypes ==
  ASSUME TypeInv, CallsFollowLoads, ClockTicks
  PROVE  TypeInv' /\ CallsFollowLoads'
<1>1. /\ timer' = timer - 1 /\ timer > 0 /\ UNCHANGED <<out, load, shown, dot, doomed>>
      /\ calm' = IF calm < 3 * RefreshPeriod THEN calm + 1 ELSE calm
  BY DEF ClockTicks
<1>2. timer' \in 0..RefreshPeriod /\ calm' \in 0..3 * RefreshPeriod
  BY <1>1, SamePeriods DEF TypeInv
<1>3. TypeInv'
  BY <1>1, <1>2, TickingCalls DEF TypeInv
<1>4. CallsFollowLoads'
  <2> SUFFICES ASSUME NEW m \in Load, NEW u \in Table
               PROVE  /\ load[m] = "none" <=> call'[<<m, u>>].pc = "none"
                      /\ call'[<<m, u>>].pc = "asking" =>
                           /\ call'[<<m, u>>].route = "results"
                           /\ call'[<<m, u>>].age = call'[<<m, u>>].wait
    BY <1>1 DEF CallsFollowLoads
  <2>1. PICK q, r : q = call[<<m, u>>] /\ r = call'[<<m, u>>]
    OBVIOUS
  <2>2. Older(q, r)
    BY <2>1, TickingCalls
  <2>3. /\ load[m] = "none" <=> q.pc = "none"
        /\ q.pc = "asking" => q.route = "results" /\ q.age = q.wait
    BY <2>1 DEF CallsFollowLoads
  <2> QED BY <2>1, <2>2, <2>3 DEF Older
<1> QED BY <1>3, <1>4

LEMMA TypesKept ==
  ASSUME TypeInv, CallsFollowLoads, [Next]_vars
  PROVE  TypeInv' /\ CallsFollowLoads'
<1>1. CASE Refresh
  <2>1. PICK l \in Load : Opening(l, "timer")
    BY <1>1 DEF Refresh
  <2>2. timer' \in 0..RefreshPeriod
    BY <1>1, SamePeriods DEF Refresh
  <2> QED BY <1>1, <2>1, <2>2, OpeningKeepsTypes DEF Refresh
<1>2. CASE LoadOnDemand
  <2>1. PICK l \in Load : Opening(l, "user")
    BY <1>2 DEF LoadOnDemand
  <2> QED BY <1>2, <2>1, OpeningKeepsTypes DEF LoadOnDemand, TypeInv
<1>3. CASE Answer \/ CallReturns \/ CallFails
  BY <1>3, CallMoveKeepsTypes
<1>4. CASE ClockTicks
  BY <1>4, TickKeepsTypes
<1>5. ASSUME NEW l \in Load, Settle(l) PROVE TypeInv' /\ CallsFollowLoads'
  BY <1>5, SettleKeepsTypes
<1>6. 0 \in 0..3 * RefreshPeriod
  BY SamePeriods
<1>7. ASSUME NEW t \in Dotted, PollPaints(t) PROVE TypeInv' /\ CallsFollowLoads'
  <2>1. PICK s \in {"RUNNING", "COMPLETED", "FAILED"} :
          /\ dot' = [dot EXCEPT ![t] = s]
          /\ doomed' = [doomed EXCEPT ![t] =
               s = "FAILED" /\ ~Readable(out[t]) /\ \A l \in Load : load[l] = "none"]
    BY <1>7 DEF PollPaints
  <2>2. PICK b \in BOOLEAN : doomed' = [doomed EXCEPT ![t] = b]
    BY <2>1
  <2>3. UNCHANGED <<out, load, call, shown, timer>> /\ calm' = 0
    BY <1>7 DEF PollPaints
  <2> QED BY <1>6, <2>1, <2>2, <2>3 DEF TypeInv, CallsFollowLoads
<1>8. ASSUME NEW t \in Table, Change(t) PROVE TypeInv' /\ CallsFollowLoads'
  <2>1. out' = [out EXCEPT ![t] = out[t] + 1] /\ UNCHANGED <<load, call, shown, dot, timer>>
    BY <1>8 DEF Change
  <2>2. out' \in [Table -> Nat]
    BY <2>1 DEF TypeInv
  <2>3. doomed' \in [Dotted -> BOOLEAN] /\ calm' = 0
    BY <1>8 DEF Change
  <2> QED BY <1>6, <2>1, <2>2, <2>3 DEF TypeInv, CallsFollowLoads
<1>9. CASE UNCHANGED vars
  BY <1>9 DEF vars, TypeInv, CallsFollowLoads
<1> QED BY <1>1, <1>2, <1>3, <1>4, <1>5, <1>7, <1>8, <1>9 DEF Next
-----------------------------------------------------------------------------
(* Every step preserves the invariants: the loads of the timer *)

\* Calls that only move on are as old as they were.
LEMMA MovesKeepAges ==
  ASSUME TypeInv, CallsFollowLoads, Answer \/ CallReturns \/ CallFails
  PROVE  \A l \in Load, t \in Table :
           call'[<<l, t>>].pc = "asking" =>
             call[<<l, t>>].pc = "asking" /\ call'[<<l, t>>].wait = call[<<l, t>>].wait
<1>1. PICK m \in Load, u \in Table, r \in CallType, fails \in BOOLEAN :
        /\ call' = [call EXCEPT ![<<m, u>>] = r]
        /\ Moved(call[<<m, u>>], r, out[u], fails)
  BY CallMoves
<1> SUFFICES ASSUME NEW l \in Load, NEW t \in Table, call'[<<l, t>>].pc = "asking"
             PROVE  call[<<l, t>>].pc = "asking" /\ call'[<<l, t>>].wait = call[<<l, t>>].wait
  OBVIOUS
<1>2. CASE l = m /\ t = u
  <2>1. call'[<<l, t>>] = r
    BY <1>1, <1>2 DEF TypeInv
  <2> QED BY <1>1, <1>2, <2>1 DEF Moved
<1>3. CASE ~(l = m /\ t = u)
  <2>1. call'[<<l, t>>] = call[<<l, t>>]
    BY <1>1, <1>3 DEF TypeInv
  <2> QED BY <2>1
<1> QED BY <1>2, <1>3

\* As long as the clock stands still and the timer does not fire, its loads stay
\* as old as they are.
LEMMA StandingTimer ==
  ASSUME TimerLoads, timer' = timer,
         \A l \in Load : load'[l] = "timer" =>
           /\ load[l] = "timer"
           /\ \A t \in Table : call'[<<l, t>>].pc = "asking" =>
                call[<<l, t>>].pc = "asking" /\ call'[<<l, t>>].wait = call[<<l, t>>].wait
  PROVE  TimerLoads'
<1>1. ASSUME timer < RefreshPeriod
      PROVE  /\ \A l, m \in Load : load'[l] = "timer" /\ load'[m] = "timer" => l = m
             /\ \A l \in Load : load'[l] = "timer" => Waits(l, Elapsed)'
  BY <1>1 DEF TimerLoads, Waits, Elapsed
<1>2. ASSUME timer = RefreshPeriod
      PROVE  \E new \in Load : \A l \in Load :
               load'[l] = "timer" => Waits(l, IF l = new THEN 0 ELSE RefreshPeriod)'
  <2>1. PICK new \in Load : \A l \in Load :
          load[l] = "timer" => Waits(l, IF l = new THEN 0 ELSE RefreshPeriod)
    BY <1>2 DEF TimerLoads
  <2>2. ASSUME NEW l \in Load, load'[l] = "timer"
        PROVE  Waits(l, IF l = new THEN 0 ELSE RefreshPeriod)'
    <3>1. PICK w : w = IF l = new THEN 0 ELSE RefreshPeriod
      OBVIOUS
    <3>2. \A t \in Table : call[<<l, t>>].pc = "asking" => call[<<l, t>>].wait = w
      BY <2>1, <2>2, <3>1 DEF Waits
    <3>3. \A t \in Table : call'[<<l, t>>].pc = "asking" => call'[<<l, t>>].wait = w
      BY <2>2, <3>2
    <3> QED BY <3>1, <3>3 DEF Waits
  <2> QED BY <2>2
<1> QED BY <1>1, <1>2 DEF TimerLoads

\* The timer fires: the load before is at most one, and its calls are due.
LEMMA RefreshKeepsTimer ==
  ASSUME TypeInv, CallsFollowLoads, TimerLoads, Refresh
  PROVE  TimerLoads'
<1>1. PICK new \in Load : Opening(new, "timer")
  BY DEF Refresh
<1>2. /\ \A t \in Table : call'[<<new, t>>] = Opened("results")
      /\ \A m \in Load \ {new} : \A t \in Table : call'[<<m, t>>] = call[<<m, t>>]
      /\ load' = [load EXCEPT ![new] = "timer"]
  BY <1>1, OpeningCalls
<1>3. timer = 0 /\ timer' = RefreshPeriod /\ timer < RefreshPeriod /\ Elapsed = RefreshPeriod
  BY SamePeriods DEF Refresh, Elapsed
<1>4. ASSUME NEW l \in Load, load'[l] = "timer"
      PROVE  Waits(l, IF l = new THEN 0 ELSE RefreshPeriod)'
  <2>1. CASE l = new
    <3>1. PICK r : r = Opened("results")
      OBVIOUS
    <3>2. r.pc = "asking" => r.wait = 0
      BY <3>1, OpensBlank
    <3> QED BY <1>2, <2>1, <3>1, <3>2 DEF Waits
  <2>2. CASE l # new
    <3>1. load[l] = "timer"
      BY <1>2, <1>4, <2>2 DEF TypeInv
    <3>2. Waits(l, Elapsed)
      BY <1>3, <3>1 DEF TimerLoads
    <3> QED BY <1>2, <1>3, <2>2, <3>2 DEF Waits
  <2> QED BY <2>1, <2>2
<1>5. ~(timer' < RefreshPeriod)
  BY <1>3, SamePeriods
<1>6. \E n \in Load : \A l \in Load :
        load'[l] = "timer" => Waits(l, IF l = n THEN 0 ELSE RefreshPeriod)'
  BY <1>4
<1> QED BY <1>5, <1>6 DEF TimerLoads

\* The clock ticks: a load that is due would not have let it.
LEMMA TickKeepsTimer ==
  ASSUME TypeInv, CallsFollowLoads, TimerLoads, ClockTicks
  PROVE  TimerLoads'
<1>1. /\ timer' = timer - 1 /\ timer \in 1..RefreshPeriod /\ UNCHANGED load
      /\ timer' < RefreshPeriod /\ timer' # RefreshPeriod
  BY SamePeriods DEF ClockTicks, TypeInv
<1>2. /\ \A l, m \in Load : load[l] = "timer" /\ load[m] = "timer" => l = m
      /\ \A l \in Load : load[l] = "timer" => Waits(l, Elapsed)
  <2>1. CASE timer < RefreshPeriod
    BY <2>1 DEF TimerLoads
  <2>2. CASE timer = RefreshPeriod
    <3>1. PICK new \in Load : \A l \in Load :
            load[l] = "timer" => Waits(l, IF l = new THEN 0 ELSE RefreshPeriod)
      BY <2>2 DEF TimerLoads
    <3>2. ASSUME NEW l \in Load, load[l] = "timer" PROVE l = new
      <4> SUFFICES ASSUME l # new PROVE FALSE
        OBVIOUS
      <4>1. Waits(l, RefreshPeriod)
        BY <3>1, <3>2
      <4>2. PICK t \in Table : call[<<l, t>>].pc = "asking"
        BY <3>2, TickingCalls
      <4>3. call[<<l, t>>].wait < RefreshPeriod
        BY <4>2, TickingCalls
      <4> QED BY <4>1, <4>2, <4>3, SamePeriods DEF Waits
    <3>3. Elapsed = 0
      BY <2>2, SamePeriods DEF Elapsed
    <3> QED BY <3>1, <3>2, <3>3
  <2>3. timer < RefreshPeriod \/ timer = RefreshPeriod
    BY <1>1, SamePeriods
  <2> QED BY <2>1, <2>2, <2>3
<1>3. ASSUME NEW l \in Load, load'[l] = "timer" PROVE Waits(l, Elapsed)'
  <2> SUFFICES ASSUME NEW t \in Table, call'[<<l, t>>].pc = "asking"
               PROVE  call'[<<l, t>>].wait = RefreshPeriod - timer'
    BY DEF Waits, Elapsed
  <2>1. PICK q, r : q = call[<<l, t>>] /\ r = call'[<<l, t>>]
    OBVIOUS
  <2>2. Older(q, r)
    BY <2>1, TickingCalls
  <2>3. q.pc = "asking" /\ r.wait = q.wait + 1
    BY <2>1, <2>2 DEF Older
  <2>4. q.wait = RefreshPeriod - timer
    BY <1>1, <1>2, <1>3, <2>1, <2>3 DEF Waits, Elapsed
  <2> QED BY <1>1, <2>1, <2>3, <2>4, SamePeriods
<1> QED BY <1>1, <1>2, <1>3 DEF TimerLoads

LEMMA TimerKept ==
  ASSUME TypeInv, CallsFollowLoads, TimerLoads, [Next]_vars
  PROVE  TimerLoads'
<1>1. CASE Refresh
  BY <1>1, RefreshKeepsTimer
<1>2. CASE ClockTicks
  BY <1>2, TickKeepsTimer
<1>3. CASE LoadOnDemand
  <2>1. PICK new \in Load : Opening(new, "user")
    BY <1>3 DEF LoadOnDemand
  <2>2. /\ load' = [load EXCEPT ![new] = "user"]
        /\ \A m \in Load \ {new} : \A t \in Table : call'[<<m, t>>] = call[<<m, t>>]
    BY <2>1, OpeningCalls
  <2>3. ASSUME NEW l \in Load, load'[l] = "timer" PROVE l # new /\ load[l] = "timer"
    BY <2>2, <2>3 DEF TypeInv
  <2>4. timer' = timer
    BY <1>3 DEF LoadOnDemand
  <2> QED BY <2>2, <2>3, <2>4, StandingTimer
<1>4. CASE Answer \/ CallReturns \/ CallFails
  <2>1. timer' = timer /\ load' = load
    BY <1>4 DEF Answer, CallReturns, CallFails
  <2> QED BY <1>4, <2>1, MovesKeepAges, StandingTimer
<1>5. ASSUME NEW done \in Load, Settle(done) PROVE TimerLoads'
  <2>1. /\ load' = [load EXCEPT ![done] = "none"]
        /\ \A m \in Load \ {done} : \A t \in Table : call'[<<m, t>>] = call[<<m, t>>]
    BY <1>5, SettledCalls
  <2>2. ASSUME NEW l \in Load, load'[l] = "timer" PROVE l # done /\ load[l] = "timer"
    BY <2>1, <2>2 DEF TypeInv
  <2>3. timer' = timer
    BY <1>5 DEF Settle
  <2> QED BY <2>1, <2>2, <2>3, StandingTimer
<1>6. ASSUME UNCHANGED <<load, call, timer>> PROVE TimerLoads'
  BY <1>6, StandingTimer
<1> QED BY <1>1, <1>2, <1>3, <1>4, <1>5, <1>6 DEF Next, PollPaints, Change, vars
-----------------------------------------------------------------------------
(* Every step preserves the invariants: the dots of doomed jobs *)

LEMMA DoomedKept ==
  ASSUME TypeInv, CallsFollowLoads, DoomedStays, [Next]_vars
  PROVE  DoomedStays'
<1> SUFFICES ASSUME NEW t \in Dotted, doomed'[t]
             PROVE  /\ dot'[t] = "FAILED" /\ ~Readable(out'[t])
                    /\ \A l \in Load : Brings(call'[<<l, t>>]) => ~Readable(call'[<<l, t>>].answer)
  BY DEF DoomedStays, Readable
<1>0. t \in Table
  BY ResultsPageAssumption
<1>1. CASE UNCHANGED <<out, dot, doomed>> /\ \E l \in Load : \E why : Opening(l, why)
  <2>1. PICK new \in Load : \E why : Opening(new, why)
    BY <1>1
  <2>2. ASSUME NEW l \in Load, Brings(call'[<<l, t>>])
        PROVE  l # new /\ call'[<<l, t>>] = call[<<l, t>>]
    BY <1>0, <2>1, <2>2, OpeningCalls, OpensBlank
  <2> QED BY <1>0, <1>1, <2>2 DEF DoomedStays
<1>2. CASE Answer \/ CallReturns \/ CallFails
  <2>1. PICK m \in Load, u \in Table, r \in CallType, fails \in BOOLEAN :
          /\ call' = [call EXCEPT ![<<m, u>>] = r]
          /\ Moved(call[<<m, u>>], r, out[u], fails)
    BY <1>2, CallMoves
  <2>2. UNCHANGED <<out, dot, doomed>>
    BY <1>2 DEF Answer, CallReturns, CallFails
  <2>3. dot[t] = "FAILED" /\ ~Readable(out[t])
    BY <2>2 DEF DoomedStays
  <2>4. ASSUME NEW l \in Load, Brings(call'[<<l, t>>]) PROVE ~Readable(call'[<<l, t>>].answer)
    <3>1. Brings(call[<<l, t>>]) => ~Readable(call[<<l, t>>].answer)
      BY <2>2 DEF DoomedStays
    <3>2. CASE l = m /\ t = u
      <4>1. call'[<<l, t>>] = r
        BY <2>1, <3>2 DEF TypeInv
      <4> QED BY <2>1, <2>3, <2>4, <3>1, <3>2, <4>1 DEF Moved
    <3>3. CASE ~(l = m /\ t = u)
      <4>1. call'[<<l, t>>] = call[<<l, t>>]
        BY <1>0, <2>1, <3>3 DEF TypeInv
      <4> QED BY <2>4, <3>1, <4>1
    <3> QED BY <3>2, <3>3
  <2> QED BY <2>2, <2>3, <2>4
<1>3. CASE ClockTicks
  <2>1. UNCHANGED <<out, dot, doomed>>
    BY <1>3 DEF ClockTicks
  <2>2. ASSUME NEW l \in Load, Brings(call'[<<l, t>>]) PROVE ~Readable(call'[<<l, t>>].answer)
    <3>1. Older(call[<<l, t>>], call'[<<l, t>>])
      BY <1>0, <1>3, TickingCalls
    <3>2. Brings(call[<<l, t>>]) /\ call'[<<l, t>>].answer = call[<<l, t>>].answer
      BY <2>2, <3>1 DEF Older, Brings
    <3> QED BY <2>1, <3>2 DEF DoomedStays
  <2> QED BY <2>1, <2>2 DEF DoomedStays
<1>4. ASSUME NEW done \in Load, Settle(done)
      PROVE  /\ dot'[t] = "FAILED" /\ ~Readable(out'[t])
             /\ \A l \in Load : Brings(call'[<<l, t>>]) => ~Readable(call'[<<l, t>>].answer)
  <2>1. UNCHANGED <<out, doomed>>
    BY <1>4 DEF Settle
  <2>2. /\ \A u \in Table : call[<<done, u>>].pc = "over" /\ call'[<<done, u>>].pc = "none"
        /\ \A m \in Load \ {done} : \A u \in Table : call'[<<m, u>>] = call[<<m, u>>]
    BY <1>4, SettledCalls
  <2>3. t \notin Fulfilled(done)
    BY <1>0, <2>1, <2>2 DEF Fulfilled, DoomedStays, Brings
  <2>4. dot'[t] = dot[t]
    BY <1>4, <2>3 DEF Settle
  <2>5. ASSUME NEW l \in Load, Brings(call'[<<l, t>>]) PROVE call'[<<l, t>>] = call[<<l, t>>]
    BY <1>0, <2>2, <2>5 DEF Brings
  <2> QED BY <2>1, <2>4, <2>5 DEF DoomedStays
<1>5. ASSUME NEW u \in Dotted, PollPaints(u)
      PROVE  /\ dot'[t] = "FAILED" /\ ~Readable(out'[t])
             /\ \A l \in Load : Brings(call'[<<l, t>>]) => ~Readable(call'[<<l, t>>].answer)
  <2>1. UNCHANGED <<out, call>>
    BY <1>5 DEF PollPaints
  <2>2. PICK s : /\ dot' = [dot EXCEPT ![u] = s]
                 /\ doomed' = [doomed EXCEPT ![u] =
                      s = "FAILED" /\ ~Readable(out[u]) /\ \A l \in Load : load[l] = "none"]
    BY <1>5 DEF PollPaints
  <2>3. CASE t # u
    <3>1. dot'[t] = dot[t] /\ doomed[t]
      BY <2>2, <2>3 DEF TypeInv
    <3> QED BY <2>1, <3>1 DEF DoomedStays
  <2>4. CASE t = u
    <3>1. dot'[t] = s
      BY <2>2, <2>4 DEF TypeInv
    <3>2. s = "FAILED" /\ ~Readable(out[u]) /\ \A l \in Load : load[l] = "none"
      BY <2>2, <2>4 DEF TypeInv
    <3>3. \A l \in Load : call[<<l, t>>].pc = "none"
      BY <1>0, <3>2 DEF CallsFollowLoads
    <3>4. \A l \in Load : ~Brings(call[<<l, t>>])
      BY <3>3 DEF Brings
    <3> QED BY <2>1, <2>4, <3>1, <3>2, <3>4
  <2> QED BY <2>3, <2>4
<1>6. ASSUME NEW u \in Table, Change(u)
      PROVE  UNCHANGED <<call, dot>> /\ doomed[t] /\ out'[t] = out[t]
  BY <1>0, <1>6 DEF Change, TypeInv
<1>7. CASE UNCHANGED vars
  BY <1>7 DEF vars, DoomedStays
<1>8. CASE Refresh \/ LoadOnDemand
  BY <1>1, <1>8 DEF Refresh, LoadOnDemand
<1>9. CASE \E u \in Table : Change(u)
  BY <1>6, <1>9 DEF DoomedStays
<1> QED BY <1>2, <1>3, <1>4, <1>5, <1>7, <1>8, <1>9 DEF Next
-----------------------------------------------------------------------------
(* Every step preserves the invariants: the page catches up *)

\* Without calm, nothing is asked of the loads.
LEMMA NoLongerCalm ==
  ASSUME TypeInv, calm = 0
  PROVE  LoadsCatchUp /\ PageCatchesUp
<1>1. ASSUME NEW l \in Load, NEW t \in Table PROVE call[<<l, t>>].wait >= 0
  <2>1. PICK r : r = call[<<l, t>>]
    OBVIOUS
  <2>2. r \in CallType
    BY <2>1 DEF TypeInv
  <2>3. r.wait \in Nat
    BY <2>2 DEF CallType
  <2> QED BY <2>1, <2>3
<1>2. LoadsCatchUp
  BY <1>1, SamePeriods DEF LoadsCatchUp
<1>3. calm < RefreshPeriod + (RefreshPeriod - timer)
  <2>1. timer \in 0..RefreshPeriod
    BY DEF TypeInv
  <2>2. PICK n, p : n = timer /\ p = RefreshPeriod
    OBVIOUS
  <2>3. p \in Nat /\ p >= 1 /\ n \in 0..p
    BY <2>1, <2>2, SamePeriods
  <2>4. 0 < p + (p - n)
    BY <2>3
  <2> QED BY <2>2, <2>4
<1> QED BY <1>2, <1>3 DEF PageCatchesUp, Elapsed

\* A call that moves on without failing brings what is there now.
LEMMA MovesKeepFresh ==
  ASSUME TypeInv, UNCHANGED out, NEW m \in Load, NEW u \in Table, NEW r,
         call' = [call EXCEPT ![<<m, u>>] = r], Moved(call[<<m, u>>], r, out[u], FALSE),
         NEW l \in Load, Fresh(l)
  PROVE  Fresh(l)'
<1> SUFFICES ASSUME NEW t \in Table
             PROVE  /\ Brings(call'[<<l, t>>]) => call'[<<l, t>>].answer = out[t]
                    /\ call'[<<l, t>>].pc = "over" => call'[<<l, t>>].told = "answer"
  BY DEF Fresh
<1>1. CASE l = m /\ t = u
  <2>1. call'[<<l, t>>] = r
    BY <1>1 DEF TypeInv
  <2> QED BY <1>1, <2>1 DEF Fresh, Moved
<1>2. CASE ~(l = m /\ t = u)
  <2>1. call'[<<l, t>>] = call[<<l, t>>]
    BY <1>2 DEF TypeInv
  <2> QED BY <2>1 DEF Fresh
<1> QED BY <1>1, <1>2

\* As long as the clock stands still, a load that will paint the page still will.
LEMMA StandingPage ==
  ASSUME PageCatchesUp, UNCHANGED <<timer, calm>>, UpToDate => UpToDate',
         \A l \in Load : load[l] # "none" /\ Fresh(l) => load'[l] # "none" /\ Fresh(l)',
         \A l \in Load, t \in Table :
           load[l] # "none" /\ call'[<<l, t>>].pc = "asking" =>
             call[<<l, t>>].pc = "asking" /\ call'[<<l, t>>].wait = call[<<l, t>>].wait
  PROVE  PageCatchesUp'
<1>1. ASSUME NEW l \in Load, NEW w, Pending(l, w)
      PROVE  load'[l] # "none" /\ Fresh(l)' /\ Waits(l, w)'
  <2>1. load[l] # "none" /\ Fresh(l) /\ Waits(l, w)
    BY <1>1 DEF Pending
  <2> QED BY <2>1 DEF Waits
<1>2. UNCHANGED Elapsed
  BY DEF Elapsed
<1>3. CASE calm < 2 * RefreshPeriod + Elapsed /\ \E l \in Load : Pending(l, Elapsed)
  <2>1. PICK l \in Load : Pending(l, Elapsed)
    BY <1>3
  <2>2. PICK w : w = Elapsed
    OBVIOUS
  <2>3. load'[l] # "none" /\ Fresh(l)' /\ Waits(l, w)'
    BY <1>1, <2>1, <2>2
  <2>4. Pending(l, Elapsed)'
    BY <1>2, <2>2, <2>3 DEF Pending, Waits
  <2> QED BY <1>2, <1>3, <2>4 DEF PageCatchesUp
<1>4. CASE timer = RefreshPeriod /\ calm < 3 * RefreshPeriod /\ \E l \in Load : Pending(l, RefreshPeriod)
  <2>1. PICK l \in Load : Pending(l, RefreshPeriod)
    BY <1>4
  <2>2. Pending(l, RefreshPeriod)'
    BY <1>1, <2>1 DEF Pending, Waits
  <2> QED BY <1>4, <2>2 DEF PageCatchesUp
<1>5. CASE calm < RefreshPeriod + Elapsed
  BY <1>2, <1>5 DEF PageCatchesUp
<1>6. CASE UpToDate
  BY <1>6 DEF PageCatchesUp
<1> QED BY <1>3, <1>4, <1>5, <1>6 DEF PageCatchesUp

\* A load that begins is fresh.
LEMMA OpeningIsFresh ==
  ASSUME Api = "gateway", TypeInv, CallsFollowLoads, NEW new \in Load, NEW why, why # "none",
         Opening(new, why), UNCHANGED <<out, calm>>
  PROVE  /\ load[new] = "none" /\ load'[new] # "none" /\ Fresh(new)' /\ Waits(new, 0)'
         /\ \A l \in Load \ {new} : /\ load'[l] = load[l] /\ Fresh(l)' <=> Fresh(l)
                                    /\ \A t \in Table : call'[<<l, t>>] = call[<<l, t>>]
         /\ LoadsCatchUp => LoadsCatchUp'
<1>1. /\ load[new] = "none" /\ load' = [load EXCEPT ![new] = why]
      /\ \A t \in Table : call'[<<new, t>>] = Opened("results")
      /\ \A l \in Load \ {new} : \A t \in Table : call'[<<l, t>>] = call[<<l, t>>]
  BY OpeningCalls
<1>2. load'[new] # "none" /\ \A l \in Load \ {new} : load'[l] = load[l]
  BY <1>1 DEF TypeInv
<1>3. Fresh(new)' /\ Waits(new, 0)'
  <2>1. PICK r : r = Opened("results")
    OBVIOUS
  <2>2. ~Brings(r) /\ r.pc = "asking" /\ r.wait = 0
    BY <2>1, OpensBlank
  <2> QED BY <1>1, <2>1, <2>2 DEF Fresh, Waits
<1>4. ASSUME NEW l \in Load \ {new} PROVE Fresh(l)' <=> Fresh(l)
  BY <1>1 DEF Fresh
<1>5. LoadsCatchUp => LoadsCatchUp'
  BY <1>1, <1>2, <1>3, <1>4 DEF LoadsCatchUp
<1> QED BY <1>1, <1>2, <1>3, <1>4, <1>5
LEMMA RefreshKeepsCatch ==
  ASSUME Api = "gateway", TypeInv, CallsFollowLoads, LoadsCatchUp, PageCatchesUp, Refresh
  PROVE  LoadsCatchUp' /\ PageCatchesUp'
<1>1. PICK new \in Load : Opening(new, "timer")
  BY DEF Refresh
<1>2. /\ timer = 0 /\ timer' = RefreshPeriod /\ UNCHANGED <<out, shown, dot, calm>>
      /\ Elapsed = RefreshPeriod /\ Elapsed' = 0
  BY SamePeriods DEF Refresh, Elapsed
<1>3. /\ load[new] = "none" /\ load'[new] # "none" /\ Fresh(new)' /\ Waits(new, 0)'
      /\ \A l \in Load \ {new} : /\ load'[l] = load[l] /\ Fresh(l)' <=> Fresh(l)
                                 /\ \A t \in Table : call'[<<l, t>>] = call[<<l, t>>]
      /\ LoadsCatchUp'
  BY <1>1, <1>2, OpeningIsFresh
<1>4. calm \in Nat
  BY SamePeriods DEF TypeInv
<1>5. CASE UpToDate
  <2>1. UpToDate'
    BY <1>2, <1>5 DEF UpToDate, Readable
  <2> QED BY <1>3, <2>1 DEF PageCatchesUp
<1>6. CASE calm < 2 * RefreshPeriod
  <2>1. Pending(new, Elapsed)'
    BY <1>2, <1>3 DEF Pending, Waits
  <2>2. calm' < 2 * RefreshPeriod + Elapsed'
    BY <1>2, <1>4, <1>6, SamePeriods
  <2> QED BY <1>3, <2>1, <2>2 DEF PageCatchesUp
<1>7. CASE calm < 3 * RefreshPeriod /\ \E l \in Load : Pending(l, RefreshPeriod)
  <2>1. PICK l \in Load : Pending(l, RefreshPeriod)
    BY <1>7
  <2>2. l # new
    BY <1>3, <2>1 DEF Pending
  <2>3. Pending(l, RefreshPeriod)'
    BY <1>3, <2>1, <2>2 DEF Pending, Waits
  <2> QED BY <1>2, <1>3, <1>7, <2>3 DEF PageCatchesUp
<1>8. \/ UpToDate
      \/ calm < 2 * RefreshPeriod
      \/ calm < 3 * RefreshPeriod /\ \E l \in Load : Pending(l, RefreshPeriod)
  <2>1. CASE calm < RefreshPeriod + Elapsed
    BY <1>2, <1>4, <2>1, SamePeriods
  <2>2. CASE calm < 2 * RefreshPeriod + Elapsed /\ \E l \in Load : Pending(l, Elapsed)
    BY <1>2, <1>4, <2>2, SamePeriods
  <2> QED BY <2>1, <2>2 DEF PageCatchesUp
<1> QED BY <1>5, <1>6, <1>7, <1>8

\* When the clock ticks, a load that is not fresh is one step nearer to its end.
LEMMA TickKeepsCatch ==
  ASSUME TypeInv, CallsFollowLoads, LoadsCatchUp, PageCatchesUp, ClockTicks
  PROVE  LoadsCatchUp' /\ PageCatchesUp'
<1>1. /\ timer' = timer - 1 /\ timer \in 1..RefreshPeriod /\ UNCHANGED <<out, load, shown, dot>>
      /\ calm' = IF calm < 3 * RefreshPeriod THEN calm + 1 ELSE calm
      /\ calm \in Nat
  BY SamePeriods DEF ClockTicks, TypeInv
<1>2. ASSUME NEW l \in Load, NEW t \in Table
      PROVE  /\ call'[<<l, t>>].pc = call[<<l, t>>].pc
             /\ call[<<l, t>>].wait \in Nat
             /\ call[<<l, t>>].pc = "asking" =>
                  /\ call[<<l, t>>].wait < RefreshPeriod
                  /\ call'[<<l, t>>].wait = call[<<l, t>>].wait + 1
             /\ call'[<<l, t>>].told = call[<<l, t>>].told
             /\ call'[<<l, t>>].answer = call[<<l, t>>].answer
             /\ Brings(call'[<<l, t>>]) <=> Brings(call[<<l, t>>])
  <2>1. PICK q, r : q = call[<<l, t>>] /\ r = call'[<<l, t>>]
    OBVIOUS
  <2>2. Older(q, r) /\ (q.pc = "asking" => q.wait < RefreshPeriod)
    BY <2>1, TickingCalls
  <2>3. q \in CallType
    BY <2>1, WhenDue
  <2> QED BY <2>1, <2>2, <2>3 DEF Older, Brings, CallType
<1>3. \A l \in Load : Fresh(l)' <=> Fresh(l)
  BY <1>1, <1>2 DEF Fresh
<1>4. LoadsCatchUp'
  <2> SUFFICES ASSUME NEW l \in Load, load[l] # "none", ~Fresh(l)
               PROVE  /\ \A t \in Table :
                           call'[<<l, t>>].pc = "asking" => call'[<<l, t>>].wait >= calm'
                      /\ \/ calm' < RefreshPeriod
                         \/ \E t \in Table :
                              /\ call'[<<l, t>>].pc = "asking"
                              /\ call'[<<l, t>>].wait >= RefreshPeriod
    BY <1>1, <1>3 DEF LoadsCatchUp
  <2>1. \A t \in Table : call[<<l, t>>].pc = "asking" => call[<<l, t>>].wait >= calm
    BY DEF LoadsCatchUp
  <2>2. PICK u \in Table : call[<<l, u>>].pc = "asking"
    BY TickingCalls
  <2>3. calm < RefreshPeriod /\ calm' = calm + 1
    BY <1>1, <1>2, <2>1, <2>2, SamePeriods
  <2>4. ASSUME NEW t \in Table, call'[<<l, t>>].pc = "asking"
        PROVE  call'[<<l, t>>].wait >= calm'
    <3>1. call[<<l, t>>].pc = "asking"
      BY <1>2, <2>4
    <3>2. /\ call[<<l, t>>].wait >= calm /\ call[<<l, t>>].wait \in Nat
          /\ call'[<<l, t>>].wait = call[<<l, t>>].wait + 1
      BY <1>2, <2>1, <3>1
    <3> QED BY <1>1, <2>3, <3>2
  <2>5. calm' < RefreshPeriod \/ calm' = RefreshPeriod
    BY <1>1, <2>3, SamePeriods
  <2>6. call'[<<l, u>>].pc = "asking" /\ call'[<<l, u>>].wait >= calm'
    BY <1>2, <2>2, <2>4
  <2> QED BY <2>4, <2>5, <2>6
<1>5. /\ Elapsed' = Elapsed + 1 /\ Elapsed \in Nat
      /\ \A n \in Nat : calm < n + Elapsed => calm' < n + Elapsed'
  <2>1. Elapsed' = Elapsed + 1 /\ Elapsed \in Nat
    BY <1>1, SamePeriods DEF Elapsed
  <2>2. calm' <= calm + 1 /\ calm' \in Nat
    BY <1>1, SamePeriods
  <2> QED BY <1>1, <2>1, <2>2
<1>6. CASE UpToDate
  <2>1. UpToDate'
    BY <1>1, <1>6 DEF UpToDate, Readable
  <2> QED BY <1>4, <2>1 DEF PageCatchesUp
<1>7. CASE calm < RefreshPeriod + Elapsed
  BY <1>4, <1>5, <1>7, SamePeriods DEF PageCatchesUp
<1>8. CASE calm < 2 * RefreshPeriod + Elapsed /\ \E l \in Load : Pending(l, Elapsed)
  <2>1. PICK l \in Load : Pending(l, Elapsed)
    BY <1>8
  <2>2. load'[l] # "none" /\ Fresh(l)'
    BY <1>1, <1>3, <2>1 DEF Pending
  <2>3. ASSUME NEW t \in Table, call'[<<l, t>>].pc = "asking"
        PROVE  call'[<<l, t>>].wait = Elapsed'
    BY <1>2, <1>5, <2>1, <2>3 DEF Pending, Waits
  <2>4. Pending(l, Elapsed)'
    BY <2>2, <2>3 DEF Pending, Waits
  <2>5. 2 * RefreshPeriod \in Nat
    BY SamePeriods
  <2>6. calm' < 2 * RefreshPeriod + Elapsed'
    BY <1>5, <1>8, <2>5
  <2> QED BY <1>4, <2>4, <2>6 DEF PageCatchesUp
<1>9. ~\E l \in Load : Pending(l, RefreshPeriod)
  <2> SUFFICES ASSUME NEW l \in Load, Pending(l, RefreshPeriod) PROVE FALSE
    OBVIOUS
  <2>1. PICK t \in Table : call[<<l, t>>].pc = "asking"
    BY TickingCalls DEF Pending
  <2> QED BY <1>2, <2>1, SamePeriods DEF Pending, Waits
<1> QED BY <1>6, <1>7, <1>8, <1>9 DEF PageCatchesUp

\* A load that is over has painted what is there, or the calm is still young.
LEMMA SettleKeepsCatch ==
  ASSUME TypeInv, CallsFollowLoads, LoadsCatchUp, NEW done \in Load, Settle(done)
  PROVE  LoadsCatchUp' /\ PageCatchesUp'
<1>1. UNCHANGED <<out, timer, calm>>
  BY DEF Settle
<1>2. /\ load[done] # "none" /\ load' = [load EXCEPT ![done] = "none"]
      /\ \A t \in Table : call[<<done, t>>].pc = "over"
      /\ \A m \in Load \ {done} : \A t \in Table : call'[<<m, t>>] = call[<<m, t>>]
  BY SettledCalls
<1>3. LoadsCatchUp'
  <2>1. load'[done] = "none" /\ \A l \in Load \ {done} : load'[l] = load[l]
    BY <1>2 DEF TypeInv
  <2>2. \A l \in Load \ {done} : Fresh(l)' <=> Fresh(l)
    BY <1>1, <1>2 DEF Fresh
  <2> QED BY <1>1, <1>2, <2>1, <2>2 DEF LoadsCatchUp
<1>4. CASE Fresh(done)
  <2>1. \A t \in Table : call[<<done, t>>].told = "answer" /\ call[<<done, t>>].answer = out[t]
    BY <1>2, <1>4 DEF Fresh, Brings
  <2>2. Fulfilled(done) = {t \in Table : Readable(out[t])}
    BY <2>1 DEF Fulfilled
  <2>3. UpToDate'
    <3> SUFFICES ASSUME NEW t \in Table, Readable(out[t])
                 PROVE  shown'[t] = out[t] /\ (t \in Dotted => dot'[t] = "COMPLETED")
      BY <1>1 DEF UpToDate, Readable
    <3> QED BY <2>1, <2>2 DEF Settle
  <2> QED BY <1>3, <2>3 DEF PageCatchesUp
<1>5. CASE ~Fresh(done)
  <2>1. calm < RefreshPeriod
    BY <1>2, <1>5 DEF LoadsCatchUp
  <2>2. calm \in Int /\ timer \in 0..RefreshPeriod
    BY SamePeriods DEF TypeInv
  <2>3. calm' < RefreshPeriod + Elapsed'
    BY <1>1, <2>1, <2>2, SamePeriods DEF Elapsed
  <2> QED BY <1>3, <2>3 DEF PageCatchesUp
<1> QED BY <1>4, <1>5
LEMMA CatchKept ==
  ASSUME Api = "gateway", TypeInv, CallsFollowLoads, LoadsCatchUp, PageCatchesUp, [Next]_vars
  PROVE  LoadsCatchUp' /\ PageCatchesUp'
<1>1. ASSUME calm' = 0 PROVE LoadsCatchUp' /\ PageCatchesUp'
  <2>1. (TypeInv /\ calm = 0)'
    BY <1>1, TypesKept
  <2>2. (TypeInv /\ calm = 0)' => (LoadsCatchUp /\ PageCatchesUp)'
    BY NoLongerCalm, PTL
  <2> QED BY <2>1, <2>2
<1>2. CASE Refresh
  BY <1>2, RefreshKeepsCatch
<1>3. CASE LoadOnDemand
  <2>1. PICK new \in Load : Opening(new, "user")
    BY <1>3 DEF LoadOnDemand
  <2>2. UNCHANGED <<out, shown, dot, timer, calm>>
    BY <1>3 DEF LoadOnDemand
  <2>3. /\ load[new] = "none"
        /\ \A l \in Load \ {new} : /\ load'[l] = load[l] /\ Fresh(l)' <=> Fresh(l)
                                   /\ \A t \in Table : call'[<<l, t>>] = call[<<l, t>>]
        /\ LoadsCatchUp'
    BY <2>1, <2>2, OpeningIsFresh
  <2>4. UpToDate => UpToDate'
    BY <2>2 DEF UpToDate, Readable
  <2> QED BY <2>2, <2>3, <2>4, StandingPage
<1>4. CASE Answer \/ CallReturns \/ CallFails
  <2>1. PICK m \in Load, u \in Table, r \in CallType, fails \in BOOLEAN :
          /\ call' = [call EXCEPT ![<<m, u>>] = r]
          /\ Moved(call[<<m, u>>], r, out[u], fails)
          /\ calm' = IF fails THEN 0 ELSE calm
    BY <1>4, CallMoves
  <2>2. CASE fails
    BY <1>1, <2>1, <2>2
  <2>3. CASE ~fails
    <3>1. Moved(call[<<m, u>>], r, out[u], FALSE) /\ calm' = calm
      BY <2>1, <2>3
    <3>2. UNCHANGED <<out, load, shown, dot, timer>>
      BY <1>4 DEF Answer, CallReturns, CallFails
    <3>3. \A l \in Load : Fresh(l) => Fresh(l)'
      BY <2>1, <3>1, <3>2, MovesKeepFresh
    <3>4. \A l \in Load, t \in Table :
            call'[<<l, t>>].pc = "asking" =>
              call[<<l, t>>].pc = "asking" /\ call'[<<l, t>>].wait = call[<<l, t>>].wait
      BY <1>4, MovesKeepAges
    <3>5. LoadsCatchUp'
      <4> SUFFICES ASSUME NEW l \in Load, load[l] # "none", ~Fresh(l),
                          ~(calm < RefreshPeriod)
                   PROVE  \E t \in Table : /\ call'[<<l, t>>].pc = "asking"
                                           /\ call'[<<l, t>>].wait >= RefreshPeriod
        BY <3>1, <3>2, <3>3, <3>4 DEF LoadsCatchUp
      <4>1. PICK t \in Table :
              call[<<l, t>>].pc = "asking" /\ call[<<l, t>>].wait >= RefreshPeriod
        BY DEF LoadsCatchUp
      <4>2. CASE l = m /\ t = u
        <5>1. call'[<<l, t>>] = r
          BY <2>1, <4>2 DEF TypeInv
        <5>2. call[<<l, t>>].wait \in Nat
          BY WhenDue DEF CallType
        <5>3. r.pc # "over"
          BY <3>1, <4>1, <4>2, <5>2, SamePeriods DEF Moved
        <5> QED BY <3>1, <4>1, <4>2, <5>1, <5>3 DEF Moved
      <4>3. CASE ~(l = m /\ t = u)
        <5>1. call'[<<l, t>>] = call[<<l, t>>]
          BY <2>1, <4>3 DEF TypeInv
        <5> QED BY <4>1, <5>1
      <4> QED BY <4>2, <4>3
    <3>6. UpToDate => UpToDate'
      BY <3>2 DEF UpToDate, Readable
    <3> QED BY <3>1, <3>2, <3>3, <3>4, <3>5, <3>6, StandingPage
  <2> QED BY <2>2, <2>3
<1>5. CASE ClockTicks
  BY <1>5, TickKeepsCatch
<1>6. ASSUME NEW l \in Load, Settle(l) PROVE LoadsCatchUp' /\ PageCatchesUp'
  BY <1>6, SettleKeepsCatch
<1>7. CASE (\E t \in Dotted : PollPaints(t)) \/ (\E t \in Table : Change(t))
  BY <1>1, <1>7 DEF PollPaints, Change
<1>8. CASE UNCHANGED vars
  <2>1. \A l \in Load : Fresh(l)' <=> Fresh(l)
    BY <1>8 DEF vars, Fresh
  <2>2. UpToDate => UpToDate'
    BY <1>8 DEF vars, UpToDate, Readable
  <2>3. LoadsCatchUp'
    BY <1>8, <2>1 DEF vars, LoadsCatchUp
  <2> QED BY <1>8, <2>1, <2>2, <2>3, StandingPage DEF vars
<1> QED BY <1>2, <1>3, <1>4, <1>5, <1>6, <1>7, <1>8 DEF Next

-----------------------------------------------------------------------------
(* Theorems *)

LEMMA InitPageInv == Init => PageInv
<1> SUFFICES ASSUME Init PROVE PageInv
  OBVIOUS
<1>1. PICK first \in Load :
        /\ load = [l \in Load |-> IF l = first THEN "timer" ELSE "none"]
        /\ call = [c \in Load \X Table |-> IF c[1] = first THEN Opened("results") ELSE NoCall]
  BY DEF Init
<1>2. PICK opened : opened = Opened("results")
  OBVIOUS
<1>3. PICK no : no = NoCall
  OBVIOUS
<1>4. /\ opened \in CallType /\ opened.pc # "none"
      /\ opened.pc = "asking" => opened.route = "results" /\ opened.age = 0 /\ opened.wait = 0
  BY <1>2, OpensBlank
<1>5. no \in CallType /\ no.pc = "none"
  BY <1>3 DEF NoCall, CallType
<1>6. /\ call \in [Load \X Table -> CallType]
      /\ \A t \in Table : call[<<first, t>>] = opened
      /\ \A l \in Load \ {first} : \A t \in Table : call[<<l, t>>] = no
  BY <1>1, <1>2, <1>3, <1>4, <1>5
<1>7. TypeInv
  <2>1. timer \in 0..RefreshPeriod /\ calm \in 0..3 * RefreshPeriod
    BY SamePeriods DEF Init
  <2> QED BY <1>1, <1>6, <2>1 DEF Init, TypeInv
<1>8. CallsFollowLoads
  BY <1>1, <1>4, <1>5, <1>6 DEF CallsFollowLoads
<1>9. TimerLoads
  <2>1. ~(timer < RefreshPeriod)
    BY SamePeriods DEF Init
  <2>2. \A l \in Load : load[l] = "timer" => Waits(l, IF l = first THEN 0 ELSE RefreshPeriod)
    BY <1>1, <1>4, <1>6 DEF Waits
  <2> QED BY <2>1, <2>2 DEF TimerLoads
<1>10. DoomedStays
  BY DEF Init, DoomedStays
<1> QED BY <1>7, <1>8, <1>9, <1>10 DEF PageInv

LEMMA PageInvariant == Spec => []PageInv
<1>1. PageInv /\ [Next]_vars => PageInv'
  BY TypesKept, TimerKept, DoomedKept DEF PageInv
<1> QED BY <1>1, InitPageInv, PTL DEF Spec

\* The page's loads do not pile up: of those its timer has begun, one at most is
\* under way by the time the clock has moved, however slow the aggregator is.
THEOREM OneLoadOfTimer == Spec => []LoadsDoNotPileUp
<1>1. PageInv => LoadsDoNotPileUp
  <2> SUFFICES ASSUME TimerLoads, timer < RefreshPeriod
               PROVE  Cardinality({l \in Load : load[l] = "timer"}) <= 1
    BY DEF PageInv, LoadsDoNotPileUp
  <2>1. CASE {l \in Load : load[l] = "timer"} = {}
    BY <2>1, FS_EmptySet
  <2>2. CASE {l \in Load : load[l] = "timer"} # {}
    <3>1. PICK x : {l \in Load : load[l] = "timer"} = {x}
      BY <2>2 DEF TimerLoads
    <3>2. Cardinality({x}) = 1
      BY FS_Singleton
    <3> QED BY <3>1, <3>2
  <2> QED BY <2>1, <2>2
<1> QED BY <1>1, PageInvariant, PTL

\* No load that begins after a poll has found a job FAILED, with its output gone,
\* paints over its dot: whatever the loads that overlap and the calls that fail.
THEOREM FailedIsKept == Spec => []FailedStaysFailed
<1>1. PageInv => FailedStaysFailed
  BY DEF PageInv, DoomedStays, FailedStaysFailed
<1> QED BY <1>1, PageInvariant, PTL

\* A minute and a half after the last change and the last call that failed, a page
\* that reaches the gateway shows what is there.
THEOREM PageIsCurrent ==
  ASSUME Api = "gateway"
  PROVE  Spec => []DisplayIsCurrent
<1>1. Init => CatchInv
  <2> SUFFICES ASSUME Init PROVE CatchInv
    OBVIOUS
  <2>1. calm = 0
    BY DEF Init
  <2> QED BY <2>1, InitPageInv, NoLongerCalm DEF CatchInv, PageInv
<1>2. CatchInv /\ [Next]_vars => CatchInv'
  BY TypesKept, TimerKept, DoomedKept, CatchKept DEF CatchInv, PageInv
<1>3. CatchInv => DisplayIsCurrent
  <2> SUFFICES ASSUME CatchInv, calm >= 3 * RefreshPeriod PROVE UpToDate
    BY DEF DisplayIsCurrent, UpToDate
  <2>1. PICK p, n, c : p = RefreshPeriod /\ n = timer /\ c = calm
    OBVIOUS
  <2>2. p \in Nat /\ p >= 1 /\ n \in 0..p /\ c \in Nat /\ c >= 3 * p
    BY <2>1, SamePeriods DEF CatchInv, PageInv, TypeInv
  <2>3. ~(c < p + (p - n)) /\ ~(c < 2 * p + (p - n)) /\ ~(c < 3 * p)
    BY <2>2
  <2> QED BY <2>1, <2>3 DEF CatchInv, PageCatchesUp, Elapsed
<1> QED BY <1>1, <1>2, <1>3, PTL DEF Spec
================================================================================
