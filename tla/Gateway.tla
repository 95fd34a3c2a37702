------------------------------- MODULE Gateway -------------------------------
(***************************************************************************)
(* What becomes of a call of the dashboard's page.  The gateway keeps      *)
(* nothing from one request to the next: it reads the request, asks the    *)
(* orchestrator or the aggregator, and passes on what comes back.  Three   *)
(* clocks run meanwhile: the server's for reading a request and for        *)
(* writing the reply, and that of the client it asks with.                 *)
(*                                                                         *)
(* What the two services behind it do is up to the module that uses this   *)
(* one: Serve is the moment at which one of them does what was asked.      *)
(***************************************************************************)
EXTENDS Naturals

CONSTANTS
  Call,        \* the calls the page can have open at once
  TickLength,  \* seconds in a step of the clock: 5, or 15 if the 10 of ClientTimeout play no part
  Api,         \* where the page's calls go: "gateway" or "same origin", see Opened
  Nil          \* no value

VARIABLE call

Ticks(seconds) == seconds \div TickLength

ReadTimeout  == Ticks(15)
WriteTimeout == Ticks(30)

\* Mutant of ClientTimeout: all routes have that of the results.
ClientTimeoutForAll(route) == Ticks(30)

\* Mutant of ClientTimeout: a minute.
ClientTimeoutMinute(route) == Ticks(60)

\* The Timeout of the http.Client.
ClientTimeout(route) == IF route = "results" THEN Ticks(30) ELSE Ticks(10)

\* age: since the request came; wait: since the gateway began to ask.  served
\* and answer are what the service has done.  told is what the page gets: the
\* answer, "refused" if nothing has been asked of the service, "unsure" or "cut"
\* if it cannot know, and "not found".  Of the results it only knows "failed":
\* fetchJSON rejects whatever is no answer.
NoCall == [pc |-> "none", route |-> Nil, age |-> 0, wait |-> 0,
           served |-> FALSE, answer |-> Nil, told |-> Nil]

\* As it is, the page asks the server it came from, and that one has nothing
\* but the page: 404, or 405 to a POST.  The comment beside API names the
\* gateway for a page that is tried on its own.
Opened(route) ==
  IF Api = "same origin" THEN [NoCall EXCEPT !.pc = "over", !.route = route, !.told = "not found"]
  ELSE [NoCall EXCEPT !.pc = IF route = "submit" THEN "reading" ELSE "asking", !.route = route]

InFlight(c) == call[c].pc \in {"reading", "asking"}
Returned(c) == call[c].pc = "over"

\* A timer of the gateway has gone off.
Due(c) == \/ call[c].pc = "reading" /\ call[c].age >= ReadTimeout
          \/ call[c].pc = "asking" /\ call[c].wait >= ClientTimeout(call[c].route)

Return(c, reply) ==
  LET told == IF call[c].route = "results" /\ reply # "answer" THEN "failed" ELSE reply IN
  call' = [call EXCEPT ![c] = 
             [NoCall EXCEPT !.pc = "over", !.route = call[c].route, !.told = told,
                            !.answer = IF told = "answer" THEN call[c].answer ELSE Nil]]

\* The handler writes a reply: the server cuts the connection instead if it is
\* past the WriteTimeout.
Reply(c, reply) == Return(c, IF call[c].age >= WriteTimeout THEN "cut" ELSE reply)

-----------------------------------------------------------------------------
\* ShouldBindJSON has the body of the POST.
ReadBody(c) ==
  /\ call[c].pc = "reading" /\ ~Due(c)
  /\ call' = [call EXCEPT ![c].pc = "asking"]

\* 400
ReadBodyLate(c) == call[c].pc = "reading" /\ Due(c) /\ Reply(c, "refused")

\* 503: nobody listens, so nothing has been asked.
Unreached(c) == call[c].pc = "asking" /\ ~call[c].served /\ ~Due(c) /\ Reply(c, "refused")

\* The service does what was asked.
Serve(c, answer) ==
  /\ call[c].pc = "asking" /\ ~call[c].served /\ ~Due(c)
  /\ call' = [call EXCEPT ![c].served = TRUE, ![c].answer = answer]

PassOn(c) == call[c].served /\ call[c].pc = "asking" /\ ~Due(c) /\ Reply(c, "answer")

\* The error of ReadAll is dropped: the status goes with the bytes that came.
PassOnPart(c) == call[c].served /\ call[c].pc = "asking" /\ Reply(c, "unsure")

\* 503: the client has had enough.  The service may have served the call, or
\* may yet do so.
GiveUp(c) == call[c].pc = "asking" /\ Due(c) /\ Reply(c, "unsure")

\* The page loses the gateway; what it asked for may still be done.
LoseGateway(c) == InFlight(c) /\ Return(c, "unsure")

\* Nobody waits for the call any more, and it may still be served.
Abandoned(c) ==
  /\ InFlight(c) /\ ~call[c].served
  /\ call'[c].pc \in {"none", "over"} /\ call'[c].told # "refused"

Relay(c) == \/ ReadBody(c) \/ ReadBodyLate(c) \/ Unreached(c) \/ PassOn(c) \/ PassOnPart(c)
            \/ GiveUp(c) \/ LoseGateway(c)

\* No timer that is due is passed over.
TimePasses ==
  /\ \A c \in Call : ~Due(c)
  /\ call' = [c \in Call |->
       IF ~InFlight(c) THEN call[c]
       ELSE [call[c] EXCEPT !.age = @ + 1, !.wait = IF call[c].pc = "asking" THEN @ + 1 ELSE @]]
=============================================================================
