CONSTANTS
  Run = {r1, r2}
  Jobs = 2
  MaxAttempts = 3
  TickLength = 5
  Api = "gateway"
  Nil = Nil
SPECIFICATION Spec
INVARIANT TypeOK
INVARIANT DoneMeansDone
INVARIANT OneRunAtATime
INVARIANT OrchestratorCallsAreAnswered
PROPERTY ButtonComesBack
