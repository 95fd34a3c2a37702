CONSTANTS
  Run = {r1}
  Jobs = 1
  MaxAttempts = 1
  TickLength = 5
  Api = "same origin"
  Nil = Nil
SPECIFICATION Spec
INVARIANT PageReachesTheGateway
