CONSTANTS
  d1 = d1
  d2 = d2
  Nil = Nil
  Dir = {d1, d2}
  App = {a1, a2, a3}
  EmptyApp = {a3}
  SummaryDirs <- MCSummaryDirs
  NamenodeFails = TRUE
  Client = {c1}
SPECIFICATION Spec
INVARIANT TypeOK
INVARIANT TablesAreWhole
INVARIANT QuietAnswersAreComplete
