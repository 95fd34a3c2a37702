CONSTANTS
  d1 = d1
  d2 = d2
  Nil = Nil
  Dir = {d1, d2}
  App = {a1, a2}
  EmptyApp = {a1}
  SummaryDirs <- MCSummaryDirs
  NamenodeFails = FALSE
  Client = {c1}
SPECIFICATION Spec
INVARIANT SummaryNeverPanics
