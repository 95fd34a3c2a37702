CONSTANTS
  Table = {grade, summary}
  Dotted = {grade}
  Load = {l1, l2}
  MaxVersion = 2
  MaxOnDemand = 1
  TickLength = 15
  Api = "gateway"
  Nil = Nil
SYMMETRY Symmetry
SPECIFICATION Spec
INVARIANT DisplayIsCurrent
INVARIANT LoadsDoNotPileUp
INVARIANT FailedStaysFailed
