CONSTANTS
  grade = grade
  state = state
  Dir = {grade, state}
  Dirs <- MCDirs
  App = {a1, a2}
  MaxTries = 1
  MaxFaults = 1
  Nil = Nil
SPECIFICATION Spec
INVARIANT UploadedMeansWhole
INVARIANT CompletedMeansTables
INVARIANT SavedMeansCopied
PROPERTY WholeStaysWhole
PROPERTY BootEnds
