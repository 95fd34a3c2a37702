CONSTANTS
  t1 = t1
  t2 = t2
  Nil = Nil
  Task = {t1, t2}
  MaxRows = 2
  MaxLines = 4
  Datasets <- MCDatasets
  Grade = {"A", "B"}
  State = {"CA"}
  Bucket = {"10+ years"}
  Key = {"A", "B", "CA", "10+ years"}
  Inputs <- MCInputs
SPECIFICATION MCSpec
INVARIANT TypeOK
INVARIANT RowsAreWhole
INVARIANT TableIsComplete
INVARIANT LoansAreRecognised
INVARIANT GradesAgree
INVARIANT PartIsTable
INVARIANT DefaultsHaveLoans
CHECK_DEADLOCK FALSE
