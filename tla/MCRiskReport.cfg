CONSTANTS
  Key = {"A", "B", "C"}
  Tables <- MCTables
  Foreign <- MCForeign
SPECIFICATION Spec
INVARIANT RiskIsNeverUnderstated
INVARIANT TablesAreAnsweredWhole
INVARIANT SummaryAgreesWithTables
