CONSTANTS
  r1 = r1
  r2 = r2
  j1 = j1
  j2 = j2
  all = all
  bogus = bogus
  Nil = Nil
  AllAlias = all
  Run = {r1, r2}
  Job <- MCJob
  Id <- MCId
  AllJobs <- MCAllJobs
  Requests <- MCRequests
  Poller = {}
  MaxJobs = 2
  LoseTouch <- MCLoseTouch
SPECIFICATION Spec2
INVARIANT CompletedMeansOutput
INVARIANT LockOwnerStores
PROPERTY RunsEnd
