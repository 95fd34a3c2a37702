CONSTANTS
  r1 = r1
  p1 = p1
  j1 = j1
  j2 = j2
  all = all
  bogus = bogus
  Nil = Nil
  AllAlias = all
  Run <- MCRun
  Job <- MCJob
  Id <- MCId
  AllJobs <- MCAllJobs
  Requests <- MCRequests
  Poller = {}
SPECIFICATION Spec
PROPERTY RegisteredJobsEnd
