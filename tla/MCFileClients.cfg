CONSTANTS
  a = a
  b = b
  locked = locked
  open = open
  logs = logs
  Procs = {a, b}
  Files = {locked, open}
  Guarded = {locked}
  Dirs = {logs}
  Contents <- MCContents
  MaxFds = 3
  Nobody = Nobody
  Caller = a
  Keys = {1}
  Values = {1, 2}
  Remote <- MCRemote
  Codes = {200, 404}
  CurlErrors = {28}
  MaxAnswers = 2
  LogDir = logs
  Methods = {"GET", "POST", "OPTIONS", "PUT"}
  Paths = {"infer", "upgrade", "noupgrade", "status.html", "system", "other"}
  Mixes <- MCMixes
SPECIFICATION FairSpec
INVARIANTS NoTornRead WholeAfterSuccess DescriptorsExplained BuffersHoldAnswers StartUpOutcome
PROPERTIES ImplementsAtomicFiles LockCallReturns
