\* One request is enough: it arrives, the stop runs into its deadline, and the
\* handler gets to Submit after the queue is closed.
SPECIFICATION Spec
CONSTANTS
  r1 = r1
  r2 = r2
  Requests = {r1, r2}
  NoJob = NoJob
  WorkerSetting = 1
  DepthSetting = 1
  ProgressStates = {}
INVARIANT
  SubmitReturns
