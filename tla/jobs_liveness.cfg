\* One worker (a setting of 0 becomes 1) and two requests under the scheduling
\* of FairSpec: a job queues behind the one that runs, or finds the queue full.
SPECIFICATION FairSpec
CONSTANTS
  r1 = r1
  r2 = r2
  Requests = {r1, r2}
  NoJob = NoJob
  WorkerSetting = 0
  DepthSetting = 1
  ProgressStates = {}
PROPERTIES
  AcceptedSettles
  WaiterReleased
  StopCompletes
