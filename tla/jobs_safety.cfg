\* Three requests, a queue of two and two workers: the third finds the queue full
\* when no worker has taken the first two.
SPECIFICATION Spec
CONSTANTS
  r1 = r1
  r2 = r2
  r3 = r3
  Requests = {r1, r2, r3}
  NoJob = NoJob
  WorkerSetting = 2
  DepthSetting = 2
  ProgressStates = {"extracting"}
SYMMETRY Symmetry
INVARIANTS
  TypeOK
  Custody
  RunOnce
  NoLostWakeup
  PanicNeedsDeadline
  DrainLosesNothing
PROPERTY
  ImplementsLifecycle
