\* One xargs invocation, three batches, pid table larger than the number of
\* forks: the configuration the code is written for.
CONSTANTS
  MaxThreads = 5
  Handles = {1, 2}
  NoEnv = NoEnv
  Unread = Unread
  Sessions = {s1}
  NBatches = 3
  MaxProcs = 1
  Overlays <- MC_Overlays
  Statuses <- MC_Statuses
  ExecErrors <- MC_ExecErrors
  ENOENT <- MC_ENOENT
SPECIFICATION Spec
INVARIANT ExitCodeMatchesOutcomes
INVARIANT RunnerCeiling
INVARIANT EnvIsolation
PROPERTY WaitReturnsOwnStatus
PROPERTY Termination
