\* As MCXargs_recycle: does waitpid on a recycled pid wait for the command?
CONSTANTS
  MaxThreads = 3
  Handles = {1, 2}
  Sessions = {s1}
  NBatches = 3
  NoEnv = NoEnv
  Unread = Unread
  MaxProcs = 1
  Overlays <- MC_Overlays
  Statuses <- MC_Statuses
  ExecErrors <- MC_ExecErrors
  ENOENT <- MC_ENOENT
SPECIFICATION Spec
PROPERTY WaitReturnsOwnStatus
