\* Two shell sessions each running xargs, one batch each, no pid overflow.
\* Does every invocation exit, or can one spin in waitpid forever?
CONSTANTS
  MaxThreads = 4
  Handles = {1, 2}
  Sessions = {s1, s2}
  NBatches = 1
  NoEnv = NoEnv
  Unread = Unread
  MaxProcs = 1
  Overlays <- MC_Overlays
  Statuses <- MC_Statuses
  ExecErrors <- MC_ExecErrors
  ENOENT <- MC_ENOENT
SPECIFICATION Spec
PROPERTY Termination
