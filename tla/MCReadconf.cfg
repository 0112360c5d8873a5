\* Host, Match and Include blocks, the syntax of Match lines, IdentityFile up
\* to its limit and Match exec, each read in a first and a final pass.
CONSTANTS
  MaxThreads = 6
  Handles = {1}
  Handle = 1
  Overlays = {}
  NoEnv = NoEnv
  BadPerm = {"perm"}
  HostArg = "h1"
  OriginalHost = "h2"
  LocalUser = "u1"
  MaxDepth = 2
  MaxIdentityFiles = 3
  MaxHostsFiles = 2
  BadHops = {"bad@"}
  Num <- MC_Num
  EnvAssignments <- MC_EnvAssignments
  EnvRemovals <- MC_EnvRemovals
  TunIds <- MC_TunIds
  QoS <- MC_QoS
  Setups <- MC_Setups
  ExitStatus <- MC_ExitStatus
SPECIFICATION Spec
INVARIANT ConfigAsSpecified
INVARIANT PidsLeakedPerExec
