\* -n 1 -E a: each run resets p but leaves the bytes of the last argument.
CONSTANTS
  Letters = {"a", "b"}
  NUL = NUL
  DefaultNArgs = 5000
  DefaultNLine = 100
  PtrSize = 1
  EchoLen = 1
  MaxSubst = 5
  Invocations <- MC_EofInvocations
  OtherEofStrs <- MC_OtherEofStrs
SPECIFICATION Spec
INVARIANT ArgsAsSpecified
