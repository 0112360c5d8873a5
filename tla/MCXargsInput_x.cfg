\* -n 2 -x with a buffer that holds every input.
CONSTANTS
  Letters = {"a", "b"}
  NUL = NUL
  DefaultNArgs = 5000
  DefaultNLine = 100
  PtrSize = 1
  EchoLen = 1
  MaxSubst = 5
  Invocations <- MC_XInvocations
  OtherEofStrs <- MC_OtherEofStrs
SPECIFICATION Spec
INVARIANT BatchesAsSpecified
