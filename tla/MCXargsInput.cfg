\* Quoting, backslash, -0, -n, -s with carry-over, -L and -E over every short
\* input, and an xargs started in another session meanwhile.
CONSTANTS
  Letters = {"a", "b"}
  NUL = NUL
  DefaultNArgs = 5000
  DefaultNLine = 100
  PtrSize = 1
  EchoLen = 1
  MaxSubst = 5
  Invocations <- MC_Invocations
  OtherEofStrs <- MC_OtherEofStrs
SPECIFICATION Spec
INVARIANT ArgsAsSpecified BatchesAsSpecified LinesAsSpecified
