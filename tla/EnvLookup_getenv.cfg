\* All overlays of up to two entries over names of length 1..2, and every
\* name: does libc_getenv match names exactly?
CONSTANTS
  Chars = {"a", "b"}
  MaxName = 2
  MaxEntries = 2
  Values = {v1, v2}
  GlobalValue = g
  NotFound = NotFound
SPECIFICATION Spec
INVARIANT GetenvAsSpecified
