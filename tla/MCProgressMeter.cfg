\* One transfer of 3 bytes, 2 ticks a second for 8 seconds: long enough for
\* a stall of STALL_TIME seconds to be reported; output on a terminal or not.
\* With FileSize = 0 (nothing to transfer) StallReportSound is violated: see
\* README.md.
CONSTANTS
  TPS = 2
  MaxTime = 16
  FileSize = 3
  MaxChunk = 2
  Columns = {80}
  Tty = {TRUE, FALSE}
SPECIFICATION Spec
INVARIANT StallReportSound
INVARIANT StopShowsFinalCount
