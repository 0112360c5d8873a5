\* One session; dump widths of 2 bytes (16 and 64 in the code) so that five
\* bytes fill rows, split them at CR LF and pad the last one.
CONSTANTS
  Sessions = {s1}
  Configs <- MC_Configs
  PlainInputs <- MC_PlainInputs
  DumpInputs <- MC_DumpInputs
  MaxSec = 2
  AsciiWidth = 2
  BinWidth = 2
SPECIFICATION Spec
INVARIANT LinesStartMarked
INVARIANT OneNotePerDataRun
INVARIANT TraceAsSpecified
