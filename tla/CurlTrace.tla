------------------------------ MODULE CurlTrace ------------------------------
(***************************************************************************)
(* curl's trace callback, tool_debug_cb (src/curl/curl/src/tool_cb_dbg.c), *)
(* as it runs in ios_system: each curl invocation is a session on its own  *)
(* thread, with its own OperationConfig and its own thread_stdout and      *)
(* thread_stderr, but the callback's statics (newl and traced_data of the  *)
(* TRACE_PLAIN arm, and the time cache of hms_for_sec) are process-wide.   *)
(*                                                                         *)
(* A session's trace is the sequence of debug events libcurl hands it.     *)
(* What the callback writes is a sequence of tokens per stream: a byte of  *)
(* the event's data, the line start of log_line_start, the "[n bytes       *)
(* data]" note, and the pieces of a hex or ascii dump.  A byte is one of   *)
(* "a" (printable), "u" (not printable), "CR" and "LF".                    *)
(***************************************************************************)
EXTENDS Integers, Sequences, SequencesExt

CONSTANTS
  Sessions,      \* concurrent curl invocations
  Configs,       \* [tracetype, isatty, dump, tracetime] records
  PlainInputs,   \* event sequences libcurl may pass with -v
  DumpInputs,    \* event sequences for --trace / --trace-ascii
  MaxSec,        \* last second of tvnow() modelled
  AsciiWidth,    \* dump's width for TRACE_ASCII (0x40 in the code)
  BinWidth       \* dump's width for TRACE_BIN (0x10 in the code)

VARIABLES
  cfg,           \* the session's GlobalConfig: trace options
  trace_stream,  \* config->trace_stream: "NULL" or the stream opened
  rest,          \* the events still to come
  out,           \* out[s][stream]: what session s's streams received
  pc,            \* "idle", or "stamped" between hms_for_sec and its copy
  tv,            \* tv.tv_sec taken by the session's tvnow()
  now,           \* tvnow() seconds
  newl, traced_data,             \* the static bools of TRACE_PLAIN
  cached_tv_sec, hms_buf, known_epoch,   \* the statics of hms_for_sec
  seen,          \* the events the session's callback has handled (history)
  lastStamp      \* the stamp the last event wrote, with the second it took

vars == <<cfg, trace_stream, rest, out, pc, tv, now, newl, traced_data,
          cached_tv_sec, hms_buf, known_epoch, seen, lastStamp>>

Streams == {"stdout", "stderr", "file"}
NoTime == -1            \* timebuf[0] = 0: no --trace-time

\* tokens of the output
Tok(k, v, w) == [k |-> k, v |-> v, w |-> w]
Byte(b)      == Tok("byte", b, 0)
Glyph(b)     == Tok("glyph", IF b = "a" THEN "a" ELSE ".", 0)
Hex(b)       == Tok("hex", b, 0)
Pad          == Tok("pad", "", 0)
Off(i)       == Tok("off", "", i)
EOL          == Byte("LF")
LineStart(tb, type) == Tok("start", type, tb)

InputsFor(c) == IF c.tracetype = "plain" THEN PlainInputs ELSE DumpInputs

TypeOK ==
  /\ pc \in [Sessions -> {"idle", "stamped"}]
  /\ trace_stream \in [Sessions -> Streams \cup {"NULL"}]
  /\ newl \in BOOLEAN /\ traced_data \in BOOLEAN
  /\ now \in 1..MaxSec

Init ==
  /\ cfg \in [Sessions -> Configs]
  /\ rest \in {r \in [Sessions -> PlainInputs \cup DumpInputs] :
                 \A s \in Sessions : r[s] \in InputsFor(cfg[s])}
  /\ trace_stream = [s \in Sessions |-> "NULL"]
  /\ out = [s \in Sessions |-> [k \in Streams |-> <<>>]]
  /\ pc = [s \in Sessions |-> "idle"]
  /\ tv = [s \in Sessions |-> 0]
  /\ now = 1
  /\ newl = FALSE /\ traced_data = FALSE
  /\ cached_tv_sec = 0 /\ hms_buf = NoTime /\ known_epoch = FALSE
  /\ seen = [s \in Sessions |-> <<>>]
  /\ lastStamp = [shown |-> NoTime, taken |-> NoTime]

-----------------------------------------------------------------------------
(* dump(): the header line, then rows of width bytes: the offset, the hex *)
(* column (TRACE_BIN only, padded), the glyphs.  TRACE_ASCII ends a row at *)
(* a CR LF pair and skips the pair.  Offsets i and c are 0-based; the      *)
(* unsigned i += (c + 2 - width) followed by the loop's i += width leaves  *)
(* i + c + 2, which integer arithmetic gives directly.                     *)
(***************************************************************************)
DumpWidth(tt) == IF tt = "ascii" THEN AsciiWidth ELSE BinWidth

\* ptr[j] for a 0-based j
At(d, j) == d[j + 1]

CRLFAt(tt, d, j) == tt = "ascii" /\ j + 1 < Len(d)
                    /\ At(d, j) = "CR" /\ At(d, j + 1) = "LF"

\* mutant: the second CR LF test advances i one byte too few
RECURSIVE DumpRow_short(_, _, _, _, _)
DumpRow_short(tt, d, w, i, c) ==
  IF c >= w \/ i + c >= Len(d) THEN [glyphs |-> <<>>, i |-> i]
  ELSE IF CRLFAt(tt, d, i + c) THEN [glyphs |-> <<>>, i |-> i + c + 2 - w]
  ELSE IF CRLFAt(tt, d, i + c + 1)
       THEN [glyphs |-> <<Glyph(At(d, i + c))>>, i |-> i + c + 2 - w]
  ELSE LET r == DumpRow_short(tt, d, w, i, c + 1)
       IN  [glyphs |-> <<Glyph(At(d, i + c))>> \o r.glyphs, i |-> r.i]

\* the inner for(c ...) loop of row i from column c: its glyphs and the i it
\* leaves for the outer loop's i += width
RECURSIVE DumpRow(_, _, _, _, _)
DumpRow(tt, d, w, i, c) ==
  IF c >= w \/ i + c >= Len(d) THEN [glyphs |-> <<>>, i |-> i]
  ELSE IF CRLFAt(tt, d, i + c) THEN [glyphs |-> <<>>, i |-> i + c + 2 - w]
  ELSE IF CRLFAt(tt, d, i + c + 1)
       THEN [glyphs |-> <<Glyph(At(d, i + c))>>, i |-> i + c + 3 - w]
  ELSE LET r == DumpRow(tt, d, w, i, c + 1)
       IN  [glyphs |-> <<Glyph(At(d, i + c))>> \o r.glyphs, i |-> r.i]

RECURSIVE DumpFrom(_, _, _, _)
DumpFrom(tt, d, w, i) ==
  IF i >= Len(d) THEN <<>>
  ELSE LET hex == IF tt = "bin"
                  THEN [c \in 1..w |-> IF i + c <= Len(d) THEN Hex(d[i + c]) ELSE Pad]
                  ELSE <<>>
           r   == DumpRow(tt, d, w, i, 0)
       IN  <<Off(i)>> \o hex \o r.glyphs \o <<EOL>> \o DumpFrom(tt, d, w, r.i + w)

dump(tb, text, d, tt) ==
  <<Tok("header", text, tb), Tok("size", "", Len(d)), EOL>>
  \o DumpFrom(tt, d, DumpWidth(tt), 0)

\* the text of tool_debug_cb's second switch
HeaderText(type) ==
  CASE type = "HEADER_OUT"   -> "=> Send header"
    [] type = "DATA_OUT"     -> "=> Send data"
    [] type = "HEADER_IN"    -> "<= Recv header"
    [] type = "DATA_IN"      -> "<= Recv data"
    [] type = "SSL_DATA_IN"  -> "<= Recv SSL data"
    [] type = "SSL_DATA_OUT" -> "=> Send SSL data"

-----------------------------------------------------------------------------
(* The TRACE_PLAIN arm.  log_line_start writes the line start when newl    *)
(* says the stream is at the start of a line.                              *)
DataTypes == {"DATA_IN", "DATA_OUT", "SSL_DATA_IN", "SSL_DATA_OUT"}

Bytes(d) == [j \in DOMAIN d |-> Byte(d[j])]
MarkUnless(nl, tb, type) == IF nl THEN <<>> ELSE <<LineStart(tb, type)>>
Note(size) == Tok("note", "", size)

\* newl = (size && data[size - 1] != '\n')
EndsOpen(d) == Len(d) > 0 /\ Last(d) # "LF"

\* CURLINFO_HEADER_OUT's for(i = 0; i < size - 1; i++) loop: what it writes,
\* where the unwritten rest starts (st) and newl after it
RECURSIVE HeaderOutLoop(_, _, _, _, _, _)
HeaderOutLoop(d, i, st, nl, tb, type) ==
  IF i >= Len(d) - 1 THEN [toks |-> <<>>, st |-> st, nl |-> nl]
  ELSE IF At(d, i) = "LF"
  THEN LET r == HeaderOutLoop(d, i + 1, i + 1, FALSE, tb, type)
       IN  [r EXCEPT !.toks = MarkUnless(nl, tb, type)
                                \o Bytes(SubSeq(d, st + 1, i + 1)) \o @]
  ELSE HeaderOutLoop(d, i + 1, st, nl, tb, type)

\* mutant: no line start before the bytes after the loop's last LF
HeaderOut_nomark(d, nl, tb) ==
  IF Len(d) = 0 THEN <<>>
  ELSE LET r == HeaderOutLoop(d, 0, 0, nl, tb, "HEADER_OUT")
       IN  r.toks \o Bytes(SubSeq(d, r.st + 1, Len(d)))

HeaderOut(d, nl, tb) ==
  IF Len(d) = 0 THEN <<>>
  ELSE LET r == HeaderOutLoop(d, 0, 0, nl, tb, "HEADER_OUT")
       IN  r.toks \o MarkUnless(r.nl, tb, "HEADER_OUT")
                 \o Bytes(SubSeq(d, r.st + 1, Len(d)))

\* the "[n bytes data]" note is written unless the trace shares a terminal
\* with the data itself
NotesApply(c, output) == ~c.isatty \/ output \notin {"stdout", "stderr"}

\* mutant: CURLINFO_HEADER_OUT leaves traced_data set
PlainStep_keeptd(c, output, type, d, tb) ==
  CASE type = "HEADER_OUT" ->
         [toks |-> HeaderOut(d, newl, tb), newl |-> EndsOpen(d), td |-> traced_data]
    [] type \in {"TEXT", "HEADER_IN"} ->
         [toks |-> MarkUnless(newl, tb, type) \o Bytes(d),
          newl |-> EndsOpen(d), td |-> FALSE]
    [] type \in DataTypes /\ ~traced_data /\ NotesApply(c, output) ->
         [toks |-> MarkUnless(newl, tb, type) \o <<Note(Len(d)), EOL>>,
          newl |-> FALSE, td |-> TRUE]
    [] type \in DataTypes ->
         [toks |-> <<>>, newl |-> newl, td |-> traced_data]

\* the TRACE_PLAIN switch: what it writes and the statics after it
PlainStep(c, output, type, d, tb) ==
  CASE type = "HEADER_OUT" ->
         [toks |-> HeaderOut(d, newl, tb), newl |-> EndsOpen(d), td |-> FALSE]
    [] type \in {"TEXT", "HEADER_IN"} ->
         [toks |-> MarkUnless(newl, tb, type) \o Bytes(d),
          newl |-> EndsOpen(d), td |-> FALSE]
    [] type \in DataTypes /\ ~traced_data /\ NotesApply(c, output) ->
         [toks |-> MarkUnless(newl, tb, type) \o <<Note(Len(d)), EOL>>,
          newl |-> FALSE, td |-> TRUE]
    [] type \in DataTypes ->
         [toks |-> <<>>, newl |-> newl, td |-> traced_data]

\* the other trace types: an Info line for CURLINFO_TEXT, else a dump
OtherStep(c, type, d, tb) ==
  IF type = "TEXT" THEN <<Tok("info", "", tb)>> \o Bytes(d)
  ELSE dump(tb, HeaderText(type), d, c.tracetype)

\* the stream a call opens: "-" is stdout, "%" stderr, else fopen, whose
\* outcome ok is the file system's on each call
OpenTrace(c, ok) ==
  CASE c.dump = "-" -> "stdout"
    [] c.dump = "%" -> "stderr"
    [] ok           -> "file"
    [] OTHER        -> "NULL"

\* mutant: the output is taken from trace_stream as it was before the open
CallStream_stale(c, cur, ok) ==
  LET ts == IF cur = "NULL" THEN OpenTrace(c, ok) ELSE cur
  IN  [ts |-> ts, output |-> IF cur = "NULL" THEN "stderr" ELSE cur]

\* trace_stream after the call's open attempt, and the stream written:
\* stderr while trace_stream is NULL
CallStream(c, cur, ok) ==
  LET ts == IF cur = "NULL" THEN OpenTrace(c, ok) ELSE cur
  IN  [ts |-> ts, output |-> IF ts = "NULL" THEN "stderr" ELSE ts]

-----------------------------------------------------------------------------
(* hms_for_sec(tv_sec): a new second recomputes the static hms_buf (the    *)
(* epoch offset is taken once, on the first call; the text it formats is   *)
(* abstracted to the second it shows) and caches the second.               *)
hms_for_sec(t) ==
  IF t # cached_tv_sec
  THEN /\ hms_buf' = t /\ known_epoch' = TRUE /\ cached_tv_sec' = t
  ELSE UNCHANGED <<hms_buf, known_epoch, cached_tv_sec>>

\* --trace-time: tv = tvnow(); hms_for_sec(tv.tv_sec), whose result the
\* msnprintf of the same statement copies into timebuf at Emit
Stamp(s) ==
  /\ pc[s] = "idle" /\ rest[s] # <<>> /\ cfg[s].tracetime
  /\ tv' = [tv EXCEPT ![s] = now]
  /\ hms_for_sec(now)
  /\ pc' = [pc EXCEPT ![s] = "stamped"]
  /\ UNCHANGED <<cfg, trace_stream, rest, out, now, newl, traced_data, seen,
                 lastStamp>>

(* what the call for the session's next event writes once its stream is *)
(* known (st: CallStream's result): timebuf, then the TRACE_PLAIN arm or   *)
(* the Info line / dump; the history records where trace_stream stands     *)
EmitTo(s, st) ==
  LET c      == cfg[s]
      e      == Head(rest[s])
      tb     == IF c.tracetime THEN hms_buf ELSE NoTime
      output == st.output
      r      == PlainStep(c, output, e.type, e.data, tb)
  IN  /\ trace_stream' = [trace_stream EXCEPT ![s] = st.ts]
      /\ IF c.tracetype = "plain"
         THEN /\ out' = [out EXCEPT ![s][output] = @ \o r.toks]
              /\ newl' = r.newl /\ traced_data' = r.td
         ELSE /\ out' = [out EXCEPT ![s][output] =
                           @ \o OtherStep(c, e.type, e.data, tb)]
              /\ UNCHANGED <<newl, traced_data>>
      /\ lastStamp' = IF c.tracetime THEN [shown |-> tb, taken |-> tv[s]]
                      ELSE lastStamp
      /\ seen' = [seen EXCEPT ![s] = Append(@, [type |-> e.type, data |-> e.data, to |-> st.ts])]

(* tool_debug_cb for the session's next event: timebuf, the trace stream  *)
(* (fopen is tried again on every call while trace_stream is NULL, and    *)
(* the output is stderr until one succeeds), and the rest as EmitTo       *)
Emit(s) ==
  /\ rest[s] # <<>>
  /\ pc[s] = IF cfg[s].tracetime THEN "stamped" ELSE "idle"
  /\ \E ok \in BOOLEAN : EmitTo(s, CallStream(cfg[s], trace_stream[s], ok))
  /\ rest' = [rest EXCEPT ![s] = Tail(@)]
  /\ pc' = [pc EXCEPT ![s] = "idle"]
  /\ UNCHANGED <<cfg, tv, now, cached_tv_sec, hms_buf, known_epoch>>

\* the monotonic clock advances a second
Tick ==
  /\ now < MaxSec
  /\ now' = now + 1
  /\ UNCHANGED <<cfg, trace_stream, rest, out, pc, tv, newl, traced_data,
                 cached_tv_sec, hms_buf, known_epoch, seen, lastStamp>>

\* every transfer is over
Done ==
  /\ \A s \in Sessions : rest[s] = <<>>
  /\ UNCHANGED vars

Next == Tick \/ Done \/ \E s \in Sessions : Stamp(s) \/ Emit(s)

Spec == Init /\ [][Next]_vars

-----------------------------------------------------------------------------
IsPlain(s) == cfg[s].tracetype = "plain"

\* the output is at the start of a line where it begins and after each LF
StartsAtLines(o) ==
  \A j \in DOMAIN o : o[j].k = "start" <=> (j = 1 \/ o[j - 1] = EOL)

(* Safety: in a -v trace, every line begins with log_line_start's marker,  *)
(* and no marker is written inside a line: the newl static of              *)
(* tool_debug_cb's TRACE_PLAIN arm tracks the session's own stream, through *)
(* headers split over calls and the line loop of CURLINFO_HEADER_OUT.      *)
LinesStartMarked ==
  \A s \in Sessions : IsPlain(s) => \A k \in Streams : StartsAtLines(out[s][k])

\* the number of maximal runs of data events in an event sequence
DataRuns(es) ==
  Cardinality({j \in DOMAIN es : es[j].type \in DataTypes
                                 /\ (j = 1 \/ es[j - 1].type \notin DataTypes)})

NoteCount(o) == Cardinality({j \in DOMAIN o : o[j].k = "note"})

(* Safety: a -v trace reports each run of consecutive data events with     *)
(* exactly one "[n bytes data]" line, or none at all when the trace goes   *)
(* to the terminal that shows the data (the traced_data static, set by a   *)
(* note and cleared by every other event type).                            *)
OneNotePerDataRun ==
  \A s \in Sessions :
    IsPlain(s) =>
      NoteCount(out[s]["stderr"]) =
        IF NotesApply(cfg[s], "stderr") THEN DataRuns(seen[s]) ELSE 0

(* Reference: what --trace and --trace-ascii are documented to write for   *)
(* data d: rows of at most width bytes at their offsets, hex and padding   *)
(* for --trace; --trace-ascii also breaks a row at each CR LF, which it    *)
(* does not show, and a CR LF at the very end opens no further row.        *)
CRLFs(tt, d) == {j \in 0..(Len(d) - 2) : CRLFAt(tt, d, j)}

RefRows(tt, d, w) ==
  LET ends      == CRLFs(tt, d) \cup {Len(d)}
      starts    == {0} \cup {j + 2 : j \in CRLFs(tt, d)}
      EndOf(b)  == CHOOSE e \in ends : e >= b /\ \A f \in ends : f >= b => e <= f
      segs      == starts \ {Len(d)}
  IN  UNION {{[at |-> b + k * w, len |-> Min({w, EndOf(b) - b - k * w})]
              : k \in 0..(IF EndOf(b) = b THEN 0 ELSE (EndOf(b) - b - 1) \div w)}
             : b \in segs}

RefRow(tt, d, w, r) ==
  <<Off(r.at)>>
  \o (IF tt = "bin"
      THEN [c \in 1..w |-> IF c <= r.len THEN Hex(d[r.at + c]) ELSE Pad]
      ELSE <<>>)
  \o [c \in 1..r.len |-> Glyph(d[r.at + c])] \o <<EOL>>

RefDump(tt, d) ==
  LET w    == DumpWidth(tt)
      rows == SetToSortSeq(RefRows(tt, d, w), LAMBDA x, y : x.at < y.at)
  IN  FlattenSeq([j \in DOMAIN rows |-> RefRow(tt, d, w, rows[j])])

\* what --trace and --trace-ascii are documented to write for an event
RefEvent(tt, e) ==
  IF e.type = "TEXT" THEN <<Tok("info", "", NoTime)>> \o Bytes(e.data)
  ELSE <<Tok("header", HeaderText(e.type), NoTime), Tok("size", "", Len(e.data)), EOL>>
       \o RefDump(tt, e.data)

\* the events of history es whose trace reached stream k: stderr while
\* trace_stream was still NULL after the call
SentTo(es, k) == SelectSeq(es, LAMBDA e : IF e.to = "NULL" THEN k = "stderr" ELSE e.to = k)

(* Safety: a --trace or --trace-ascii session writes every event once, in *)
(* order and as the reference dump describes (dump()'s row loop, the       *)
(* TRACE_ASCII CR LF skips and the hex padding): to stderr while fopen of  *)
(* the trace file keeps failing, and from the call whose fopen succeeds on *)
(* to the file, which it never leaves (tool_debug_cb retries fopen on each *)
(* call while trace_stream is NULL, and writes to the stream just opened). *)
TraceAsSpecified ==
  \A s \in Sessions :
    cfg[s].tracetype # "plain" /\ ~cfg[s].tracetime =>
      /\ \A k \in Streams :
           out[s][k] = FlattenSeq([j \in DOMAIN SentTo(seen[s], k) |->
                                    RefEvent(cfg[s].tracetype, SentTo(seen[s], k)[j])])
      /\ \A i, j \in DOMAIN seen[s] :
           i < j /\ seen[s][i].to # "NULL" => seen[s][j].to = seen[s][i].to

(* Safety: with --trace-time, the time an event's trace shows is the       *)
(* second tvnow() returned for it (hms_for_sec's cache of the last second  *)
(* and its static buffer).  It is a question for two sessions sharing     *)
(* hms_buf, where it is violated (README, disagreement (g)); for one       *)
(* session it only restates hms_for_sec, so no run checks it.              *)
TimestampsCurrent == lastStamp.shown = lastStamp.taken
====
