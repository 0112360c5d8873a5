---------------------------- MODULE ProgressMeter ----------------------------
(***************************************************************************)
(* The progress meter of scp and sftp (src/ssh_keygen/progressmeter.c) in  *)
(* its iOS build.  alarm() does not work there, so refresh_progress_meter *)
(* emulates it: a call with force_update 0 draws only when more than      *)
(* UPDATE_INTERVAL seconds passed since the last draw.  The meter state is *)
(* __thread: one transfer thread is modelled, with its caller as the      *)
(* environment: it starts the meter, moves the byte counter, calls        *)
(* refresh_progress_meter(0) and finally stop_progress_meter.             *)
(*                                                                         *)
(* Time is counted in ticks, TPS ticks a second (monotime_double).  What   *)
(* a draw shows is kept as a record: the counter it shows, the percent and *)
(* which ETA field it writes; the text layout is not modelled.             *)
(***************************************************************************)
EXTENDS Integers

CONSTANTS
  TPS,          \* ticks per second
  MaxTime,      \* the last tick modelled
  FileSize,     \* filesize passed to start_progress_meter (end_pos)
  MaxChunk,     \* the most bytes the caller adds to *ctr in one step
  Columns,      \* atoi(getenv("COLUMNS")) values
  Tty           \* the values ios_isatty(STDOUT_FILENO) may have

UPDATE_INTERVAL == 1
STALL_TIME == 5

VARIABLES
  now,          \* monotime_double(), in ticks
  pc,           \* the caller: "idle", "running" or "stopped"
  ctr,          \* *ctr, the transfer's byte counter
  tty,          \* can_output()
  cols,         \* the terminal width in COLUMNS
  start, last_update, file, counter, start_pos, end_pos, cur_pos,
  stalled, bytes_per_second, win_size, win_resized, alarm_fired,
  shown,        \* what the last draw wrote, or NoLine
  drew,         \* whether the last step drew a line
  lastByte      \* when *ctr last grew (history, for the properties)

meter == <<start, last_update, file, counter, start_pos, end_pos, cur_pos,
           stalled, bytes_per_second, win_size, win_resized, alarm_fired>>
vars == <<now, pc, ctr, tty, cols, meter, shown, drew, lastByte>>

NoLine == [pos |-> -1, percent |-> -1, eta |-> "none"]

TypeOK ==
  /\ now \in 0..MaxTime /\ pc \in {"idle", "running", "stopped"}
  /\ ctr \in 0..FileSize /\ cur_pos \in 0..FileSize /\ stalled \in Nat
  /\ shown.eta \in {"none", "stalled", "unknown", "eta", "done"}

Init ==
  /\ now = 0 /\ pc = "idle" /\ ctr = 0 /\ tty \in Tty /\ cols \in Columns
  /\ start = 0 /\ last_update = 0 /\ file = FALSE /\ counter = FALSE
  /\ start_pos = 0 /\ end_pos = 0 /\ cur_pos = 0 /\ stalled = 0
  /\ bytes_per_second = 0 /\ win_size = 0 /\ win_resized = 0
  /\ alarm_fired = 0 /\ shown = NoLine /\ drew = FALSE /\ lastByte = 0

\* setscreensize on iOS: win_size = atoi(getenv("COLUMNS")) + 1
setscreensize == cols + 1

\* mutant: the stall count is not reset by a draw with progress
stalled_after_noreset(st, transferred, elapsed) == (st * TPS + elapsed) \div TPS

\* "if (!transferred) stalled += elapsed; else stalled = 0;" where stalled is
\* a long and elapsed a double in seconds
stalled_after(st, transferred, elapsed) ==
  IF transferred = 0 THEN (st * TPS + elapsed) \div TPS ELSE 0

(***************************************************************************)
(* refresh_progress_meter(force_update) as a function of the meter state  *)
(* m (a record of its variables) and the counter: the record of the        *)
(* variables after the call and what it drew, if anything.  Doubles are    *)
(* truncated where the code assigns them to integers (cur_speed,           *)
(* bytes_per_second, percent, and stalled += elapsed on a long);           *)
(* floating-point rounding below one unit is not modelled.                 *)
(***************************************************************************)
Refresh(m, force, c) ==
  LET fired == m.alarm_fired = 1 \/ now - m.last_update > UPDATE_INTERVAL * TPS
      af    == IF fired THEN 1 ELSE 0
  IN
  IF ~m.counter \/ ~m.file THEN [m |-> m, drew |-> FALSE]
  ELSE IF (force = 0 /\ af = 0 /\ m.win_resized = 0) \/ ~tty
  THEN [m |-> [m EXCEPT !.alarm_fired = af], drew |-> FALSE]
  ELSE
  LET ws          == IF m.win_resized = 1 THEN setscreensize ELSE m.win_size
      bytes_left  == m.end_pos - c
      elapsed     == IF bytes_left > 0 THEN now - m.last_update ELSE now - m.start
      transferred == IF bytes_left > 0
                     THEN c - (IF m.cur_pos # 0 THEN m.cur_pos ELSE m.start_pos)
                     ELSE m.end_pos - m.start_pos
      bps0        == IF bytes_left > 0 THEN m.bytes_per_second ELSE 0
      cur_speed   == IF elapsed # 0 THEN (transferred * TPS) \div elapsed
                     ELSE transferred
      bps         == IF bps0 # 0 THEN (9 * bps0 + cur_speed) \div 10 ELSE cur_speed
      percent     == IF m.end_pos = 0 \/ c = m.end_pos THEN 100
                     ELSE (c * 100) \div m.end_pos
      stall       == stalled_after(m.stalled, transferred, elapsed)
      eta         == CASE stall >= STALL_TIME -> "stalled"
                       [] bps = 0 /\ bytes_left # 0 -> "unknown"
                       [] bytes_left > 0 -> "eta"
                       [] OTHER -> "done"
  IN  [m |-> [m EXCEPT !.alarm_fired = 0, !.win_size = ws, !.win_resized = 0,
                       !.cur_pos = c, !.bytes_per_second = bps,
                       !.stalled = stall, !.last_update = now],
       drew |-> TRUE,
       line |-> [pos |-> c, percent |-> percent, eta |-> eta]]

Meter == [start |-> start, last_update |-> last_update, file |-> file,
          counter |-> counter, start_pos |-> start_pos, end_pos |-> end_pos,
          cur_pos |-> cur_pos, stalled |-> stalled,
          bytes_per_second |-> bytes_per_second, win_size |-> win_size,
          win_resized |-> win_resized, alarm_fired |-> alarm_fired]

SetMeter(m) ==
  /\ start' = m.start /\ last_update' = m.last_update /\ file' = m.file
  /\ counter' = m.counter /\ start_pos' = m.start_pos /\ end_pos' = m.end_pos
  /\ cur_pos' = m.cur_pos /\ stalled' = m.stalled
  /\ bytes_per_second' = m.bytes_per_second /\ win_size' = m.win_size
  /\ win_resized' = m.win_resized /\ alarm_fired' = m.alarm_fired

\* the meter after a refresh, and the line it drew
AfterRefresh(r) ==
  /\ SetMeter(r.m)
  /\ shown' = IF r.drew THEN r.line ELSE shown
  /\ drew' = r.drew

(* start_progress_meter: start = last_update = now, the positions, a      *)
(* fresh stall count and rate, setscreensize, a forced refresh.  The       *)
(* SIGALRM and SIGWINCH handlers are installed; alarm() has no effect.     *)
(* win_resized and alarm_fired keep the values an earlier meter left.      *)
Start ==
  /\ pc = "idle"
  /\ AfterRefresh(Refresh([Meter EXCEPT !.start = now, !.last_update = now,
                                        !.file = TRUE, !.start_pos = ctr,
                                        !.end_pos = FileSize, !.cur_pos = 0,
                                        !.counter = TRUE, !.stalled = 0,
                                        !.bytes_per_second = 0,
                                        !.win_size = setscreensize],
                          1, ctr))
  /\ pc' = "running" /\ lastByte' = now
  /\ UNCHANGED <<now, ctr, tty, cols>>

\* the caller's transfer loop moves *ctr
Transfer ==
  /\ pc = "running"
  /\ \E k \in 1..MaxChunk : ctr + k <= FileSize /\ ctr' = ctr + k
  /\ lastByte' = now /\ drew' = FALSE
  /\ UNCHANGED <<now, pc, tty, cols, meter, shown>>

\* the caller's transfer loop calls refresh_progress_meter(0)
Call ==
  /\ pc = "running"
  /\ AfterRefresh(Refresh(Meter, 0, ctr))
  /\ UNCHANGED <<now, pc, ctr, tty, cols, lastByte>>

\* sig_winch, on the transfer thread
Winch ==
  /\ pc # "idle"
  /\ win_resized' = 1 /\ drew' = FALSE
  /\ UNCHANGED <<now, pc, ctr, tty, cols, start, last_update, file, counter,
                 start_pos, end_pos, cur_pos, stalled, bytes_per_second,
                 win_size, alarm_fired, shown, lastByte>>

\* time passes
Tick ==
  /\ now < MaxTime
  /\ now' = now + 1 /\ drew' = FALSE
  /\ UNCHANGED <<pc, ctr, tty, cols, meter, shown, lastByte>>

\* mutant: the final refresh of stop_progress_meter is not forced
Stop_unforced ==
  /\ pc = "running"
  /\ IF ~tty THEN UNCHANGED <<meter, shown>> /\ drew' = FALSE
     ELSE LET r == IF cur_pos # end_pos THEN Refresh(Meter, 0, ctr)
                   ELSE [m |-> Meter, drew |-> FALSE]
          IN  AfterRefresh([r EXCEPT !.m = [@ EXCEPT !.counter = FALSE,
                                                    !.file = FALSE]])
  /\ pc' = "stopped"
  /\ UNCHANGED <<now, ctr, tty, cols, lastByte>>

(* stop_progress_meter: alarm(0); nothing more unless can_output(); a      *)
(* forced refresh if cur_pos is not end_pos; the newline; counter and file *)
(* set to NULL.                                                            *)
Stop ==
  /\ pc = "running"
  /\ IF ~tty THEN UNCHANGED <<meter, shown>> /\ drew' = FALSE
     ELSE LET r == IF cur_pos # end_pos THEN Refresh(Meter, 1, ctr)
                   ELSE [m |-> Meter, drew |-> FALSE]
          IN  AfterRefresh([r EXCEPT !.m = [@ EXCEPT !.counter = FALSE,
                                                    !.file = FALSE]])
  /\ pc' = "stopped"
  /\ UNCHANGED <<now, ctr, tty, cols, lastByte>>

\* the transfer is over
Over ==
  /\ pc = "stopped" /\ now = MaxTime
  /\ UNCHANGED vars

Next == Start \/ Transfer \/ Call \/ Winch \/ Tick \/ Stop \/ Over

Spec == Init /\ [][Next]_vars

(* Safety: "- stalled -" is drawn only when no byte has arrived for        *)
(* STALL_TIME seconds (refresh_progress_meter's stalled count, summed over *)
(* the draws without progress and reset by one with progress).            *)
StallReportSound ==
  drew /\ shown.eta = "stalled" => now - lastByte >= STALL_TIME * TPS

(* Safety: once stop_progress_meter has run on a terminal, the last line   *)
(* drawn shows the final byte count (its refresh when cur_pos is not       *)
(* end_pos, and cur_pos kept by every draw).                               *)
StopShowsFinalCount ==
  pc = "stopped" /\ tty => shown.pos = ctr
====
