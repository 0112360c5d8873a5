# TLA+ models of ios_system's fake processes and xargs

This directory holds TLA+ models of the parts of this repository that emulate
POSIX processes with threads, and of the command runner built on them. The
models are checked with TLC. Each module is written from the C source it names
(see `map` in `PROJECT.json`). The thread life cycle lives in `ios_system.m`,
which is not part of this repository. It is modelled from `spec.md` and marked
`spec_modelled`.

## 1. Inventory

### Components and their state

| Component | Source | State | Operations |
|---|---|---|---|
| Identifier allocator (fake pid table) | `src/libc_replacement.c` 120-171, 263-289 | `thread_ids[128]` (-1 = pid given out, thread not started; 0 = free or finished; else a `pthread_t`), `current_pid`, `pid_overflow` | `ios_nextAvailablePid` (called by `fork`, `ios_fork` and `vfork`), `ios_storeThreadId`, `ios_releaseThread`, `ios_releaseThreadId`, `ios_getThreadId`, `ios_currentPid` |
| Environment scope store | `src/libc_replacement.c` 174-261 | `environment[128]` (an `envp` overlay per pid or NULL) | `storeEnvironment`, `resetEnvironment`, `libc_getenv` |
| Process launcher | `ios_system.m` (not in this repository) | per command thread: handle, status | `ios_execvp`: start the thread or report errno; the thread binds itself, runs `main`, sets the command status and releases its slot |
| Wait/reap engine | `src/libc_replacement.c` 291-337 | none of its own; reads `thread_ids` and `ios_getCommandStatus()` | `ios_waitpid` (busy loop), `waitpid` (blocking, or WNOHANG) |
| Bounded command runner | `src/shell_cmds/xargs/xargs.c` | per-thread `curprocs`, `maxprocs`, `childerr`, `rval`, argument buffer pointers, quoting flags | `parse_input` (tokenise stdin into batches), `prerun` (-I substitution), `run` (fork, execvp, wait, check status), `waitchildren` |
| printenv | `src/shell_cmds/printenv/printenv.c` | none | prints the environment, or looks up one name |
| ssh config parser | `src/ssh_keygen/readconf.c` | `Options` record | parse keyword/value lines; `execute_in_shell` for `Match exec` forks through the pid table |
| Progress meter | `src/ssh_keygen/progressmeter.c` | per-thread counters, `alarm_fired`, `win_resized`, `last_update` | start, refresh (the alarm is emulated by a time check on iOS), stop |
| curl trace callback | `src/curl/curl/src/tool_cb_dbg.c` | process-wide statics `newl` and `traced_data`, and the time cache of `hms_for_sec` | `tool_debug_cb` per trace event |
| stdio wrappers | `src/libc_replacement.c` 25-118, 341-394 | lazily defaulted `thread_stdout` and `thread_stderr` | forward to the thread's streams |

### How the components interact

A shell session runs commands on their own threads, and sessions run
concurrently. xargs runs in a session thread. For each batch, `run()` calls
`ios_fork()`, which returns `ios_nextAvailablePid()` and sets `current_pid`.
Then `execvp` (`ios_execvp`) starts the command thread and may install an
environment overlay with `storeEnvironment` at `current_pid`. The command
thread's first action is `ios_storeThreadId(pthread_self())`. This binds it to
`thread_ids[current_pid]`, but only if that slot still holds -1. When `main`
returns, the command status becomes `ios_getCommandStatus()` and the thread
calls `ios_releaseThread(self)`. That call finds the slot holding the handle,
zeroes it and clears its overlay. xargs meanwhile calls `waitpid(pid, &status, 0)`.
This spins in `ios_waitpid` until `thread_ids[pid]` reads 0, then builds
`status` from `ios_getCommandStatus()`. A command that calls `getenv` reaches
`libc_getenv`, which consults `environment[current_pid]`.

All of this shared state is plain global arrays and integers, with no lock.
Two identities are global: "the current pid" and "the last command's status".

### What is hard

- **Interleavings of sessions.** Binding, environment lookup and
  environment install all use the global `current_pid`. Another session's
  fork in between redirects them.
- **Pid recycling.** After 127 forks the allocator recycles slots that read 0,
  and it does not mark them -1.
- **Sentinels.** -1 and 0 have to be told apart by bind, wait and allocation.
- **Status encoding.** `W_EXITCODE`/`WEXITSTATUS` keep 8 bits, and 255 aborts
  xargs.
- **Launch failure.** It must release the pid, or the wait spins on -1.
- **Exhaustion.** The allocator spins forever when no slot is free.
- **Name matching.** `libc_getenv` compares by the entry's length, and
  printenv compares by the argument's length and then checks the terminator.
- **Shared statics in curl's trace callback.** `newl`, `traced_data` and
  the time cache of `hms_for_sec` are process-wide, but every curl runs in
  its own session thread with its own streams.
- **The emulated alarm of the progress meter.** On iOS `alarm()` does
  nothing, so a refresh draws only when more than a second has passed since
  the last draw. The stall count is summed over draws and truncated to whole
  seconds.
- **Value sentinels in readconf.** Every option starts at -1 or NULL ("not
  set"), and first-value-wins tests that sentinel. A value that parses to -1
  is then indistinguishable from "not set".

### What makes each component correct

- Allocator. No two live processes share a pid. A pid is reused only after
  its occupant is reaped. Each thread is bound to its own pid's slot.
- Environment store. A command sees exactly its own overlay, falling back to
  the process-wide value for names the overlay does not bind.
- Wait. `waitpid(pid)` returns only after that pid's command has returned, and
  with that command's status. It returns at all once the command returns.
- xargs. It never has more than `-P` commands running. Its exit code is 0, 1,
  126 or 127 as `spec.md` section 6 derives from the outcomes. It stops after
  a launch failure or a 255. It terminates.

## 2. Modules

| Module | Models | State ↔ code |
|---|---|---|
| `PidTable` | `libc_replacement.c` pid table and environment array | `thread_ids`, `environment`, `pid_overflow`, `current_pid` are the C statics. Each C function is one operator: `ios_nextAvailablePid(pid)` (the disjuncts `FreshPid` and `RecycledPid`; the recycling scan is the RECURSIVE `ScanReleased`), `ios_storeThreadId`, `storeEnvironment`, `libc_getenv`, `ios_releaseThread`, `ios_releaseThreadId`, `ios_waitpid`. It also holds the `<sys/wait.h>` encoding. |
| `Xargs` | xargs `run()` (iOS build), the command threads, and sessions | Per session: `xpc` is where the xargs thread is in `run()`, and `batch`, `xpid`, `childerr`, `curprocs`, `rval`, `exit_code` are its `__thread` variables. Per launch: `thread_state`, `thread_handle`, `thread_status`, `launch_err`, `env_of` and `seen_env`. `commandStatus` is `ios_getCommandStatus()`. Actions: `XargsFork`, `XargsExec` (with `LaunchStarts` or `LaunchFails`), `XargsWait`, `XargsWaitSpin`, `XargsEof`, `ThreadStart`, `ThreadGetenv`, `ThreadExit`. |
| `MCXargs` | TLC instance of `Xargs` | errno values, statuses `{0, 1, 255, 256}`, overlays named by their launch, symmetry of sessions |
| `XargsInput` | xargs `xargs_main` option processing and `parse_input`/`prerun` (xargs.c 115-584) | `opts` is what `xargs_main` leaves (`nargs`, `nline`, `Lflag`, `xflag`, `zflag`, `pad`, and for `-I` `Iflag`, `Rflag`, `replstr` and the utility's `argv`); `inpline` is the `-I` line being assembled; `mem` is the byte buffer `bbp[0..nline]`, which keeps the bytes of earlier batches; `p`, `argp`, `xp` are offsets from `bbp`/`bxp`; `count` and the quoting flags are `parse_input`'s `__thread` statics; `eofstr` and `pad9314053` are plain statics. One action per `switch` arm of `parse_input` (`ReadEof`, `ReadBlank`, `ReadNul`, `ReadNewline`, `ReadQuote`, `ReadBackslash`, `ReadOther`); `EndOfArg` is the `arg2:` block with its `prerun` call, `AddCh` the `addch:` block with the carry-over `memmove`. `MainChecks` are the tests after `getopt`; `prerun` runs the read arguments or, under `-I`, the utility's own arguments with `replstr` replaced by `Substitute` and `strnsubst` (FreeBSD's strnsubst.c, which is not in the repository, with its 255-byte limit as the constant `MaxSubst`), then frees `inpline`. `OtherXargsMain` is another session's `xargs_main` writing the two shared statics. `Lex`, `ExpectedArgs` and `PackFrom` are the reference tokenizer and packer of xargs(1); `LexLines`, `Groups` and `Replaced` are its reference for `-L` and `-I` lines. |
| `MCXargsInput` | TLC instance of `XargsInput` | families of command lines and inputs over `{a, b, blank, tab, newline, quotes, backslash, NUL}` |
| `Readconf` | `readconf.c`: `read_config_file_depth`, the Host, Match, Include, User/Hostname and IdentityFile cases of `process_config_line_depth`, `match_cfg_line`, and `execute_in_shell` on iOS, over `PidTable` | `stack` holds the `read_config_file_depth` frames (file, lines read, `depth`, `flags`, `bad_options`, and the Include loop's remaining paths and `oactive`); `activep` is the int all frames point to; `opts` holds the fields of `struct Options` that the modelled cases set; `mt` is the `match_cfg_line` call in progress (`result`, `attributes`, the word index, the fixed `host` and `ruser`, and where `execute_in_shell` is); `epid` is its pid. One action per line kind (`IgnoreLine`, `ParseString`, `IdentityFile`, `HostLine`, `MatchLine`, `IncludeLine`), `IncludeFile` and `EndOfFile` for entering and leaving a file, `MatchStep` per turn of `match_cfg_line`'s loop, and `ExecFork1`, `ExecLaunch`, `ExecFork2`, `ExecWait`, `ExecWaitSpin` for `execute_in_shell`. Value parsing has one action per kind of value: `ParseMultistate` (ForwardX11, StrictHostKeyChecking, with their tables), `ParseTime` (ConnectTimeout, through `convtime`), `Port` (`a2port`), `ParseInt` (ConnectionAttempts), `ParseCharArray` (UserKnownHostsFile), `ParseCommand` (ProxyCommand) and `ProxyJump` (`parse_jump`). `SendEnv` and `SetEnv` are the list options: their loops `SendEnvLoop` and `SetEnvLoop` take one word per turn, and `rm_env` is the C loop that deletes the names a `-pattern` matches from `send_env` in place. Which words contain `=` or start with `-` is given by the constants `EnvAssignments` and `EnvRemovals`. `ForwardLine` is the LocalForward/RemoteForward/DynamicForward case. Its words are strings, read one character at a time by `parse_fwd_field` (with `FieldScan`: brackets, backslash escapes, `/` for paths) and `parse_forward` (`FwdFields`, then the field-count cases and the checks). `add_forward` is `add_local_forward`/`add_remote_forward` with their duplicate check. ClearAllForwardings is a `parse_flag` option, and `fill_default_options` calls `clear_forwardings` when it is set. `EscapeChar` (`EscapeValue`, with `Ord` for the `(u_char)` casts), `ControlPersist` (`ControlPersistValue`, and `ControlPersistSet`, which stores the value and its timeout together), `ForwardAgent` and `IdentityAgent` (both through `AgentPath`, `parse_agent_path`, which checks a `$NAME` word with `valid_env_name`), `TunnelDevice` and `IPQoS` are the remaining value cases. `a2tun` and `parse_ipqos` (misc.c, not in this repository) are lookups in the constant tables `TunIds` and `QoS`. `FillDefaults` is `fill_default_options` once the read is over. The command thread (`ThreadStart`, `ThreadExit`) is spec-modelled as in `Xargs`. `Reference` is a recursive reading of the configuration by ssh_config(5); `RefOptions` gives the options it implies, with their defaults. |
| `MCReadconf` | TLC instance of `Readconf` | families of configurations over the files `cfg`, `inc`, `perm` and `deep` |
| `ProgressMeter` | `progressmeter.c` in its iOS build: `start_progress_meter`, `refresh_progress_meter`, `sig_winch`, `setscreensize`, `stop_progress_meter` | The meter's `__thread` statics are variables of the same names. `Refresh(m, force, c)` is `refresh_progress_meter` as a function of the meter record; it returns the new record and the line drawn (the counter shown, the percent, and which ETA field is written). `Start`, `Call` (a `refresh_progress_meter(0)` from the transfer loop), `Winch`, `Stop`; `Transfer` and `Tick` are the caller and the clock. `shown`, `drew` and `lastByte` are history for the properties. |
| `EnvLookup` | name matching of `libc_getenv` and of `printenv NAME` | The state is one lookup (`envp`, `name`). `ScanGetenv` and `ScanPrintenv` are the C loops. `FirstExact` is the reference lookup of `spec.md` 4.2. printenv's exactness, `PrintenvAsSpecified`, is a statement about constants only, so it is an `ASSUME` that TLC checks over every environment of ≤ 2 entries whenever a model of `EnvLookup` starts. |
| `CurlTrace` | `tool_cb_dbg.c`: `tool_debug_cb`, `hms_for_sec`, `log_line_start`, `dump` | Per session: `cfg` (tracetype, isatty, trace file, `--trace-time`), `trace_stream`, the events to come (`rest`), the tokens each of its streams received (`out`). Shared: `newl`, `traced_data` (the TRACE_PLAIN statics), `cached_tv_sec`, `hms_buf`, `known_epoch`, and the clock `now`. `Stamp` is `tvnow()` with `hms_for_sec`; `Emit` is the rest of the callback: `CallStream` is the opening of the trace stream, with `fopen`'s outcome chosen again on every call while `trace_stream` is NULL; `EmitTo` is the copy of the stamp, then `PlainStep` (the TRACE_PLAIN switch, with `HeaderOutLoop` for the line loop of CURLINFO_HEADER_OUT) or `OtherStep` (the Info line, or `dump`, whose rows are the RECURSIVE `DumpFrom` and `DumpRow`). `RefDump` is the reference layout of `--trace`/`--trace-ascii`. |
| `MCCurlTrace` | TLC instance of `CurlTrace` | the trace configurations, the -v event sequences, and every dump of ≤ 5 bytes over `a`, `u`, CR, LF |

Abstractions:

- Each C function is atomic. There is no lock in the code, so this
  under-approximates the interleavings. Races inside a function are the next
  step of the plan, `PidTableRaces`.
- A session's standard input is abstracted to a sequence of batches that may
  end at any batch boundary. One batch is one `run()`.
- When no slot is free, `ios_nextAvailablePid` is modelled as not enabled.
  The C loop spins and moves `current_pid` while doing so; that movement is
  not modelled.
- A command's outcome is chosen when it exits. The outcome is a status from a
  small set that includes 255 (abort) and 256 (truncated to 0), or an errno
  of `execvp`: ENOENT leads to exit 127, EACCES to 126.
- An overlay is named by the launch that installs it, and names are not
  strings. `EnvLookup` models the byte comparison separately, over names of
  length at most 2 over a two-letter alphabet. That is enough to contain
  every prefix relation between two names.

Fairness. Every thread is scheduled preemptively by iOS, so each xargs step
and each command-thread step is weakly fair. A command's return
(`ThreadExit`) is weakly fair. That is an assumption about the commands,
since the code has no cancellation. `getenv` calls and the spin step of
`ios_waitpid` are not fair.

In `Readconf`, the reading thread's steps (`ReadStep`: every action except
the spin of `waitpid`) and the command thread's two steps are weakly fair,
for the same reasons.

`ProgressMeter` has no fairness: the caller decides when to refresh and when
to stop, and only safety is checked. Its last state (`Over`, the meter
stopped at `MaxTime`) stutters, so there is no deadlock.

`CurlTrace` has no fairness either. Only safety is checked, and its last
state (`Done`) stutters.

Refinement. An earlier version mapped every launch to a logical process of
an abstract process table (allocate, bind, terminate, reap) and checked
`Xargs` against it. Below the wrap, with one session, it could not fail
except where `WaitReturnsOwnStatus` already fails, and above the wrap or with
two sessions it fails by findings 1 and 2. It was removed.

## 3. Runs

| Run | Config | Expect | Checks | Shows |
|---|---|---|---|---|
| `xargs_sequential` | `MCXargs_seq.cfg`: 1 session, 3 batches, IOS_MAX_THREADS = 5 | pass (49k states) | `ExitCodeMatchesOutcomes`, `RunnerCeiling`, `EnvIsolation`, `WaitReturnsOwnStatus`, `Termination` | With one session and no wrap, the -1/0 protocol between fork, bind, release and wait is right. The exit code follows the outcomes, including 256 → success and 255 → abort. |
| `xargs_recycled` | `MCXargs_recycle.cfg`: 1 session, 3 batches, IOS_MAX_THREADS = 3 | pass (70k states) | `Termination` | After the wrap the third fork recycles a pid whose thread never binds, and xargs still ends: the recycling scan finds a slot and the wait does not spin. Three batches allow one fork after the wrap; four take the liveness check past five minutes. |
| `recycled_pid_wait` | `MCXargs_recycle_wait.cfg` | violation | `WaitReturnsOwnStatus` | Finding 1: after the wrap, a wait returns before its command has run. |
| `two_sessions_hang` | `MCXargs_two_hang.cfg`: 2 sessions, 1 batch each | violation | `Termination` | Finding 2: a thread binds to the other session's pid, and a session spins in `waitpid` forever. |
| `getenv_prefix` | `EnvLookup_getenv.cfg` | violation | `GetenvAsSpecified` | Finding 4: overlay `a=v1` answers a lookup of `aa`. |
| `xargs_input` | `MCXargsInput.cfg`: `-n 2 -s 5`, `-s 4`, `-L 1 -s 5`, `-E b -s 7`, `-n 1 -s 5` over every newline-terminated input of ≤ 4 bytes; `-0 -s 4` and `-0 -n 1 -s 7` over every input of 5 bytes with NUL; `-s 9` over unterminated inputs with another session's `xargs_main`; `-L 1 -s 9` and `-L 2 -s 9` over inputs of ≤ 4 bytes of `a`, `b`, blank, newline and `'`; `-I b -s 16` with and without `-R 1`, for the utility `a b abb b`, over the same inputs without `'` | pass (75k states) | `ArgsAsSpecified`, `BatchesAsSpecified`, `LinesAsSpecified` | Arguments come out as xargs(1) tokenizes them, through quotes, backslashes, NUL separators and the carry-over of a partial argument into the next buffer; lists are packed as `-n` and `-s` ask. Under `-L` and `-I` one command runs per counted line, with continuation lines (a trailing space) joined and empty lines skipped. Under `-I` the line replaces `b` in at most `-R` arguments, and a result too long for `strnsubst` is cut. |
| `readconf_config` | `MCReadconf.cfg`: ≤ 3 lines of Host, Match, Include, User and IdentityFile in `cfg` with a second file of 7 kinds; every Match line of ≤ 3 words; ≤ 4 IdentityFile lines; six Match exec lines; first and final pass; every sequence of ≤ 3 value lines (24 kinds: ForwardX11, StrictHostKeyChecking, ConnectTimeout, Port, ConnectionAttempts, UserKnownHostsFile, ProxyCommand, ProxyJump, good and bad, in and out of a Host block); every sequence of ≤ 3 SendEnv and SetEnv lines (11 kinds: adding, duplicate names, `-name` and `-*` removals, a word with or without `=`, an empty SetEnv, in and out of a Host block); every sequence of ≤ 3 forwarding lines (15 kinds: each listener and target form, port 0 local and remote, a missing target, a third word, ClearAllForwardings yes and no); every sequence of ≤ 3 EscapeChar and ControlPersist lines (10 kinds: none, `^c`, one character, `^1` and two characters; yes, a time and a bad word); every sequence of ≤ 3 ForwardAgent, IdentityAgent, TunnelDevice and IPQoS lines (14 kinds: a flag, a path, a good and a bad `$NAME`, a missing agent, `1:2`, `any` and a bad tun device, one, two and a bad DSCP word), except those where a later line overrides an earlier one (hazards at readconf.c:1761, 1869 and 2065); `MaxDepth` = 2, 3 identity files | pass (184k states) | `ConfigAsSpecified`, `PidsLeakedPerExec` | The stack of included files, the restoring of `*activep`, parse-only includes, first-value-wins options, the syntax and value of Match, and the exec result all give the options ssh_config(5) describes, and the read dies exactly when the configuration is bad. After `fill_default_options`, every modelled option has the value ssh_config(5) gives it, including the defaults and the exclusion between ProxyCommand and ProxyJump. SendEnv names accumulate over every applying line and a `-pattern` removes every name listed before it that it matches. SetEnv takes the list of the first applying line that has one. Every forwarding whose words have one of ssh_config(5)'s forms (`[bind_address:]port` with a bracketed address, a path, `host:hostport`, SOCKS without a target) is listed once, and ClearAllForwardings yes empties both lists. EscapeChar, ControlPersist (with its timeout), the agent sockets, the tun devices and the IPQoS codes take the first applying value, or their defaults. Outside `execute_in_shell`, the pid slots at -1 are exactly one per Match exec that returned: the pid of the first `ios_fork`, which no thread binds. `execs` is a history variable that counts the returned calls. |
| `readconf_exec_hang` | `MCReadconf_exec.cfg`: the Match exec lines | violation | `Termination` | Finding 7: `execute_in_shell` waits on a pid that no thread binds. |
| `xargs_input_stale_eofstr` | `MCXargsInput_eof.cfg`: `-n 1 -E a` | violation | `ArgsAsSpecified` | Finding 5: the end-of-file string is compared with an unterminated argument. |
| `progress_meter` | `MCProgressMeter.cfg`: 3 bytes in chunks of ≤ 2, 2 ticks a second for 8 seconds, terminal or not | pass (553k states) | `StallReportSound`, `StopShowsFinalCount` | The emulated alarm, the stall count and the final refresh: "stalled" is drawn only after `STALL_TIME` seconds without a byte, and the last line on a terminal shows the final count. |
| `curl_trace` | `MCCurlTrace.cfg`: one session; -v on a terminal or not, with or without `--trace-time`, over ≤ 3 events; `--trace`/`--trace-ascii` to stdout, stderr or a file (each `fopen` may fail) over one event of ≤ 5 bytes or up to three short events; dump width 2 | pass (116k states) | `LinesStartMarked`, `OneNotePerDataRun`, `TraceAsSpecified` | For one session the statics track its own trace: every -v line starts with its marker and each run of data events gets one note. A dump trace holds every event once, in order, with the documented rows. It goes to stderr while `fopen` fails and to the file from the call that opens it. |
| `xargs_input_x` | `MCXargsInput_x.cfg`: `-n 2 -x -s 9` | violation | `BatchesAsSpecified` | Finding 6: `-x` runs a command at every separator. |

Why the bounds are enough:

- Three batches let a session run a command after a success, a failure and a
  launch failure. They also reach both sides of every status check.
- IOS_MAX_THREADS = 3 leaves two pids. The third fork is therefore the first
  one over the limit (`current_pid = 0`, scan from 1), and a later one would
  continue the scan.
- Two sessions with one batch each are the smallest case where a fork can
  fall between another session's fork and its thread's bind.
- Two handles allow a handle to be reused by a later thread.
- For `Readconf`, `MaxDepth` = 2 with `inc` including itself, `perm`
  or `deep` reaches both a file read at exactly the maximum depth and one
  beyond it. Three identity files with four `IdentityFile` lines reach the
  limit. Six forks fit in `MaxThreads` = 6 without a wrap, so a wait never
  sees a recycled slot. Wrapping is `xargs_recycled`'s subject.
- For `XargsInput`, `-s 4` and `-s 5` with a one-byte utility name leave a
  buffer of 3 or 4 bytes. Inputs of four bytes therefore fill it, so an
  argument is carried over, and with `-n 2` a list closes on the count. Every
  byte class appears in every position, so each `switch` arm meets each state of
  the quoting flags. For `-L` and `-I`, four bytes hold two short lines, a
  continuation and an empty line. `MaxSubst` = 5 with the argument `abb` makes
  some replacements fit and others reach strnsubst's cut.
- For `ProgressMeter`, 8 seconds exceed `STALL_TIME` (5) plus the start, and
  two ticks a second make elapsed times that are not whole seconds, which
  is where truncation matters. Three bytes in chunks of one or two give a
  transfer that ends early, late, or not before the stop.
- For `CurlTrace`, a dump width of 2 with five bytes gives rows that are
  full, rows cut short by a CR LF, a CR LF at a row's end, a CR LF at the end
  of the data, and a padded last row. Every placement of CR, LF and the two
  glyph kinds is enumerated. Three -v events reach an unterminated text
  followed by a header, a header split by the line loop, and data runs of
  one and two events between other events. Two seconds give one cache
  change of `hms_for_sec`. Three dump events, each with `fopen` free to
  fail, give a trace that starts in stderr and moves to the file after
  one or two failures.
- For the readconf values, three lines allow a value before and after a
  Host block that does not apply, and two values of one keyword, or
  ProxyCommand and ProxyJump in either order. For SendEnv, three lines
  reach a duplicate name removed by `-LANG` and an add, remove, add order.
  For forwarding, three lines reach a repeated forwarding, ClearAllForwardings
  before and after forwardings, and a forwarding in a block that does not
  apply. For the other value options, three lines reach a value in and out
  of a block that does not apply, two values of one option (the first is
  kept), and a bad value after a good one.

Every property has a mutant in `PROJECT.json`. A mutant is a plausible bug in
the mapped code, and TLC finds it under the run's own cfg. The mutants are:

- `WEXITSTATUS` without the `& 0xff` mask.
- A fresh slot marked 0 instead of -1. It is checked against `RunnerCeiling`. It is also checked against `PidsLeakedPerExec`, where the leaked slot then reads 0.
- `storeEnvironment` dropped.
- `ios_waitpid` testing "started" instead of "finished".
- `ios_releaseThread` not zeroing the slot.
- The carry-over `memmove` moving one byte too few.
- `ebp` set to `bbp + nline` instead of `- 1`.
- A blank not terminating the argument (`*p++ = '\0'` dropped).
- `nline` not reduced by the utility's name.
- A double quote toggling `insingle`.
- `*activep` not restored after an included file.
- The Include depth test written with `>=`.
- `parse_jump` accepting the hop when ProxyCommand is already set.
- `rm_env` advancing its index after a removal.
- `add_local_forward` without its duplicate check.
- ControlPersist storing its value without the timeout.
- `prerun` keeping `inpline` after a run, so the next line's replacement carries the previous one.
- The stall count not reset by a draw with progress.
- The line start after `CURLINFO_HEADER_OUT`'s last LF dropped.
- `CURLINFO_HEADER_OUT` not clearing `traced_data`.
- `dump`'s second CR LF test advancing `i` one byte too few.
- `tool_debug_cb` writing to `trace_stream` as it was before the call's `fopen`, so the event whose `fopen` succeeds goes to stderr.
- `hms_for_sec` recomputing its buffer only on the first call.
- The final refresh of `stop_progress_meter` not forced.

## 4. Findings

1. `libc_replacement.c:149`. The recycling path of `ios_nextAvailablePid`
   returns a slot that still reads 0. The thread's bind is therefore skipped,
   and `waitpid` returns at once with the previous command's status. From the
   128th command of an app run on, `xargs -n1` no longer waits for its
   commands.
2. `libc_replacement.c:165`. `ios_storeThreadId` binds to the global
   `current_pid`. Two sessions that fork concurrently misbind a thread: one
   session hangs in `waitpid`, and the other returns early.
3. `libc_replacement.c:177`. `libc_getenv` reads the overlay of the
   last-forked pid, not the caller's. This is the same misuse of the global
   `current_pid` as finding 2. It is kept as a hazard rather than a run of its own.
4. `libc_replacement.c:182`. `libc_getenv` matches by prefix: `FOO=bar`
   answers `getenv("FOOBAR")`.

5. `xargs.c:373`. `foundeof` runs `strcmp(argp, eofstr)` on an argument that
   is not terminated yet. The comparison reads the bytes an earlier batch left
   in the buffer. `printf 'aa a' | xargs -n1 -E a` runs `a`, even though `a` is
   the end-of-file string.
6. `xargs.c:434`. `Lflag <= count && xflag` holds whenever `-x` is given
   without `-L`. `xargs -n 2 -x` therefore runs a command at every blank or
   newline, including commands with no argument.

7. `readconf.c:550`. On iOS, `execute_in_shell` calls `ios_fork()`, then
   `execv(cmd)` (which starts the command thread), then `ios_fork()` again. It
   waits on the pid of the second fork. A command thread that starts before the
   second fork binds the first pid. The second pid's slot then stays -1, and
   ssh spins in `waitpid` forever. The same happens when `execv` starts no
   thread. When the thread binds the second pid instead, the first pid's slot
   stays -1 and is never recycled.

Other disagreements met while modelling are listed as hazards, not runs.
(a) The end-of-input branch reports an open quote only when
`argp != p || wasquoted`. Input made only of an open quote exits 0.
(b) `eofstr` is a plain static. Another session's `xargs` replaces it mid-run.
(c) Once `SSH_MAX_IDENTITY_FILES` files are listed, `IdentityFile` repeating a
listed file is a bad option (readconf.c:1179 tests the count before
`add_identity_file` drops duplicates). `ConfigAsSpecified` under
`Setups <- MC_DupSetups` shows it.
(d) `ConnectTimeout none` stores -1 (readconf.c:1003), the value that means
"not set". A later `ConnectTimeout` line therefore takes effect, against
first-value-wins. `ConfigAsSpecified` under `Setups <- MC_NoneSetups` shows it.
(e) With a total of 0 bytes, `refresh_progress_meter` counts the whole
transfer as progress on every draw but still adds elapsed time to the stall
count when there is none (progressmeter.c:167). With `FileSize = 0` in
`MCProgressMeter.cfg`, TLC reports `StallReportSound` violated.
(f) The stall count is a `long` summed from elapsed doubles (progressmeter.c:215).
Each draw truncates, so with several draws per second a stall is reported
later than `STALL_TIME`, or never.
(g) curl's trace callback keeps `newl`, `traced_data` and the `hms_for_sec`
buffer in process-wide statics (tool_cb_dbg.c:139, :112). Two curl sessions
with -v, each writing to its own `thread_stderr`, therefore share them. TLC
checks `MCCurlTrace` with `Sessions = {s1, s2}`, `Configs <- MC_PlainConfigs`
and `PlainInputs <- MC_TwoInputs`. It reports `LinesStartMarked`,
`OneNotePerDataRun` and, with `--trace-time`, `TimestampsCurrent` violated:
a line without its marker after the other session's unterminated text, a run
of data with no note, and a stamp showing the other session's second.
`TimestampsCurrent` is left out of `curl_trace`: for one session `hms_buf`
and `cached_tv_sec` are always set together, so it would only restate
`hms_for_sec`.
(h) LocalForward and RemoteForward join their two words as `"%s:%s"` and
`parse_forward` splits the result again (readconf.c:1484). A listener and a
target that ssh_config(5)'s forms reject can therefore make a valid
forwarding together: `LocalForward 1:h 1` is listener 1 and target h:1.
`DynamicForward 1:` is read as port 1. `ConfigAsSpecified` under
`Setups <- MC_FwdJoinSetups` shows both.
(i) TunnelDevice and IPQoS store their values whenever the line applies
(readconf.c:1761, 1869), so the last applying line wins, not the first.
`ForwardAgent yes` followed by `ForwardAgent /path` sets the socket path too
(readconf.c:2065): parse_agent_path tests only the path for NULL.
`ConfigAsSpecified` under `Setups <- MC_LastWinsSetups` shows all three.
(k) After the wrap, `EnvIsolation` fails with one session. Under
`MCXargs_recycle.cfg` with `NBatches = 4` and `INVARIANT EnvIsolation`, the
recycled pid's thread never binds, so `waitpid` returns at once. The fourth
fork then moves `current_pid` while the third command runs, and its `getenv`
reads the fourth launch's slot. The recycled pid's overlay is also never
reset, because `ios_releaseThread` finds no slot holding the unbound thread.
Both follow from finding 1.
(j) Under `-I` an empty argument adds nothing to `inpline`, and the next
argument is appended without a space (xargs.c:405, by its comment), so the
line `'' b` replaces `replstr` with `b`, not ` b`. A line holding only a tab
is counted (`last_was_blank` is set by a space only, xargs.c:335), so `-L 1`
runs the utility with no arguments for it. `LinesAsSpecified` is violated
by both; `MCXargsInput` leaves quotes out of the `-I` inputs and tabs out of
the line inputs.

The hazards in `PROJECT.json` list what else the code is exposed to, and which
property covers each one.

## 5. Plan

The order is by importance to the system's core behaviour. Steps 1–3 came
first, then 4 (its `-I` path later) and 5, then the value parsing of 5, 7
and 10.

1. **PidTable + Xargs (done).** Pid allocation, bind, release, wait, and
   xargs `run()` with status aggregation. Runs for one session, for the wrap,
   and for two sessions.
2. **EnvLookup (done).** Name matching of `libc_getenv` and printenv.
3. **Findings 1–4 (done).**
4. **XargsInput (done, except `-J` and the refinement).** `parse_input` and `prerun` as a module over a small
   alphabet of input characters (blank, newline, quote, backslash, letter,
   EOF). It covers the `-n`, `-L`, `-s` buffer limits with the carry-over at
   xargs.c:474-496, `-E eofstr`, `-0` and `-I` line assembly. Properties: every
   non-empty unquoted token reaches exactly one batch, in order; no batch
   exceeds `-n`; `-x` aborts rather than splitting. A refinement check will
   show that `Xargs`' abstract "one batch per run()" is implemented by
   `XargsInput`'s batch stream (INSTANCE ... WITH).
5. **Readconf (done).** Reading with Host, Match and Include, and
   `execute_in_shell` as a client of `PidTable` (finding 7). Later work
   added the value parsers (multistate, time, port, int, char array,
   command, ProxyJump), SendEnv and SetEnv, forwardings, EscapeChar,
   ControlPersist, the agent sockets, TunnelDevice, IPQoS, and `fill_default_options`. Still open:
   other sessions forking during a Match exec.
6. **PidTableRaces.** `ios_nextAvailablePid` and `ios_storeThreadId` split
   into their loads and stores. It adds the spinning allocator, which moves
   `current_pid`. Properties: no duplicate live pids, and `Termination` at
   exhaustion.
7. **Abstract process table (dropped).** A refinement of an abstract
   allocate/bind/terminate/reap table was checked for one session below the
   wrap, where only what `WaitReturnsOwnStatus` says could break it. A
   meaningful version needs `PidTableRaces` (6).
8. **Wait variants.** `waitpid(-1)`/WNOHANG, where `ios_getLastThreadId`
   is spec-modelled. The `waitchildren` loop is not a target. In the iOS
   build it returns at once (xargs.c:684). Other builds use the system's
   `waitpid`, not the replacement.
9. **CurlTrace (done).** `tool_debug_cb`, `hms_for_sec` and `dump`. The run
   has one session, and the two-session violations are in (g) above. The run
   budget leaves no room for them.
10. **ProgressMeter (done, without the text layout).** The refresh, emulated
    alarm, resize and stop of progressmeter.c. Open: a liveness property
    that a stall is eventually reported, which the truncation (f) breaks.

## 6. Not modelled

- xargs `-J` (the `jfound` copy of the utility's arguments after the read
  ones), `-o`, `-p` and `-t` (prompting on and tracing to the terminal),
  and `-P`, which is parsed but, on iOS, `run()` waits for each command.
  `strnsubst` is not in the repository; `XargsInput` follows FreeBSD's.
- The stdio wrappers only pick a stream.
- The characters of curl's trace: the HH:MM:SS text, the hex digits and
  the `%04zx` offsets are tokens that carry their value. The dump is
  checked with a width of 2 bytes. In the code the width is 16 (`--trace`)
  or 64 (`--trace-ascii`), and the loop uses it only in comparisons and in
  `i` arithmetic. The default arm of the TRACE_PLAIN switch is left out, since
  libcurl passes only the seven trace types. Events of size 0 are left out
  for the same reason.
- The formatting of the progress bar and of readconf's dump.
- readconf's other keywords. Each is a first-value-wins assignment through
  one of the modelled value parsers (string, multistate, time, int, char
  array, command) into another field. The `${...}` form of an agent socket
  is not modelled: `dollar_expand` (misc.c) looks up the environment. Nor is
  `^` followed by a non-letter of code 64..127 (`^[` gives 27), which the code
  accepts and ssh_config(5) does not name. The config dump is
  formatting. `fill_default_options` is modelled for the modelled options only.
- The progress meter's line layout (`format_rate`, `format_size`, the
  padding into a 512-byte buffer) and its float arithmetic below one unit.
- `$SHELL` and its `access()`
  check in `execute_in_shell` are not modelled: on iOS the shell is never run.
- Percent expansion of Hostname and of the exec command, and `match_pattern`'s
  wildcards. A pattern is a host name or `*`, and a pattern list has one
  element.
