------------------------------- MODULE Xargs --------------------------------
(***************************************************************************)
(* xargs (src/shell_cmds/xargs/xargs.c, iOS build) running commands        *)
(* through the fake process table of PidTable.                             *)
(*                                                                         *)
(* Actors:                                                                 *)
(*  - Sessions: concurrent xargs invocations (one per shell session), each *)
(*    a thread running run() once per batch of arguments: ios_fork(),      *)
(*    execvp(), then waitpid(pid, &status, 0) and the status checks.       *)
(*  - Launches: the command threads started by execvp.  Their life cycle   *)
(*    (bind as first action, record status and release the slot on        *)
(*    return, release of the pid when no thread could start) lives in      *)
(*    ios_system.m, which is not part of this repository; it is modelled   *)
(*    from the specification (section 4.3).                                *)
(* The parsing of standard input into batches is abstracted: each run()    *)
(* call is one batch, and the input may end at any batch boundary.         *)
(***************************************************************************)
EXTENDS PidTable, FiniteSets

CONSTANTS
  Sessions,     \* concurrent xargs invocations
  NBatches,     \* bound on the batches one invocation reads from its input
  Statuses,     \* values a command's main may return
  ExecErrors,   \* errno values execvp may report when nothing is started
  ENOENT,       \* errno "no such file": xargs exits 127, otherwise 126
  MaxProcs,     \* the -P ceiling (default 1)
  Unread        \* seen_env of a command that never called getenv

ASSUME NBatches \in Nat \ {0}
ASSUME Statuses \subseteq Int /\ 0 \in Statuses
ASSUME ExecErrors \subseteq Nat \ {0} /\ ENOENT \in ExecErrors
ASSUME MaxProcs \in Nat \ {0}

Launches == Sessions \X (1..NBatches)
LaunchesOf(s) == {l \in Launches : l[1] = s}

VARIABLES
  \* command threads (ios_system.m, from the specification)
  thread_state,   \* "none", "starting", "running" or "done"
  thread_handle,  \* its pthread_t, 0 before it exists
  thread_status,  \* what its main returned
  launch_err,     \* errno of a launch that started no thread, else 0
  env_of,         \* the overlay the launch installed, or NoEnv
  seen_env,       \* the overlay its last getenv consulted
  commandStatus,  \* ios_getCommandStatus(): status of the last command
  \* xargs, per session (its __thread variables)
  xpc,            \* "run", "exec", "wait" or "exited"
  batch,          \* number of run() calls so far
  xpid,           \* pid of the current run()
  childerr, curprocs, rval,
  exit_code,      \* argument of the exit() that ended xargs
  wstatus         \* status filled in by the last waitpid

threadvars == <<thread_state, thread_handle, thread_status, launch_err,
                env_of, seen_env, commandStatus>>
xvars == <<xpc, batch, xpid, childerr, curprocs, rval, exit_code, wstatus>>
vars == <<pidvars, threadvars, xvars>>

Live(l) == thread_state[l] \in {"starting", "running"}
LiveHandles == {thread_handle[l] : l \in {m \in Launches : Live(m)}}

TypeOK ==
  /\ PidTypeOK
  /\ thread_state \in [Launches -> {"none", "starting", "running", "done"}]
  /\ thread_handle \in [Launches -> Handles \cup {0}]
  /\ thread_status \in [Launches -> Statuses]
  /\ launch_err \in [Launches -> ExecErrors \cup {0}]
  /\ env_of \in [Launches -> Overlays \cup {NoEnv}]
  /\ seen_env \in [Launches -> Overlays \cup {NoEnv, Unread}]
  /\ commandStatus \in Statuses
  /\ xpc \in [Sessions -> {"run", "exec", "wait", "exited"}]
  /\ batch \in [Sessions -> 0..NBatches]
  /\ xpid \in [Sessions -> Slots]
  /\ curprocs \in [Sessions -> 0..1]
  /\ rval \in [Sessions -> {0, 1}]

Init ==
  /\ PidInit
  /\ thread_state = [l \in Launches |-> "none"]
  /\ thread_handle = [l \in Launches |-> 0]
  /\ thread_status = [l \in Launches |-> 0]
  /\ launch_err = [l \in Launches |-> 0]
  /\ env_of = [l \in Launches |-> NoEnv]
  /\ seen_env = [l \in Launches |-> Unread]
  /\ commandStatus = 0
  /\ xpc = [s \in Sessions |-> "run"]
  /\ batch = [s \in Sessions |-> 0]
  /\ xpid = [s \in Sessions |-> 0]
  /\ childerr = [s \in Sessions |-> 0]
  /\ curprocs = [s \in Sessions |-> 0]
  /\ rval = [s \in Sessions |-> 0]
  /\ exit_code = [s \in Sessions |-> 0]
  /\ wstatus = [s \in Sessions |-> 0]

Current(s) == <<s, batch[s]>>

Exit(s, code) ==
  /\ xpc' = [xpc EXCEPT ![s] = "exited"]
  /\ exit_code' = [exit_code EXCEPT ![s] = code]

-----------------------------------------------------------------------------
(* xargs: run(), from "childerr = 0" through ios_fork().                   *)
XargsFork(s) ==
  /\ xpc[s] = "run"
  /\ batch[s] < NBatches
  /\ LET pid == NextPid
     IN  /\ ios_nextAvailablePid(pid)
         /\ xpid' = [xpid EXCEPT ![s] = pid]
  /\ childerr' = [childerr EXCEPT ![s] = 0]
  /\ batch' = [batch EXCEPT ![s] = @ + 1]
  /\ xpc' = [xpc EXCEPT ![s] = "exec"]
  /\ UNCHANGED <<threadvars, curprocs, rval, exit_code, wstatus>>

(* parse_input: EOF with nothing read since the last exec; waitchildren()  *)
(* returns at once on iOS, then exit(rval).                                *)
XargsEof(s) ==
  /\ xpc[s] = "run"
  /\ Exit(s, rval[s])
  /\ UNCHANGED <<pidvars, threadvars, batch, xpid, childerr, curprocs, rval,
                 wstatus>>

(* run(): childerr = execvp(argv[0], argv); curprocs++.  The launcher      *)
(* either starts a thread (optionally installing an environment overlay    *)
(* with storeEnvironment) or starts none, releases the pid and reports     *)
(* the errno.                                                              *)
LaunchFails(s) ==
  \E e \in ExecErrors :
    /\ ios_releaseThreadId(xpid[s])
    /\ childerr' = [childerr EXCEPT ![s] = e]
    /\ launch_err' = [launch_err EXCEPT ![Current(s)] = e]
    /\ UNCHANGED <<thread_state, thread_handle, thread_status, env_of,
                   seen_env, commandStatus>>

LaunchStarts(s) ==
  \E h \in Handles \ LiveHandles, envp \in {NoEnv, Current(s)} :
    /\ IF envp = NoEnv THEN UNCHANGED pidvars ELSE storeEnvironment(envp)
    /\ thread_state' = [thread_state EXCEPT ![Current(s)] = "starting"]
    /\ thread_handle' = [thread_handle EXCEPT ![Current(s)] = h]
    /\ env_of' = [env_of EXCEPT ![Current(s)] = envp]
    /\ UNCHANGED <<thread_status, launch_err, seen_env, commandStatus,
                   childerr>>

XargsExec(s) ==
  /\ xpc[s] = "exec"
  /\ LaunchFails(s) \/ LaunchStarts(s)
  /\ curprocs' = [curprocs EXCEPT ![s] = @ + 1]
  /\ xpc' = [xpc EXCEPT ![s] = "wait"]
  /\ UNCHANGED <<batch, xpid, rval, exit_code, wstatus>>

(* run(): waitpid(pid, &status, 0); curprocs--; then the checks in order:  *)
(* childerr -> err(127 or 126); signalled or 255 -> exit(1); non-zero      *)
(* -> rval = 1.  After the last batch parse_input exits with rval.         *)
XargsWait(s) ==
  LET st == W_EXITCODE(commandStatus, 0)
      r  == IF WEXITSTATUS(st) # 0 THEN 1 ELSE rval[s]
  IN
  /\ xpc[s] = "wait"
  /\ ios_waitpid(xpid[s])
  /\ wstatus' = [wstatus EXCEPT ![s] = st]
  /\ curprocs' = [curprocs EXCEPT ![s] = @ - 1]
  /\ \/ /\ childerr[s] # 0
        /\ Exit(s, IF childerr[s] = ENOENT THEN 127 ELSE 126)
        /\ UNCHANGED rval
     \/ /\ childerr[s] = 0
        /\ WIFSIGNALED(st) \/ WEXITSTATUS(st) = 255
        /\ Exit(s, 1)
        /\ UNCHANGED rval
     \/ /\ childerr[s] = 0
        /\ ~WIFSIGNALED(st) /\ WEXITSTATUS(st) # 255
        /\ rval' = [rval EXCEPT ![s] = r]
        /\ IF batch[s] = NBatches
             THEN Exit(s, r)
             ELSE /\ xpc' = [xpc EXCEPT ![s] = "run"]
                  /\ UNCHANGED exit_code
  /\ UNCHANGED <<pidvars, threadvars, batch, xpid, childerr>>

(* ios_waitpid: one more turn of the busy loop on a slot that is not 0.    *)
XargsWaitSpin(s) ==
  /\ xpc[s] = "wait"
  /\ ~ios_waitpid(xpid[s])
  /\ UNCHANGED vars

-----------------------------------------------------------------------------
(* Command threads.  First action: ios_storeThreadId(pthread_self()).      *)
ThreadStart(l) ==
  /\ thread_state[l] = "starting"
  /\ ios_storeThreadId(thread_handle[l])
  /\ thread_state' = [thread_state EXCEPT ![l] = "running"]
  /\ UNCHANGED <<thread_handle, thread_status, launch_err, env_of, seen_env,
                 commandStatus, xvars>>

(* The command looks up a variable: libc_getenv consults the overlay of    *)
(* environment[current_pid] before the process-wide environment.           *)
ThreadGetenv(l) ==
  /\ thread_state[l] = "running"
  /\ seen_env' = [seen_env EXCEPT ![l] = libc_getenv]
  /\ UNCHANGED <<pidvars, thread_state, thread_handle, thread_status,
                 launch_err, env_of, commandStatus, xvars>>

(* main returns st: the status becomes ios_getCommandStatus() and the      *)
(* thread's slot is released with ios_releaseThread(pthread_self()).       *)
ThreadExit(l) ==
  /\ thread_state[l] = "running"
  /\ \E st \in Statuses :
       /\ thread_status' = [thread_status EXCEPT ![l] = st]
       /\ commandStatus' = st
  /\ ios_releaseThread(thread_handle[l])
  /\ thread_state' = [thread_state EXCEPT ![l] = "done"]
  /\ UNCHANGED <<thread_handle, launch_err, env_of, seen_env, xvars>>

\* every invocation has exited and every command thread has returned
Finished ==
  /\ \A s \in Sessions : xpc[s] = "exited"
  /\ \A l \in Launches : ~Live(l)
  /\ UNCHANGED vars

Next ==
  \/ \E s \in Sessions :
       \/ XargsFork(s) \/ XargsEof(s) \/ XargsExec(s)
       \/ XargsWait(s) \/ XargsWaitSpin(s)
  \/ \E l \in Launches : ThreadStart(l) \/ ThreadGetenv(l) \/ ThreadExit(l)
  \/ Finished

(***************************************************************************)
(* Every thread is scheduled preemptively by the host, so a thread that    *)
(* can take a step eventually does (weak fairness per thread).  Commands   *)
(* are assumed to return (ThreadExit is weakly fair); getenv is optional.  *)
(***************************************************************************)
Fairness ==
  /\ \A s \in Sessions :
       /\ WF_vars(XargsFork(s) \/ XargsEof(s))
       /\ WF_vars(XargsExec(s))
       /\ WF_vars(XargsWait(s))
  /\ \A l \in Launches : WF_vars(ThreadStart(l)) /\ WF_vars(ThreadExit(l))

Spec == Init /\ [][Next]_vars /\ Fairness

-----------------------------------------------------------------------------
(* The exit status POSIX reports for a main that returned r: its low 8     *)
(* bits (exit(-1) reports 255, exit(256) reports 0).                       *)
ExitValue(r) == r % 256

Ran(s) == {<<s, k>> : k \in 1..batch[s]}

\* a launch after which xargs must stop: no thread started, or exit value 255
Aborts(l) == launch_err[l] # 0 \/ ExitValue(thread_status[l]) = 255

(***************************************************************************)
(* The exit code the specification gives an invocation (sections 4.5, 6): *)
(* 127 or 126 when a command could not be launched (127 for "not found"),  *)
(* 1 when a command exited with 255, otherwise 1 if any command exited     *)
(* non-zero and 0 if all succeeded.                                        *)
(***************************************************************************)
ExpectedExit(s) ==
  LET aborted == {l \in Ran(s) : Aborts(l)}
  IN  CASE \E l \in aborted : launch_err[l] = ENOENT -> 127
        [] \E l \in aborted : launch_err[l] # 0 -> 126
        [] aborted # {} -> 1
        [] \E l \in Ran(s) : ExitValue(thread_status[l]) # 0 -> 1
        [] OTHER -> 0

(* Safety: an xargs invocation that exits reports the exit code the        *)
(* specification derives from the outcomes of all the commands it ran      *)
(* (run() and parse_input's exit(rval), via waitpid's status).             *)
ExitCodeMatchesOutcomes ==
  \A s \in Sessions : xpc[s] = "exited" => exit_code[s] = ExpectedExit(s)

(* Safety: xargs never has more than MaxProcs of its commands started and  *)
(* not yet returned (run()'s fork/execvp/waitpid sequence).                *)
RunnerCeiling ==
  \A s \in Sessions : Cardinality({l \in LaunchesOf(s) : Live(l)}) <= MaxProcs

(* Action property: when waitpid(pid, &status, 0) returns to xargs for a   *)
(* command that was launched, that command has returned and the status     *)
(* is the one it returned (ios_waitpid, waitpid, ios_storeThreadId,        *)
(* ios_releaseThread together).                                            *)
WaitReturnsOwnStatus ==
  [][\A s \in Sessions :
       (xpc[s] = "wait" /\ xpc'[s] # "wait" /\ launch_err[Current(s)] = 0)
         => /\ thread_state[Current(s)] = "done"
            /\ wstatus'[s] = W_EXITCODE(thread_status[Current(s)], 0)]_vars

(* Safety: every getenv of a command consults the overlay its own launch   *)
(* installed, or none if it installed none (libc_getenv's                  *)
(* environment[current_pid], storeEnvironment, resetEnvironment).          *)
EnvIsolation ==
  \A l \in Launches : seen_env[l] \in {Unread, env_of[l]}

(* Liveness: every xargs invocation eventually exits (ios_waitpid's busy   *)
(* loop ends, ios_nextAvailablePid finds a slot).                          *)
Termination ==
  \A s \in Sessions : <>(xpc[s] = "exited")
=============================================================================
