------------------------------ MODULE PidTable ------------------------------
(***************************************************************************)
(* The fake process table of src/libc_replacement.c: the arrays            *)
(* thread_ids[] and environment[] indexed by a fake pid, the allocation    *)
(* cursor current_pid and the flag pid_overflow.  There is no lock: every  *)
(* operator below is one C function, and callers in other modules take     *)
(* each as one atomic step.                                                *)
(*                                                                         *)
(* A slot of thread_ids holds -1 (pid handed out, thread not yet started), *)
(* 0 (free, or thread finished and released) or a pthread handle.          *)
(***************************************************************************)
EXTENDS Integers, FiniteSetsExt

CONSTANTS
  MaxThreads,   \* IOS_MAX_THREADS (128 in the code)
  Handles,      \* pthread_t values a thread can have; positive integers
  Overlays,     \* envp arrays a launch can install
  NoEnv         \* the NULL environment pointer

ASSUME MaxThreads \in Nat /\ MaxThreads >= 2
ASSUME Handles \subseteq Nat \ {0}
ASSUME NoEnv \notin Overlays

VARIABLES thread_ids, environment, pid_overflow, current_pid

pidvars == <<thread_ids, environment, pid_overflow, current_pid>>

Slots == 0..(MaxThreads - 1)
NotStarted == -1
Released == 0

PidTypeOK ==
  /\ thread_ids \in [Slots -> Handles \cup {NotStarted, Released}]
  /\ environment \in [Slots -> Overlays \cup {NoEnv}]
  /\ pid_overflow \in {0, 1}
  /\ current_pid \in Slots

\* static storage: every slot zero, no overlay
PidInit ==
  /\ thread_ids = [p \in Slots |-> Released]
  /\ environment = [p \in Slots |-> NoEnv]
  /\ pid_overflow = 0
  /\ current_pid = 0

ios_getThreadId(pid) == thread_ids[pid]

(***************************************************************************)
(* ios_nextAvailablePid.  Before the first overflow it hands out the next  *)
(* fresh pid and marks its slot "not yet started".  Afterwards it scans    *)
(* cyclically over 1..MaxThreads-1 for a slot equal to 0 and returns it as *)
(* it is: the slot is NOT set to -1 on this path.  When no slot is 0 the   *)
(* C loop spins forever; here the call is simply not enabled.              *)
(***************************************************************************)
FreshPidAvailable == pid_overflow = 0 /\ current_pid < MaxThreads - 1

ScanNext(p) == IF p + 1 >= MaxThreads THEN 1 ELSE p + 1

\* the first released slot met by the scan that starts after p; 0 if none
RECURSIVE ScanReleased(_, _)
ScanReleased(p, n) ==
  IF n = 0 THEN 0
  ELSE IF ios_getThreadId(ScanNext(p)) = Released THEN ScanNext(p)
  ELSE ScanReleased(ScanNext(p), n - 1)

\* where the scan starts: 0 the first time over the limit
ScanStart == IF pid_overflow = 0 THEN 0 ELSE current_pid

\* the value ios_nextAvailablePid returns (0: none, the C loop spins)
NextPid == IF FreshPidAvailable THEN current_pid + 1
           ELSE ScanReleased(ScanStart, MaxThreads - 1)

\* mutant: the fresh slot marked 0 instead of -1 ("not yet started")
FreshPid_unmarked(pid) ==
  /\ FreshPidAvailable
  /\ pid = current_pid + 1
  /\ current_pid' = pid
  /\ thread_ids' = [thread_ids EXCEPT ![pid] = Released]
  /\ UNCHANGED <<environment, pid_overflow>>

FreshPid(pid) ==
  /\ FreshPidAvailable
  /\ pid = current_pid + 1
  /\ current_pid' = pid
  /\ thread_ids' = [thread_ids EXCEPT ![pid] = NotStarted]
  /\ UNCHANGED <<environment, pid_overflow>>

RecycledPid(pid) ==
  /\ ~FreshPidAvailable
  /\ pid = ScanReleased(ScanStart, MaxThreads - 1)
  /\ pid # 0
  /\ current_pid' = pid
  /\ pid_overflow' = 1
  /\ UNCHANGED <<thread_ids, environment>>

ios_nextAvailablePid(pid) == FreshPid(pid) \/ RecycledPid(pid)

(***************************************************************************)
(* ios_storeThreadId: binds the handle to the slot of the GLOBAL           *)
(* current_pid, and only if that slot still says "not yet started".        *)
(***************************************************************************)
ios_storeThreadId(thread) ==
  /\ thread_ids' = IF thread_ids[current_pid] = NotStarted
                     THEN [thread_ids EXCEPT ![current_pid] = thread]
                     ELSE thread_ids
  /\ UNCHANGED <<environment, pid_overflow, current_pid>>

\* mutant: the store dropped (as in the version whose body is commented out)
storeEnvironment_dropped(envp) == UNCHANGED pidvars

\* storeEnvironment: installs envp in the slot of the global current_pid
storeEnvironment(envp) ==
  /\ environment' = [environment EXCEPT ![current_pid] = envp]
  /\ UNCHANGED <<thread_ids, pid_overflow, current_pid>>

\* the overlay libc_getenv consults: that of the global current_pid
libc_getenv == environment[current_pid]

(***************************************************************************)
(* ios_releaseThread: scans the slots from 0 upward for the first one      *)
(* holding the handle, resets its environment and zeroes it; no-op if the  *)
(* handle is in no slot.                                                   *)
(***************************************************************************)
\* mutant: the environment is reset but the slot is not zeroed
ios_releaseThread_noclear(thread) ==
  LET holders == {p \in Slots : thread_ids[p] = thread}
  IN  /\ IF holders = {}
           THEN UNCHANGED environment
           ELSE environment' = [environment EXCEPT ![Min(holders)] = NoEnv]
      /\ UNCHANGED <<thread_ids, pid_overflow, current_pid>>

ios_releaseThread(thread) ==
  LET holders == {p \in Slots : thread_ids[p] = thread}
  IN  /\ IF holders = {}
           THEN UNCHANGED <<thread_ids, environment>>
           ELSE /\ thread_ids' = [thread_ids EXCEPT ![Min(holders)] = Released]
                /\ environment' = [environment EXCEPT ![Min(holders)] = NoEnv]
      /\ UNCHANGED <<pid_overflow, current_pid>>

\* ios_releaseThreadId (with resetEnvironment)
ios_releaseThreadId(pid) ==
  /\ thread_ids' = [thread_ids EXCEPT ![pid] = Released]
  /\ environment' = [environment EXCEPT ![pid] = NoEnv]
  /\ UNCHANGED <<pid_overflow, current_pid>>

\* ios_waitpid(pid) for pid > 0 leaves its busy loop once the slot reads 0
\* mutant: the loop tests "started" (not -1) instead of "finished" (0)
ios_waitpid_started(pid) == ios_getThreadId(pid) # NotStarted

ios_waitpid(pid) == ios_getThreadId(pid) = Released

(***************************************************************************)
(* Status encoding of <sys/wait.h>: W_EXITCODE(ret, sig) is               *)
(* (ret << 8) | sig, WEXITSTATUS(x) is (x >> 8) & 0xff (an arithmetic      *)
(* shift: \div rounds down as >> does on a negative int), WIFSIGNALED(x)  *)
(* holds when x & 0177 is neither 0 nor 0177.  A 32-bit wrap of ret << 8   *)
(* only drops bits above the 16 these macros read, so it is not modelled.  *)
(***************************************************************************)
W_EXITCODE(ret, sig) == ret * 256 + sig
\* mutant: the & 0xff mask forgotten
WEXITSTATUS_nomask(x) == x \div 256

WEXITSTATUS(x) == (x \div 256) % 256
WIFSIGNALED(x) == (x % 128) \notin {0, 127}
=============================================================================
