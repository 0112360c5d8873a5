------------------------------ MODULE Readconf ------------------------------
(***************************************************************************)
(* How ssh reads its configuration (src/ssh_keygen/readconf.c):           *)
(* read_config_file_depth reads a file line by line, process_config_line   *)
(* applies each line, Host and Match lines switch the shared flag *activep *)
(* on and off, and Include reads further files one level deeper with       *)
(* *activep restored afterwards.  An option takes the first value that an  *)
(* active line gives it.  A Match line is evaluated by match_cfg_line one  *)
(* criterion at a time; "Match exec" runs a command with                   *)
(* execute_in_shell, which on iOS goes through the fake process table of   *)
(* PidTable: ios_fork, execv (the launcher starts a command thread), a     *)
(* second ios_fork, and waitpid on the pid that fork returned.             *)
(*                                                                         *)
(* Lines are records [kw, args]: the keyword and its words.  A word is a   *)
(* record [neg, w]: its text without a leading "!" and whether it had one. *)
(* Comments, blank lines and the options not modelled are kw "ignore"; an  *)
(* unknown keyword is kw "bad".  Include's words are the paths its globs   *)
(* expand to, in order.                                                    *)
(***************************************************************************)
EXTENDS PidTable, Sequences, SequencesExt

CONSTANTS
  Setups,           \* [files: file -> lines, top: file, final: BOOLEAN]
  BadPerm,          \* files whose owner or mode fails SSHCONF_CHECKPERM
  HostArg,          \* the host argument of read_config_file
  OriginalHost,     \* its original_host argument
  LocalUser,        \* pw->pw_name
  ExitStatus,       \* command -> what its main returns
  MaxDepth,         \* READCONF_MAX_DEPTH (16 in the code)
  MaxIdentityFiles, \* SSH_MAX_IDENTITY_FILES (100 in the code)
  MaxHostsFiles,    \* SSH_MAX_HOSTS_FILES (32 in the code)
  Num,              \* the numeric words: word -> the integer it spells
  BadHops,          \* ProxyJump hops that parse_ssh_uri and
                    \* parse_user_host_port reject
  Handle,           \* the pthread_t of a Match exec command thread
  EnvAssignments,   \* the words that contain an '='
  EnvRemovals,      \* the words that start with '-': word -> the pattern after it
  TunIds,           \* the words a2tun accepts: word -> [local, remote]
  QoS               \* the words parse_ipqos accepts: word -> DSCP code

ASSUME Handle \in Handles
ASSUME MaxDepth \in Nat /\ MaxIdentityFiles \in Nat /\ MaxHostsFiles \in Nat
ASSUME Num \in [DOMAIN Num -> Int]
ASSUME DOMAIN EnvRemovals \cap EnvAssignments = {}
ASSUME TunIds \in [DOMAIN TunIds -> [local : Int, remote : Int]]
ASSUME QoS \in [DOMAIN QoS -> Nat]

NULL == "NULL"
StringOpts == {"user", "hostname"}     \* the parse_string options modelled
PatternAttrs == {"host", "originalhost", "user", "localuser"}
NoMatch == [pc |-> "none"]

VARIABLES
  setup,            \* the files and flags of this read
  stack,            \* read_config_file_depth frames, innermost last
  activep,          \* the int that *activep points to
  opts,             \* the Options fields modelled
  want_final_pass,
  mt,               \* the match_cfg_line call in progress, or NoMatch
  epid,             \* execute_in_shell's pid
  thr, tcmd,        \* the command thread: state and command
  commandStatus,    \* ios_getCommandStatus()
  status,           \* "reading", "done" or "fatal"
  execs             \* history: the execute_in_shell calls that returned

vars == <<pidvars, setup, stack, activep, opts, want_final_pass, mt, epid,
          thr, tcmd, commandStatus, status, execs>>

\* the flags the top file is read with (ssh.c: the user configuration)
TopFlags(su) == {"checkperm"} \cup (IF su.final THEN {"final"} ELSE {})

\* read_config_file_depth's checks before the first line: fatal() when the
\* depth is out of range or the file fails the permission check
\* mutant: the depth test written with >=
OpenFails_ge(f, depth, flags) ==
  depth >= MaxDepth \/ ("checkperm" \in flags /\ f \in BadPerm)

OpenFails(f, depth, flags) ==
  depth > MaxDepth \/ ("checkperm" \in flags /\ f \in BadPerm)

Frame(f, depth, flags) ==
  [file |-> f, ln |-> 0, depth |-> depth, flags |-> flags, bad |-> 0,
   including |-> FALSE, incl |-> <<>>, oactive |-> 0]

\* initialize_options: send_env and setenv start empty
InitialEnvOptions == [sendenv |-> <<>>, setenv |-> <<>>]

\* initialize_options: clear_forwardings -1 and no forwardings
InitialFwdOptions == [clearallforwardings |-> -1, lfwd |-> <<>>, rfwd |-> <<>>]

\* initialize_options: forward_agent, escape_char, control_persist, the
\* tun devices and the IPQoS codes -1, the agent paths NULL
InitialMiscOptions ==
  [forwardagent |-> -1, agentsock |-> NULL, escapechar |-> -1,
   controlpersist |-> -1, controlpersisttimeout |-> 0, tunlocal |-> -1,
   tunremote |-> -1, identityagent |-> NULL, qosint |-> -1, qosbulk |-> -1]

\* initialize_options for the fields modelled (ssh.c sets hostname to the
\* host before the final pass); -1, NULL and <<>> mean "not yet set"
InitialOptions(su) ==
  [user |-> NULL, hostname |-> IF su.final THEN HostArg ELSE NULL,
   ids |-> <<>>, forwardx11 |-> -1, stricthostkeychecking |-> -1,
   connecttimeout |-> -1, port |-> -1, connectionattempts |-> -1,
   khfiles |-> <<>>, proxy |-> <<>>, jumphost |-> NULL, jumpport |-> -1,
   jumpextra |-> <<>>] @@ InitialEnvOptions @@ InitialFwdOptions
  @@ InitialMiscOptions

Init ==
  /\ PidInit
  /\ \E su \in Setups :
       /\ setup = su
       /\ stack = <<Frame(su.top, 0, TopFlags(su))>>
       /\ opts = InitialOptions(su)
       /\ status = IF OpenFails(su.top, 0, TopFlags(su)) THEN "fatal"
                   ELSE "reading"
  /\ activep = 1
  /\ want_final_pass = 0
  /\ mt = NoMatch
  /\ epid = 0
  /\ thr = "none"
  /\ tcmd = NULL
  /\ commandStatus = 0
  /\ execs = 0

Top == stack[Len(stack)]
Lines(fr) == setup.files[fr.file]
CurLine == Lines(Top)[Top.ln + 1]
Words(l) == [i \in DOMAIN l.args |-> l.args[i].w]
SetTop(fr) == stack' = [stack EXCEPT ![Len(stack)] = fr]

\* the line is done; process_config_line returned rv (bad_options++ if not 0)
Advance(rv) ==
  SetTop([Top EXCEPT !.ln = @ + 1, !.bad = @ + (IF rv # 0 THEN 1 ELSE 0)])

Fatal == /\ status' = "fatal"
         /\ UNCHANGED <<stack, activep, opts, want_final_pass, mt, epid>>

\* match_pattern for one pattern; "*" matches anything
MatchPattern(s, pat) == pat = "*" \/ pat = s

\* match_pattern_list (so match_hostname) for a one-pattern list:
\* 1 on a match, -1 on a match of a negated pattern, 0 otherwise
PatternList(s, word) ==
  IF ~MatchPattern(s, word.w) THEN 0 ELSE IF word.neg THEN -1 ELSE 1

\* the host match_cfg_line matches against (percent expansion abstracted)
MatchHost(o) ==
  IF setup.final \/ o.hostname # NULL THEN o.hostname ELSE HostArg
RUser(o) == IF o.user = NULL THEN LocalUser ELSE o.user

Reading == status = "reading" /\ mt.pc = "none" /\ ~Top.including
           /\ Top.ln < Len(Lines(Top))

Quiet == UNCHANGED <<pidvars, thr, tcmd, commandStatus, epid, setup, execs>>

-----------------------------------------------------------------------------
(* process_config_line: the lines that only return a value.                *)
IgnoreLine ==
  /\ Reading /\ CurLine.kw \in {"ignore", "bad"}
  /\ Advance(IF CurLine.kw = "bad" THEN -1 ELSE 0)
  /\ UNCHANGED <<activep, opts, want_final_pass, mt, status>> /\ Quiet

(* parse_string: missing argument -1; set if active and still NULL; then   *)
(* the check for garbage at the end of the line.                           *)
ParseString ==
  /\ Reading /\ CurLine.kw \in StringOpts
  /\ LET l == CurLine IN
     IF l.args = <<>> THEN Advance(-1) /\ UNCHANGED opts
     ELSE /\ opts' = IF activep = 1 /\ opts[l.kw] = NULL
                       THEN [opts EXCEPT ![l.kw] = l.args[1].w] ELSE opts
          /\ Advance(IF Len(l.args) > 1 THEN -1 ELSE 0)
  /\ UNCHANGED <<activep, want_final_pass, mt, status>> /\ Quiet

(* oIdentityFile and add_identity_file: the count is checked against the   *)
(* maximum before duplicates are looked for.                               *)
add_identity_file(o, path) ==
  IF \E i \in DOMAIN o.ids : o.ids[i] = path THEN o
  ELSE [o EXCEPT !.ids = Append(@, path)]

IdentityFile ==
  /\ Reading /\ CurLine.kw = "identityfile"
  /\ LET l == CurLine IN
     CASE l.args = <<>> -> Advance(-1) /\ UNCHANGED opts
       [] activep = 1 /\ Len(opts.ids) >= MaxIdentityFiles ->
            Advance(-1) /\ UNCHANGED opts
       [] OTHER ->
            /\ opts' = IF activep = 1 THEN add_identity_file(opts, l.args[1].w)
                       ELSE opts
            /\ Advance(IF Len(l.args) > 1 THEN -1 ELSE 0)
  /\ UNCHANGED <<activep, want_final_pass, mt, status>> /\ Quiet

(* The option tables of parse_multistate (SSH_STRICT_HOSTKEY_OFF, _NEW,   *)
(* _YES, _ASK are 0, 1, 2, 3); arguments are compared with strcasecmp and  *)
(* the words of the model are lower case.                                  *)
multistate_flag ==
  ("true" :> 1) @@ ("false" :> 0) @@ ("yes" :> 1) @@ ("no" :> 0)
multistate_strict_hostkey ==
  ("true" :> 2) @@ ("false" :> 0) @@ ("yes" :> 2) @@ ("no" :> 0)
  @@ ("ask" :> 3) @@ ("off" :> 0) @@ ("accept-new" :> 1)
MultistateOf ==
  [forwardx11 |-> multistate_flag, clearallforwardings |-> multistate_flag,
   stricthostkeychecking |-> multistate_strict_hostkey]

\* parse_multistate_value: -1 for a missing or unknown argument
parse_multistate_value(args, tbl) ==
  IF args = <<>> \/ args[1].neg \/ args[1].w \notin DOMAIN tbl THEN -1
  ELSE tbl[args[1].w]

\* misc.c (not in this repository): convtime, a2port and atoi_err on the
\* words that spell numbers; every other word is rejected
convtime(w) == IF w \in DOMAIN Num /\ Num[w] >= 0 THEN Num[w] ELSE -1
a2port(w) == IF w \in DOMAIN Num /\ Num[w] \in 0..65535 THEN Num[w] ELSE -1
atoi_ok(w) == w \in DOMAIN Num

\* an int option takes v if the line is active and the option is still -1
SetInt(f, v) ==
  IF activep = 1 /\ opts[f] = -1 THEN [opts EXCEPT ![f] = v] ELSE opts

\* the check for garbage at the end of the line, after n words were taken
Garbage(l, n) == IF Len(l.args) > n THEN -1 ELSE 0

OptionStep(rv, o) ==
  /\ opts' = o /\ Advance(rv)
  /\ UNCHANGED <<activep, want_final_pass, mt, status>> /\ Quiet

(* parse_flag and parse_multistate (ForwardX11, StrictHostKeyChecking): the *)
(* value is stored before the garbage check.                               *)
ParseMultistate ==
  /\ Reading /\ CurLine.kw \in DOMAIN MultistateOf
  /\ LET l == CurLine
         v == parse_multistate_value(l.args, MultistateOf[l.kw])
     IN  IF v = -1 THEN OptionStep(-1, opts)
         ELSE OptionStep(Garbage(l, 1), SetInt(l.kw, v))

(* parse_time (ConnectTimeout): "none" is stored as -1, the value that     *)
(* also means "not yet set".                                               *)
ParseTime ==
  /\ Reading /\ CurLine.kw = "connecttimeout"
  /\ LET l == CurLine IN
     IF l.args = <<>> THEN OptionStep(-1, opts)
     ELSE LET w == l.args[1].w
              v == IF w = "none" THEN -1 ELSE convtime(w)
          IN  IF w # "none" /\ v = -1 THEN OptionStep(-1, opts)
              ELSE OptionStep(Garbage(l, 1), SetInt("connecttimeout", v))

(* oPort: a2port, and a port <= 0 is bad.                                 *)
Port ==
  /\ Reading /\ CurLine.kw = "port"
  /\ LET l == CurLine IN
     IF l.args = <<>> \/ a2port(l.args[1].w) <= 0 THEN OptionStep(-1, opts)
     ELSE OptionStep(Garbage(l, 1), SetInt("port", a2port(l.args[1].w)))

(* parse_int (ConnectionAttempts): atoi_err rejects a missing argument.    *)
ParseInt ==
  /\ Reading /\ CurLine.kw = "connectionattempts"
  /\ LET l == CurLine IN
     IF l.args = <<>> \/ ~atoi_ok(l.args[1].w) THEN OptionStep(-1, opts)
     ELSE OptionStep(Garbage(l, 1),
                     SetInt("connectionattempts", Num[l.args[1].w]))

(* parse_char_array (UserKnownHostsFile): only an active line read while   *)
(* the list is empty is looked at; its files are added one by one until   *)
(* the maximum, where the line fails with the list already filled.  The    *)
(* case returns 0 directly: no missing-argument or garbage check.         *)
ParseCharArray ==
  /\ Reading /\ CurLine.kw = "userknownhostsfile"
  /\ LET ws == Words(CurLine) IN
     IF activep = 1 /\ opts.khfiles = <<>>
     THEN IF Len(ws) > MaxHostsFiles
          THEN OptionStep(-1, [opts EXCEPT !.khfiles = SubSeq(ws, 1, MaxHostsFiles)])
          ELSE OptionStep(0, [opts EXCEPT !.khfiles = ws])
     ELSE OptionStep(0, opts)

(* oProxyCommand and parse_command: the rest of the line is the command;   *)
(* once jump_host is set the value goes to jump_host, which is not NULL,   *)
(* so nothing is stored.  Returns 0 directly.                              *)
ParseCommand ==
  /\ Reading /\ CurLine.kw = "proxycommand"
  /\ LET l == CurLine IN
     CASE l.args = <<>> -> OptionStep(-1, opts)
       [] opts.jumphost = NULL /\ activep = 1 /\ opts.proxy = <<>> ->
            OptionStep(0, [opts EXCEPT !.proxy = Words(l)])
       [] OTHER -> OptionStep(0, opts)

\* mutant: parse_jump's active ignores a ProxyCommand already set
parse_jump_anyproxy(hops, o, act) ==
  LET none   == hops = <<"none">>
      active == act /\ o.jumphost = NULL
  IN  CASE ~none /\ \E i \in DOMAIN hops : hops[i] \in BadHops -> [rv |-> -1, o |-> o]
        [] active /\ none -> [rv |-> 0, o |-> [o EXCEPT !.jumphost = "none", !.jumpport = 0]]
        [] active -> [rv |-> 0, o |-> [o EXCEPT !.jumphost = Last(hops), !.jumpport = -1,
                                           !.proxy = <<"none">>, !.jumpextra = Front(hops)]]
        [] OTHER -> [rv |-> 0, o |-> o]

(* parse_jump: the hops (the comma separated list) are checked from the    *)
(* last to the first; it applies only if the line is active and neither    *)
(* proxy_command nor jump_host is set.  The last hop is jump_host (no     *)
(* port: jump_port -1), the others jump_extra, and proxy_command becomes   *)
(* "none"; "none" alone sets jump_host "none" and jump_port 0.            *)
parse_jump(hops, o, act) ==
  LET none   == hops = <<"none">>
      active == act /\ o.proxy = <<>> /\ o.jumphost = NULL
  IN  CASE ~none /\ \E i \in DOMAIN hops : hops[i] \in BadHops -> [rv |-> -1, o |-> o]
        [] active /\ none -> [rv |-> 0, o |-> [o EXCEPT !.jumphost = "none", !.jumpport = 0]]
        [] active -> [rv |-> 0, o |-> [o EXCEPT !.jumphost = Last(hops), !.jumpport = -1,
                                           !.proxy = <<"none">>, !.jumpextra = Front(hops)]]
        [] OTHER -> [rv |-> 0, o |-> o]

(* oProxyJump: a missing argument is bad; else parse_jump.  Returns        *)
(* directly, without the garbage check.                                    *)
ProxyJump ==
  /\ Reading /\ CurLine.kw = "proxyjump"
  /\ IF CurLine.args = <<>> THEN OptionStep(-1, opts)
     ELSE LET r == parse_jump(Words(CurLine), opts, activep = 1)
          IN  OptionStep(r.rv, r.o)

(* rm_env: every name of send_env that the pattern matches is removed;    *)
(* after a removal i is not advanced, so the name moved into slot i is     *)
(* tested next.                                                            *)
\* mutant: i is advanced after a removal too, skipping the name moved in
RECURSIVE rm_env_skip(_, _, _)
rm_env_skip(l, pat, i) ==
  IF i > Len(l) THEN l
  ELSE IF MatchPattern(l[i], pat) THEN rm_env_skip(RemoveAt(l, i), pat, i + 1)
  ELSE rm_env_skip(l, pat, i + 1)

RECURSIVE rm_env(_, _, _)
rm_env(l, pat, i) ==
  IF i > Len(l) THEN l
  ELSE IF MatchPattern(l[i], pat) THEN rm_env(RemoveAt(l, i), pat, i)
  ELSE rm_env(l, pat, i + 1)

(* oSendEnv, one word per turn: a word with '=' fails the line (the words  *)
(* before it were applied); an inactive line only checks; "-pattern"      *)
(* removes, anything else is appended.  Returns [rv, l].                   *)
RECURSIVE SendEnvLoop(_, _, _)
SendEnvLoop(ws, i, l) ==
  CASE i > Len(ws) -> [rv |-> 0, l |-> l]
    [] ws[i] \in EnvAssignments -> [rv |-> -1, l |-> l]
    [] activep # 1 -> SendEnvLoop(ws, i + 1, l)
    [] ws[i] \in DOMAIN EnvRemovals ->
         SendEnvLoop(ws, i + 1, rm_env(l, EnvRemovals[ws[i]], 1))
    [] OTHER -> SendEnvLoop(ws, i + 1, Append(l, ws[i]))

SendEnv ==
  /\ Reading /\ CurLine.kw = "sendenv"
  /\ LET r == SendEnvLoop(Words(CurLine), 1, opts.sendenv)
     IN  OptionStep(r.rv, [opts EXCEPT !.sendenv = r.l])

(* oSetEnv: value is num_setenv before the line; a word without '=' fails  *)
(* the line, and the words are added only by an active line read while   *)
(* the list was empty.  Returns directly, without the garbage check.       *)
RECURSIVE SetEnvLoop(_, _, _, _)
SetEnvLoop(ws, i, value, l) ==
  CASE i > Len(ws) -> [rv |-> 0, l |-> l]
    [] ws[i] \notin EnvAssignments -> [rv |-> -1, l |-> l]
    [] activep # 1 \/ value # 0 -> SetEnvLoop(ws, i + 1, value, l)
    [] OTHER -> SetEnvLoop(ws, i + 1, value, Append(l, ws[i]))

SetEnv ==
  /\ Reading /\ CurLine.kw = "setenv"
  /\ LET r == SetEnvLoop(Words(CurLine), 1, Len(opts.setenv), opts.setenv)
     IN  OptionStep(r.rv, [opts EXCEPT !.setenv = r.l])

-----------------------------------------------------------------------------
(* Port forwarding.  A forwarding specification is a string; its k-th     *)
(* character is Ch(s, k), and k = Len(s) + 1 is its terminating NUL.       *)
Ch(s, k) == SubSeq(s, k, k)
PORT_STREAMLOCAL == -2

(* parse_fwd_field from position k: a field in square brackets is taken    *)
(* literally up to the first ']', which must end the string or precede a   *)
(* ':'; otherwise a backslash removes itself and keeps the next character  *)
(* (a removed backslash at the end fails, leaving a NUL where the field    *)
(* started if the backslash started it), '/' makes the field a path, and  *)
(* ':' ends the field.  Returns [ok, arg, ispath, next] or [ok, emptied].  *)
RECURSIVE FieldScan(_, _, _, _, _)
FieldScan(s, start, k, acc, ispath) ==
  CASE k > Len(s) -> [ok |-> TRUE, arg |-> acc, ispath |-> ispath, next |-> k]
    [] Ch(s, k) = "\\" ->
         IF k = Len(s) THEN [ok |-> FALSE, emptied |-> k = start]
         ELSE FieldScan(s, start, k + 2, acc \o Ch(s, k + 1), ispath)
    [] Ch(s, k) = "/" -> FieldScan(s, start, k + 1, acc \o "/", TRUE)
    [] Ch(s, k) = ":" -> [ok |-> TRUE, arg |-> acc, ispath |-> ispath, next |-> k + 1]
    [] OTHER -> FieldScan(s, start, k + 1, acc \o Ch(s, k), ispath)

parse_fwd_field(s, k) ==
  IF Ch(s, k) # "[" THEN FieldScan(s, k, k, "", FALSE)
  ELSE LET closes == {j \in (k + 1)..Len(s) : Ch(s, j) = "]"}
           e      == IF closes = {} THEN Len(s) + 1 ELSE Min(closes)
           inner  == SubSeq(s, k + 1, e - 1)
       IN  IF e > Len(s) \/ (e < Len(s) /\ Ch(s, e + 1) # ":")
           THEN [ok |-> FALSE, emptied |-> FALSE]
           ELSE [ok |-> TRUE, arg |-> inner,
                 ispath |-> \E j \in 1..Len(inner) : Ch(inner, j) = "/",
                 next |-> IF e < Len(s) THEN e + 2 ELSE e + 1]

(* parse_forward's loop: at most four fields; a NUL where a field should   *)
(* start ends the loop (p = NULL), and what is left after it is garbage.   *)
RECURSIVE FwdFields(_, _, _), FwdFieldsWith(_, _, _)
FwdFields(s, k, fs) ==
  IF Len(fs) = 4 THEN [fs |-> fs, garbage |-> k <= Len(s)]
  ELSE IF k > Len(s) THEN [fs |-> fs, garbage |-> FALSE]
  ELSE FwdFieldsWith(s, fs, parse_fwd_field(s, k))

FwdFieldsWith(s, fs, f) ==
  IF f.ok THEN FwdFields(s, f.next, Append(fs, f))
  ELSE [fs |-> fs, garbage |-> ~f.emptied]

NoFwd == [lhost |-> NULL, lport |-> 0, lpath |-> NULL,
          chost |-> NULL, cport |-> 0, cpath |-> NULL]

(* parse_forward: the fields by their number, then the checks; the record *)
(* of a failed parse does not matter (the caller only tests for 0).       *)
FwdOf(a, i) ==
  LET P(n) == a2port(a[n].arg)
  IN  CASE i = 1 /\ a[1].ispath ->
               [NoFwd EXCEPT !.lpath = a[1].arg, !.lport = PORT_STREAMLOCAL,
                             !.chost = "socks"]
          [] i = 1 -> [NoFwd EXCEPT !.lport = P(1), !.chost = "socks"]
          [] i = 2 /\ a[1].ispath /\ a[2].ispath ->
               [NoFwd EXCEPT !.lpath = a[1].arg, !.lport = PORT_STREAMLOCAL,
                             !.cpath = a[2].arg, !.cport = PORT_STREAMLOCAL]
          [] i = 2 /\ a[2].ispath ->
               [NoFwd EXCEPT !.lport = P(1), !.cpath = a[2].arg,
                             !.cport = PORT_STREAMLOCAL]
          [] i = 2 -> [NoFwd EXCEPT !.lhost = a[1].arg, !.lport = P(2),
                                    !.chost = "socks"]
          [] i = 3 /\ a[1].ispath ->
               [NoFwd EXCEPT !.lpath = a[1].arg, !.lport = PORT_STREAMLOCAL,
                             !.chost = a[2].arg, !.cport = P(3)]
          [] i = 3 /\ a[3].ispath ->
               [NoFwd EXCEPT !.lhost = a[1].arg, !.lport = P(2),
                             !.cpath = a[3].arg, !.cport = PORT_STREAMLOCAL]
          [] i = 3 -> [NoFwd EXCEPT !.lport = P(1), !.chost = a[2].arg,
                                    !.cport = P(3)]
          [] i = 4 -> [NoFwd EXCEPT !.lhost = a[1].arg, !.lport = P(2),
                                    !.chost = a[3].arg, !.cport = P(4)]
          [] OTHER -> NoFwd

FwdChecked(i, fwd, dynamicfwd, remotefwd) ==
  LET ok == /\ IF dynamicfwd THEN i \in {1, 2}
               ELSE /\ i \in {3, 4} \/ fwd.cpath # NULL \/ fwd.lpath # NULL
                    /\ fwd.cport > 0 \/ fwd.cpath # NULL
            /\ fwd.lport >= 0 \/ fwd.lpath # NULL
            /\ remotefwd \/ fwd.lport # 0
  IN  [n |-> IF ok THEN i ELSE 0, fwd |-> fwd]

FwdCount(r) == IF r.garbage THEN 0 ELSE Len(r.fs)

FwdParsed(r, dynamicfwd, remotefwd) ==
  FwdChecked(FwdCount(r), FwdOf(r.fs, FwdCount(r)), dynamicfwd, remotefwd)

parse_forward(spec, dynamicfwd, remotefwd) ==
  FwdParsed(FwdFields(spec, 1, <<>>), dynamicfwd, remotefwd)

(* add_local_forward and add_remote_forward: a forwarding equal to one   *)
(* already listed (forward_equals) is not added again.                     *)
\* mutant: the duplicate check dropped
add_forward_dup(l, fwd) == Append(l, fwd)

add_forward(l, fwd) == IF \E j \in DOMAIN l : l[j] = fwd THEN l ELSE Append(l, fwd)

(* clear_forwardings: both lists emptied (tun_open, reset with them, is   *)
(* not modelled: no Tunnel line is).                                       *)
clear_forwardings(o) == [o EXCEPT !.lfwd = <<>>, !.rfwd = <<>>]

(* the end of the forwarding handlers, once parse_forward has returned r *)
ForwardAdd(r, remote, rv) ==
  CASE r.n = 0 -> OptionStep(-1, opts)
    [] activep # 1 -> OptionStep(rv, opts)
    [] remote -> OptionStep(rv, [opts EXCEPT !.rfwd = add_forward(@, r.fwd)])
    [] OTHER -> OptionStep(rv, [opts EXCEPT !.lfwd = add_forward(@, r.fwd)])

(* oLocalForward, oRemoteForward, oDynamicForward: the listener and the   *)
(* target are joined as "%s:%s" for parse_forward; RemoteForward without  *)
(* a target is dynamic.  Dynamic and local forwardings share local_forwards *)
(* (the list field lfwd).  Then the check for garbage at the end.         *)
ForwardLine ==
  /\ Reading /\ CurLine.kw \in {"localforward", "remoteforward", "dynamicforward"}
  /\ LET ws      == Words(CurLine)
         remote  == CurLine.kw = "remoteforward"
         dynamic == CurLine.kw = "dynamicforward" \/ (remote /\ Len(ws) < 2)
         rv      == Garbage(CurLine, IF CurLine.kw = "dynamicforward" THEN 1 ELSE 2)
     IN  CASE ws = <<>> -> OptionStep(-1, opts)
           [] ~dynamic /\ Len(ws) < 2 -> OptionStep(-1, opts)
           [] OTHER -> ForwardAdd(parse_forward(IF dynamic THEN ws[1] ELSE ws[1] \o ":" \o ws[2],
                                                dynamic, remote), remote, rv)

-----------------------------------------------------------------------------
(* Options whose values are characters, times, tun devices, DSCP codes or  *)
(* agent sockets.  Arguments are compared as in the code: "none", "no",    *)
(* "yes" with strcmp, the ForwardAgent flags with strcasecmp (the words of *)
(* the model are lower case).                                              *)

\* (u_char) c for a printable ASCII character c other than '"', '\' and '`'
Ord(c) ==
  CHOOSE n \in 32..126 :
    \E r \in {<<32, " !">>, <<35, "#$%&'()*+,-./0123456789:;<=>?@ABCDEFGHIJKLMNOPQRSTUVWXYZ[">>,
              <<93, "]^_">>, <<97, "abcdefghijklmnopqrstuvwxyz{|}~">>} :
      n - r[1] + 1 \in 1..Len(r[2]) /\ Ch(r[2], n - r[1] + 1) = c

\* the escape character a word names: "none" is SSH_ESCAPECHAR_NONE (-2),
\* one character its code, '^' and a character of code 64..127 that code
\* & 31; -1 for a bad one
EscapeValue(w) ==
  CASE w = "none" -> -2
    [] Len(w) = 1 -> Ord(w)
    [] Len(w) = 2 /\ Ch(w, 1) = "^" /\ Ord(Ch(w, 2)) \in 64..127 -> Ord(Ch(w, 2)) % 32
    [] OTHER -> -1

(* oEscapeChar: first value wins, then the garbage check.                 *)
EscapeChar ==
  /\ Reading /\ CurLine.kw = "escapechar"
  /\ LET ws == Words(CurLine) IN
     IF ws = <<>> \/ EscapeValue(ws[1]) = -1 THEN OptionStep(-1, opts)
     ELSE OptionStep(Garbage(CurLine, 1), SetInt("escapechar", EscapeValue(ws[1])))

\* ControlPersist's argument: [ok, value, timeout]
ControlPersistValue(w) ==
  CASE w \in {"no", "false"} -> [ok |-> TRUE, v |-> 0, t |-> 0]
    [] w \in {"yes", "true"} -> [ok |-> TRUE, v |-> 1, t |-> 0]
    [] convtime(w) >= 0 -> [ok |-> TRUE, v |-> 1, t |-> convtime(w)]
    [] OTHER -> [ok |-> FALSE, v |-> 0, t |-> 0]

\* mutant: the timeout is not stored with the value
ControlPersistSet_notimeout(cp) ==
  IF activep = 1 /\ opts.controlpersist = -1
  THEN [opts EXCEPT !.controlpersist = cp.v] ELSE opts

\* control_persist and its timeout are stored together, when the option is
\* still -1 on an active line
ControlPersistSet(cp) ==
  IF activep = 1 /\ opts.controlpersist = -1
  THEN [opts EXCEPT !.controlpersist = cp.v, !.controlpersisttimeout = cp.t]
  ELSE opts

(* oControlPersist: no/false, yes/true or a time, then the garbage check. *)
ControlPersist ==
  /\ Reading /\ CurLine.kw = "controlpersist"
  /\ LET ws == Words(CurLine) IN
     IF ws = <<>> \/ ~ControlPersistValue(ws[1]).ok THEN OptionStep(-1, opts)
     ELSE OptionStep(Garbage(CurLine, 1), ControlPersistSet(ControlPersistValue(ws[1])))

\* misc.c (not in this repository): valid_env_name, a non-empty word of
\* letters, digits and '_' (isalnum)
ValidEnvName(n) ==
  n # "" /\ \A j \in 1..Len(n) :
    Ch(n, j) = "_" \/ Ord(Ch(n, j)) \in (48..57) \cup (65..90) \cup (97..122)

\* parse_agent_path's check: a word starting with '$' and not "${" names a
\* variable (the "${...}" words, for which dollar_expand would look the
\* variable up, are not modelled)
AgentPathOK(w) ==
  Ch(w, 1) # "$" \/ Ch(w, 2) = "{" \/ ValidEnvName(SubSeq(w, 2, Len(w)))

(* parse_agent_path: the word is stored in field f of o when the line is  *)
(* active and f is still NULL, then the garbage check.  A bad word makes   *)
(* the line fail with o as it is.                                          *)
AgentPath(w, f, o) ==
  IF ~AgentPathOK(w) THEN OptionStep(-1, o)
  ELSE OptionStep(Garbage(CurLine, 1),
                  IF activep = 1 /\ o[f] = NULL THEN [o EXCEPT ![f] = w] ELSE o)

(* oForwardAgent: a flag of multistate_flag is stored first-wins; any      *)
(* other word sets forward_agent to 1 (first-wins) and is taken as the     *)
(* socket path, whether or not forward_agent was already set.             *)
ForwardAgent ==
  /\ Reading /\ CurLine.kw = "forwardagent"
  /\ LET ws == Words(CurLine) IN
     CASE ws = <<>> -> OptionStep(-1, opts)
       [] ws[1] \in DOMAIN multistate_flag ->
            OptionStep(Garbage(CurLine, 1), SetInt("forwardagent", multistate_flag[ws[1]]))
       [] OTHER -> AgentPath(ws[1], "agentsock", SetInt("forwardagent", 1))

(* oIdentityAgent: parse_agent_path on identity_agent.                    *)
IdentityAgent ==
  /\ Reading /\ CurLine.kw = "identityagent"
  /\ LET ws == Words(CurLine) IN
     IF ws = <<>> THEN OptionStep(-1, opts) ELSE AgentPath(ws[1], "identityagent", opts)

(* oTunnelDevice: a2tun (misc.c, not in this repository) is the lookup in  *)
(* TunIds; the pair is stored whenever the line is active.                 *)
TunnelDevice ==
  /\ Reading /\ CurLine.kw = "tunneldevice"
  /\ LET ws == Words(CurLine) IN
     IF ws = <<>> \/ ws[1] \notin DOMAIN TunIds THEN OptionStep(-1, opts)
     ELSE OptionStep(Garbage(CurLine, 1),
                     IF activep = 1
                     THEN [opts EXCEPT !.tunlocal = TunIds[ws[1]].local,
                                       !.tunremote = TunIds[ws[1]].remote]
                     ELSE opts)

\* misc.c (not in this repository): parse_ipqos, the lookup in QoS; a
\* missing or unknown word is -1
parse_ipqos(ws, k) == IF k <= Len(ws) /\ ws[k] \in DOMAIN QoS THEN QoS[ws[k]] ELSE -1

(* oIPQoS: one or two codes (the bulk one defaults to the interactive     *)
(* one), stored whenever the line is active; then the garbage check.       *)
IPQoS ==
  /\ Reading /\ CurLine.kw = "ipqos"
  /\ LET ws == Words(CurLine) IN
     IF parse_ipqos(ws, 1) = -1 \/ (Len(ws) >= 2 /\ parse_ipqos(ws, 2) = -1)
     THEN OptionStep(-1, opts)
     ELSE OptionStep(Garbage(CurLine, 2),
                     IF activep = 1
                     THEN [opts EXCEPT !.qosint = parse_ipqos(ws, 1),
                                       !.qosbulk = IF Len(ws) >= 2 THEN parse_ipqos(ws, 2)
                                                   ELSE parse_ipqos(ws, 1)]
                     ELSE opts)

(* oHost: *activep = 0, then each pattern in order: a match sets it to 1,  *)
(* a match of a negated pattern sets it to 0 and ends the loop; under      *)
(* SSHCONF_NEVERMATCH the loop ends at once.                               *)
RECURSIVE HostLoop(_, _, _)
HostLoop(pats, i, a) ==
  IF i > Len(pats) THEN a
  ELSE IF MatchPattern(HostArg, pats[i].w)
       THEN IF pats[i].neg THEN 0 ELSE HostLoop(pats, i + 1, 1)
       ELSE HostLoop(pats, i + 1, a)

HostLine ==
  /\ Reading /\ CurLine.kw = "host"
  /\ activep' = IF "nevermatch" \in Top.flags THEN 0
                ELSE HostLoop(CurLine.args, 1, 0)
  /\ Advance(0)
  /\ UNCHANGED <<opts, want_final_pass, mt, status>> /\ Quiet

(* oMatch: match_cfg_line starts; host and ruser are fixed at its start.   *)
MatchLine ==
  /\ Reading /\ CurLine.kw = "match"
  /\ mt' = [pc |-> "attr", toks |-> CurLine.args, i |-> 1, result |-> 1,
            attributes |-> 0, host |-> MatchHost(opts), ruser |-> RUser(opts)]
  /\ UNCHANGED <<stack, activep, opts, want_final_pass, status>> /\ Quiet

(* oInclude: oactive = *activep, then each path in turn (IncludeFile).    *)
IncludeLine ==
  /\ Reading /\ CurLine.kw = "include"
  /\ IF CurLine.args = <<>> THEN Advance(0)
     ELSE SetTop([Top EXCEPT !.including = TRUE, !.incl = Words(CurLine),
                             !.oactive = activep])
  /\ UNCHANGED <<activep, opts, want_final_pass, mt, status>> /\ Quiet

(* The next path of an Include: read_config_file_depth one level deeper,   *)
(* with SSHCONF_CHECKPERM, and SSHCONF_NEVERMATCH when the Include line    *)
(* was not active.                                                         *)
IncludeFile ==
  /\ status = "reading" /\ mt.pc = "none" /\ Top.including /\ Top.incl # <<>>
  /\ LET f     == Head(Top.incl)
         depth == Top.depth + 1
         flags == Top.flags \cup {"checkperm"}
                  \cup (IF Top.oactive = 1 THEN {} ELSE {"nevermatch"})
     IN  IF OpenFails(f, depth, flags) THEN Fatal
         ELSE /\ stack' = Append([stack EXCEPT ![Len(stack)].incl = Tail(@)],
                                 Frame(f, depth, flags))
              /\ UNCHANGED <<activep, mt, want_final_pass, status>>
  /\ UNCHANGED opts /\ Quiet

\* mutant: *activep not restored after an included file
EndOfFile_noreset ==
  /\ status = "reading" /\ mt.pc = "none" /\ ~Top.including
  /\ Top.ln = Len(Lines(Top))
  /\ CASE Top.bad > 0 -> Fatal
       [] Len(stack) = 1 ->
            /\ status' = "done"
            /\ UNCHANGED <<stack, activep, mt, want_final_pass>>
       [] OTHER ->
            LET parent == stack[Len(stack) - 1]
            IN  /\ stack' = [Front(stack) EXCEPT ![Len(stack) - 1] =
                               IF parent.incl = <<>>
                               THEN [parent EXCEPT !.including = FALSE,
                                                   !.ln = @ + 1]
                               ELSE parent]
                /\ UNCHANGED <<activep, mt, want_final_pass, status>>
  /\ UNCHANGED opts /\ Quiet

(* getline() found no more lines: fatal() if a line was bad; otherwise     *)
(* return 1 to the Include loop, which restores *activep = oactive and     *)
(* ends the Include line after its last path, or to read_config_file.     *)
EndOfFile ==
  /\ status = "reading" /\ mt.pc = "none" /\ ~Top.including
  /\ Top.ln = Len(Lines(Top))
  /\ CASE Top.bad > 0 -> Fatal
       [] Len(stack) = 1 ->
            /\ status' = "done"
            /\ UNCHANGED <<stack, activep, mt, want_final_pass>>
       [] OTHER ->
            LET parent == stack[Len(stack) - 1]
            IN  /\ activep' = parent.oactive
                /\ stack' = [Front(stack) EXCEPT ![Len(stack) - 1] =
                               IF parent.incl = <<>>
                               THEN [parent EXCEPT !.including = FALSE,
                                                   !.ln = @ + 1]
                               ELSE parent]
                /\ UNCHANGED <<mt, want_final_pass, status>>
  /\ UNCHANGED opts /\ Quiet

(* fill_default_options, called by ssh once the files are read, for the    *)
(* fields modelled: ForwardX11 no, StrictHostKeyChecking ask, port 0 (the *)
(* default is filled in by ssh_connect), ConnectionAttempts 1, the default *)
(* identity and known-hosts files when none were given, proxy_command      *)
(* "none" cleared (CLEAR_ON_NONE), jump_host "none" cleared when          *)
(* jump_port is 0 and no jump user was given, ForwardAgent no, EscapeChar  *)
(* '~', ControlPersist no, the tun devices SSH_TUNID_ANY and IPQoS af21    *)
(* cs1.                                                                    *)
DefaultIdentityFiles == <<"id_default">>   \* the seven _PATH_SSH_CLIENT_ID_*
DefaultUserHostfiles == <<"known_hosts", "known_hosts2">>
SSH_TUNID_ANY == 2147483647                \* 0x7fffffff (misc.h)
IPTOS_DSCP_AF21 == 72                      \* 0x48 (netinet/ip.h)
IPTOS_DSCP_CS1 == 32                       \* 0x20

fill_default_options(o) ==
  LET d == [o EXCEPT !.forwardx11 = IF @ = -1 THEN 0 ELSE @,
                  !.stricthostkeychecking = IF @ = -1 THEN 3 ELSE @,
                  !.port = IF @ = -1 THEN 0 ELSE @,
                  !.connectionattempts = IF @ = -1 THEN 1 ELSE @,
                  !.ids = IF @ = <<>> THEN DefaultIdentityFiles ELSE @,
                  !.khfiles = IF @ = <<>> THEN DefaultUserHostfiles ELSE @,
                  !.proxy = IF @ = <<"none">> THEN <<>> ELSE @,
                  !.jumphost = IF @ = "none" /\ o.jumpport = 0 THEN NULL ELSE @,
                  !.clearallforwardings = IF @ = -1 THEN 0 ELSE @,
                  !.forwardagent = IF @ = -1 THEN 0 ELSE @,
                  !.escapechar = IF @ = -1 THEN Ord("~") ELSE @,
                  !.controlpersist = IF @ = -1 THEN 0 ELSE @,
                  !.controlpersisttimeout = IF o.controlpersist = -1 THEN 0 ELSE @,
                  !.tunlocal = IF @ = -1 THEN SSH_TUNID_ANY ELSE @,
                  !.tunremote = IF @ = -1 THEN SSH_TUNID_ANY ELSE @,
                  !.qosint = IF @ = -1 THEN IPTOS_DSCP_AF21 ELSE @,
                  !.qosbulk = IF @ = -1 THEN IPTOS_DSCP_CS1 ELSE @]
  IN  IF d.clearallforwardings = 1 THEN clear_forwardings(d) ELSE d

FillDefaults ==
  /\ status = "done"
  /\ opts' = fill_default_options(opts)
  /\ status' = "filled"
  /\ UNCHANGED <<stack, activep, want_final_pass, mt, epid>> /\ Quiet

-----------------------------------------------------------------------------
(* match_cfg_line, one turn of its loop per step.                          *)
Tok == mt.toks[mt.i]
HasNext == mt.i < Len(mt.toks)

\* "out:": process_config_line gets the result; -1 is a bad line and leaves
\* *activep as it was; otherwise *activep = NEVERMATCH ? 0 : result
MatchOut(result) ==
  /\ mt' = NoMatch
  /\ IF result < 0 THEN Advance(-1) /\ UNCHANGED activep
     ELSE /\ activep' = IF "nevermatch" \in Top.flags THEN 0 ELSE result
          /\ Advance(0)

\* r == (negate ? 1 : 0) clears result
Criterion(r, neg) == IF r = (IF neg THEN 1 ELSE 0) THEN 0 ELSE mt.result

MatchStep ==
  /\ status = "reading" /\ mt.pc = "attr"
  /\ CASE mt.i > Len(mt.toks) ->
            MatchOut(IF mt.attributes = 0 THEN -1 ELSE mt.result)
            /\ UNCHANGED want_final_pass
       [] Tok.w = "all" ->
            /\ MatchOut(IF mt.attributes > 1 \/ HasNext THEN -1
                        ELSE IF mt.result # 0
                             THEN (IF Tok.neg THEN 0 ELSE 1) ELSE mt.result)
            /\ UNCHANGED want_final_pass
       [] Tok.w \in {"canonical", "final"} ->
            /\ mt' = [mt EXCEPT !.attributes = @ + 1, !.i = @ + 1,
                        !.result = Criterion(IF setup.final THEN 1 ELSE 0,
                                             Tok.neg)]
            /\ want_final_pass' = IF Tok.w = "final" THEN 1
                                  ELSE want_final_pass
            /\ UNCHANGED <<stack, activep>>
       [] ~HasNext \/ Tok.w \notin PatternAttrs \cup {"exec"} ->
            MatchOut(-1) /\ UNCHANGED want_final_pass
       [] Tok.w \in PatternAttrs ->
            LET subject == CASE Tok.w = "host" -> mt.host
                             [] Tok.w = "originalhost" -> OriginalHost
                             [] Tok.w = "user" -> mt.ruser
                             [] Tok.w = "localuser" -> LocalUser
                r == IF PatternList(subject, mt.toks[mt.i + 1]) = 1
                     THEN 1 ELSE 0
            IN  /\ mt' = [mt EXCEPT !.attributes = @ + 1, !.i = @ + 2,
                                    !.result = Criterion(r, Tok.neg)]
                /\ UNCHANGED <<stack, activep, want_final_pass>>
       [] OTHER ->   \* exec: skipped when a prior criterion failed
            /\ mt' = IF mt.result # 1
                     THEN [mt EXCEPT !.attributes = @ + 1, !.i = @ + 2]
                     ELSE [mt EXCEPT !.attributes = @ + 1, !.pc = "fork1"]
            /\ UNCHANGED <<stack, activep, want_final_pass>>
  /\ UNCHANGED <<opts, status>> /\ Quiet

-----------------------------------------------------------------------------
(* execute_in_shell on iOS.  ios_fork(); execv(cmd): the launcher starts  *)
(* the command thread or, starting none, releases the pid; ios_fork()      *)
(* again (never 0, so the child branch is dead code); waitpid on the pid   *)
(* of the second fork.  $SHELL and its access() check are not modelled.    *)
ExecFork1 ==
  /\ status = "reading" /\ mt.pc = "fork1"
  /\ LET pid == NextPid IN ios_nextAvailablePid(pid) /\ epid' = pid
  /\ mt' = [mt EXCEPT !.pc = "execv"]
  /\ UNCHANGED <<setup, stack, activep, opts, want_final_pass, thr, tcmd,
                 commandStatus, status, execs>>

ExecLaunch ==
  /\ status = "reading" /\ mt.pc = "execv"
  /\ \/ /\ thr \in {"none", "done"}
        /\ thr' = "starting"
        /\ tcmd' = mt.toks[mt.i + 1].w
        /\ UNCHANGED pidvars
     \/ /\ ios_releaseThreadId(epid)
        /\ UNCHANGED <<thr, tcmd>>
  /\ mt' = [mt EXCEPT !.pc = "fork2"]
  /\ UNCHANGED <<setup, stack, activep, opts, want_final_pass, epid,
                 commandStatus, status, execs>>

ExecFork2 ==
  /\ status = "reading" /\ mt.pc = "fork2"
  /\ LET pid == NextPid IN ios_nextAvailablePid(pid) /\ epid' = pid
  /\ mt' = [mt EXCEPT !.pc = "wait"]
  /\ UNCHANGED <<setup, stack, activep, opts, want_final_pass, thr, tcmd,
                 commandStatus, status, execs>>

(* waitpid returns once the slot reads 0; status is W_EXITCODE of the last *)
(* command's status; an abnormal exit (-1) is fatal; else r = status == 0. *)
ExecWait ==
  /\ status = "reading" /\ mt.pc = "wait"
  /\ ios_waitpid(epid)
  /\ LET st == W_EXITCODE(commandStatus, 0)
     IN  IF st % 128 # 0 THEN Fatal
         ELSE /\ mt' = [mt EXCEPT !.pc = "attr", !.i = @ + 2,
                          !.result = Criterion(IF WEXITSTATUS(st) = 0
                                               THEN 1 ELSE 0, Tok.neg)]
              /\ UNCHANGED <<stack, activep, opts, want_final_pass, status>>
  /\ execs' = execs + 1
  /\ UNCHANGED <<pidvars, setup, epid, thr, tcmd, commandStatus>>

(* one more turn of ios_waitpid's busy loop *)
ExecWaitSpin ==
  /\ status = "reading" /\ mt.pc = "wait"
  /\ ~ios_waitpid(epid)
  /\ UNCHANGED vars

(* The command thread (ios_system.m, from the specification): it binds     *)
(* itself first, and on return sets the command status and releases.       *)
ThreadStart ==
  /\ thr = "starting"
  /\ ios_storeThreadId(Handle)
  /\ thr' = "running"
  /\ UNCHANGED <<setup, stack, activep, opts, want_final_pass, mt, epid,
                 tcmd, commandStatus, status, execs>>

ThreadExit ==
  /\ thr = "running"
  /\ commandStatus' = ExitStatus[tcmd]
  /\ ios_releaseThread(Handle)
  /\ thr' = "done"
  /\ UNCHANGED <<setup, stack, activep, opts, want_final_pass, mt, epid,
                 tcmd, status, execs>>

\* ssh has finished reading (or died), and no command thread is left
Finished ==
  /\ status \in {"fatal", "filled"} /\ thr \in {"none", "done"}
  /\ UNCHANGED vars

ReadStep ==
  \/ IgnoreLine \/ ParseString \/ IdentityFile \/ ParseMultistate \/ ParseTime
  \/ Port \/ ParseInt \/ ParseCharArray \/ ParseCommand \/ ProxyJump
  \/ SendEnv \/ SetEnv \/ ForwardLine \/ EscapeChar \/ ControlPersist
  \/ ForwardAgent \/ IdentityAgent \/ TunnelDevice \/ IPQoS
  \/ FillDefaults \/ HostLine \/ MatchLine
  \/ IncludeLine \/ IncludeFile \/ EndOfFile \/ MatchStep
  \/ ExecFork1 \/ ExecLaunch \/ ExecFork2 \/ ExecWait

Next == ReadStep \/ ExecWaitSpin \/ ThreadStart \/ ThreadExit \/ Finished

(* The reading thread and the command thread are scheduled preemptively:  *)
(* each is weakly fair.  The command returns (ThreadExit is weakly fair).  *)
Spec == Init /\ [][Next]_vars
        /\ WF_vars(ReadStep) /\ WF_vars(ThreadStart) /\ WF_vars(ThreadExit)

-----------------------------------------------------------------------------
(***************************************************************************)
(* Reference: what ssh_config(5) says a configuration means, as a          *)
(* recursive reading of the files.  Each option takes its first value from *)
(* a line in an applying block; a Host block applies when a pattern        *)
(* matches the host and no negated one does; a Match block applies when   *)
(* all its criteria hold ("all" alone, or after one criterion); exec holds *)
(* when the command exits 0; an Include applies the included files within  *)
(* the including block, and a file included from a block that does not     *)
(* apply is parsed only.  IdentityFile ignores a file already listed and   *)
(* admits at most MaxIdentityFiles.  A bad line, an Include nested deeper  *)
(* than MaxDepth or a file with bad permissions makes the read fatal.      *)
(***************************************************************************)
Holds(c, o) ==
  LET subject == CASE c.w = "host" -> MatchHost(o)
                   [] c.w = "originalhost" -> OriginalHost
                   [] c.w = "user" -> RUser(o)
                   [] c.w = "localuser" -> LocalUser
                   [] OTHER -> NULL
      r == CASE c.w = "all" -> TRUE
             [] c.w \in {"canonical", "final"} -> setup.final
             [] c.w = "exec" -> ExitStatus[c.arg.w] % 256 = 0
             [] OTHER -> PatternList(subject, c.arg) = 1
  IN  r # c.neg

\* the criteria of a Match line: [ok, cs]
RECURSIVE Criteria(_, _, _)
Criteria(toks, i, cs) ==
  IF i > Len(toks) THEN [ok |-> cs # <<>>, cs |-> cs]
  ELSE LET t == toks[i] IN
       CASE t.w = "all" ->
              [ok |-> Len(cs) <= 1 /\ i = Len(toks),
               cs |-> Append(cs, [w |-> "all", neg |-> t.neg])]
         [] t.w \in {"canonical", "final"} ->
              Criteria(toks, i + 1, Append(cs, [w |-> t.w, neg |-> t.neg]))
         [] t.w \in PatternAttrs \cup {"exec"} /\ i < Len(toks) ->
              Criteria(toks, i + 2, Append(cs, [w |-> t.w, neg |-> t.neg,
                                                arg |-> toks[i + 1]]))
         [] OTHER -> [ok |-> FALSE, cs |-> cs]

Dies(st) == [st EXCEPT !.fatal = TRUE]

\* the first value an applying line gives an option is kept
RefFirst(st, f, v) ==
  IF st.act = 1 /\ f \notin st.given
  THEN [st EXCEPT !.opts[f] = v, !.given = @ \cup {f}] ELSE st

\* the first value of an option that sets several fields (the record r)
RefFirstRec(st, f, r) ==
  IF st.act = 1 /\ f \notin st.given
  THEN [st EXCEPT !.opts = r @@ @, !.given = @ \cup {f}] ELSE st

\* EscapeChar: a single character, '^' and a letter (its control
\* character), or none (-2)
RefEscapeOK(w) ==
  \/ w = "none" \/ Len(w) = 1
  \/ Len(w) = 2 /\ Ch(w, 1) = "^" /\ Ord(Ch(w, 2)) \in (65..90) \cup (97..122)
RefEscape(w) ==
  CASE w = "none" -> -2
    [] Len(w) = 1 -> Ord(w)
    [] OTHER -> (Ord(Ch(w, 2)) - 64) % 32

\* ControlPersist: yes, no or a time (yes keeps the master indefinitely,
\* as a time of 0 does)
RefPersist(w) ==
  CASE w = "no" -> [controlpersist |-> 0, controlpersisttimeout |-> 0]
    [] w = "yes" -> [controlpersist |-> 1, controlpersisttimeout |-> 0]
    [] OTHER -> [controlpersist |-> 1, controlpersisttimeout |-> Num[w]]

\* an agent socket: a path, or '$' and the name of an environment variable
RefAgentOK(w) == Ch(w, 1) # "$" \/ ValidEnvName(SubSeq(w, 2, Len(w)))

\* the arguments ssh_config(5) names: ForwardX11 and ClearAllForwardings
\* yes or no;
\* StrictHostKeyChecking yes, accept-new, no, off or ask
RefChoices ==
  [forwardx11 |-> ("yes" :> 1) @@ ("no" :> 0),
   clearallforwardings |-> ("yes" :> 1) @@ ("no" :> 0),
   stricthostkeychecking |-> ("yes" :> 2) @@ ("accept-new" :> 1)
                             @@ ("no" :> 0) @@ ("off" :> 0) @@ ("ask" :> 3)]

\* ConnectTimeout: seconds, or none; Port: 1 to 65535; ConnectionAttempts:
\* an integer
RefNumeric == {"connecttimeout", "port", "connectionattempts"}
RefValid(kw, w) ==
  CASE kw = "connecttimeout" -> w = "none" \/ (w \in DOMAIN Num /\ Num[w] >= 0)
    [] kw = "port" -> w \in DOMAIN Num /\ Num[w] \in 1..65535
    [] kw = "controlpersist" -> w \in DOMAIN Num /\ Num[w] >= 0
    [] OTHER -> w \in DOMAIN Num

\* the options ssh uses: the values given, else ssh_config(5)'s defaults;
\* ProxyCommand none and ProxyJump none mean no proxy
RefOptions(st) ==
  LET o == st.opts
      Or(f, d) == IF f \in st.given THEN o[f] ELSE d
      Given(opt, f, d) == IF opt \in st.given THEN o[f] ELSE d
  IN  [user |-> o.user, hostname |-> o.hostname,
       ids |-> IF o.ids = <<>> THEN DefaultIdentityFiles ELSE o.ids,
       forwardx11 |-> Or("forwardx11", 0),
       stricthostkeychecking |-> Or("stricthostkeychecking", 3),
       connecttimeout |-> Or("connecttimeout", -1),
       port |-> Or("port", 0),
       connectionattempts |-> Or("connectionattempts", 1),
       khfiles |-> Or("khfiles", DefaultUserHostfiles),
       proxy |-> IF o.proxy = <<"none">> THEN <<>> ELSE o.proxy,
       jumphost |-> IF o.jumphost = "none" THEN NULL ELSE o.jumphost,
       jumpextra |-> o.jumpextra, sendenv |-> o.sendenv, setenv |-> o.setenv,
       clearallforwardings |-> Or("clearallforwardings", 0),
       lfwd |-> IF Or("clearallforwardings", 0) = 1 THEN <<>> ELSE o.lfwd,
       rfwd |-> IF Or("clearallforwardings", 0) = 1 THEN <<>> ELSE o.rfwd,
       forwardagent |-> Or("forwardagent", 0), agentsock |-> o.agentsock,
       identityagent |-> o.identityagent, escapechar |-> Or("escapechar", Ord("~")),
       controlpersist |-> Or("controlpersist", 0),
       controlpersisttimeout |-> Given("controlpersist", "controlpersisttimeout", 0),
       tunlocal |-> Given("tunneldevice", "tunlocal", SSH_TUNID_ANY),
       tunremote |-> Given("tunneldevice", "tunremote", SSH_TUNID_ANY),
       qosint |-> Given("ipqos", "qosint", IPTOS_DSCP_AF21),
       qosbulk |-> Given("ipqos", "qosbulk", IPTOS_DSCP_CS1)]

(* The forwarding arguments of ssh_config(5): a listener is               *)
(* [bind_address:]port, the address possibly in square brackets (so it     *)
(* may contain ':'), or a Unix socket path (not for DynamicForward); a    *)
(* target is host:hostport or a path.  A port is 1 to 65535, and 0 is     *)
(* allowed for a RemoteForward listener (allocated by the server).  A      *)
(* RemoteForward without a target, and every DynamicForward, is a SOCKS    *)
(* proxy.  A word is a path when it has a '/' and no ':'.                  *)
RefIsPath(w) == (\E j \in 1..Len(w) : Ch(w, j) = "/") /\ ~\E j \in 1..Len(w) : Ch(w, j) = ":"
RefBracketed(b) ==
  /\ Len(b) >= 3 /\ Ch(b, 1) = "[" /\ Ch(b, Len(b)) = "]"
  /\ \A j \in 2..(Len(b) - 1) : Ch(b, j) \notin {"[", "]"}
RefPlainHost(b) == \A j \in 1..Len(b) : Ch(b, j) \notin {":", "/", "[", "]", "\\"}
RefPortOf(p) == IF p \in DOMAIN Num THEN Num[p] ELSE -1

\* w split at its last ':' into [ok, host, port]
RefHostPort(w) ==
  LET cs == {j \in 1..Len(w) : Ch(w, j) = ":"}
  IN  IF cs = {} THEN [ok |-> FALSE, host |-> NULL, port |-> -1]
      ELSE LET k == Max(cs)
               b == SubSeq(w, 1, k - 1)
           IN  [ok   |-> RefPlainHost(b) \/ RefBracketed(b),
                host |-> IF RefBracketed(b) THEN SubSeq(b, 2, Len(b) - 1) ELSE b,
                port |-> RefPortOf(SubSeq(w, k + 1, Len(w)))]

RefListener(w, remote, paths) ==
  LET hp == RefHostPort(w)
      PortOK(p) == p \in 1..65535 \/ (remote /\ p = 0)
  IN  CASE paths /\ RefIsPath(w) ->
             [ok |-> TRUE, host |-> NULL, port |-> PORT_STREAMLOCAL, path |-> w]
        [] hp.ok -> [ok |-> PortOK(hp.port), host |-> hp.host, port |-> hp.port,
                     path |-> NULL]
        [] OTHER -> [ok |-> PortOK(RefPortOf(w)), host |-> NULL,
                     port |-> RefPortOf(w), path |-> NULL]

RefTarget(w) ==
  LET hp == RefHostPort(w)
  IN  IF RefIsPath(w)
      THEN [ok |-> TRUE, host |-> NULL, port |-> PORT_STREAMLOCAL, path |-> w]
      ELSE [ok |-> hp.ok /\ hp.host # "" /\ hp.port \in 1..65535,
            host |-> hp.host, port |-> hp.port, path |-> NULL]

RefForward(kw, ws) ==
  LET remote == kw = "remoteforward"
      socks  == kw = "dynamicforward" \/ (remote /\ Len(ws) = 1)
      arity  == IF socks THEN 1 ELSE 2
      lis    == RefListener(ws[1], remote, kw # "dynamicforward")
      tgt    == CASE socks ->
                       [ok |-> TRUE, host |-> "socks", port |-> 0, path |-> NULL]
                  [] Len(ws) < 2 -> [ok |-> FALSE, host |-> NULL, port |-> 0, path |-> NULL]
                  [] OTHER -> RefTarget(ws[2])
  IN  [ok  |-> Len(ws) = arity /\ lis.ok /\ tgt.ok,
       fwd |-> [lhost |-> lis.host, lport |-> lis.port, lpath |-> lis.path,
                chost |-> tgt.host, cport |-> tgt.port, cpath |-> tgt.path]]

\* a forwarding is listed once, at its first applying line
RefAddForward(l, f) == IF f \in Range(l) THEN l ELSE Append(l, f)

RECURSIVE RefFile(_, _, _, _), RefLines(_, _, _, _, _), RefIncl(_, _, _, _, _)
RefLine(l, flags, depth, st) ==
  LET never == "nevermatch" \in flags
      arg1  == l.args[1].w
  IN
  CASE l.kw = "ignore" -> st
    [] l.kw = "bad" -> Dies(st)
    [] l.kw \in StringOpts ->
         IF Len(l.args) # 1 THEN Dies(st)
         ELSE IF st.act = 1 /\ st.opts[l.kw] = NULL
              THEN [st EXCEPT !.opts[l.kw] = arg1] ELSE st
    [] l.kw = "identityfile" ->
         CASE Len(l.args) # 1 -> Dies(st)
           [] st.act = 0 \/ arg1 \in Range(st.opts.ids) -> st
           [] Len(st.opts.ids) >= MaxIdentityFiles -> Dies(st)
           [] OTHER -> [st EXCEPT !.opts.ids = Append(@, arg1)]
    [] l.kw \in DOMAIN RefChoices ->
         IF Len(l.args) # 1 \/ l.args[1].neg \/ arg1 \notin DOMAIN RefChoices[l.kw]
         THEN Dies(st) ELSE RefFirst(st, l.kw, RefChoices[l.kw][arg1])
    [] l.kw \in RefNumeric ->
         IF Len(l.args) # 1 \/ ~RefValid(l.kw, arg1) THEN Dies(st)
         ELSE RefFirst(st, l.kw, IF arg1 = "none" THEN -1 ELSE Num[arg1])
    [] l.kw = "userknownhostsfile" ->
         CASE st.act = 0 \/ "khfiles" \in st.given \/ l.args = <<>> -> st
           [] Len(l.args) > MaxHostsFiles -> Dies(st)
           [] OTHER -> RefFirst(st, "khfiles", Words(l))
    [] l.kw \in {"proxycommand", "proxyjump"} ->
         LET hops == Words(l)
             free == st.act = 1 /\ {"proxy", "jumphost"} \cap st.given = {}
         IN  CASE l.args = <<>> -> Dies(st)
               [] l.kw = "proxycommand" ->
                    IF free THEN RefFirst(st, "proxy", hops) ELSE st
               [] hops # <<"none">> /\ Range(hops) \cap BadHops # {} -> Dies(st)
               [] ~free -> st
               [] hops = <<"none">> -> RefFirst(st, "jumphost", "none")
               [] OTHER -> [RefFirst(st, "jumphost", hops[Len(hops)])
                              EXCEPT !.opts.jumpextra = SubSeq(hops, 1, Len(hops) - 1)]
    [] l.kw = "sendenv" ->
         LET Apply(ns, w) ==
               IF w \in DOMAIN EnvRemovals
               THEN SelectSeq(ns, LAMBDA n : ~MatchPattern(n, EnvRemovals[w]))
               ELSE Append(ns, w)
         IN  CASE Range(Words(l)) \cap EnvAssignments # {} -> Dies(st)
               [] st.act = 0 -> st
               [] OTHER -> [st EXCEPT !.opts.sendenv =
                              FoldLeft(Apply, @, Words(l))]
    [] l.kw = "setenv" ->
         CASE ~(Range(Words(l)) \subseteq EnvAssignments) -> Dies(st)
           [] l.args = <<>> -> st
           [] OTHER -> RefFirst(st, "setenv", Words(l))
    [] l.kw \in {"localforward", "remoteforward", "dynamicforward"} ->
         LET f == RefForward(l.kw, Words(l))
         IN  CASE l.args = <<>> \/ ~f.ok -> Dies(st)
               [] st.act = 0 -> st
               [] l.kw = "remoteforward" ->
                    [st EXCEPT !.opts.rfwd = RefAddForward(@, f.fwd)]
               [] OTHER -> [st EXCEPT !.opts.lfwd = RefAddForward(@, f.fwd)]
    [] l.kw = "escapechar" ->
         IF Len(l.args) # 1 \/ ~RefEscapeOK(arg1) THEN Dies(st)
         ELSE RefFirst(st, "escapechar", RefEscape(arg1))
    [] l.kw = "controlpersist" ->
         IF Len(l.args) # 1 \/ (arg1 \notin {"yes", "no"} /\ ~RefValid(l.kw, arg1))
         THEN Dies(st) ELSE RefFirstRec(st, "controlpersist", RefPersist(arg1))
    [] l.kw = "forwardagent" ->
         CASE Len(l.args) # 1 -> Dies(st)
           [] arg1 \in {"yes", "no"} ->
                RefFirstRec(st, "forwardagent",
                            [forwardagent |-> IF arg1 = "yes" THEN 1 ELSE 0,
                             agentsock |-> NULL])
           [] ~RefAgentOK(arg1) -> Dies(st)
           [] OTHER -> RefFirstRec(st, "forwardagent",
                                   [forwardagent |-> 1, agentsock |-> arg1])
    [] l.kw = "identityagent" ->
         IF Len(l.args) # 1 \/ ~RefAgentOK(arg1) THEN Dies(st)
         ELSE RefFirst(st, "identityagent", arg1)
    [] l.kw = "tunneldevice" ->
         IF Len(l.args) # 1 \/ arg1 \notin DOMAIN TunIds THEN Dies(st)
         ELSE RefFirstRec(st, "tunneldevice", [tunlocal |-> TunIds[arg1].local,
                                               tunremote |-> TunIds[arg1].remote])
    [] l.kw = "ipqos" ->
         LET ws == Words(l) IN
         IF Len(ws) \notin {1, 2} \/ ~(Range(ws) \subseteq DOMAIN QoS) THEN Dies(st)
         ELSE RefFirstRec(st, "ipqos", [qosint |-> QoS[ws[1]], qosbulk |-> QoS[ws[Len(ws)]]])
    [] l.kw = "host" ->
         LET hits == {i \in DOMAIN l.args : MatchPattern(HostArg, l.args[i].w)}
             on   == /\ \E i \in hits : ~l.args[i].neg
                     /\ \A i \in hits : ~l.args[i].neg
         IN  [st EXCEPT !.act = IF on /\ ~never THEN 1 ELSE 0]
    [] l.kw = "match" ->
         LET c  == Criteria(l.args, 1, <<>>)
             on == \A i \in DOMAIN c.cs : Holds(c.cs[i], st.opts)
         IN  IF ~c.ok THEN Dies(st)
             ELSE [st EXCEPT !.act = IF on /\ ~never THEN 1 ELSE 0,
                             !.wf = @ \/ \E i \in DOMAIN c.cs :
                                           c.cs[i].w = "final"]
    [] l.kw = "include" ->
         LET sub == flags \cup {"checkperm"}
                    \cup (IF st.act = 1 THEN {} ELSE {"nevermatch"})
             out == RefIncl(Words(l), 1, sub, depth + 1, st)
         IN  [out EXCEPT !.act = st.act]

RefIncl(paths, i, flags, depth, st) ==
  IF i > Len(paths) \/ st.fatal THEN st
  ELSE RefIncl(paths, i + 1, flags, depth,
               [RefFile(paths[i], depth, flags, st) EXCEPT !.act = st.act])

RefLines(f, k, flags, depth, st) ==
  IF k > Len(setup.files[f]) \/ st.fatal THEN st
  ELSE RefLines(f, k + 1, flags, depth,
                RefLine(setup.files[f][k], flags, depth, st))

RefFile(f, depth, flags, st) ==
  IF depth > MaxDepth \/ f \in BadPerm THEN Dies(st)
  ELSE RefLines(f, 1, flags, depth, st)

Reference ==
  RefFile(setup.top, 0, TopFlags(setup),
          [act |-> 1, fatal |-> FALSE, wf |-> FALSE, given |-> {},
           opts |-> [user |-> NULL, ids |-> <<>>,
                     hostname |-> IF setup.final THEN HostArg ELSE NULL,
                     forwardx11 |-> 0, stricthostkeychecking |-> 0,
                     connecttimeout |-> 0, port |-> 0,
                     connectionattempts |-> 0, khfiles |-> <<>>,
                     proxy |-> <<>>, jumphost |-> NULL, jumpextra |-> <<>>,
                     sendenv |-> <<>>, setenv |-> <<>>,
                     clearallforwardings |-> 0, lfwd |-> <<>>, rfwd |-> <<>>,
                     forwardagent |-> 0, agentsock |-> NULL, escapechar |-> 0,
                     controlpersist |-> 0, controlpersisttimeout |-> 0,
                     tunlocal |-> 0, tunremote |-> 0, identityagent |-> NULL,
                     qosint |-> 0, qosbulk |-> 0]])

(* Safety: a read that ends leaves the options ssh_config(5) gives the     *)
(* configuration, and asks for a final pass exactly when a Match final     *)
(* was read; it dies exactly when the configuration is bad               *)
(* (read_config_file_depth, process_config_line_depth's Host, Match,       *)
(* Include and option cases, match_cfg_line, execute_in_shell).            *)
ConfigAsSpecified ==
  status # "reading" =>
    LET ref == Reference
    IN  /\ status = "fatal" <=> ref.fatal
        /\ status \in {"done", "filled"} => (want_final_pass = 1) = ref.wf
        /\ status = "filled" =>
             [f \in DOMAIN opts \ {"jumpport"} |-> opts[f]] = RefOptions(ref)

(* Safety: outside execute_in_shell, the pid slots that read "not yet    *)
(* started" are exactly one per execute_in_shell call that returned: the  *)
(* slot of its first ios_fork, which the command thread never binds (it   *)
(* binds the second).  ios_nextAvailablePid only recycles slots that read *)
(* 0, so each Match exec takes one pid out of the table for good.         *)
PidsLeakedPerExec ==
  mt.pc \in {"none", "attr"} =>
    Cardinality({p \in Slots : thread_ids[p] = NotStarted}) = execs

(* Liveness: reading the configuration ends (the wait of execute_in_shell *)
(* returns for every Match exec).                                          *)
Termination == <>(status # "reading")
=============================================================================
