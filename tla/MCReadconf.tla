----------------------------- MODULE MCReadconf -----------------------------
(* Small configurations for Readconf: a top file "cfg" that may include     *)
(* "inc", which may include itself, "perm" (whose permissions are bad) or   *)
(* "deep"; "perm" and "deep" set User.                                      *)
EXTENDS Readconf, FiniteSets

W(w) == [neg |-> FALSE, w |-> w]
Not(w) == [neg |-> TRUE, w |-> w]
L(kw, ws) == [kw |-> kw, args |-> ws]

HostH2       == L("host", <<W("h2")>>)
HostNotH1    == L("host", <<Not("h1"), W("*")>>)
HostAll      == L("host", <<W("*")>>)
MatchUserU2  == L("match", <<W("user"), W("u2")>>)
MatchHostH2  == L("match", <<W("host"), W("h2")>>)
MatchCanAll  == L("match", <<W("canonical"), W("all")>>)
IncludeInc   == L("include", <<W("inc")>>)
IncludePerm  == L("include", <<W("perm")>>)
UserU1       == L("user", <<W("u1")>>)
UserU2       == L("user", <<W("u2")>>)
HostnameH2   == L("hostname", <<W("h2")>>)
Key(k)       == L("identityfile", <<W(k)>>)

Setup(top, inc, final) ==
  [files |-> [f \in {"cfg", "inc", "perm", "deep"} |->
                IF f = "cfg" THEN top ELSE IF f = "inc" THEN inc
                ELSE <<UserU1>>],
   top |-> "cfg", final |-> final]

\* Host, Match user/host and Include blocks around first-wins options
BlockTops == SeqOf({HostH2, HostNotH1, MatchUserU2, IncludeInc, UserU2,
                    Key("k1")}, 3)
BlockIncs == {<<>>, <<HostAll, UserU1>>, <<Key("k2"), HostnameH2>>,
              <<IncludeInc>>, <<L("include", <<W("deep")>>)>>, <<MatchCanAll, Key("k1")>>,
              <<MatchHostH2, UserU1>>, <<IncludePerm>>,
              <<L("ignore", <<>>), L("user", <<>>)>>,
              <<L("user", <<W("u1"), W("u2")>>)>>, <<L("bad", <<>>)>>}

\* the syntax of Match lines, followed by an option that shows the outcome
MatchWords == {W("all"), Not("all"), W("host"), Not("host"), W("final"),
               W("h1"), W("bogus"), W("localuser"), W("u1")}
MatchTops == {<<L("match", ws), UserU2>> : ws \in SeqOf(MatchWords, 3)}

\* Match exec, alone, negated, after a failed criterion, twice
ExecTops ==
  { <<L("match", <<W("exec"), W(c)>>), UserU2>> : c \in {"c0", "c1", "c256"} }
  \cup { <<L("match", <<Not("exec"), W("c1")>>), UserU2>>,
         <<L("match", <<W("host"), W("h2"), W("exec"), W("c0")>>), UserU2>>,
         <<L("match", <<W("exec"), W("c0")>>), L("match", <<W("exec"), W("c1")>>),
           UserU2>> }

\* IdentityFile lines; a duplicate read once MaxIdentityFiles are listed
KeyLines == {Key("k1"), Key("k2"), Key("k3"), Key("k4"), L("identityfile", <<>>)}
DupAtCapacity(ks) ==
  \E j \in DOMAIN ks :
    LET before == {ks[i].args[1].w : i \in {i \in 1..(j - 1) : ks[i].args # <<>>}}
    IN  ks[j].args # <<>> /\ ks[j].args[1].w \in before
        /\ Cardinality(before) >= MaxIdentityFiles
KeyTops == {ks \in SeqOf(KeyLines, 4) : ~DupAtCapacity(ks)}

\* the value-parsing cases, in and out of a Host block that does not apply
Opt(kw, ws) == L(kw, [i \in DOMAIN ws |-> W(ws[i])])
OptionLines ==
  {HostNotH1, HostH2,
   Opt("forwardx11", <<"yes">>), Opt("forwardx11", <<"maybe">>),
   Opt("stricthostkeychecking", <<"accept-new">>),
   Opt("stricthostkeychecking", <<"off">>),
   Opt("connecttimeout", <<"5">>), Opt("connecttimeout", <<"x">>),
   Opt("connecttimeout", <<"none">>),
   Opt("port", <<"22">>), Opt("port", <<"0">>), Opt("port", <<"70000">>),
   Opt("port", <<"22", "x">>),
   Opt("connectionattempts", <<"3">>), Opt("connectionattempts", <<>>),
   Opt("userknownhostsfile", <<"kh1">>),
   Opt("userknownhostsfile", <<"kh1", "kh2", "kh3">>),
   Opt("userknownhostsfile", <<>>),
   Opt("proxycommand", <<"nc">>), Opt("proxycommand", <<"none">>),
   Opt("proxyjump", <<"j1">>), Opt("proxyjump", <<"j1", "j2">>),
   Opt("proxyjump", <<"none">>), Opt("proxyjump", <<"bad@">>)}

\* "ConnectTimeout none" stores -1, which reads as "not yet set": a later
\* ConnectTimeout line takes effect (checked with Setups <- MC_NoneSetups)
NoneThenTimeout(ls) ==
  \E i, j \in DOMAIN ls :
    i < j /\ ls[i] = Opt("connecttimeout", <<"none">>) /\ ls[j].kw = "connecttimeout"
OptionTops == {ls \in SeqOf(OptionLines, 3) : ~NoneThenTimeout(ls)}

\* SendEnv and SetEnv lines, in and out of a Host block that does not apply
EnvLines ==
  {HostNotH1, HostH2,
   Opt("sendenv", <<"LANG", "LC">>), Opt("sendenv", <<"LANG", "LANG">>),
   Opt("sendenv", <<"-LANG">>), Opt("sendenv", <<"-*">>),
   Opt("sendenv", <<"LC", "A=1">>),
   Opt("setenv", <<"A=1">>), Opt("setenv", <<"A=1", "B=2">>),
   Opt("setenv", <<"B=2", "LC">>), Opt("setenv", <<>>)}
EnvTops == SeqOf(EnvLines, 3)

\* forwarding lines of every form, good and bad, a repeatable one, and
\* ClearAllForwardings, in and out of a Host block that does not apply
FwdLines ==
  {HostNotH1,
   Opt("localforward", <<"1", "h:1">>), Opt("localforward", <<"[h]:1", "[h]:1">>),
   Opt("localforward", <<"/s", "/d">>), Opt("localforward", <<"h:1", "/d">>),
   Opt("localforward", <<"0", "h:1">>), Opt("localforward", <<"1", "h">>),
   Opt("localforward", <<"1">>),
   Opt("remoteforward", <<"0", "h:1">>), Opt("remoteforward", <<"/s">>),
   Opt("remoteforward", <<"1", "h:1", "x">>),
   Opt("dynamicforward", <<":1">>), Opt("dynamicforward", <<"0">>),
   Opt("clearallforwardings", <<"yes">>), Opt("clearallforwardings", <<"no">>)}
FwdTops == SeqOf(FwdLines, 3)

\* EscapeChar and ControlPersist lines, good and bad
EscLines ==
  {HostNotH1, HostH2,
   Opt("escapechar", <<"none">>), Opt("escapechar", <<"^c">>),
   Opt("escapechar", <<"%">>), Opt("escapechar", <<"^1">>),
   Opt("escapechar", <<"ab">>),
   Opt("controlpersist", <<"yes">>), Opt("controlpersist", <<"5">>),
   Opt("controlpersist", <<"x">>)}
EscTops == SeqOf(EscLines, 3)

\* ForwardAgent, IdentityAgent, TunnelDevice and IPQoS lines, good and bad
AgentLines ==
  {HostNotH1, HostH2,
   Opt("forwardagent", <<"yes">>), Opt("forwardagent", <<"/s">>),
   Opt("forwardagent", <<"$A_1">>), Opt("forwardagent", <<"$a-b">>),
   Opt("identityagent", <<"/s">>), Opt("identityagent", <<>>),
   Opt("tunneldevice", <<"1:2">>), Opt("tunneldevice", <<"any">>),
   Opt("tunneldevice", <<"x">>),
   Opt("ipqos", <<"af21">>), Opt("ipqos", <<"cs1", "lowdelay">>),
   Opt("ipqos", <<"af21", "x">>)}

\* a ForwardAgent flag and then a ForwardAgent socket path, or two good
\* TunnelDevice or IPQoS lines: the later line takes effect (checked with
\* Setups <- MC_LastWinsSetups)
LaterLineWins(ls) ==
  \E i, j \in DOMAIN ls :
    /\ i < j
    /\ \/ ls[i] = Opt("forwardagent", <<"yes">>)
          /\ ls[j] \in {Opt("forwardagent", <<"/s">>), Opt("forwardagent", <<"$A_1">>)}
       \/ {ls[i], ls[j]} \subseteq {Opt("tunneldevice", <<"1:2">>), Opt("tunneldevice", <<"any">>)}
       \/ {ls[i], ls[j]} \subseteq {Opt("ipqos", <<"af21">>), Opt("ipqos", <<"cs1", "lowdelay">>)}
AgentTops == {ls \in SeqOf(AgentLines, 3) : ~LaterLineWins(ls)}

MC_TunIds == ("1:2" :> [local |-> 1, remote |-> 2])
             @@ ("any" :> [local |-> SSH_TUNID_ANY, remote |-> SSH_TUNID_ANY])
MC_QoS == ("af21" :> 72) @@ ("cs1" :> 32) @@ ("lowdelay" :> 16)

MC_EnvAssignments == {"A=1", "B=2"}
MC_EnvRemovals == ("-LANG" :> "LANG") @@ ("-*" :> "*")

MC_Num == ("0" :> 0) @@ ("1" :> 1) @@ ("3" :> 3) @@ ("5" :> 5) @@ ("22" :> 22)
          @@ ("70000" :> 70000)

\* the families, tagged so that they are disjoint: [tops, incs, finals]
SetupParams ==
  ({"block"} \X BlockTops \X BlockIncs \X BOOLEAN)
  \cup ({"match"} \X MatchTops \X {<<>>} \X BOOLEAN)
  \cup ({"key"} \X KeyTops \X {<<>>} \X BOOLEAN)
  \cup ({"option"} \X OptionTops \X {<<>>} \X {FALSE})
  \cup ({"exec"} \X ExecTops \X {<<>>} \X {FALSE})
  \cup ({"env"} \X EnvTops \X {<<>>} \X {FALSE})
  \cup ({"fwd"} \X FwdTops \X {<<>>} \X {FALSE})
  \cup ({"esc"} \X EscTops \X {<<>>} \X {FALSE})
  \cup ({"agent"} \X AgentTops \X {<<>>} \X {FALSE})

MC_Setups == {Setup(p[2], p[3], p[4]) : p \in SetupParams}

\* Match exec only
MC_ExecSetups == {Setup(t, <<>>, FALSE) : t \in ExecTops}

\* ConnectTimeout none followed by another ConnectTimeout
MC_NoneSetups == {Setup(ls, <<>>, FALSE) :
                    ls \in {ls \in SeqOf(OptionLines, 2) : NoneThenTimeout(ls)}}

\* a key repeated after the list is full
MC_DupSetups == {Setup(ks, <<>>, FALSE) : ks \in {ks \in SeqOf(KeyLines, 4) : DupAtCapacity(ks)}}

\* forwarding arguments that ssh_config(5)'s forms reject and parse_forward
\* accepts once the two words are joined with ':' (checked with
\* Setups <- MC_FwdJoinSetups)
MC_FwdJoinSetups ==
  {Setup(<<l>>, <<>>, FALSE) :
     l \in {Opt("localforward", <<"1:h", "1">>), Opt("dynamicforward", <<"1:">>)}}

\* the later of two lines takes effect
MC_LastWinsSetups ==
  {Setup(ls, <<>>, FALSE) :
     ls \in {<<Opt("forwardagent", <<"yes">>), Opt("forwardagent", <<"/s">>)>>,
            <<Opt("tunneldevice", <<"1:2">>), Opt("tunneldevice", <<"any">>)>>,
            <<Opt("ipqos", <<"af21">>), Opt("ipqos", <<"cs1", "lowdelay">>)>>}}

MC_ExitStatus == [c \in {"c0", "c1", "c256"} |->
                    IF c = "c0" THEN 0 ELSE IF c = "c1" THEN 1 ELSE 256]
=============================================================================
