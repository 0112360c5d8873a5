---------------------------- MODULE MCXargsInput ----------------------------
(* Instantiates XargsInput for TLC: a two-letter alphabet, inputs of a few *)
(* bytes, a one-byte utility name and command lines whose -s leaves a      *)
(* buffer of a few bytes, so that arguments fill it and are carried over.  *)
EXTENDS XargsInput, TLC

Opt(o, a) == [opt |-> o, arg |-> a]

Invs(optionLists, inputs, n) ==
  [options : optionLists, input : inputs, argv : {<<>>}, others : {n}]

\* with the utility and its arguments argvs
UtilityInvs(optionLists, argvs, inputs) ==
  [options : optionLists, input : inputs, argv : argvs, others : {0}]

\* -n 2 -s 5; -s 4 (buffer of 3); -L 1 -s 5; -E b -s 7; -n 1 -s 5
TextOptionLists ==
  { << Opt("n", 2), Opt("s", 5) >>,
    << Opt("s", 4) >>,
    << Opt("L", 1), Opt("s", 5) >>,
    << Opt("E", <<"b">>), Opt("s", 7) >>,
    << Opt("n", 1), Opt("s", 5) >> }

\* text: up to 4 bytes and a final newline
TextInputs == {in \o <<NL>> : in \in SeqOf({"a", "b", Blank, NL, SQ, BS}, 4)}

\* -0 -s 4; -0 -n 1 -s 7
ZOptionLists ==
  { << Opt("0", 0), Opt("s", 4) >>,
    << Opt("0", 0), Opt("n", 1), Opt("s", 7) >> }

ZInputs == SeqOf({"a", NUL, Blank, NL}, 5)

\* a large buffer: a single run, at the end of the input, while another
\* session starts an xargs
OneRunOptionLists == { << Opt("s", 9) >> }

\* no final newline, and a first byte that is stored (p # bbp at EOF)
UnterminatedInputs == {<<"a">> \o in : in \in SeqOf({"a", DQ, Tab, BS}, 3)}

\* lines: -L 1 and -L 2 with room for every line; -I b with the default
\* -R 5 and with -R 1, for a utility "a" whose arguments hold b once, not
\* at all and twice
LineOptionLists ==
  { << Opt("L", 1), Opt("s", 9) >>, << Opt("L", 2), Opt("s", 9) >> }

IOptionLists ==
  { << Opt("I", <<"b">>), Opt("s", 16) >>,
    << Opt("I", <<"b">>), Opt("R", 1), Opt("s", 16) >> }

UtilityArgvs == { << <<"a">>, <<"b">>, <<"a", "b", "b">>, <<"b">> >> }

\* up to 4 bytes and a final newline, without tabs (see README)
LineInputs == {in \o <<NL>> : in \in SeqOf({"a", "b", Blank, NL, SQ}, 4)}

\* -I inputs: no quotes, as an empty argument adds no space to inpline
\* (see README)
IInputs == {in \o <<NL>> : in \in SeqOf({"a", "b", Blank, NL}, 4)}

MC_Invocations ==
  Invs(TextOptionLists, TextInputs, 0) \cup Invs(ZOptionLists, ZInputs, 0)
    \cup Invs(OneRunOptionLists, UnterminatedInputs, 1)
    \cup Invs(LineOptionLists, LineInputs, 0)
    \cup UtilityInvs(IOptionLists, UtilityArgvs, IInputs)

\* -n 1 -E a: runs reset p, the bytes stay
MC_EofInvocations ==
  Invs({<< Opt("n", 1), Opt("E", <<"a">>) >>}, SeqOf({"a", "b", Blank}, 4), 0)

\* -n 2 -x -s 9
MC_XInvocations ==
  Invs({<< Opt("n", 2), Opt("x", 0), Opt("s", 9) >>}, TextInputs, 0)

MC_OtherEofStrs == { <<>> }
=============================================================================
