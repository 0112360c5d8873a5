---------------------------- MODULE MCCurlTrace ----------------------------
(* One curl session per run of the model: -v (TRACE_PLAIN to stderr, on a *)
(* terminal or not, with or without --trace-time) over up to three events, *)
(* or --trace / --trace-ascii to stdout, stderr or a file over one event    *)
(* of up to five bytes or up to three short ones; each fopen of the trace  *)
(* file may fail.                                                           *)
EXTENDS CurlTrace

Ev(t, d) == [type |-> t, data |-> d]

MC_Configs ==
  [tracetype : {"plain"}, isatty : BOOLEAN, dump : {"%"}, tracetime : BOOLEAN]
  \cup [tracetype : {"ascii", "bin"}, isatty : {FALSE}, dump : {"-", "%", "f"},
        tracetime : {FALSE}]

\* header lines end in LF; a header or a text may be passed without its end
PlainEvents ==
  {Ev("TEXT", <<"a", "LF">>), Ev("TEXT", <<"a">>), Ev("HEADER_IN", <<"a", "LF">>),
   Ev("HEADER_OUT", <<"a", "LF", "a", "LF">>), Ev("HEADER_OUT", <<"a", "LF", "a">>),
   Ev("HEADER_OUT", <<"LF">>), Ev("DATA_IN", <<"a">>), Ev("SSL_DATA_OUT", <<"a", "a">>)}

MC_PlainInputs == SeqOf(PlainEvents, 3)

MC_DumpInputs ==
  {<<Ev(t, d)>> : t \in {"HEADER_OUT", "DATA_IN"}, d \in SeqOf({"a", "u", "CR", "LF"}, 5)}
  \cup {<<Ev("TEXT", <<"a", "LF">>)>>}
  \cup SeqOf({Ev("DATA_IN", <<"a", "CR", "LF">>), Ev("HEADER_OUT", <<"u">>),
              Ev("TEXT", <<"a">>)}, 3)

\* two -v sessions (Sessions = {s1, s2}, Configs <- MC_PlainConfigs,
\* PlainInputs <- MC_TwoInputs): the statics are shared between them
MC_PlainConfigs ==
  [tracetype : {"plain"}, isatty : {FALSE}, dump : {"%"}, tracetime : BOOLEAN]

MC_TwoInputs ==
  SeqOf({Ev("TEXT", <<"a">>), Ev("TEXT", <<"a", "LF">>), Ev("DATA_IN", <<"a">>)}, 2)
=============================================================================
