----------------------------- MODULE XargsInput -----------------------------
(***************************************************************************)
(* How xargs (src/shell_cmds/xargs/xargs.c) turns its standard input into  *)
(* the argument lists of the commands it runs: the option processing of    *)
(* xargs_main that sizes the buffers, and parse_input, one call per input  *)
(* character, assembling arguments in the byte buffer bbp..ebp and the     *)
(* pointer array bxp..endxp, and calling prerun/run when a limit is hit.   *)
(*                                                                         *)
(* The buffer is an array of bytes that keeps what earlier batches left in *)
(* it: p is reset to bbp after each run, the bytes are not.  Pointers are  *)
(* offsets from bbp.  What run() does with a batch is the Xargs module; a  *)
(* run here records its argument list and returns.                         *)
(*                                                                         *)
(* eofstr and pad9314053 are plain statics, not __thread like the rest of  *)
(* xargs' state: the main of an xargs started in another session writes    *)
(* them (OtherXargsMain).                                                  *)
(***************************************************************************)
EXTENDS Integers, Sequences, SequencesExt, FiniteSets

CONSTANTS
  Letters,       \* ordinary input bytes
  NUL,           \* the byte '\0'
  Invocations,   \* [options |-> command line, input |-> standard input,
                 \*  argv |-> the utility and its arguments (<<>>: echo),
                 \*  others |-> xargs started in other sessions meanwhile]
  DefaultNArgs,  \* nargs when there is no -n (5000 in the code)
  DefaultNLine,  \* ARG_MAX - MAXPATHLEN - the size of the environment
  PtrSize,       \* sizeof(char * ), the initial pad9314053
  EchoLen,       \* strlen(_PATH_ECHO): the utility's name
  OtherEofStrs,  \* eofstr values another session's xargs_main may store
  MaxSubst       \* the maxsize prerun passes to strnsubst (255 in the code)

Blank == " "
Tab == "\t"
NL == "\n"
SQ == "'"
DQ == "\""
BS == "\\"
EOF == "EOF"   \* getchar()'s EOF; never an input byte
Bytes == Letters \cup {NUL, Blank, Tab, NL, SQ, DQ, BS}

ASSUME NUL \notin Letters /\ EOF \notin Bytes
ASSUME \A inv \in Invocations : \A i \in DOMAIN inv.input : inv.input[i] \in Bytes
ASSUME MaxSubst \in Nat \ {0}

VARIABLES
  stdin, pos,          \* the input and how much of it getchar() consumed
  opts,                \* per-invocation settings left by xargs_main
  mem, p, argp, xp,    \* bbp[0..nline], p, argp, bxp..xp (offsets)
  count, insingle, indouble, wasquoted, last_was_newline, last_was_blank,
  eofstr, pad9314053,  \* process-wide statics
  cmds,                \* the argument lists run() was called with, in order
  status,              \* "reading", "exited" (exit(rval)) or "failed" (errx)
  others,              \* xargs_main calls of other sessions still to come
  inpline              \* -I: the arguments of the line so far, joined by ' '

bufvars == <<mem, p, argp, xp>>
lexvars == <<count, insingle, indouble, wasquoted, last_was_newline,
             last_was_blank>>
vars == <<stdin, pos, opts, bufvars, lexvars, eofstr, pad9314053, cmds,
          status, others, inpline>>

-----------------------------------------------------------------------------
(***************************************************************************)
(* xargs_main: getopt over the options in order (-L and -n override each   *)
(* other, as COMPAT_MODE is 1), then the checks, then the buffer sizes.    *)
(* An option is a record [opt, arg].  The result also says whether main    *)
(* stopped in usage() or errx().                                           *)
(***************************************************************************)
Getopt(st, o) ==
  CASE o.opt = "E" -> [st EXCEPT !.eofstr = o.arg]
    [] o.opt = "L" -> [st EXCEPT !.Lflag = o.arg, !.nflag = 0,
                                 !.nargs = DefaultNArgs]
    [] o.opt = "n" -> IF o.arg <= 0 THEN [st EXCEPT !.ok = FALSE]
                      ELSE [st EXCEPT !.nflag = 1, !.nargs = o.arg,
                                      !.Lflag = 0]
    [] o.opt = "s" -> [st EXCEPT !.nline = o.arg, !.pad = 0, !.s = o.arg]
    [] o.opt = "x" -> [st EXCEPT !.xflag = 1]
    [] o.opt = "0" -> [st EXCEPT !.zflag = 1]
    [] o.opt = "I" -> [st EXCEPT !.Iflag = 1, !.Lflag = 1, !.replstr = o.arg]
    [] o.opt = "R" -> [st EXCEPT !.Rflag = o.arg]

(* The checks after getopt, in the code's order: -R needs -I, -I defaults  *)
(* -R to 5, -x needs -n, -I and -L imply -x, and -I's replstr may not be   *)
(* empty (the replstr of the model is set exactly when -I was given).      *)
MainChecks(st) ==
  [st EXCEPT !.ok = @ /\ ~(st.Iflag = 0 /\ st.Rflag # 0)
                      /\ ~(st.xflag = 1 /\ st.nflag = 0)
                      /\ ~(st.Iflag = 1 /\ st.replstr = <<>>),
             !.Rflag = IF st.Iflag = 1 /\ @ = 0 THEN 5 ELSE @,
             !.xflag = IF st.Iflag = 1 \/ st.Lflag # 0 THEN 1 ELSE @]

\* cnt: the utility's name and arguments (echo alone: no '\0' counted)
UtilityLen(argv, pad) ==
  IF argv = <<>> THEN EchoLen + pad
  ELSE FoldLeft(LAMBDA acc, a : acc + Len(a) + 1 + pad, 0, argv)

\* mutant: the utility's length not taken off the buffer
xargs_main_nocnt(options, argv) ==
  LET init == [ok |-> TRUE, eofstr |-> <<>>, nflag |-> 0, nargs |-> DefaultNArgs,
               Lflag |-> 0, xflag |-> 0, zflag |-> 0, Iflag |-> 0, Rflag |-> 0,
               replstr |-> <<>>, argv |-> argv,
               nline |-> DefaultNLine - PtrSize, pad |-> PtrSize, s |-> 0]
      st   == MainChecks(FoldLeft(Getopt, init, options))
  IN  [st EXCEPT !.ok = @ /\ st.nline > 0]

xargs_main(options, argv) ==
  LET init == [ok |-> TRUE, eofstr |-> <<>>, nflag |-> 0, nargs |-> DefaultNArgs,
               Lflag |-> 0, xflag |-> 0, zflag |-> 0, Iflag |-> 0, Rflag |-> 0,
               replstr |-> <<>>, argv |-> argv,
               nline |-> DefaultNLine - PtrSize, pad |-> PtrSize, s |-> 0]
      st   == MainChecks(FoldLeft(Getopt, init, options))
      cnt  == UtilityLen(argv, st.pad)
  IN  [st EXCEPT !.ok = @ /\ st.nline - cnt > 0, !.nline = @ - cnt]

\* ebp = bbp + nline - 1, endxp = bxp + nargs
\* mutant: the "- 1" dropped
Ebp_nominus == opts.nline

Ebp == opts.nline - 1

Init ==
  /\ pos = 0
  /\ \E inv \in Invocations :
       LET st == xargs_main(inv.options, inv.argv)
       IN  /\ stdin = inv.input
           /\ others = inv.others
           /\ opts = st
           /\ eofstr = st.eofstr
           /\ pad9314053 = st.pad
           /\ status = IF st.ok THEN "reading" ELSE "failed"
  \* malloc(nline + 1): the model starts from zeroed memory
  /\ mem = [i \in 0..opts.nline |-> NUL]
  /\ p = 0 /\ argp = 0 /\ xp = <<>>
  /\ count = 0 /\ insingle = 0 /\ indouble = 0 /\ wasquoted = 0
  /\ last_was_newline = 1 /\ last_was_blank = 0
  /\ cmds = <<>>
  /\ inpline = <<>>

-----------------------------------------------------------------------------
\* the C string at offset o: the bytes up to the next '\0'
CStr(m, o) ==
  LET ends == {i \in o..opts.nline : m[i] = NUL}
      end  == IF ends = {} THEN opts.nline + 1 ELSE Min(ends)
  IN  [i \in 1..(end - o) |-> m[o + i - 1]]

\* the argv run() receives: the strings xp points to
Batch(m, ptrs) == [i \in 1..Len(ptrs) |-> CStr(m, ptrs[i])]

(***************************************************************************)
(* strnsubst (strnsubst.c, not in this repository): every occurrence of    *)
(* match in s, left to right, is replaced by repl into a buffer of maxsize *)
(* bytes; at the first replacement for which the rest of s would not fit, *)
(* the rest is appended unreplaced as far as it fits (strlcat).  A string  *)
(* of exactly maxsize bytes is only truncated.                             *)
(***************************************************************************)
RECURSIVE SubstFrom(_, _, _, _, _)
SubstFrom(acc, s1, match, repl, maxsize) ==
  IF match \notin SubSeqs(s1) THEN acc \o s1
  ELSE IF Len(acc) + Len(s1) + Len(repl) - Len(match) + 1 > maxsize
  THEN LET all == acc \o s1
       IN  IF Len(all) < maxsize THEN all ELSE SubSeq(all, 1, maxsize - 1)
  ELSE LET at == IndexFirstSubSeq(match, s1)
       IN  SubstFrom(acc \o SubSeq(s1, 1, at - 1) \o repl,
                     SubSeq(s1, at + Len(match), Len(s1)), match, repl, maxsize)

strnsubst(s, match, repl, maxsize) ==
  IF Len(s) = maxsize THEN SubSeq(s, 1, maxsize - 1)
  ELSE SubstFrom(<<>>, s, match, repl, maxsize)

(* prerun's loop over the utility's arguments (not its name): while repls  *)
(* is not 0, an argument containing replstr is substituted with the line   *)
(* and repls counts down (a negative -R never reaches 0); the others are   *)
(* copied.  The arguments read from the input are not passed.             *)
RECURSIVE Substitute(_, _, _)
Substitute(args, repls, line) ==
  IF args = <<>> THEN <<>>
  ELSE IF repls # 0 /\ opts.replstr \in SubSeqs(Head(args))
  THEN <<strnsubst(Head(args), opts.replstr, line, MaxSubst)>>
         \o Substitute(Tail(args), IF repls > 0 THEN repls - 1 ELSE repls, line)
  ELSE <<Head(args)>> \o Substitute(Tail(args), repls, line)

(* prerun: without a utility or without replacements (no -I), run the    *)
(* utility with the arguments read (xp reset, run(argv)); otherwise run   *)
(* it with its own arguments substituted, then free inpline.  A run       *)
(* records the arguments after the utility's name.                         *)
\* mutant: inpline kept after the run
prerun_keepline(m, ptrs, line) ==
  IF opts.argv = <<>> \/ opts.Rflag = 0
  THEN cmds' = Append(cmds, Batch(m, ptrs)) /\ inpline' = line
  ELSE cmds' = Append(cmds, Substitute(Tail(opts.argv), opts.Rflag, line))
       /\ inpline' = line

prerun(m, ptrs, line) ==
  IF opts.argv = <<>> \/ opts.Rflag = 0
  THEN cmds' = Append(cmds, Batch(m, ptrs)) /\ inpline' = line
  ELSE cmds' = Append(cmds, Substitute(Tail(opts.argv), opts.Rflag, line))
       /\ inpline' = <<>>

\* -I: an argument kept is added to inpline, after a ' ' unless it is empty
AppendLine(line, arg) == IF line = <<>> THEN arg ELSE line \o <<Blank>> \o arg

\* the code after the switch
AfterSwitch(ch, lwb, lwn, backslashed) ==
  /\ last_was_blank' = IF ch # Blank THEN 0 ELSE lwb
  /\ last_was_newline' = IF ch # NL \/ backslashed THEN 0 ELSE lwn

\* waitchildren() returns at once on iOS; exit(rval)
Exit == status' = "exited"
\* errx(1, ...)
Fail == status' = "failed"

(***************************************************************************)
(* arg2: the end of an argument (a blank, a newline, '\0' under -0, or     *)
(* EOF).  strcmp(argp, eofstr) reads the buffer from argp up to the next   *)
(* '\0', past p: the current argument has no terminator yet.  A kept       *)
(* argument is terminated and its pointer stored; then, at a limit, the    *)
(* batch is run and the buffer and pointer array start over.               *)
(***************************************************************************)
EndOfArg(ch, cnt, lwb, lwn) ==
  LET foundeof == /\ eofstr # <<>> /\ CStr(mem, argp) = eofstr
                  /\ ~(opts.Iflag = 1 /\ lwn = 0)
      keep     == (argp # p \/ wasquoted = 1) /\ ~foundeof
      m1  == IF keep THEN [mem EXCEPT ![p] = NUL] ELSE mem
      line1 == IF keep /\ opts.Iflag = 1 THEN AppendLine(inpline, CStr(m1, argp))
               ELSE inpline
      p1  == IF keep THEN p + 1 ELSE p
      xp1 == IF keep THEN Append(xp, argp) ELSE xp
      overfull == p1 + cnt * pad9314053 > Ebp
      limit == \/ Len(xp1) = opts.nargs \/ overfull \/ ch = EOF
               \/ (opts.Lflag <= cnt /\ opts.xflag = 1) \/ foundeof
  IN
  \/ /\ foundeof /\ p - Len(eofstr) = 0
     /\ Exit
     /\ UNCHANGED <<bufvars, lexvars, cmds, inpline>>
  \/ /\ ~(foundeof /\ p - Len(eofstr) = 0)
     /\ limit /\ opts.xflag = 1 /\ Len(xp1) # opts.nargs /\ overfull
     /\ Fail
     /\ UNCHANGED <<bufvars, lexvars, cmds, inpline>>
  \/ /\ ~(foundeof /\ p - Len(eofstr) = 0)
     /\ limit /\ ~(opts.xflag = 1 /\ Len(xp1) # opts.nargs /\ overfull)
     /\ prerun(m1, xp1, line1)
     /\ IF ch = EOF \/ foundeof
          THEN /\ Exit
               /\ UNCHANGED <<bufvars, lexvars>>
          ELSE /\ mem' = m1 /\ p' = 0 /\ xp' = <<>> /\ argp' = 0
               /\ count' = 0 /\ wasquoted' = 0
               /\ AfterSwitch(ch, lwb, lwn, FALSE)
               /\ UNCHANGED <<insingle, indouble, status>>
  \/ /\ ~(foundeof /\ p - Len(eofstr) = 0)
     /\ ~limit
     /\ mem' = m1 /\ p' = p1 /\ xp' = xp1 /\ argp' = p1
     /\ count' = cnt /\ wasquoted' = 0
     /\ AfterSwitch(ch, lwb, lwn, FALSE)
     /\ inpline' = line1
     /\ UNCHANGED <<insingle, indouble, cmds, status>>

(***************************************************************************)
(* addch: store the byte if p < ebp.  Otherwise the buffer is full: with   *)
(* no complete argument, or under -x, errx; else run the complete          *)
(* arguments, move the partial one to the start of the buffer and store    *)
(* the byte after it.  count and wasquoted are left as they are.           *)
(***************************************************************************)
\* memcpy(bbp, argp, cnt)
\* mutant: one byte fewer copied
MoveArg_short(m, from, n) ==
  [i \in DOMAIN m |-> IF i < n - 1 THEN m[from + i] ELSE m[i]]

MoveArg(m, from, n) == [i \in DOMAIN m |-> IF i < n THEN m[from + i] ELSE m[i]]

AddCh(ch, lwb, backslashed) ==
  \/ /\ p < Ebp
     /\ mem' = [mem EXCEPT ![p] = ch] /\ p' = p + 1
     /\ AfterSwitch(ch, lwb, last_was_newline, backslashed)
     /\ UNCHANGED <<argp, xp, count, insingle, indouble, wasquoted, cmds, inpline,
                    status>>
  \/ /\ p >= Ebp
     /\ xp = <<>> \/ opts.xflag = 1
     /\ Fail
     /\ UNCHANGED <<bufvars, lexvars, cmds, inpline>>
  \/ /\ p >= Ebp
     /\ xp # <<>> /\ opts.xflag = 0
     /\ prerun(mem, xp, inpline)
     /\ LET cnt == Ebp - argp
        IN  /\ mem' = [MoveArg(mem, argp, cnt) EXCEPT ![cnt] = ch]
            /\ p' = cnt + 1
     /\ argp' = 0 /\ xp' = <<>>
     /\ AfterSwitch(ch, lwb, last_was_newline, backslashed)
     /\ UNCHANGED <<count, insingle, indouble, wasquoted, status>>

-----------------------------------------------------------------------------
(* One parse_input call per action: getchar() and the case of its byte.    *)
Reading == status = "reading"
Peek == stdin[pos + 1]
Consume(n) == pos' = pos + n

\* case EOF: nothing since the last run -> exit; else arg1
ReadEof ==
  /\ Reading /\ pos = Len(stdin)
  /\ \/ /\ p = 0
        /\ Exit /\ UNCHANGED <<bufvars, lexvars, cmds, inpline>>
     \/ /\ p # 0 /\ (insingle = 1 \/ indouble = 1)
        /\ Fail /\ UNCHANGED <<bufvars, lexvars, cmds, inpline>>
     \/ /\ p # 0 /\ insingle = 0 /\ indouble = 0
        /\ EndOfArg(EOF, count, last_was_blank, last_was_newline)
  /\ UNCHANGED <<stdin, pos, opts, eofstr, pad9314053, others>>

\* case ' ' (sets last_was_blank) and case '\t': quoted or -0 -> addch
\* mutant: -0 forgotten in the test
ReadBlank_noz ==
  /\ Reading /\ pos < Len(stdin) /\ Peek \in {Blank, Tab}
  /\ LET lwb == IF Peek = Blank THEN 1 ELSE last_was_blank
     IN  IF insingle = 1 \/ indouble = 1
           THEN AddCh(Peek, lwb, FALSE)
           ELSE EndOfArg(Peek, count, lwb, last_was_newline)
  /\ Consume(1)
  /\ UNCHANGED <<stdin, opts, eofstr, pad9314053, others>>

ReadBlank ==
  /\ Reading /\ pos < Len(stdin) /\ Peek \in {Blank, Tab}
  /\ LET lwb == IF Peek = Blank THEN 1 ELSE last_was_blank
     IN  IF insingle = 1 \/ indouble = 1 \/ opts.zflag = 1
           THEN AddCh(Peek, lwb, FALSE)
           ELSE EndOfArg(Peek, count, lwb, last_was_newline)
  /\ Consume(1)
  /\ UNCHANGED <<stdin, opts, eofstr, pad9314053, others>>

\* case '\0': under -0 it ends the line and the argument
ReadNul ==
  /\ Reading /\ pos < Len(stdin) /\ Peek = NUL
  /\ IF opts.zflag = 1
       THEN EndOfArg(NUL, count + 1, last_was_blank, last_was_newline)
       ELSE AddCh(NUL, last_was_blank, FALSE)
  /\ Consume(1)
  /\ UNCHANGED <<stdin, opts, eofstr, pad9314053, others>>

(* case '\n': an empty line is skipped; a line counts for -L unless it     *)
(* ended in a blank (continuation); quotes do not escape newlines.         *)
ReadNewline ==
  /\ Reading /\ pos < Len(stdin) /\ Peek = NL
  /\ \/ /\ opts.zflag = 1
        /\ AddCh(NL, last_was_blank, FALSE)
     \/ /\ opts.zflag = 0 /\ last_was_newline = 1
        /\ AfterSwitch(NL, last_was_blank, last_was_newline, FALSE)
        /\ UNCHANGED <<bufvars, count, insingle, indouble, wasquoted, cmds, inpline,
                       status>>
     \/ /\ opts.zflag = 0 /\ last_was_newline = 0
        /\ insingle = 1 \/ indouble = 1
        /\ Fail /\ UNCHANGED <<bufvars, lexvars, cmds, inpline>>
     \/ /\ opts.zflag = 0 /\ last_was_newline = 0
        /\ insingle = 0 /\ indouble = 0
        /\ EndOfArg(NL, IF last_was_blank = 0 THEN count + 1 ELSE count,
                    last_was_blank, 1)
  /\ Consume(1)
  /\ UNCHANGED <<stdin, opts, eofstr, pad9314053, others>>

\* case '\'' and case '"': toggle the quote unless inside the other one
\* mutant: '"' toggles insingle
ReadQuote_samevar ==
  /\ Reading /\ pos < Len(stdin) /\ Peek \in {SQ, DQ}
  /\ LET other == IF Peek = SQ THEN indouble ELSE insingle
     IN  IF other = 1 \/ opts.zflag = 1
           THEN AddCh(Peek, last_was_blank, FALSE)
           ELSE /\ insingle' = 1 - insingle
                /\ UNCHANGED indouble
                /\ wasquoted' = 1
                /\ AfterSwitch(Peek, last_was_blank, last_was_newline, FALSE)
                /\ UNCHANGED <<bufvars, count, cmds, inpline, status>>
  /\ Consume(1)
  /\ UNCHANGED <<stdin, opts, eofstr, pad9314053, others>>

ReadQuote ==
  /\ Reading /\ pos < Len(stdin) /\ Peek \in {SQ, DQ}
  /\ LET other == IF Peek = SQ THEN indouble ELSE insingle
     IN  IF other = 1 \/ opts.zflag = 1
           THEN AddCh(Peek, last_was_blank, FALSE)
           ELSE /\ IF Peek = SQ THEN /\ insingle' = 1 - insingle
                                     /\ UNCHANGED indouble
                                ELSE /\ indouble' = 1 - indouble
                                     /\ UNCHANGED insingle
                /\ wasquoted' = 1
                /\ AfterSwitch(Peek, last_was_blank, last_was_newline, FALSE)
                /\ UNCHANGED <<bufvars, count, cmds, inpline, status>>
  /\ Consume(1)
  /\ UNCHANGED <<stdin, opts, eofstr, pad9314053, others>>

(* case '\\': outside quotes (and without -0) the next byte is read and    *)
(* stored as it is; at EOF, errx.                                          *)
ReadBackslash ==
  /\ Reading /\ pos < Len(stdin) /\ Peek = BS
  /\ \/ /\ opts.zflag = 1 \/ insingle = 1 \/ indouble = 1
        /\ AddCh(BS, last_was_blank, TRUE)
        /\ Consume(1)
     \/ /\ opts.zflag = 0 /\ insingle = 0 /\ indouble = 0
        /\ pos + 1 = Len(stdin)
        /\ Fail /\ UNCHANGED <<bufvars, lexvars, cmds, inpline>>
        /\ Consume(1)
     \/ /\ opts.zflag = 0 /\ insingle = 0 /\ indouble = 0
        /\ pos + 1 < Len(stdin)
        /\ AddCh(stdin[pos + 2], last_was_blank, TRUE)
        /\ Consume(2)
  /\ UNCHANGED <<stdin, opts, eofstr, pad9314053, others>>

\* default: addch
ReadOther ==
  /\ Reading /\ pos < Len(stdin) /\ Peek \in Letters
  /\ AddCh(Peek, last_was_blank, FALSE)
  /\ Consume(1)
  /\ UNCHANGED <<stdin, opts, eofstr, pad9314053, others>>

(* xargs_main of an xargs started in another session: eofstr = "" and its *)
(* -E, pad9314053 = sizeof(char * ) and 0 under its -s.                    *)
OtherXargsMain ==
  /\ others > 0
  /\ \E e \in OtherEofStrs, pad \in {PtrSize, 0} :
       eofstr' = e /\ pad9314053' = pad
  /\ others' = others - 1
  /\ UNCHANGED <<stdin, pos, opts, bufvars, lexvars, cmds, inpline, status>>

Done == status # "reading" /\ UNCHANGED vars

Next ==
  \/ ReadEof \/ ReadBlank \/ ReadNul \/ ReadNewline \/ ReadQuote
  \/ ReadBackslash \/ ReadOther \/ OtherXargsMain \/ Done

Spec == Init /\ [][Next]_vars

-----------------------------------------------------------------------------
(***************************************************************************)
(* Reference: the arguments xargs is to read from its input.  Blanks and   *)
(* newlines separate arguments outside quotes; '...' and "..." quote (an   *)
(* empty quoted argument is an argument); a backslash outside quotes takes *)
(* the next byte literally; a newline or the end inside quotes, or a       *)
(* backslash at the end, is an error.  Under -0 only '\0' separates.       *)
(* Lex returns the arguments completed before the end or the error.        *)
(***************************************************************************)
RECURSIVE Lex(_, _, _, _, _, _, _)
Lex(in, z, i, cur, q, quoted, toks) ==
  LET flushed == IF cur # <<>> \/ quoted THEN Append(toks, cur) ELSE toks
      err == [ok |-> FALSE, toks |-> toks]
  IN
  IF i > Len(in) THEN IF q # "" THEN err ELSE [ok |-> TRUE, toks |-> flushed]
  ELSE LET c == in[i] IN
  CASE z = 1 /\ c = NUL -> Lex(in, z, i + 1, <<>>, q, FALSE, flushed)
    [] z = 1 -> Lex(in, z, i + 1, Append(cur, c), q, quoted, toks)
    [] c \in {Blank, Tab, NL} /\ q = "" ->
         Lex(in, z, i + 1, <<>>, q, FALSE, flushed)
    [] c = NL -> err
    [] c \in {SQ, DQ} /\ q \in {"", c} ->
         Lex(in, z, i + 1, cur, IF q = c THEN "" ELSE c, TRUE, toks)
    [] c = BS /\ q = "" /\ i = Len(in) -> err
    [] c = BS /\ q = "" -> Lex(in, z, i + 2, Append(cur, in[i + 1]), q, quoted, toks)
    [] OTHER -> Lex(in, z, i + 1, Append(cur, c), q, quoted, toks)

(* With -E, the arguments before the first one equal to eofstr, and no     *)
(* error if that argument comes before it.                                 *)
ExpectedArgs ==
  LET r    == Lex(stdin, opts.zflag, 1, <<>>, "", FALSE, <<>>)
      hits == {i \in DOMAIN r.toks : opts.eofstr # <<>> /\ r.toks[i] = opts.eofstr}
  IN  IF hits = {} THEN r
      ELSE [ok |-> TRUE, toks |-> SubSeq(r.toks, 1, Min(hits) - 1)]

\* bytes an argument list takes in the buffer: each string and its '\0'
SizeOf(args) == FoldLeft(LAMBDA acc, a : acc + Len(a) + 1, 0, args)

(***************************************************************************)
(* Reference: the argument lists of -n nargs and -s size (section 4.5 of   *)
(* the specification, xargs(1)): each list takes arguments in order while  *)
(* it has fewer than nargs and the next one fits in the -s size less the   *)
(* utility's name; under -x a list that must close for lack of space       *)
(* before nargs is an error.                                               *)
(***************************************************************************)
RECURSIVE PackFrom(_, _, _)
PackFrom(as, cur, done) ==
  IF as = <<>> THEN [ok |-> TRUE,
                     lists |-> IF cur = <<>> THEN done ELSE Append(done, cur)]
  ELSE LET fits == SizeOf(cur) + Len(Head(as)) + 1 <= opts.s - UtilityLen(opts.argv, 0)
       IN  IF Len(cur) < opts.nargs /\ fits
             THEN PackFrom(Tail(as), Append(cur, Head(as)), done)
           ELSE IF cur = <<>> \/ (opts.xflag = 1 /\ ~fits) THEN [ok |-> FALSE, lists |-> done]
           ELSE PackFrom(as, <<>>, Append(done, cur))

(* Safety: the arguments of all commands run, in order, are the arguments  *)
(* of the input, up to the end-of-file string; when xargs exits (not       *)
(* errx) it has run them all; it stops with errx only on a bad command     *)
(* line, a malformed input, under -x, or for an argument longer than the   *)
(* buffer (parse_input's quoting, carry-over of a partial argument, strcmp *)
(* with eofstr; xargs_main's -E).                                          *)
ArgsAsSpecified ==
  opts.Iflag = 0 =>
    /\ IsPrefix(FlattenSeq(cmds), ExpectedArgs.toks)
    /\ status = "exited" => ExpectedArgs.ok /\ FlattenSeq(cmds) = ExpectedArgs.toks
    /\ status = "failed" =>
         \/ ~opts.ok \/ ~ExpectedArgs.ok \/ opts.xflag = 1
         \/ \E i \in DOMAIN ExpectedArgs.toks : Len(ExpectedArgs.toks[i]) + 1 > opts.nline

(* Safety: without -L and with -s (no pointer padding), the commands get   *)
(* the argument lists -n and -s call for (parse_input's xp == endxp and    *)
(* p > ebp tests, the carry-over in addch, xargs_main's -x).               *)
BatchesAsSpecified ==
  (status = "exited" /\ opts.Lflag = 0 /\ pad9314053 = 0)
    => LET ref == PackFrom(ExpectedArgs.toks, <<>>, <<>>)
       IN  ref.ok /\ cmds = ref.lists

(***************************************************************************)
(* Reference: the lines of -L and -I (xargs(1)).  A line ends at a newline *)
(* outside quotes; a line with no argument is not counted, and a line     *)
(* whose last byte is an unquoted, unescaped space continues into the     *)
(* next non-empty line (cont).  LexLines returns the arguments of each    *)
(* counted line; those after the last counted line form a final one.      *)
(***************************************************************************)
RECURSIVE LexLines(_, _, _, _, _, _, _, _)
LexLines(in, i, cur, q, quoted, cont, line, lines) ==
  LET full == IF cur # <<>> \/ quoted THEN Append(line, cur) ELSE line
      err  == [ok |-> FALSE, lines |-> lines]
  IN
  IF i > Len(in)
  THEN IF q # "" THEN err
       ELSE [ok |-> TRUE, lines |-> IF full = <<>> THEN lines ELSE Append(lines, full)]
  ELSE LET c == in[i] IN
  CASE c = NL /\ q = "" /\ full # <<>> /\ ~cont ->
         LexLines(in, i + 1, <<>>, q, FALSE, FALSE, <<>>, Append(lines, full))
    [] c \in {Blank, Tab, NL} /\ q = "" ->
         LexLines(in, i + 1, <<>>, q, FALSE, (c = Blank) \/ (c = NL /\ cont), full, lines)
    [] c = NL -> err
    [] c \in {SQ, DQ} /\ q \in {"", c} ->
         LexLines(in, i + 1, cur, IF q = c THEN "" ELSE c, TRUE, FALSE, line, lines)
    [] c = BS /\ q = "" /\ i = Len(in) -> err
    [] c = BS /\ q = "" ->
         LexLines(in, i + 2, Append(cur, in[i + 1]), q, quoted, FALSE, line, lines)
    [] OTHER -> LexLines(in, i + 1, Append(cur, c), q, quoted, FALSE, line, lines)

\* the arguments of each run of n lines
Groups(ls, n) ==
  [k \in 1..((Len(ls) + n - 1) \div n) |->
     FlattenSeq(SubSeq(ls, (k - 1) * n + 1, IF k * n < Len(ls) THEN k * n ELSE Len(ls)))]

\* -I's "entire line of input": the arguments of the lines joined by spaces
JoinArgs(g) ==
  IF g = <<>> THEN <<>>
  ELSE FoldLeft(LAMBDA acc, a : acc \o <<Blank>> \o a, Head(g), Tail(g))

\* s with every occurrence of m replaced by r, left to right
RECURSIVE ReplaceEach(_, _, _)
ReplaceEach(s, m, r) ==
  IF m \notin SubSeqs(s) THEN s
  ELSE LET at == IndexFirstSubSeq(m, s)
       IN  SubSeq(s, 1, at - 1) \o r \o ReplaceEach(SubSeq(s, at + Len(m), Len(s)), m, r)

(* -I replaces replstr in up to -R arguments of the utility (its name      *)
(* excluded; all of them for a negative -R): the result is the argument    *)
(* with every occurrence replaced, and is never MaxSubst bytes or longer.  *)
Replaced(c, line) ==
  LET args == Tail(opts.argv)
      hits == {j \in DOMAIN args : opts.replstr \in SubSeqs(args[j])}
      used == {j \in hits : opts.Rflag < 0 \/ Cardinality({k \in hits : k <= j}) <= opts.Rflag}
  IN  /\ Len(c) = Len(args)
      /\ \A j \in DOMAIN args :
           LET full == ReplaceEach(args[j], opts.replstr, line)
           IN  CASE j \notin used -> c[j] = args[j]
                 [] Len(full) < MaxSubst -> c[j] = full
                 [] OTHER -> Len(c[j]) < MaxSubst

(* Safety: under -L n (and -I, which sets -L 1) without -0 and -E, an     *)
(* xargs that exits has run one command per n counted lines, in order:     *)
(* with the arguments of the lines, or under -I the utility's arguments    *)
(* with the line put in place of replstr (parse_input's count and          *)
(* last_was_newline/last_was_blank tests, the inpline assembly, prerun and *)
(* strnsubst).                                                             *)
LinesAsSpecified ==
  (status = "exited" /\ opts.Lflag > 0 /\ opts.zflag = 0 /\ opts.eofstr = <<>>
   /\ eofstr = <<>>)
    => LET ref == LexLines(stdin, 1, <<>>, "", FALSE, FALSE, <<>>, <<>>)
           gs  == Groups(ref.lines, opts.Lflag)
       IN  /\ ref.ok /\ Len(cmds) = Len(gs)
           /\ \A k \in DOMAIN gs :
                IF opts.Iflag = 1 /\ opts.argv # <<>>
                THEN Replaced(cmds[k], JoinArgs(gs[k]))
                ELSE cmds[k] = gs[k]
=============================================================================
