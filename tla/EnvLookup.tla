----------------------------- MODULE EnvLookup -----------------------------
(***************************************************************************)
(* Name matching of the two environment lookups in this repository:       *)
(*  - libc_getenv (src/libc_replacement.c): scans the overlay envp of a    *)
(*    fake pid with strncmp(variableName, envp[i], position - envp[i]),    *)
(*    position being the first '=' of the entry, then falls back to the    *)
(*    process-wide getenv;                                                 *)
(*  - printenv NAME (src/shell_cmds/printenv/printenv.c): memcmp of the    *)
(*    strlen(NAME) first bytes, then the next byte must be '\0' or '='.    *)
(* A name is a short sequence over a small alphabet (names differ only in  *)
(* the prefix relation the C comparisons see); an entry NAME=value is a    *)
(* record.  The state is one lookup: the overlay and the name asked for.   *)
(***************************************************************************)
EXTENDS Integers, Sequences, SequencesExt

CONSTANTS
  Chars,        \* alphabet of variable names
  MaxName,      \* longest name
  MaxEntries,   \* longest envp array
  Values,       \* values an overlay entry can carry
  GlobalValue,  \* what the process-wide getenv returns for every name
  NotFound      \* NULL from getenv / exit(1) from printenv

Names == SeqOf(Chars, MaxName) \ {<<>>}
Entries == [name : Names, value : Values]

VARIABLES envp, name

vars == <<envp, name>>

Init ==
  /\ envp \in SeqOf(Entries, MaxEntries)
  /\ name \in Names

\* a lookup changes nothing
Next == UNCHANGED vars

Spec == Init /\ [][Next]_vars

-----------------------------------------------------------------------------
(* strncmp(variableName, entry, len(entry's name)) = 0: the first           *)
(* len(entry's name) bytes agree, and a shorter variableName differs at    *)
(* its '\0'.  So: the entry's name is a prefix of variableName.            *)
StrncmpMatches(entryName, variableName) == IsPrefix(entryName, variableName)

\* libc_getenv: the loop over envp[i] != NULL, then getenv(variableName)
RECURSIVE ScanGetenv(_, _, _)
ScanGetenv(e, i, variableName) ==
  IF i > Len(e) THEN GlobalValue
  ELSE IF StrncmpMatches(e[i].name, variableName) THEN e[i].value
  ELSE ScanGetenv(e, i + 1, variableName)

libc_getenv(e, variableName) == ScanGetenv(e, 1, variableName)

(* printenv: !memcmp( *ep, *argv, len), then the byte cp after NAME is   *)
(* either the end of the entry or its "=": the                            *)
(* entry's name starts with NAME and the byte after NAME ends the name.    *)
PrintenvMatches(entryName, arg) ==
  IsPrefix(arg, entryName) /\ Len(entryName) = Len(arg)

RECURSIVE ScanPrintenv(_, _, _)
ScanPrintenv(e, i, arg) ==
  IF i > Len(e) THEN NotFound
  ELSE IF PrintenvMatches(e[i].name, arg) THEN e[i].value
  ELSE ScanPrintenv(e, i + 1, arg)

printenv(e, arg) == ScanPrintenv(e, 1, arg)

-----------------------------------------------------------------------------
(* Reference: the value of the first entry whose name is exactly n, else   *)
(* the fallback (section 4.2 of the specification).                        *)
FirstExact(e, n, fallback) ==
  LET hits == {i \in 1..Len(e) : e[i].name = n}
  IN  IF hits = {} THEN fallback ELSE e[Min(hits)].value

(* Safety: an overlay binding shadows the process-wide value only for its  *)
(* own name; a lookup of any other name, even one the binding's name is a  *)
(* prefix of, falls through (libc_getenv's strncmp loop).                  *)
GetenvAsSpecified ==
  libc_getenv(envp, name) = FirstExact(envp, name, GlobalValue)

(* printenv NAME prints the value of the first entry named exactly NAME,  *)
(* and fails when there is none (printenv_main's memcmp loop and its test  *)
(* of the byte after NAME), for every environment and argument in range.   *)
(* A statement about constants only: TLC checks it when a model of this    *)
(* module starts.                                                          *)
PrintenvAsSpecified ==
  \A e \in SeqOf(Entries, MaxEntries), n \in Names :
    printenv(e, n) = FirstExact(e, n, NotFound)

ASSUME PrintenvAsSpecified
=============================================================================
