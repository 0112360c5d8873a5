------------------------------ MODULE MCXargs -------------------------------
(* Instantiates Xargs for TLC.  The pid table is made small so that the    *)
(* cfgs choose between runs that stay below IOS_MAX_THREADS forks and runs *)
(* that wrap around it.                                                    *)
EXTENDS Xargs, TLC

\* errno values of Darwin
MC_ENOENT == 2
MC_EACCES == 13
MC_ExecErrors == {MC_ENOENT, MC_EACCES}

\* what a command's main may return: success, failure, 255 (abort xargs),
\* 256 (reported as 0)
MC_Statuses == {0, 1, 255, 256}

\* an overlay is named by the launch that installs it
MC_Overlays == Sessions \X (1..NBatches)

MC_Symmetry == Permutations(Sessions)
=============================================================================
