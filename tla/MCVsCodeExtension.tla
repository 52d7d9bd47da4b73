-------------------------- MODULE MCVsCodeExtension --------------------------
(* An instance of VsCodeExtension for TLC. *)
EXTENDS VsCodeExtension

CONSTANTS k1, k2

TwoPolls == {k1, k2}

\* A denial that leaves the list before it leaves the log, then another process
\* whose ids are the same.
MCTraffic == << <<FALSE, TRUE>>, <<>> >>
=============================================================================
