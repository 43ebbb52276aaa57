--------------------------- MODULE MCPrintStream ---------------------------
(***************************************************************************)
(* Small instances of PrintStream for TLC.                                 *)
(***************************************************************************)
EXTENDS PrintStream, TLC

Interchangeable == Permutations(Callers) \cup Permutations(JobIds)
=============================================================================
