------------------------------- MODULE MCPipe -------------------------------
(* Instances of Pipe for TLC.                                              *)
EXTENDS Pipe, TLC

\* Readers are alike, and so are writers and bytes.
Symmetry == Permutations(Readers) \cup Permutations(Writers) \cup Permutations(Bytes)
=============================================================================
