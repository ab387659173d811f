------------------------------- MODULE MCPipe -------------------------------
(* Instances of Pipe for TLC. *)
EXTENDS Pipe, TLC

\* The bytes are interchangeable.
Symmetry == Permutations(Byte)
=============================================================================
