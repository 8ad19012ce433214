------------------------------ MODULE MCPrefork ------------------------------
(* Prefork for TLC. *)
EXTENDS Prefork, TLC

\* Connections are interchangeable; pids are not, the master's loops order them.
ConnSymmetry == Permutations(Conns)
=============================================================================
