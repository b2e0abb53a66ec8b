---------------------------- MODULE MCTcpBackend ----------------------------
(***************************************************************************)
(* TcpBackend on small instances.  The lookups differ in nothing; the      *)
(* symmetry serves the run that has no temporal property.                  *)
(***************************************************************************)
EXTENDS TcpBackendProperties, TLC

LookupSymmetry == Permutations(Lookups)
=============================================================================
