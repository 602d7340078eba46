-------------------------- MODULE MCRegistryStore --------------------------
(* A small instance of RegistryStore for TLC.                              *)
EXTENDS RegistryStore, TLC

CONSTANTS a, b, c, f1, f2, t1, t2

MCInFile == [types |-> {a, b}, form |-> f1]
=============================================================================
