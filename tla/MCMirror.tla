------------------------------ MODULE MCMirror ------------------------------
(* A small instance of Mirror for TLC.                                     *)
EXTENDS Mirror

CONSTANTS c1, c2, a1
=============================================================================
