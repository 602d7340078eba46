--------------------------- MODULE MCNightlyWalk ---------------------------
(* A small instance of NightlyWalk for TLC.                                *)
EXTENDS NightlyWalk, TLC

CONSTANTS s1, s2, s3, j1, j2
=============================================================================
