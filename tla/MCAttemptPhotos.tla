-------------------------- MODULE MCAttemptPhotos --------------------------
(* A small instance of AttemptPhotos for TLC.                              *)
EXTENDS AttemptPhotos

CONSTANTS c1, c2, image

MCClients == {c1, c2}
MCNames == {image}
=============================================================================
