----------------------------- MODULE MCIMUBuffer -----------------------------
(* Model-checking instance of IMUBuffer.  The two streams go through the   *)
(* same code and share only the image stamps, so they are symmetric.       *)
EXTENDS IMUBuffer, TLC

MCStamp == 0 .. 4
MCSymmetry == Permutations(Stream)
=============================================================================
