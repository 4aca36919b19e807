------------------------------ MODULE MCFraming ------------------------------
(* Every hop of a small frame, those that do not divide it included.          *)
EXTENDS Framing

MCHops == 1 .. FrameSize
MCChunks == 0 .. FrameSize + 1
=============================================================================
