--------------------------- MODULE MCApoProcessor ---------------------------
(* Both rings sized as the constructor sizes them, for a headroom below 16.   *)
EXTENDS ApoProcessor

CONSTANT Headroom

MCCapacity == NextPowerOfTwo(FrameSize * Headroom)
=============================================================================
