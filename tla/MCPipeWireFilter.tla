-------------------------- MODULE MCPipeWireFilter --------------------------
(* The ring is sized as main() sizes it, and there is a command line for each  *)
(* way through main(): a model can be missing, good or refused.                *)
EXTENDS PipeWireFilter

CONSTANTS Headroom, MaxQuantum

MCCapacity == NextPowerOfTwo(FrameSize * Headroom)
MCQuanta == 0 .. MaxQuantum

Line(parse, vad, denoise, speaker) == [parse |-> parse, model |-> <<vad, denoise, speaker>>]

Plain == Line("runs", "none", "none", "none")
MCCommands ==
  {Plain, Line("runs", "good", "none", "good"), Line("runs", "good", "refused", "none"),
   Line("help", "none", "none", "none"), Line("usage", "none", "none", "none"),
   Line("throws", "none", "none", "none")}
MCPlainOnly == {Plain}

(* What main() and RingBuffer's constructor make of the sizes. *)
ASSUME SizesAssumption == MCCapacity >= FrameSize * Headroom
=============================================================================
