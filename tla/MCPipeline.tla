----------------------------- MODULE MCPipeline -----------------------------
(* A pipeline with the front ends' three stages, and model files that keep or  *)
(* break each clause of the tensor contract.                                   *)
EXTENDS Pipeline

FrontEndKinds == <<"vad", "denoise", "speaker_isolation">>
DenoiseOnly == <<"denoise">>

Named(name, dim) == [name |-> name, dim |-> dim]
Yields(name, count) == [name |-> name, count |-> count]
File(inputs, outputs) == [parses |-> TRUE, runs |-> TRUE, inputs |-> inputs, outputs |-> outputs]

Missing == [parses |-> FALSE, runs |-> FALSE, inputs |-> <<>>, outputs |-> <<>>]
Stateless == File(<<Named("input", FrameSize)>>, <<Yields("output", FrameSize)>>)
Recurrent ==
  File(<<Named("input", FrameSize), Named("state_in", 3)>>,
       <<Yields("output", FrameSize), Yields("state_out", 3)>>)
WrongFrameSize ==
  File(<<Named("state_in", 1), Named("input", FrameSize + 1)>>,
       <<Yields("output", FrameSize + 1), Yields("state_out", 1)>>)
LongOutput == File(<<Named("input", FrameSize)>>, <<Yields("output", FrameSize + 1)>>)
EmptyOutput == File(<<Named("input", FrameSize)>>, <<Yields("output", 0)>>)
ShortState ==
  File(<<Named("input", FrameSize), Named("state_in", 3)>>,
       <<Yields("state_out", 1), Yields("output", FrameSize)>>)
UnpairedState ==
  File(<<Named("input", FrameSize), Named("state_in", 5)>>, <<Yields("output", FrameSize)>>)
TwoDimensional ==
  File(<<Named("state_in", 4), Named("input", NotFixed)>>, <<Yields("output", FrameSize)>>)
StrangeOutput ==
  File(<<Named("input", FrameSize + 2)>>, <<Yields("output", FrameSize), Yields("logits", 2)>>)
NotFloat == [Recurrent EXCEPT !.runs = FALSE]
NoOutput == File(<<Named("input", FrameSize)>>, <<>>)

AllFiles ==
  {Missing, Stateless, Recurrent, WrongFrameSize, LongOutput, EmptyOutput, ShortState,
   UnpairedState, TwoDimensional, StrangeOutput, NotFloat, NoOutput}

(* Every file in the denoise stage, with good and bad neighbours. *)
FrontEndFiles == <<{Recurrent, EmptyOutput}, AllFiles, {Recurrent, LongOutput}>>
DenoiseFiles == <<{Missing, Recurrent, WrongFrameSize, LongOutput, EmptyOutput}>>
=============================================================================
