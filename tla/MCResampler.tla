----------------------------- MODULE MCResampler -----------------------------
(* Equal rates, up and down by small ratios, 44.1 kHz to 48 kHz and back, and  *)
(* a ratio larger than any chunk.                                             *)
EXTENDS Resampler

MCRates == {<<1, 1>>, <<1, 4>>, <<2, 3>>, <<3, 2>>, <<147, 160>>, <<160, 147>>,
            <<7, 1>>, <<7, 2>>}
MCChunks == 0 .. 5
=============================================================================
