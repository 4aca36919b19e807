---------------------------- MODULE DelayedStream ----------------------------
(***************************************************************************)
(* What a platform front end owes whoever listens to it, whatever its      *)
(* queues, frames and threads do in between: the stream that was captured, *)
(* late.  Samples leave in the order they came, each at most once; a block *)
(* that cannot be filled ends in silence; and a sample that never leaves   *)
(* was either counted as lost or is still on its way.                      *)
(***************************************************************************)
EXTENDS SampleStream

CONSTANT Quanta         \* the sizes of the blocks that are captured and heard

VARIABLES captured,     \* samples taken in so far
          inFlight,     \* those neither heard nor lost yet, the next to be heard first
          heard,        \* the block given out last
          lost          \* samples lost so far

vars == <<captured, inFlight, heard, lost>>

Init ==
  /\ captured = 0
  /\ inFlight = <<>>
  /\ heard = <<>>
  /\ lost = 0

Capture(n) ==
  /\ captured' = captured + n
  /\ inFlight' = inFlight \o Block(captured + 1, n)
  /\ UNCHANGED <<heard, lost>>

(* A block of n, of which the stream fills the first k. *)
Hear(n, k) ==
  /\ heard' = Padded(First(inFlight, k), n)
  /\ inFlight' = Rest(inFlight, k)
  /\ UNCHANGED <<captured, lost>>

(* A queue on the way was full: n samples behind the next k are gone. *)
Lose(n, k) ==
  /\ lost' = lost + n
  /\ inFlight' = First(inFlight, k) \o Rest(inFlight, k + n)
  /\ UNCHANGED <<captured, heard>>

Next ==
  \/ \E n \in Quanta : Capture(n)
  \/ \E n \in Quanta : \E k \in 0 .. Least(n, Len(inFlight)) : Hear(n, k)
  \/ \E n \in 1 .. Len(inFlight) : \E k \in 0 .. Len(inFlight) - n : Lose(n, k)

Spec == Init /\ [][Next]_vars
-----------------------------------------------------------------------------
(* A sample is past when nothing that is on its way, or still to be captured,  *)
(* comes at or before it.                                                      *)
Past(p) == p =< captured /\ \A k \in DOMAIN inFlight : p < inFlight[k]

(* What is on its way is in the order of capture, a block is in that order and *)
(* has silence only at its end, and what was heard is past.                    *)
InOrder ==
  /\ \A k \in DOMAIN inFlight : inFlight[k] \in 1 .. captured
  /\ \A j, k \in DOMAIN inFlight : j < k => inFlight[j] < inFlight[k]
  /\ \A j, k \in DOMAIN heard : j < k /\ heard[k] # Silence =>
       heard[j] # Silence /\ heard[j] < heard[k]
  /\ \A k \in DOMAIN heard : Past(heard[k])

(* A new block has samples of what was on its way, and silence. *)
FromFlight ==
  \A k \in DOMAIN heard' :
    heard'[k] = Silence \/ \E j \in DOMAIN inFlight : heard'[k] = inFlight[j]
=============================================================================
