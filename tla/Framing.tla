------------------------------- MODULE Framing -------------------------------
(***************************************************************************)
(* core/audio/framer.cpp: a Framer that cuts a stream into overlapping     *)
(* frames and an OverlapAdder that puts them together again.  The caller   *)
(* pushes chunks of any size, takes frames when it likes and hands each to *)
(* the adder, as tests/test_framer.cpp does.  The value of a sample is its *)
(* position, so that a sum shows what went into it.                        *)
(***************************************************************************)
EXTENDS SampleStream, FiniteSets

CONSTANTS FrameSize,    \* frameSize_ of both
          Hops,         \* the hopSize_ both may be constructed with
          Chunks,       \* sizes of the chunks pushed
          MaxCaptured   \* bound on the length of the stream

(* The constructors throw on anything else. *)
ASSUME FramingAssumption ==
  /\ FrameSize \in Nat \ {0}
  /\ Hops \subseteq 1 .. FrameSize
  /\ Chunks \subseteq Nat
  /\ MaxCaptured \in Nat

VARIABLES hopSize,
          buffer,       \* Framer::buffer_
          frame,        \* the frame taken and not yet added, or <<>>
          tail,         \* OverlapAdder::overlapTail_
          ready,        \* all that addFrame() has appended to outReady
          captured,     \* samples pushed so far
          taken         \* frames taken so far

vars == <<hopSize, buffer, frame, tail, ready, captured, taken>>

NewTail == [i \in 1 .. FrameSize |-> 0]

Init ==
  /\ hopSize \in Hops
  /\ buffer = <<>>
  /\ frame = <<>>
  /\ tail = NewTail
  /\ ready = <<>>
  /\ captured = 0
  /\ taken = 0
-----------------------------------------------------------------------------
Push(n) ==
  /\ captured + n =< MaxCaptured
  /\ buffer' = buffer \o Block(captured + 1, n)
  /\ captured' = captured + n
  /\ UNCHANGED <<hopSize, frame, tail, ready, taken>>

(* Fault: the whole frame is erased, not the hop. *)
TryGetFrameWhole ==
  /\ frame = <<>>
  /\ Len(buffer) >= FrameSize
  /\ frame' = First(buffer, FrameSize)
  /\ buffer' = Rest(buffer, FrameSize)
  /\ taken' = taken + 1
  /\ UNCHANGED <<hopSize, tail, ready, captured>>

(* tryGetFrame() when it returns true; when it returns false nothing changes. *)
TryGetFrame ==
  /\ frame = <<>>
  /\ Len(buffer) >= FrameSize
  /\ frame' = First(buffer, FrameSize)
  /\ buffer' = Rest(buffer, hopSize)
  /\ taken' = taken + 1
  /\ UNCHANGED <<hopSize, tail, ready, captured>>

Summed == [i \in 1 .. FrameSize |-> tail[i] + frame[i]]

(* Fault: the tail is not shifted. *)
AddFrameUnshifted ==
  /\ frame # <<>>
  /\ ready' = ready \o First(Summed, hopSize)
  /\ tail' = Summed
  /\ frame' = <<>>
  /\ UNCHANGED <<hopSize, buffer, captured, taken>>

(* addFrame(): the first hop of the sums is final, the rest moves up. *)
AddFrame ==
  /\ frame # <<>>
  /\ ready' = ready \o First(Summed, hopSize)
  /\ tail' = Padded(Rest(Summed, hopSize), FrameSize)
  /\ frame' = <<>>
  /\ UNCHANGED <<hopSize, buffer, captured, taken>>

Next ==
  \/ \E n \in Chunks : Push(n)
  \/ TryGetFrame
  \/ AddFrame

Spec == Init /\ [][Next]_vars
-----------------------------------------------------------------------------
(* Frame k is the stream from sample k * hop on, however the stream was cut   *)
(* into chunks and whenever frames were asked for; what is buffered is what   *)
(* the next frame starts with (framer.cpp:16-26).                             *)
FramesFollowStream ==
  /\ buffer = Block(taken * hopSize + 1, captured - taken * hopSize)
  /\ frame # <<>> => frame = Block((taken - 1) * hopSize + 1, FrameSize)

(* How many frames of the endless stream the sample at position p is part of. *)
Coverage(p) ==
  Cardinality({k \in 0 .. p : k * hopSize < p /\ p =< k * hopSize + FrameSize})

(* What addFrame() has handed out is final: each sample has the contribution  *)
(* of every frame that will ever cover it, once, although frames still to     *)
(* come overlap those already added (framer.cpp:44-52).                       *)
ReadyIsFinal == \A p \in DOMAIN ready : ready[p] = p * Coverage(p)
=============================================================================
