----------------------- MODULE PipeWireFilter_proofs -----------------------
(***************************************************************************)
(* The delay and the losses of the PipeWire filter, for every frame size,  *)
(* ring capacity and set of quanta.  The argument counts samples.  What is *)
(* held is bounded at rest by FrameSize - 1, so during a callback by that  *)
(* and the quantum; and every sample captured is emitted, held or dropped. *)
(* Their order is the last part: the filter implements DelayedStream.      *)
(***************************************************************************)
EXTENDS PipeWireFilter, SampleStream_proofs

Held == Len(framer) + Len(ring)

(* No callback is in progress, nor was one cut short by the exit. *)
AtRest == pc \in {"args", "load", "idle"}

(* The inductive invariant: the bounds of what is held, at rest and in a     *)
(* callback, and the account of the samples.  In a callback the output of    *)
(* the quantum just captured is still owed.                                  *)
IInv ==
  /\ TypeOK
  /\ Len(ring) =< Capacity
  /\ pc = "frames" => /\ nSamples \in Quanta
                      /\ Held < FrameSize + nSamples
                      /\ Held + dropped = padded + nSamples
  /\ AtRest => /\ Held < FrameSize
               /\ Held + dropped = padded
               /\ Len(out) = nSamples

(* The steps of main() leave the samples alone, and no callback begins.      *)
Startup == ParseArgs \/ ReturnEarly \/ LoadModel \/ LoadFails \/ Connect \/ ConnectFails

LEMMA MainStep ==
  ASSUME TypeOK, Startup \/ Signal \/ Quit \/ FrameThrows
  PROVE  /\ UNCHANGED stream
         /\ pc' \in {"args", "load", "idle", "frames", "exited"}
         /\ command' = command
         /\ stage' \in 1 .. 4
         /\ quit' \in BOOLEAN
         /\ exit' \in {"none", "0", "1", "2", "terminate"}
         /\ AtRest' => AtRest
         /\ pc' = "frames" => pc = "frames"
<1> USE DEF TypeOK, AtRest, Stages, main, stream
<1>1. CASE ParseArgs
  BY <1>1 DEF ParseArgs
<1>2. CASE ReturnEarly
  BY <1>2 DEF ReturnEarly, Exit
<1>3. CASE LoadModel
  <2>1. stage' \in 1 .. 4
    BY <1>3 DEF LoadModel
  <2> QED
    BY <1>3, <2>1 DEF LoadModel
<1>4. CASE LoadFails
  BY <1>4 DEF LoadFails, Exit
<1>5. CASE Connect
  BY <1>5 DEF Connect
<1>6. CASE ConnectFails
  BY <1>6 DEF ConnectFails, Exit
<1>7. CASE Signal
  BY <1>7 DEF Signal
<1>8. CASE Quit
  BY <1>8 DEF Quit, Exit
<1>9. CASE FrameThrows
  BY <1>9 DEF FrameThrows, Exit
<1> QED
  BY <1>1, <1>2, <1>3, <1>4, <1>5, <1>6, <1>7, <1>8, <1>9 DEF Startup

LEMMA InitIInv == Init => IInv
<1> SUFFICES ASSUME Init PROVE IInv
  OBVIOUS
<1>1. <<>> \in Seq(Nat) /\ Len(<<>>) = 0
  OBVIOUS
<1>2. TypeOK
  <2>1. quit \in BOOLEAN
    BY Zenon DEF Init
  <2>2. /\ pc = "args" /\ command \in Commands /\ stage = 1 /\ exit = "none"
        /\ framer = <<>> /\ ring = <<>> /\ out = <<>>
        /\ nSamples = 0 /\ captured = 0 /\ emitted = 0 /\ padded = 0 /\ dropped = 0
    BY Zenon DEF Init
  <2> QED
    BY <1>1, <2>1, <2>2 DEF TypeOK
<1> QED
  BY <1>1, <1>2, FilterAssumption DEF Init, IInv, AtRest, Held

LEMMA StepIInv == IInv /\ [Next]_vars => IInv'
<1> SUFFICES ASSUME IInv, [Next]_vars PROVE IInv'
  OBVIOUS
<1> USE FilterAssumption
<1>0. /\ Len(framer) \in Nat
      /\ Len(ring) \in Nat
      /\ framer \in Seq(Nat)
      /\ ring \in Seq(Nat)
      /\ nSamples \in Nat
      /\ captured \in Nat
  BY LenProperties DEF IInv, TypeOK
<1>1. ASSUME NEW n \in Quanta, OnProcess(n)
      PROVE  IInv'
  <2>1. captured + 1 \in Nat \ {0} /\ n \in Nat
    BY <1>0
  <2>2. Block(captured + 1, n) \in Seq(Nat) /\ Len(Block(captured + 1, n)) = n
    BY <2>1, BlockLength
  <2>3. framer' \in Seq(Nat) /\ Len(framer') = Len(framer) + n
    BY <1>0, <1>1, <2>2, JoinLengths DEF OnProcess
  <2>4. TypeOK'
    BY <1>0, <1>1, <2>1, <2>3 DEF OnProcess, main, IInv, TypeOK
  <2>5. Held' = Held + n /\ Held \in Nat
    <3>1. ring' = ring
      BY <1>1 DEF OnProcess
    <3> QED
      BY <1>0, <2>1, <2>3, <3>1 DEF Held
  <2> HIDE DEF Held
  <2>6. Held < FrameSize /\ Held + dropped = padded
    BY <1>1 DEF OnProcess, IInv, AtRest
  <2> QED
    BY <1>1, <2>1, <2>4, <2>5, <2>6 DEF OnProcess, IInv, AtRest, TypeOK
<1>2. ASSUME ProcessFrame
      PROVE  IInv'
  <2> DEFINE frame == First(framer, FrameSize)
             written == Accepted(ring, frame, Capacity)
  <2>1. FrameSize \in 0 .. Len(framer)
    BY <1>0, <1>2 DEF ProcessFrame
  <2>2. /\ frame \in Seq(Nat) /\ Len(frame) = FrameSize
        /\ framer' \in Seq(Nat) /\ Len(framer') = Len(framer) - FrameSize
    BY <1>0, <1>2, <2>1, SplitLengths DEF ProcessFrame
  <2>3. /\ written \in Seq(Nat)
        /\ Len(written) = Least(Len(frame), Capacity - Len(ring))
        /\ Len(ring) + Len(written) =< Capacity
    BY <1>0, <2>2, AcceptedLength DEF IInv
  <2>4. ring' \in Seq(Nat) /\ Len(ring') = Len(ring) + Len(written)
    BY <1>0, <1>2, <2>3, JoinLengths DEF ProcessFrame
  <2>5. dropped' = dropped + (FrameSize - Len(written)) /\ Len(written) \in 0 .. FrameSize
    BY <1>0, <1>2, <2>2, <2>3, LenProperties DEF ProcessFrame, Least
  <2> HIDE DEF frame, written
  <2>6. pc = "frames" /\ pc' = pc /\ UNCHANGED <<main, nSamples, out, captured, emitted, padded>>
    BY <1>2 DEF ProcessFrame
  <2>7. TypeOK'
    BY <1>0, <2>2, <2>4, <2>5, <2>6 DEF main, IInv, TypeOK
  <2>8. Len(ring') =< Capacity
    BY <2>3, <2>4
  <2>9. Held' =< Held /\ Held' + dropped' = Held + dropped /\ Held \in Nat /\ Held' \in Nat
    <3>1. /\ Len(framer') = Len(framer) - FrameSize
          /\ Len(ring') = Len(ring) + Len(written)
          /\ dropped' = dropped + (FrameSize - Len(written))
          /\ Len(written) \in 0 .. FrameSize
          /\ Len(framer') \in Nat
          /\ dropped \in Nat
      BY <2>2, <2>4, <2>5, LenProperties DEF IInv, TypeOK
    <3> QED
      BY <1>0, <3>1 DEF Held
  <2> HIDE DEF Held
  <2> QED
    BY <1>0, <2>6, <2>7, <2>8, <2>9 DEF IInv, AtRest
<1>3. ASSUME EmitQuantum
      PROVE  IInv'
  <2>1. nSamples \in 0 .. Len(ring)
    BY <1>0, <1>3 DEF EmitQuantum
  <2>2. /\ out' \in Seq(Nat) /\ Len(out') = nSamples
        /\ ring' \in Seq(Nat) /\ Len(ring') = Len(ring) - nSamples
    BY <1>0, <1>3, <2>1, SplitLengths DEF EmitQuantum
  <2> QED
    BY <1>0, <1>3, <2>2 DEF EmitQuantum, main, IInv, AtRest, TypeOK, Held
<1>4. ASSUME EmitAndPad
      PROVE  IInv'
  <2>1. out' \in Seq(Nat) /\ Len(out') = nSamples
    BY <1>0, <1>4, PaddedLength DEF EmitAndPad
  <2>2. ring' \in Seq(Nat) /\ Len(ring') = 0
    BY <1>4 DEF EmitAndPad
  <2> QED
    BY <1>0, <1>4, <2>1, <2>2 DEF EmitAndPad, main, IInv, AtRest, TypeOK, Held
<1>5. ASSUME Startup \/ Signal \/ Quit \/ FrameThrows
      PROVE  IInv'
  <2>1. /\ UNCHANGED stream
        /\ AtRest' => AtRest
        /\ pc' = "frames" => pc = "frames"
    BY <1>5, MainStep DEF IInv
  <2>2. TypeOK'
    <3>1. pc' = "idle" => Len(out') = nSamples'
      BY <2>1 DEF IInv, AtRest, stream
    <3> QED
      BY <1>5, <2>1, <3>1, MainStep DEF IInv, TypeOK, stream
  <2>3. Held' = Held
    BY <2>1 DEF Held, stream
  <2> QED
    BY <2>1, <2>2, <2>3 DEF IInv, stream
<1>6. ASSUME UNCHANGED vars
      PROVE  IInv'
  BY <1>6 DEF vars, main, stream, IInv, AtRest, TypeOK, Held
<1> QED
  BY <1>1, <1>2, <1>3, <1>4, <1>5, <1>6 DEF Next, Startup

(* IInv holds of every state the filter reaches.                             *)
THEOREM Inductive == Spec => []IInv
BY InitIInv, StepIInv, PTL DEF Spec

(* The variables of the filter have their types.                             *)
THEOREM TypeCorrect == Spec => []TypeOK
<1>1. IInv => TypeOK
  BY DEF IInv
<1> QED
  BY <1>1, Inductive, PTL

(* Between two callbacks the filter holds less than a frame, for every       *)
(* sequence of quanta, whether or not they fit the ring                      *)
(* (denoise_pipewire_filter.cpp:166).                                        *)
THEOREM Latency == Spec => []LatencyBounded
<1>1. IInv => LatencyBounded
  BY DEF IInv, AtRest, LatencyBounded, Held
<1> QED
  BY <1>1, Inductive, PTL

(* Between two callbacks the delay is the silence inserted less what was     *)
(* dropped, so a filter that drops nothing never pads a whole frame.         *)
THEOREM Delay == Spec => []SilenceIsDelay
<1>1. IInv => SilenceIsDelay
  BY DEF IInv, AtRest, SilenceIsDelay, Held
<1> QED
  BY <1>1, Inductive, PTL

(* When every quantum and a frame less one fit the ring together, no sample  *)
(* is ever lost to the ignored result of push()                              *)
(* (denoise_pipewire_filter.cpp:74 and 165).                                 *)
THEOREM NothingDropped == QuantaFit /\ Spec => []NoSampleDropped
<1> SUFFICES ASSUME QuantaFit PROVE Spec => []NoSampleDropped
  OBVIOUS
<1> USE FilterAssumption
<1>1. Init => NoSampleDropped
  BY DEF Init, NoSampleDropped
<1>2. IInv /\ NoSampleDropped /\ [Next]_vars => NoSampleDropped'
  <2> SUFFICES ASSUME IInv, NoSampleDropped, [Next]_vars
               PROVE  NoSampleDropped'
    OBVIOUS
  <2>1. CASE ProcessFrame
    <3> DEFINE frame == First(framer, FrameSize)
    <3>1. /\ framer \in Seq(Nat) /\ Len(framer) \in Nat
          /\ ring \in Seq(Nat) /\ Len(ring) \in Nat
          /\ nSamples \in Nat
      BY LenProperties DEF IInv, TypeOK
    <3>2. FrameSize \in 0 .. Len(framer)
      BY <2>1, <3>1 DEF ProcessFrame
    <3>3. frame \in Seq(Nat) /\ Len(frame) = FrameSize
      BY <3>1, <3>2, SplitLengths
    <3>4. Len(ring) + FrameSize =< Capacity
      <4>1. nSamples + FrameSize - 1 =< Capacity
        BY <2>1 DEF ProcessFrame, IInv, QuantaFit
      <4>2. Len(framer) + Len(ring) < FrameSize + nSamples
        BY <2>1, <3>1 DEF ProcessFrame, IInv, Held
      <4> QED
        BY <3>1, <3>2, <4>1, <4>2
    <3>5. Len(Accepted(ring, frame, Capacity)) = FrameSize
      BY <3>1, <3>3, <3>4, AcceptedLength
    <3> QED
      BY <2>1, <3>5 DEF ProcessFrame, NoSampleDropped
  <2>2. CASE \E n \in Quanta : OnProcess(n)
    BY <2>2 DEF OnProcess, NoSampleDropped
  <2>3. CASE EmitQuantum \/ EmitAndPad \/ UNCHANGED vars
    BY <2>3 DEF EmitQuantum, EmitAndPad, vars, stream, NoSampleDropped
  <2>4. CASE Startup \/ Signal \/ Quit \/ FrameThrows
    BY <2>4, MainStep DEF IInv, stream, NoSampleDropped
  <2> QED
    BY <2>1, <2>2, <2>3, <2>4 DEF Next, Startup
<1> QED
  BY <1>1, <1>2, Inductive, PTL DEF Spec

(* The callback has less than a frame and its quantum to work on, and each turn *)
(* of its loop takes a frame of it; nothing else gives it more.                 *)
BacklogBounded == pc = "frames" => Len(framer) < FrameSize + nSamples

TurnsTakeFrames ==
  pc = "frames" =>
    \/ ProcessFrame /\ pc' = "frames" /\ Len(framer') = Len(framer) - FrameSize
    \/ Len(framer') = Len(framer) /\ (pc' = pc => UNCHANGED stream)

(* The callback makes no more turns of its loop than there are frames in its   *)
(* quantum and a frame less one, whatever was held before and however often a  *)
(* signal comes in between (denoise_pipewire_filter.cpp:69-75): it returns to  *)
(* the graph, and the loop to a signal.                                        *)
THEOREM CallbackIsShort == Spec => []BacklogBounded /\ [][TurnsTakeFrames]_vars
<1>1. IInv => BacklogBounded
  <2> SUFFICES ASSUME IInv, pc = "frames" PROVE Len(framer) < FrameSize + nSamples
    BY DEF BacklogBounded
  <2>1. /\ Len(framer) \in Nat /\ Len(ring) \in Nat /\ nSamples \in Nat
        /\ Len(framer) + Len(ring) < FrameSize + nSamples
    BY LenProperties DEF IInv, TypeOK, Held
  <2> QED
    BY <2>1, FilterAssumption
<1>2. IInv /\ [Next]_vars => [TurnsTakeFrames]_vars
  <2> SUFFICES ASSUME IInv, Next, pc = "frames"
               PROVE  \/ ProcessFrame /\ pc' = "frames" /\ Len(framer') = Len(framer) - FrameSize
                      \/ Len(framer') = Len(framer) /\ (pc' = pc => UNCHANGED stream)
    BY DEF TurnsTakeFrames
  <2>1. CASE ProcessFrame
    <3>1. framer \in Seq(Nat) /\ FrameSize \in 0 .. Len(framer)
      BY <2>1, FilterAssumption, LenProperties DEF ProcessFrame, IInv, TypeOK
    <3> QED
      BY <2>1, <3>1, SplitLengths DEF ProcessFrame
  <2>2. CASE EmitQuantum \/ EmitAndPad
    BY <2>2 DEF EmitQuantum, EmitAndPad
  <2>3. CASE Startup \/ Signal \/ Quit \/ FrameThrows
    BY <2>3, MainStep DEF IInv, stream
  <2>4. ASSUME NEW n \in Quanta, OnProcess(n) PROVE FALSE
    BY <2>4 DEF OnProcess
  <2> QED
    BY <2>1, <2>2, <2>3, <2>4 DEF Next, Startup
<1>3. Spec => []BacklogBounded
  BY <1>1, Inductive, PTL
<1>4. Spec => [][TurnsTakeFrames]_vars
  BY <1>2, Inductive, PTL DEF Spec
<1> QED
  BY <1>3, <1>4

(* The ring main() builds, and the quanta that always fit it. *)
RingOfEightFrames == Capacity = NextPowerOfTwo(FrameSize * 8)
QuantaOfSevenFrames == \A n \in Quanta : n =< 7 * FrameSize + 1

(* The ring of eight frames, rounded up to a power of two, that main() builds  *)
(* (denoise_pipewire_filter.cpp:165-167) loses nothing as long as no quantum   *)
(* is longer than seven frames and one sample.                                 *)
THEOREM EightFramesAreEnough ==
  RingOfEightFrames /\ QuantaOfSevenFrames /\ Spec => []NoSampleDropped
<1> SUFFICES ASSUME RingOfEightFrames, QuantaOfSevenFrames PROVE Spec => []NoSampleDropped
  OBVIOUS
<1>1. FrameSize \in Nat /\ \A n \in Quanta : n \in Nat /\ n =< 7 * FrameSize + 1
  BY FilterAssumption DEF QuantaOfSevenFrames
<1>2. Capacity >= FrameSize * 8 /\ Capacity \in Nat
  <2>1. FrameSize * 8 \in Nat
    BY <1>1
  <2> QED
    BY <2>1, RoundsUp, FilterAssumption DEF RingOfEightFrames
<1>3. QuantaFit
  BY <1>1, <1>2 DEF QuantaFit
<1> QED
  BY <1>3, NothingDropped

(* A stage whose binding is done has a model or was given none; a program that  *)
(* runs has done all three, one that failed has taken no sample, and one that   *)
(* ends well was asked to.                                                      *)
StartInv ==
  /\ pc \in {"args", "load", "idle", "frames", "exited"}
  /\ stage \in 1 .. 4
  /\ pc # "exited" => \A s \in Stages : s < stage => command.model[s] # "refused"
  /\ pc \in {"idle", "frames"} => stage = 4
  /\ pc \in {"args", "load"} => captured = 0
  /\ pc # "exited" => exit = "none"
  /\ exit = "0" => quit \/ command.parse = "help"
  /\ exit = "1" => captured = 0

LEMMA InitStart == Init => StartInv
BY DEF Init, StartInv, Stages

LEMMA StepStart == StartInv /\ [Next]_vars => StartInv'
<1> SUFFICES ASSUME StartInv, [Next]_vars PROVE StartInv'
  OBVIOUS
<1> USE DEF StartInv, Stages, main, stream
<1>1. CASE ParseArgs
  BY <1>1 DEF ParseArgs
<1>2. CASE ReturnEarly
  BY <1>2 DEF ReturnEarly, Exit
<1>3. CASE LoadModel
  BY <1>3 DEF LoadModel
<1>4. CASE LoadFails
  BY <1>4 DEF LoadFails, Exit
<1>5. CASE Connect
  BY <1>5 DEF Connect
<1>6. CASE ConnectFails
  BY <1>6 DEF ConnectFails, Exit
<1>7. CASE Signal
  BY <1>7 DEF Signal
<1>8. CASE Quit
  BY <1>8 DEF Quit, Exit
<1>9. CASE FrameThrows
  BY <1>9 DEF FrameThrows, Exit
<1>10. CASE \E n \in Quanta : OnProcess(n)
  BY <1>10 DEF OnProcess
<1>11. CASE ProcessFrame \/ EmitQuantum \/ EmitAndPad
  BY <1>11 DEF ProcessFrame, EmitQuantum, EmitAndPad
<1>12. CASE UNCHANGED vars
  BY <1>12 DEF vars
<1> QED
  BY <1>1, <1>2, <1>3, <1>4, <1>5, <1>6, <1>7, <1>8, <1>9, <1>10, <1>11, <1>12 DEF Next

(* StartsWhole (denoise_pipewire_filter.cpp:153-201): for every command line a  *)
(* filter that runs has every model it was told to load, a start that fails     *)
(* takes no sample, and status 0 is an answer to a signal or to --help.         *)
THEOREM WholeStart == Spec => []StartsWhole
<1>1. StartInv => StartsWhole
  BY DEF StartInv, StartsWhole, Stages
<1> QED
  BY <1>1, InitStart, StepStart, PTL DEF Spec
-----------------------------------------------------------------------------
(* What the mapping substitutes: the operators of SampleStream are the same    *)
(* inside the instance, and each abstract action is one on the two queues.     *)
LEMMA SameStream ==
  /\ \A first, n : Heard!Block(first, n) = Block(first, n)
  /\ \A q, n : Heard!First(q, n) = First(q, n) /\ Heard!Rest(q, n) = Rest(q, n)
  /\ \A a, b : Heard!Least(a, b) = Least(a, b)
  /\ \A got, n : Heard!Padded(got, n) = Padded(got, n)
BY DEF Heard!Block, Block, Heard!First, First, Heard!Rest, Rest, Heard!Least, Least,
       Heard!Padded, Padded, Heard!Silence, Silence

(* What is on its way: the ring, and behind it the framer.                     *)
LEMMA OnTheWay ==
  /\ ring \o framer = Then(ring, framer)
  /\ ring' \o framer' = Then(ring', framer')
BY DEF Then

LEMMA QueueTypes ==
  ASSUME IInv
  PROVE  /\ ring \in Seq(Nat) /\ framer \in Seq(Nat) /\ Then(ring, framer) \in Seq(Nat)
         /\ Len(ring) \in Nat /\ Len(framer) \in Nat
         /\ Len(Then(ring, framer)) = Len(ring) + Len(framer)
         /\ nSamples \in Nat /\ captured \in Nat /\ Len(ring) =< Capacity
BY ThenLength, LenProperties DEF IInv, TypeOK

(* A quantum is captured behind all that is on its way.                        *)
LEMMA OnProcessHeard ==
  ASSUME IInv, NEW n \in Quanta, OnProcess(n)
  PROVE  Heard!Capture(n)
<1> DEFINE block == Block(captured + 1, n)
<1>1. block \in Seq(Nat)
  <2>1. captured + 1 \in Nat \ {0} /\ n \in Nat
    BY QueueTypes, FilterAssumption
  <2> QED
    BY <2>1, BlockLength
<1>2. /\ framer' = framer \o block /\ captured' = captured + n
      /\ UNCHANGED <<ring, out, dropped>>
  BY DEF OnProcess
<1> HIDE DEF block
<1>3. Then(ring', framer') = Then(Then(ring, framer), block)
  BY <1>1, <1>2, QueueTypes, ThenAssociative DEF Then
<1> QED
  BY <1>2, <1>3, OnTheWay, SameStream DEF Heard!Capture, block, Then

(* A frame moves from the framer to the ring; the part of it that does not     *)
(* fit, if any, is what is lost.                                               *)
LEMMA ProcessFrameHeard ==
  ASSUME IInv, ProcessFrame
  PROVE  [Heard!Next]_Heard!vars
<1> DEFINE frame == First(framer, FrameSize)
           after == Rest(framer, FrameSize)
           written == Accepted(ring, frame, Capacity)
           k == Least(Len(frame), Capacity - Len(ring))
           tail == Rest(frame, k)
           gone == FrameSize - k
           queue == Then(ring, framer)
           kept == Then(ring, written)
<1>1. FrameSize \in 0 .. Len(framer) /\ FrameSize \in Nat
  BY QueueTypes, FilterAssumption DEF ProcessFrame
<1>2. /\ frame \in Seq(Nat) /\ Len(frame) = FrameSize /\ after \in Seq(Nat)
      /\ framer = Then(frame, after)
  BY <1>1, QueueTypes, SplitLengths, SplitAndJoin
<1>3. k \in 0 .. FrameSize
  BY <1>1, <1>2, QueueTypes, FilterAssumption DEF Least
<1>4. written = First(frame, k)
  BY DEF Accepted
<1>5. /\ ring' = kept
      /\ dropped' = dropped + (FrameSize - Len(written))
      /\ framer' = after
      /\ UNCHANGED <<captured, out>>
  BY DEF ProcessFrame, Then
<1> HIDE DEF frame, after, written, k
<1>6. /\ written \in Seq(Nat) /\ Len(written) = k
      /\ tail \in Seq(Nat) /\ Len(tail) = gone
      /\ frame = Then(written, tail)
  BY <1>2, <1>3, <1>4, SplitLengths, SplitAndJoin
<1>7. gone \in Nat /\ dropped' = dropped + gone
  BY <1>1, <1>3, <1>5, <1>6
<1> HIDE DEF tail, gone
<1>8. kept \in Seq(Nat) /\ Len(kept) = Len(ring) + k
  BY <1>6, QueueTypes, ThenLength
<1>9. Then(tail, after) \in Seq(Nat) /\ Len(Then(tail, after)) = gone + Len(after)
  BY <1>2, <1>6, ThenLength
<1>10. queue = Then(kept, Then(tail, after))
  <2>1. framer = Then(written, Then(tail, after))
    BY <1>2, <1>6, ThenAssociative
  <2> QED
    BY <1>6, <1>9, <2>1, QueueTypes, ThenAssociative
<1> HIDE DEF kept, queue
<1>11. CASE gone = 0
  <2>1. tail = <<>>
    BY <1>6, <1>11
  <2>2. queue = Then(kept, after)
    BY <1>2, <1>10, <2>1, ThenEmpty
  <2>3. dropped' = dropped
    BY <1>7, <1>11 DEF IInv, TypeOK
  <2> QED
    BY <1>5, <2>2, <2>3, OnTheWay DEF Heard!vars, queue
<1>12. CASE gone # 0
  <2> DEFINE front == Len(ring) + k
  <2>1. gone \in 1 .. Len(queue) /\ front \in 0 .. Len(queue) - gone
    <3>1. Len(queue) = (Len(ring) + k) + (gone + Len(after)) /\ Len(after) \in Nat
      BY <1>2, <1>8, <1>9, <1>10, ThenLength, LenProperties
    <3> QED
      BY <1>3, <1>7, <1>12, <3>1, QueueTypes
  <2>2. Then(kept, after) = Then(First(queue, front), Rest(queue, front + gone))
    <3>1. Then(First(queue, Len(kept)), Rest(queue, Len(kept) + Len(tail)))
            = Then(kept, after)
      BY <1>2, <1>6, <1>8, <1>10, DropMiddle
    <3> QED
      BY <1>6, <1>8, <3>1
  <2> HIDE DEF front
  <2>3. Heard!Lose(gone, front)
    BY <1>5, <1>7, <2>2, OnTheWay, SameStream DEF Heard!Lose, Then, queue
  <2> QED
    BY <2>1, <2>3, OnTheWay DEF Heard!Next, queue
<1> QED
  BY <1>11, <1>12

(* The callback hears a quantum, or all there is and then silence.             *)
LEMMA EmitQuantumHeard ==
  ASSUME IInv, EmitQuantum
  PROVE  Heard!Next
<1>1. /\ nSamples \in Quanta /\ nSamples \in 0 .. Len(ring)
      /\ out' = First(ring, nSamples) /\ ring' = Rest(ring, nSamples)
      /\ UNCHANGED <<framer, captured, dropped>>
  BY QueueTypes DEF EmitQuantum, IInv
<1>2. /\ First(Then(ring, framer), nSamples) = out'
      /\ Rest(Then(ring, framer), nSamples) = Then(ring', framer')
  BY <1>1, QueueTypes, SplitJoined
<1>3. Padded(out', nSamples) = out'
  BY <1>1, QueueTypes, SplitLengths, PaddedFull
<1>4. Heard!Hear(nSamples, nSamples)
  BY <1>1, <1>2, <1>3, OnTheWay, SameStream DEF Heard!Hear
<1>5. nSamples \in 0 .. Least(nSamples, Len(ring \o framer))
  BY <1>1, QueueTypes, OnTheWay DEF Least
<1> QED
  BY <1>1, <1>4, <1>5, SameStream DEF Heard!Next

LEMMA EmitAndPadHeard ==
  ASSUME IInv, EmitAndPad
  PROVE  Heard!Next
<1>1. /\ nSamples \in Quanta /\ Len(ring) < nSamples
      /\ out' = Padded(ring, nSamples) /\ ring' = <<>>
      /\ UNCHANGED <<framer, captured, dropped>>
  BY DEF EmitAndPad, IInv
<1>2. /\ First(Then(ring, framer), Len(ring)) = ring
      /\ Rest(Then(ring, framer), Len(ring)) = framer
  BY QueueTypes, SplitAtJoint
<1>3. Then(ring', framer') = framer
  BY <1>1, QueueTypes, ThenEmpty
<1>4. Heard!Hear(nSamples, Len(ring))
  BY <1>1, <1>2, <1>3, OnTheWay, SameStream DEF Heard!Hear
<1>5. Len(ring) \in 0 .. Least(nSamples, Len(ring \o framer))
  BY <1>1, QueueTypes, OnTheWay DEF Least
<1> QED
  BY <1>1, <1>4, <1>5, SameStream DEF Heard!Next

(* The initial states, and every step; those of main() are stutters.           *)
LEMMA InitHeard == Init => Heard!Init
<1> SUFFICES ASSUME Init PROVE Heard!Init
  OBVIOUS
<1>1. ring = <<>> /\ framer = <<>> /\ captured = 0 /\ out = <<>> /\ dropped = 0
  BY Zenon DEF Init
<1>2. <<>> \o <<>> = <<>>
  OBVIOUS
<1> QED
  BY <1>1, <1>2 DEF Heard!Init

LEMMA StepHeard == IInv /\ [Next]_vars => [Heard!Next]_Heard!vars
<1> SUFFICES ASSUME IInv, [Next]_vars PROVE [Heard!Next]_Heard!vars
  OBVIOUS
<1>1. ASSUME NEW n \in Quanta, OnProcess(n)
      PROVE  Heard!Next
  BY <1>1, OnProcessHeard DEF Heard!Next
<1>2. CASE ProcessFrame
  BY <1>2, ProcessFrameHeard
<1>3. CASE EmitQuantum
  BY <1>3, EmitQuantumHeard
<1>4. CASE EmitAndPad
  BY <1>4, EmitAndPadHeard
<1>5. CASE Startup \/ Signal \/ Quit \/ FrameThrows
  BY <1>5, MainStep DEF IInv, stream, Heard!vars
<1>6. CASE UNCHANGED vars
  BY <1>6 DEF vars, stream, Heard!vars
<1> QED
  BY <1>1, <1>2, <1>3, <1>4, <1>5, <1>6 DEF Next, Startup

(* Whoever listens hears the captured stream, late and in order, whatever the  *)
(* frame size, the ring and the quanta: a callback captures a block, moves     *)
(* whole frames on (losing what the ring has no room for) and gives out the    *)
(* oldest samples (denoise_pipewire_filter.cpp:55-88).                         *)
THEOREM StreamKept == Spec => ImplementsDelayedStream
BY InitHeard, StepHeard, Inductive, PTL DEF Spec, ImplementsDelayedStream, Heard!Spec
-----------------------------------------------------------------------------
(* What DelayedStream says of the order of the samples, at the filter.        *)
LEMMA HeardMoves ==
  ASSUME IInv, [Heard!Next]_Heard!vars
  PROVE  Moves(captured, Then(ring, framer), out, captured', Then(ring', framer'), out')
<1> DEFINE queue == Then(ring, framer)
           queueNext == Then(ring', framer')
<1>1. ring \o framer = queue /\ ring' \o framer' = queueNext
  BY OnTheWay
<1> HIDE DEF queue, queueNext
<1>2. ASSUME NEW n \in Quanta, Heard!Capture(n)
      PROVE  Moves(captured, queue, out, captured', queueNext, out')
  <2>1. /\ n \in Nat /\ captured' = captured + n /\ out' = out
        /\ queueNext = queue \o Block(captured + 1, n)
    BY <1>1, <1>2, SameStream, FilterAssumption DEF Heard!Capture
  <2> QED
    BY <2>1 DEF Moves
<1>3. ASSUME NEW n \in Quanta, NEW k \in 0 .. Heard!Least(n, Len(ring \o framer)),
             Heard!Hear(n, k)
      PROVE  Moves(captured, queue, out, captured', queueNext, out')
  <2>1. /\ n \in Nat /\ k \in 0 .. Least(n, Len(queue)) /\ captured' = captured
        /\ queueNext = Rest(queue, k) /\ out' = Padded(First(queue, k), n)
    BY <1>1, <1>3, SameStream, FilterAssumption DEF Heard!Hear
  <2> QED
    BY <2>1 DEF Moves
<1>4. ASSUME NEW n \in 1 .. Len(ring \o framer), NEW k \in 0 .. Len(ring \o framer) - n,
             Heard!Lose(n, k)
      PROVE  Moves(captured, queue, out, captured', queueNext, out')
  <2>1. /\ n \in 1 .. Len(queue) /\ k \in 0 .. Len(queue) - n
        /\ captured' = captured /\ out' = out
        /\ queueNext = First(queue, k) \o Rest(queue, k + n)
    BY <1>1, <1>4, SameStream DEF Heard!Lose
  <2> QED
    BY <2>1 DEF Moves
<1>5. ASSUME UNCHANGED Heard!vars
      PROVE  Moves(captured, queue, out, captured', queueNext, out')
  <2>1. captured' = captured /\ queueNext = queue /\ out' = out
    BY <1>1, <1>5 DEF Heard!vars
  <2> QED
    BY <2>1 DEF Moves
<1>6. Moves(captured, queue, out, captured', queueNext, out')
  BY <1>2, <1>3, <1>4, <1>5 DEF Heard!Next
<1> QED
  BY <1>6 DEF queue, queueNext

LEMMA InOrderIs ==
  /\ Heard!InOrder <=> /\ Ordered(captured, Then(ring, framer))
                       /\ HeardOf(captured, Then(ring, framer), out)
  /\ \A p : Heard!Past(p) <=> PastIn(p, captured, Then(ring, framer))
BY DEF Heard!InOrder, Heard!Past, Ordered, HeardOf, PastIn, Then, Heard!Silence, Silence

LEMMA InitOrder == Init => Heard!InOrder
<1> SUFFICES ASSUME Init PROVE Heard!InOrder
  OBVIOUS
<1>1. ring = <<>> /\ framer = <<>> /\ out = <<>>
  BY Zenon DEF Init
<1>2. <<>> \o <<>> = <<>> /\ DOMAIN <<>> = {}
  OBVIOUS
<1> QED
  BY <1>1, <1>2 DEF Heard!InOrder

LEMMA StepOrder ==
  ASSUME IInv, Heard!InOrder, [Next]_vars
  PROVE  /\ Heard!InOrder'
         /\ \A p \in Nat : Heard!Past(p) => Heard!Past(p)'
         /\ out' = out \/ Heard!FromFlight
<1> DEFINE queue == Then(ring, framer)
           queueNext == Then(ring', framer')
<1>1. captured \in Nat /\ queue \in Seq(Nat) /\ out \in Seq(Nat)
  BY QueueTypes DEF IInv, TypeOK
<1>2. Moves(captured, queue, out, captured', queueNext, out')
  BY StepHeard, HeardMoves
<1>3. Ordered(captured, queue) /\ HeardOf(captured, queue, out)
  BY InOrderIs
<1> HIDE DEF queue, queueNext
<1>4. /\ Ordered(captured', queueNext) /\ HeardOf(captured', queueNext, out')
      /\ \A p \in Nat : PastIn(p, captured, queue) => PastIn(p, captured', queueNext)
      /\ \/ out' = out
         \/ \A i \in DOMAIN out' :
              out'[i] = Silence \/ \E j \in DOMAIN queue : out'[i] = queue[j]
  BY <1>1, <1>2, <1>3, MovesInOrder
<1>5. Heard!InOrder'
  BY <1>4 DEF Heard!InOrder, Heard!Past, Ordered, HeardOf, PastIn, Then, Heard!Silence, Silence,
              queueNext
<1>6. \A p \in Nat : Heard!Past(p) => Heard!Past(p)'
  BY <1>4 DEF Heard!Past, PastIn, Then, queue, queueNext
<1>7. out' = out \/ Heard!FromFlight
  BY <1>4 DEF Heard!FromFlight, Then, Heard!Silence, Silence, queue
<1> QED
  BY <1>5, <1>6, <1>7

(* Whatever the quanta, the underruns and the losses, a block that leaves the  *)
(* port is in the order of capture, with silence only behind its samples, and  *)
(* everything that is still to come was captured after it                      *)
(* (denoise_pipewire_filter.cpp:61-86).                                        *)
THEOREM OrderKept == Spec => []Heard!InOrder
<1>1. IInv /\ Heard!InOrder /\ [Next]_vars => Heard!InOrder'
  BY StepOrder
<1> QED
  BY <1>1, InitOrder, Inductive, PTL DEF Spec

(* What has been passed over, heard or lost, does not come back: p stays past  *)
(* from the moment it is: the ring and the framer hold no sample that an       *)
(* earlier block had (denoise_pipewire_filter.cpp:61-86).                      *)
THEOREM PastForGood ==
  ASSUME NEW p \in Nat
  PROVE  Spec => [](Heard!Past(p) => []Heard!Past(p))
<1>1. IInv /\ Heard!InOrder /\ Heard!Past(p) /\ [Next]_vars => Heard!Past(p)'
  BY StepOrder
<1> QED
  BY <1>1, OrderKept, Inductive, PTL DEF Spec

(* A new block is made of samples that were on their way, and silence: what    *)
(* the ring left unwritten of the port's buffer is filled with zeros, not with *)
(* what was there (denoise_pipewire_filter.cpp:77-86).                         *)
THEOREM NothingMadeUp == Spec => [][Heard!FromFlight]_out
<1>1. IInv /\ Heard!InOrder /\ [Next]_vars => [Heard!FromFlight]_out
  BY StepOrder
<1> QED
  BY <1>1, OrderKept, Inductive, PTL DEF Spec
=============================================================================
