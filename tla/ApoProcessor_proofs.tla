------------------------ MODULE ApoProcessor_proofs ------------------------
(***************************************************************************)
(* The realtime thread, the worker and the control thread of ApoProcessor. *)
(*                                                                         *)
(* ControlInv is about the control thread and the worker.  That a worker   *)
(* is gone once stop() has returned is not inductive: the next start()     *)
(* relies on it, a failed start() leaves running_ set without a worker,    *)
(* and the join of stop() waits for whatever of the two it finds.          *)
(*                                                                         *)
(* IInv is about the samples.  It accounts for every one of them between   *)
(* the load and the store of each push() and pop(), bounds what is held by *)
(* what the call in progress will still take out, and makes an underrun    *)
(* certain at the load that finds too little room, before the store that   *)
(* counts the loss.  It needs ControlInv: a second worker, started beside  *)
(* one with a frame in its hands, would lose that frame uncounted.         *)
(***************************************************************************)
EXTENDS ApoProcessor, SampleStream_proofs

Fields == worker = [pc |-> worker.pc, n |-> worker.n, frame |-> worker.frame]

(* A worker ends only after running_ was cleared, and is there to be joined  *)
(* until then; models are loaded while running_ is clear.                    *)
ControlInv ==
  /\ Fields
  /\ host \in {"idle", "join", "load"}
  /\ running \in BOOLEAN
  /\ host # "idle" => ~running
  /\ host # "join" /\ ~running => worker.pc = "none"
  /\ worker.pc = "done" => ~running

LEMMA InitControl == Init => ControlInv
<1> SUFFICES ASSUME Init PROVE ControlInv
  OBVIOUS
<1>1. running \in BOOLEAN /\ ~running
  BY Zenon DEF Init
<1>2. worker = [pc |-> "none", n |-> 0, frame |-> <<>>] /\ host = "idle"
  BY Zenon DEF Init
<1> QED
  BY <1>1, <1>2 DEF ControlInv, Fields

(* The realtime thread never touches what start(), stop() and the worker share. *)
LEMMA RealtimeApart == Realtime => UNCHANGED <<running, worker, host>>
BY DEF Realtime, InputLoad, InputPublish, OutputLoad, OutputFill

(* A step of the worker is one of a worker that exists, and only the look at    *)
(* running_ ends it.                                                            *)
LEMMA WorkerStep ==
  ASSUME Fields, Worker
  PROVE  /\ UNCHANGED <<running, host>>
         /\ Fields'
         /\ worker.pc # "none"
         /\ worker'.pc = "done" => ~running
<1> USE DEF Fields
<1>1. CASE CheckRunning
  BY <1>1 DEF CheckRunning
<1>2. CASE SleepWhenEmpty
  BY <1>2 DEF SleepWhenEmpty
<1>3. CASE WorkerLoad
  BY <1>3 DEF WorkerLoad
<1>4. CASE WorkerTake
  BY <1>4 DEF WorkerTake
<1>5. CASE ProcessFrame
  BY <1>5 DEF ProcessFrame
<1>6. CASE EmitFrame
  BY <1>6 DEF EmitFrame, counts
<1>7. CASE NoFrame
  BY <1>7 DEF NoFrame
<1> QED
  BY <1>1, <1>2, <1>3, <1>4, <1>5, <1>6, <1>7 DEF Worker

LEMMA StepControl == ControlInv /\ [Next]_vars => ControlInv'
<1> SUFFICES ASSUME ControlInv, [Next]_vars PROVE ControlInv'
  OBVIOUS
<1>1. CASE Realtime
  BY <1>1, RealtimeApart DEF ControlInv, Fields
<1>2. CASE Worker
  BY <1>2, WorkerStep DEF ControlInv
<1>3. CASE Start
  BY <1>3 DEF Start, ControlInv, Fields
<1>4. CASE StartThrows
  BY <1>4 DEF StartThrows, ControlInv, Fields
<1>5. CASE Stop
  BY <1>5 DEF Stop, ControlInv, Fields
<1>6. CASE Join
  BY <1>6 DEF Join, ControlInv, Fields
<1>7. CASE BeginLoad \/ EndLoad
  BY <1>7 DEF BeginLoad, EndLoad, ControlInv, Fields
<1>8. CASE UNCHANGED vars
  BY <1>8 DEF vars, ControlInv, Fields
<1> QED
  BY <1>1, <1>2, <1>3, <1>4, <1>5, <1>6, <1>7, <1>8 DEF Next, Host

(* WorkerGoneWhenStopped (denoise_apo_processor.cpp:22-43): after any sequence of *)
(* start(), failed or not, and stop(), whatever the realtime thread does, models  *)
(* are loaded and a worker is created only when there is no other worker.         *)
THEOREM WorkerGone == Spec => []WorkerGoneWhenStopped
<1>1. ControlInv => WorkerGoneWhenStopped
  BY DEF ControlInv, WorkerGoneWhenStopped
<1> QED
  BY <1>1, InitControl, StepControl, PTL DEF Spec


-----------------------------------------------------------------------------
(* What the push() of the realtime thread has still to store, and the length  *)
(* of all that is on its way.                                                 *)
Pending == IF rt.pc = "push" THEN rt.count ELSE 0
Held == Len(outputRing) + Len(worker.frame) + Len(framer) + Len(inputRing) + Pending

(* What the call in progress will still take out.                             *)
Owed == IF rt.pc = "fill" THEN rt.n ELSE rt.count

(* More silence has been heard than the headroom of a ring less a quantum.    *)
Underrun == \E q \in Quanta : padded + q > Least(InCapacity, OutCapacity)

(* A count fixed by a load still fits when it is stored: the other thread has *)
(* only made more room, or put in more samples.                               *)
RealtimeInv ==
  /\ rt.pc = "idle" => rt.count = 0
  /\ rt.pc # "idle" => rt.count \in Quanta
  /\ rt.pc = "push" => /\ rt.n =< rt.count
                       /\ rt.count =< captured
                       /\ Len(inputRing) + rt.n =< InCapacity
  /\ rt.pc = "fill" => rt.n =< rt.count /\ rt.n =< Len(outputRing)

WorkerInv ==
  /\ worker.pc # "emit" => Len(worker.frame) = 0
  /\ worker.pc # "frames" => Len(framer) < FrameSize
  /\ Len(framer) < 2 * FrameSize
  /\ worker.pc = "take" => worker.n =< FrameSize /\ worker.n =< Len(inputRing)
  /\ worker.pc = "emit" => /\ Len(worker.frame) = FrameSize
                           /\ worker.n =< FrameSize
                           /\ Len(outputRing) + worker.n =< OutCapacity

(* Every sample is held, lost or was made up for by silence; a call adds a    *)
(* block and takes out as much.                                               *)
Account == Held + dropped = padded + rt.count

(* What is held may exceed the bound only by what the call takes out.         *)
Bounded == Held =< InCapacity + 2 * FrameSize - 1 + Owed

(* A loss is already certain when the load finds too little room.             *)
Losses ==
  /\ padded > 0 => Quanta # {}
  /\ dropped > 0 => Underrun
  /\ rt.pc = "push" /\ rt.n < rt.count => Underrun
  /\ worker.pc = "emit" /\ worker.n < FrameSize => Underrun

IInv == TypeOK /\ RealtimeInv /\ WorkerInv /\ Account /\ Bounded /\ Losses

LEMMA Constants ==
  /\ FrameSize \in Nat \ {0} /\ InCapacity \in Nat \ {0} /\ OutCapacity \in Nat \ {0}
  /\ \A q \in Quanta : q \in Nat \ {0}
BY ApoAssumption

(* The types of what the proof computes with.                                 *)
LEMMA Types ==
  ASSUME TypeOK
  PROVE  /\ inputRing \in Seq(Nat) /\ Len(inputRing) \in Nat /\ Len(inputRing) =< InCapacity
         /\ outputRing \in Seq(Nat) /\ Len(outputRing) \in Nat
         /\ Len(outputRing) =< OutCapacity
         /\ framer \in Seq(Nat) /\ Len(framer) \in Nat
         /\ worker.frame \in Seq(Nat) /\ Len(worker.frame) \in Nat /\ worker.n \in Nat
         /\ rt.count \in Nat /\ rt.n \in Nat /\ Pending \in Nat /\ Held \in Nat /\ Owed \in Nat
         /\ captured \in Nat /\ emitted \in Nat /\ padded \in Nat /\ dropped \in Nat
<1>1. /\ inputRing \in Seq(Nat) /\ Len(inputRing) =< InCapacity
      /\ outputRing \in Seq(Nat) /\ Len(outputRing) =< OutCapacity
      /\ framer \in Seq(Nat)
      /\ worker.frame \in Seq(Nat) /\ worker.n \in Nat
      /\ rt.count \in Nat /\ rt.n \in Nat
      /\ captured \in Nat /\ emitted \in Nat /\ padded \in Nat /\ dropped \in Nat
  BY DEF TypeOK
<1>2. /\ Len(inputRing) \in Nat /\ Len(outputRing) \in Nat
      /\ Len(framer) \in Nat /\ Len(worker.frame) \in Nat
  BY <1>1, LenProperties
<1>3. Pending \in Nat /\ Owed \in Nat
  BY <1>1 DEF Pending, Owed
<1>4. Held \in Nat
  BY <1>2, <1>3 DEF Held
<1> QED
  BY <1>1, <1>2, <1>3, <1>4

LEMMA InitIInv == Init => IInv
<1> SUFFICES ASSUME Init PROVE IInv
  OBVIOUS
<1>1. running \in BOOLEAN /\ host = "idle"
  BY Zenon DEF Init
<1>2. /\ inputRing = <<>> /\ outputRing = <<>> /\ framer = <<>> /\ heard = <<>>
      /\ rt = [pc |-> "idle", count |-> 0, n |-> 0]
      /\ worker = [pc |-> "none", n |-> 0, frame |-> <<>>]
      /\ captured = 0 /\ emitted = 0 /\ padded = 0 /\ dropped = 0
  BY Zenon DEF Init
<1>3. <<>> \in Seq(Nat) /\ Len(<<>>) = 0
  OBVIOUS
<1>4. TypeOK
  BY <1>1, <1>2, <1>3, Constants DEF TypeOK
<1>5. RealtimeInv /\ WorkerInv /\ Losses
  BY <1>2, <1>3, Constants DEF RealtimeInv, WorkerInv, Losses
<1>6. Account /\ Bounded
  BY <1>2, <1>3, Constants DEF Account, Bounded, Held, Pending, Owed
<1> QED
  BY <1>4, <1>5, <1>6 DEF IInv

LEMMA InputLoadStep ==
  ASSUME IInv, NEW count \in Quanta, InputLoad(count)
  PROVE  IInv'
<1> DEFINE n == Least(count, InCapacity - Len(inputRing))
<1>1. n \in Nat /\ n =< count /\ Len(inputRing) + n =< InCapacity
      /\ (n < count => Len(inputRing) + n = InCapacity)
  <2>1. /\ Len(inputRing) \in Nat /\ Len(inputRing) =< InCapacity
        /\ count \in Nat /\ InCapacity \in Nat
    BY Types, Constants DEF IInv
  <2>2. CASE count =< InCapacity - Len(inputRing)
    BY <2>1, <2>2 DEF Least
  <2>3. CASE ~(count =< InCapacity - Len(inputRing))
    BY <2>1, <2>3 DEF Least
  <2> QED
    BY <2>2, <2>3
<1>2. /\ rt.pc = "idle" /\ captured' = captured + count
      /\ rt' = [pc |-> "push", count |-> count, n |-> n]
      /\ UNCHANGED <<inputRing, outputRing, framer, running, worker, host,
                     emitted, padded, dropped, heard>>
  BY DEF InputLoad
<1> HIDE DEF n
<1>3. rt'.pc = "push" /\ rt'.count = count /\ rt'.n = n /\ rt.count = 0
  BY <1>2 DEF IInv, RealtimeInv
<1>4. TypeOK'
  <2>1. captured' \in Nat /\ count \in Nat
    <3>1. captured \in Nat /\ count \in Nat
      BY Constants, Types DEF IInv
    <3> QED
      BY <1>2, <3>1
  <2>2. rt' \in [pc : {"idle", "push", "pop", "fill"}, count : Nat, n : Nat]
    BY <1>1, <1>2, <2>1
  <2> QED
    BY <1>2, <2>1, <2>2 DEF IInv, TypeOK
<1>5. RealtimeInv'
  <2>1. count =< captured + count
    BY Constants, Types DEF IInv
  <2> QED
    BY <1>1, <1>2, <1>3, <2>1 DEF RealtimeInv
<1>6. WorkerInv'
  BY <1>2 DEF IInv, WorkerInv
<1>7. Held' = Held + count /\ Owed' = count /\ Owed = 0
  <2>1. Pending' = count /\ Pending = 0
    BY <1>2, <1>3 DEF Pending
  <2>2. Held' = Len(outputRing) + Len(worker.frame) + Len(framer) + Len(inputRing) + count
    BY <1>2, <2>1 DEF Held
  <2>3. Held = Len(outputRing) + Len(worker.frame) + Len(framer) + Len(inputRing) + 0
    BY <2>1 DEF Held
  <2>4. Owed' = count /\ Owed = 0
    BY <1>2, <1>3 DEF Owed
  <2> QED
    BY <2>2, <2>3, <2>4, Types, Constants DEF IInv
<1> DEFINE most == InCapacity + 2 * FrameSize - 1
           headroom == Least(InCapacity, OutCapacity)
           inside == Len(inputRing)
<1>8. /\ Held \in Nat /\ dropped \in Nat /\ padded \in Nat /\ count \in Nat
      /\ most \in Nat /\ headroom \in Nat /\ headroom =< InCapacity
      /\ InCapacity \in Nat /\ inside \in Nat /\ inside =< Held
  <2>1. /\ Held \in Nat /\ dropped \in Nat /\ padded \in Nat /\ count \in Nat
        /\ inside \in Nat /\ InCapacity \in Nat
    BY Types, Constants DEF IInv
  <2>2. most \in Nat /\ headroom \in Nat /\ headroom =< InCapacity
    BY Constants DEF Least
  <2>3. Held = Len(outputRing) + Len(worker.frame) + Len(framer) + inside + Pending
    BY DEF Held
  <2>4. /\ Len(outputRing) \in Nat /\ Len(worker.frame) \in Nat /\ Len(framer) \in Nat
        /\ Pending \in Nat
    BY Types DEF IInv
  <2>5. inside =< Held
    <3> DEFINE frame == Len(worker.frame)
    <3>1. frame \in Nat /\ Held = Len(outputRing) + frame + Len(framer) + inside + Pending
      BY <2>3, <2>4
    <3> HIDE DEF frame, inside
    <3> QED
      BY <2>1, <2>4, <3>1
  <2> QED
    BY <2>1, <2>2, <2>5
<1>9. Held + dropped = padded + 0 /\ Held =< most + 0
  BY <1>3, <1>7 DEF IInv, Account, Bounded
<1> HIDE DEF most, headroom, inside
<1>10. Account' /\ Bounded'
  <2>1. (Held + count) + dropped = padded + count /\ Held + count =< most + count
    BY <1>8, <1>9
  <2> QED
    BY <1>2, <1>3, <1>7, <2>1 DEF Account, Bounded, most
<1>11. Losses'
  <2>1. n < count => padded + count > Least(InCapacity, OutCapacity)
    <3>1. n < count => inside + n = InCapacity
      BY <1>1 DEF inside
    <3>2. n < count => padded + count > headroom
      BY <1>1, <1>8, <1>9, <3>1
    <3> QED
      BY <3>2 DEF headroom
  <2>2. Underrun' = Underrun
    BY <1>2 DEF Underrun
  <2>3. n < count => Underrun
    BY <2>1 DEF Underrun
  <2> QED
    BY <1>2, <1>3, <2>2, <2>3 DEF IInv, Losses
<1> QED
  BY <1>4, <1>5, <1>6, <1>10, <1>11 DEF IInv

LEMMA BatchQueue ==
  ASSUME IInv, rt.pc = "push"
  PROVE  Batch \in Seq(Nat) /\ Len(Batch) = rt.count
<1>1. captured \in Nat /\ rt.count \in Nat
  BY Types DEF IInv
<1>2. rt.count =< captured
  BY DEF IInv, RealtimeInv
<1>3. captured - rt.count + 1 \in Nat \ {0}
  BY <1>1, <1>2
<1> QED
  BY <1>1, <1>3, BlockLength DEF Batch

LEMMA InputPublishStep ==
  ASSUME IInv, InputPublish
  PROVE  IInv'
<1> DEFINE pushed == First(Batch, rt.n)
<1>1. /\ rt.pc = "push" /\ inputRing' = inputRing \o pushed
      /\ dropped' = dropped + (rt.count - rt.n)
      /\ rt' = [rt EXCEPT !.pc = "pop"]
      /\ UNCHANGED <<outputRing, framer, running, worker, host,
                     captured, emitted, padded, heard>>
  BY DEF InputPublish
<1>2. /\ rt.n =< rt.count /\ rt.n \in Nat /\ rt.count \in Quanta
      /\ Len(inputRing) + rt.n =< InCapacity
  BY <1>1, Types DEF IInv, RealtimeInv
<1>3. pushed \in Seq(Nat) /\ Len(pushed) = rt.n
  <2>1. Batch \in Seq(Nat) /\ rt.n \in 0 .. Len(Batch)
    BY <1>1, <1>2, BatchQueue, Types DEF IInv
  <2> QED
    BY <2>1, SplitLengths
<1> HIDE DEF pushed
<1>4. inputRing' \in Seq(Nat) /\ Len(inputRing') = Len(inputRing) + rt.n
  <2>1. inputRing \in Seq(Nat)
    BY Types DEF IInv
  <2> QED
    BY <1>1, <1>3, <2>1, ThenLength DEF Then
<1>5. rt'.pc = "pop" /\ rt'.count = rt.count /\ rt'.n = rt.n
  BY <1>1 DEF IInv, TypeOK
<1>6. TypeOK'
  <2>1. rt' \in [pc : {"idle", "push", "pop", "fill"}, count : Nat, n : Nat]
    BY <1>1 DEF IInv, TypeOK
  <2>2. Len(inputRing') =< InCapacity
    BY <1>2, <1>4
  <2>3. dropped' \in Nat
    <3>1. dropped \in Nat /\ rt.count \in Nat
      BY Types DEF IInv
    <3> QED
      BY <1>1, <1>2, <3>1
  <2> QED
    BY <1>1, <1>4, <2>1, <2>2, <2>3 DEF IInv, TypeOK
<1>7. RealtimeInv'
  BY <1>2, <1>5 DEF RealtimeInv
<1>8. WorkerInv'
  BY <1>1, <1>4, <1>2, Types DEF IInv, WorkerInv
<1> DEFINE refused == rt.count - rt.n
<1>9. Held' = Held - refused /\ dropped' = dropped + refused /\ Owed' = Owed /\ refused \in Nat
  <2>1. Pending' = 0 /\ Pending = rt.count
    BY <1>1, <1>5 DEF Pending
  <2>2. Held' = Len(outputRing) + Len(worker.frame) + Len(framer) + (Len(inputRing) + rt.n) + 0
    BY <1>1, <1>4, <2>1 DEF Held
  <2>3. Held = Len(outputRing) + Len(worker.frame) + Len(framer) + Len(inputRing) + rt.count
    BY <2>1 DEF Held
  <2>4. Owed' = Owed
    BY <1>1, <1>5 DEF Owed
  <2>5. /\ Len(outputRing) \in Nat /\ Len(worker.frame) \in Nat /\ Len(framer) \in Nat
        /\ Len(inputRing) \in Nat /\ rt.count \in Nat /\ rt.n \in Nat
    BY Types DEF IInv
  <2>6. Held' = Held - refused
    <3> DEFINE n == rt.n
               count == rt.count
               frame == Len(worker.frame)
    <3>1. /\ Held' = Len(outputRing) + frame + Len(framer) + (Len(inputRing) + n) + 0
          /\ Held = Len(outputRing) + frame + Len(framer) + Len(inputRing) + count
          /\ n \in Nat /\ count \in Nat /\ frame \in Nat /\ refused = count - n
      BY <2>2, <2>3, <2>5
    <3> HIDE DEF n, count, frame, refused
    <3> QED
      BY <2>5, <3>1
  <2>7. refused \in Nat
    BY <1>2, <2>5
  <2> QED
    BY <1>1, <2>4, <2>6, <2>7
<1> HIDE DEF refused
<1>10. /\ Held \in Nat /\ dropped \in Nat /\ padded \in Nat /\ rt.count \in Nat
       /\ Owed \in Nat
  BY Types DEF IInv
<1>11. Account' /\ Bounded'
  <2>1. Held + dropped = padded + rt.count /\ Held =< InCapacity + 2 * FrameSize - 1 + Owed
    BY DEF IInv, Account, Bounded
  <2>2. (Held - refused) + (dropped + refused) = padded + rt.count
    BY <1>9, <1>10, <2>1
  <2>3. Held - refused =< InCapacity + 2 * FrameSize - 1 + Owed
    BY <1>9, <1>10, <2>1, Constants
  <2> QED
    BY <1>1, <1>5, <1>9, <2>2, <2>3 DEF Account, Bounded
<1>12. Losses'
  <2>1. Underrun' = Underrun
    BY <1>1 DEF Underrun
  <2>2. dropped' > 0 => Underrun
    <3>1. CASE rt.n < rt.count
      BY <1>1, <3>1 DEF IInv, Losses
    <3>2. CASE rt.n = rt.count
      <4>1. dropped' = dropped
        BY <1>1, <1>10, <3>2
      <4> QED
        BY <4>1 DEF IInv, Losses
    <3> QED
      BY <1>2, <3>1, <3>2, Types DEF IInv
  <2> QED
    BY <1>1, <1>5, <2>1, <2>2 DEF IInv, Losses
<1> QED
  BY <1>6, <1>7, <1>8, <1>11, <1>12 DEF IInv

LEMMA OutputLoadStep ==
  ASSUME IInv, OutputLoad
  PROVE  IInv'
<1> DEFINE n == Least(rt.count, Len(outputRing))
<1>1. n \in Nat /\ n =< rt.count /\ n =< Len(outputRing)
      /\ (n = rt.count \/ n = Len(outputRing))
  BY Types DEF IInv, Least
<1>2. /\ rt.pc = "pop" /\ rt' = [rt EXCEPT !.pc = "fill", !.n = n]
      /\ UNCHANGED <<inputRing, outputRing, framer, running, worker, host, counts>>
  BY DEF OutputLoad
<1> HIDE DEF n
<1>3. rt'.pc = "fill" /\ rt'.count = rt.count /\ rt'.n = n
  BY <1>2 DEF IInv, TypeOK
<1>4. TypeOK'
  <2>1. rt' \in [pc : {"idle", "push", "pop", "fill"}, count : Nat, n : Nat]
    BY <1>1, <1>2 DEF IInv, TypeOK
  <2> QED
    BY <1>2, <2>1 DEF IInv, TypeOK, counts
<1>5. RealtimeInv' /\ WorkerInv'
  BY <1>1, <1>2, <1>3 DEF IInv, RealtimeInv, WorkerInv
<1>6. Held' = Held /\ Held = Len(outputRing) + Len(worker.frame) + Len(framer) + Len(inputRing)
      /\ Owed' = n /\ Owed = rt.count
  <2>1. Pending' = 0 /\ Pending = 0
    BY <1>2, <1>3 DEF Pending
  <2>2. Owed' = n /\ Owed = rt.count
    BY <1>2, <1>3 DEF Owed
  <2> QED
    BY <1>2, <2>1, <2>2, Types DEF IInv, Held
<1>7. Account'
  BY <1>2, <1>3, <1>6 DEF IInv, Account, counts
<1>8. Bounded'
  <2>1. CASE n = rt.count
    BY <1>6, <2>1 DEF IInv, Bounded
  <2>2. CASE n = Len(outputRing)
    <3>1. /\ Len(worker.frame) \in Nat /\ Len(framer) \in Nat /\ Len(inputRing) \in Nat
          /\ Len(inputRing) =< InCapacity
      BY Types DEF IInv
    <3>2. \/ Len(worker.frame) = 0 /\ Len(framer) < 2 * FrameSize
          \/ Len(worker.frame) = FrameSize /\ Len(framer) < FrameSize
      BY DEF IInv, WorkerInv
    <3>3. Len(worker.frame) + Len(framer) =< 2 * FrameSize - 1
      BY <3>1, <3>2, Constants
    <3>4. Held =< InCapacity + 2 * FrameSize - 1 + n
      BY <1>1, <1>6, <2>2, <3>1, <3>3, Constants
    <3> QED
      BY <1>6, <3>4 DEF Bounded
  <2> QED
    BY <1>1, <2>1, <2>2
<1>9. Losses'
  <2>1. Underrun' = Underrun
    BY <1>2 DEF Underrun, counts
  <2> QED
    BY <1>2, <1>3, <2>1 DEF IInv, Losses, counts
<1> QED
  BY <1>4, <1>5, <1>7, <1>8, <1>9 DEF IInv

LEMMA OutputFillStep ==
  ASSUME IInv, OutputFill
  PROVE  IInv'
<1> DEFINE silence == rt.count - rt.n
           left == Len(outputRing) - rt.n
<1>1. /\ rt.pc = "fill"
      /\ outputRing' = Rest(outputRing, rt.n)
      /\ padded' = padded + silence /\ emitted' = emitted + rt.n
      /\ heard' = Padded(First(outputRing, rt.n), rt.count)
      /\ rt' = [pc |-> "idle", count |-> 0, n |-> 0]
      /\ UNCHANGED <<inputRing, framer, running, worker, host, captured, dropped>>
  BY DEF OutputFill
<1>2. /\ rt.n \in Nat /\ rt.count \in Nat /\ rt.n =< rt.count /\ rt.count \in Quanta
      /\ rt.n =< Len(outputRing) /\ Len(outputRing) \in Nat /\ Len(outputRing) =< OutCapacity
      /\ padded \in Nat /\ emitted \in Nat /\ outputRing \in Seq(Nat)
  BY <1>1, Types DEF IInv, RealtimeInv
<1>3. /\ silence \in Nat /\ silence + rt.n = rt.count
      /\ left \in Nat /\ left + rt.n = Len(outputRing) /\ left =< Len(outputRing)
      /\ rt.n \in 0 .. Len(outputRing)
  BY <1>2
<1>4. /\ outputRing' \in Seq(Nat) /\ Len(outputRing') = left
      /\ First(outputRing, rt.n) \in Seq(Nat) /\ Len(First(outputRing, rt.n)) = rt.n
  BY <1>1, <1>2, <1>3, SplitLengths
<1> HIDE DEF silence, left
<1>5. rt'.pc = "idle" /\ rt'.count = 0 /\ rt'.n = 0
  BY <1>1
<1>6. TypeOK'
  <2>1. heard' \in Seq(Nat)
    BY <1>1, <1>2, <1>4, PaddedLength
  <2>2. padded' \in Nat /\ emitted' \in Nat
    BY <1>1, <1>2, <1>3
  <2>3. Len(outputRing') =< OutCapacity
    BY <1>2, <1>3, <1>4, Constants
  <2>4. rt' \in [pc : {"idle", "push", "pop", "fill"}, count : Nat, n : Nat]
    BY <1>1
  <2> QED
    BY <1>1, <1>4, <2>1, <2>2, <2>3, <2>4 DEF IInv, TypeOK
<1>7. RealtimeInv'
  BY <1>5 DEF RealtimeInv
<1>8. WorkerInv'
  <2>1. worker.pc = "emit" => left + worker.n =< OutCapacity
    <3>1. worker.pc = "emit" => Len(outputRing) + worker.n =< OutCapacity
      BY DEF IInv, WorkerInv
    <3>2. worker.n \in Nat
      BY Types DEF IInv
    <3> QED
      BY <1>2, <1>3, <3>1, <3>2, Constants
  <2> QED
    BY <1>1, <1>4, <2>1 DEF IInv, WorkerInv
<1>9. Held' = Held - rt.n /\ Owed' = 0 /\ Owed = rt.n
  <2>1. Pending' = 0 /\ Pending = 0
    BY <1>1, <1>5 DEF Pending
  <2>2. Held' = left + Len(worker.frame) + Len(framer) + Len(inputRing) + 0
    BY <1>1, <1>4, <2>1 DEF Held
  <2>3. Held = Len(outputRing) + Len(worker.frame) + Len(framer) + Len(inputRing) + 0
    BY <2>1 DEF Held
  <2>4. Owed' = 0 /\ Owed = rt.n
    BY <1>1, <1>5 DEF Owed
  <2>5. Len(worker.frame) \in Nat /\ Len(framer) \in Nat /\ Len(inputRing) \in Nat
    BY Types DEF IInv
  <2>6. Held' = Held - rt.n
    <3> DEFINE n == rt.n
               frame == Len(worker.frame)
    <3>1. /\ Held' = left + frame + Len(framer) + Len(inputRing) + 0
          /\ Held = Len(outputRing) + frame + Len(framer) + Len(inputRing) + 0
          /\ n \in Nat /\ left \in Nat /\ frame \in Nat /\ left = Len(outputRing) - n
      BY <1>2, <1>3, <2>2, <2>3, <2>5 DEF left
    <3>2. Len(outputRing) \in Nat /\ Len(framer) \in Nat /\ Len(inputRing) \in Nat
      BY <1>2, <2>5
    <3> HIDE DEF n, frame
    <3>3. Held' = Held - n
      BY <3>1, <3>2
    <3> QED
      BY <3>3 DEF n
  <2> QED
    BY <2>4, <2>6
<1>10. Held \in Nat /\ dropped \in Nat
  BY Types DEF IInv
<1>11. Account' /\ Bounded'
  <2>1. Held + dropped = padded + rt.count /\ Held =< InCapacity + 2 * FrameSize - 1 + Owed
    BY DEF IInv, Account, Bounded
  <2>2. (Held - rt.n) + dropped = (padded + silence) + 0
    <3> DEFINE n == rt.n
               count == rt.count
    <3>1. /\ Held + dropped = padded + count /\ silence = count - n
          /\ n \in Nat /\ count \in Nat /\ padded \in Nat
      BY <1>2, <2>1 DEF silence
    <3> HIDE DEF n, count
    <3>2. (Held - n) + dropped = (padded + silence) + 0
      BY <1>10, <3>1
    <3> QED
      BY <3>2 DEF n
  <2>3. Held - rt.n =< InCapacity + 2 * FrameSize - 1 + 0
    BY <1>2, <1>9, <1>10, <2>1, Constants
  <2> QED
    BY <1>1, <1>5, <1>9, <2>2, <2>3 DEF Account, Bounded
<1>12. Losses'
  <2>1. Underrun => Underrun'
    <3> SUFFICES ASSUME NEW q \in Quanta, padded + q > Least(InCapacity, OutCapacity)
                 PROVE  padded' + q > Least(InCapacity, OutCapacity)
      BY DEF Underrun
    <3> DEFINE headroom == Least(InCapacity, OutCapacity)
    <3>1. headroom \in Nat /\ q \in Nat
      BY Constants DEF Least
    <3>2. padded + q > headroom
      OBVIOUS
    <3> HIDE DEF headroom
    <3>3. padded' + q > headroom
      BY <1>1, <1>2, <1>3, <3>1, <3>2
    <3> QED
      BY <3>3 DEF headroom
  <2>2. dropped' > 0 => Underrun'
    BY <1>1, <2>1 DEF IInv, Losses
  <2> QED
    BY <1>1, <1>2, <1>5, <2>1, <2>2 DEF IInv, Losses
<1> QED
  BY <1>6, <1>7, <1>8, <1>11, <1>12 DEF IInv

(* A step that moves no sample disturbs only what it says of the worker.      *)
LEMMA StillStep ==
  ASSUME IInv, UNCHANGED <<inputRing, outputRing, framer, rt, counts>>,
         running' \in BOOLEAN, host' \in {"idle", "join", "load"},
         worker' \in [pc : {"none", "check", "pop", "take", "frames", "emit", "done"},
                      n : Nat, frame : Seq(Nat)],
         worker'.frame = worker.frame,
         worker' = worker \/ worker'.pc # "emit",
         WorkerInv'
  PROVE  IInv'
<1>1. TypeOK'
  BY DEF IInv, TypeOK, counts
<1>2. RealtimeInv'
  BY DEF IInv, RealtimeInv, counts
<1>3. Held' = Held /\ Owed' = Owed
  BY DEF Held, Pending, Owed
<1>4. Account' /\ Bounded'
  BY <1>3 DEF IInv, Account, Bounded, counts
<1>5. Underrun' = Underrun
  BY DEF Underrun, counts
<1>6. Losses'
  BY <1>5 DEF IInv, Losses, counts
<1> QED
  BY <1>1, <1>2, <1>4, <1>6 DEF IInv

LEMMA WorkerTypes ==
  IInv => /\ running \in BOOLEAN /\ host \in {"idle", "join", "load"}
          /\ worker \in [pc : {"none", "check", "pop", "take", "frames", "emit", "done"},
                         n : Nat, frame : Seq(Nat)]
BY DEF IInv, TypeOK

LEMMA LookStep ==
  ASSUME IInv, CheckRunning \/ SleepWhenEmpty \/ NoFrame
  PROVE  IInv'
<1>1. /\ UNCHANGED <<inputRing, outputRing, framer, rt, counts, running, host>>
      /\ \E pc \in {"check", "pop", "done"} : worker' = [worker EXCEPT !.pc = pc]
      /\ worker.pc \in {"check", "pop", "frames"}
      /\ worker.pc = "frames" => Len(framer) < FrameSize
  BY DEF CheckRunning, SleepWhenEmpty, NoFrame, counts
<1>2. /\ worker'.pc \in {"check", "pop", "done"} /\ worker'.frame = worker.frame
      /\ worker' \in [pc : {"none", "check", "pop", "take", "frames", "emit", "done"},
                      n : Nat, frame : Seq(Nat)]
  BY <1>1, WorkerTypes
<1>3. WorkerInv'
  BY <1>1, <1>2 DEF IInv, WorkerInv
<1> QED
  BY <1>1, <1>2, <1>3, WorkerTypes, StillStep

LEMMA WorkerLoadStep ==
  ASSUME IInv, WorkerLoad
  PROVE  IInv'
<1> DEFINE n == Least(FrameSize, Len(inputRing))
<1>1. n \in Nat /\ n =< FrameSize /\ n =< Len(inputRing)
  BY Types, Constants DEF IInv, Least
<1>2. /\ UNCHANGED <<inputRing, outputRing, framer, rt, counts, running, host>>
      /\ worker' = [worker EXCEPT !.pc = "take", !.n = n]
      /\ worker.pc = "pop"
  BY DEF WorkerLoad, counts
<1> HIDE DEF n
<1>3. /\ worker'.pc = "take" /\ worker'.n = n /\ worker'.frame = worker.frame
      /\ worker' \in [pc : {"none", "check", "pop", "take", "frames", "emit", "done"},
                      n : Nat, frame : Seq(Nat)]
  BY <1>1, <1>2, WorkerTypes
<1>4. WorkerInv'
  BY <1>1, <1>2, <1>3 DEF IInv, WorkerInv
<1> QED
  BY <1>2, <1>3, <1>4, WorkerTypes, StillStep

(* Samples that move within the worker's reach change no account.            *)
LEMMA MovedStep ==
  ASSUME IInv, TypeOK', RealtimeInv', WorkerInv', Held' = Held,
         UNCHANGED <<rt, running, host, captured, emitted, padded, dropped, heard>>,
         worker'.pc = "emit" /\ worker'.n < FrameSize => Underrun
  PROVE  IInv'
<1>1. Owed' = Owed
  BY DEF Owed
<1>2. Account' /\ Bounded'
  BY <1>1 DEF IInv, Account, Bounded
<1>3. Underrun' = Underrun
  BY DEF Underrun
<1>4. Losses'
  BY <1>3 DEF IInv, Losses
<1> QED
  BY <1>2, <1>4 DEF IInv

LEMMA WorkerTakeStep ==
  ASSUME IInv, WorkerTake
  PROVE  IInv'
<1> DEFINE n == worker.n
           got == First(inputRing, n)
           left == Len(inputRing) - n
<1>1. /\ worker.pc = "take" /\ framer' = framer \o got /\ inputRing' = Rest(inputRing, n)
      /\ worker' = [worker EXCEPT !.pc = "frames", !.n = 0]
      /\ UNCHANGED <<outputRing, running, rt, host, counts>>
  BY DEF WorkerTake
<1>2. /\ n \in Nat /\ n =< FrameSize /\ n =< Len(inputRing) /\ Len(framer) < FrameSize
      /\ Len(worker.frame) = 0
  BY <1>1, Types DEF IInv, WorkerInv
<1>3. /\ Len(inputRing) \in Nat /\ inputRing \in Seq(Nat) /\ framer \in Seq(Nat)
      /\ Len(framer) \in Nat /\ Len(outputRing) \in Nat /\ Len(inputRing) =< InCapacity
  BY Types DEF IInv
<1> HIDE DEF n
<1>4. got \in Seq(Nat) /\ Len(got) = n /\ inputRing' \in Seq(Nat) /\ Len(inputRing') = left
  <2>1. n \in 0 .. Len(inputRing)
    BY <1>2, <1>3
  <2> QED
    BY <1>1, <1>3, <2>1, SplitLengths
<1> HIDE DEF got
<1>5. framer' \in Seq(Nat) /\ Len(framer') = Len(framer) + n
  BY <1>1, <1>3, <1>4, ThenLength DEF Then
<1>6. left \in Nat /\ left =< Len(inputRing) /\ left = Len(inputRing) - n
  BY <1>2, <1>3
<1> HIDE DEF left
<1>7. /\ worker'.pc = "frames" /\ worker'.frame = worker.frame
      /\ worker' \in [pc : {"none", "check", "pop", "take", "frames", "emit", "done"},
                      n : Nat, frame : Seq(Nat)]
  BY <1>1, WorkerTypes
<1>8. TypeOK'
  <2>1. Len(inputRing') =< InCapacity
    BY <1>3, <1>4, <1>6, Constants
  <2> QED
    BY <1>1, <1>4, <1>5, <1>7, <2>1 DEF IInv, TypeOK, counts
<1>9. RealtimeInv'
  <2>1. rt.pc = "push" => left + rt.n =< InCapacity
    <3> DEFINE k == rt.n
    <3>1. rt.pc = "push" => Len(inputRing) + k =< InCapacity
      BY DEF IInv, RealtimeInv
    <3>2. k \in Nat
      BY Types DEF IInv
    <3> HIDE DEF k
    <3>3. rt.pc = "push" => left + k =< InCapacity
      BY <1>3, <1>6, <3>1, <3>2, Constants
    <3> QED
      BY <3>3 DEF k
  <2> QED
    BY <1>1, <1>4, <2>1 DEF IInv, RealtimeInv, counts
<1>10. WorkerInv'
  <2>1. Len(framer) + n < 2 * FrameSize
    BY <1>2, <1>3, Constants
  <2> QED
    BY <1>2, <1>5, <1>7, <2>1 DEF WorkerInv
<1>11. Held' = Held
  <2>1. Pending' = Pending /\ Pending \in Nat
    BY <1>1, Types DEF IInv, Pending
  <2>2. /\ Held' = Len(outputRing) + Len(worker.frame) + (Len(framer) + n) + left + Pending
        /\ Held = Len(outputRing) + Len(worker.frame) + Len(framer) + Len(inputRing) + Pending
    BY <1>1, <1>4, <1>5, <1>7, <2>1 DEF Held
  <2>3. /\ Held' = Len(outputRing) + 0 + (Len(framer) + n) + left + Pending
        /\ Held = Len(outputRing) + 0 + Len(framer) + Len(inputRing) + Pending
    BY <1>2, <2>2
  <2> QED
    BY <1>2, <1>3, <1>6, <2>1, <2>3
<1> QED
  BY <1>1, <1>7, <1>8, <1>9, <1>10, <1>11, MovedStep DEF counts

(* The load of a push() to the output ring: a ring without room for a frame  *)
(* means that more silence was heard than the ring has room for samples.     *)
LEMMA ProcessFrameStep ==
  ASSUME IInv, ProcessFrame
  PROVE  IInv'
<1> DEFINE n == Least(FrameSize, OutCapacity - Len(outputRing))
           rest == Rest(framer, FrameSize)
           frame == First(framer, FrameSize)
           left == Len(framer) - FrameSize
<1>1. /\ worker.pc = "frames" /\ framer' = rest /\ Len(framer) >= FrameSize
      /\ worker' = [pc |-> "emit", frame |-> frame, n |-> n]
      /\ UNCHANGED <<inputRing, outputRing, running, rt, host, counts>>
  BY DEF ProcessFrame
<1>2. /\ Len(outputRing) \in Nat /\ Len(outputRing) =< OutCapacity
      /\ Len(framer) \in Nat /\ framer \in Seq(Nat) /\ Len(inputRing) \in Nat
  BY Types DEF IInv
<1>3. Len(worker.frame) = 0 /\ Len(framer) < 2 * FrameSize
  BY <1>1 DEF IInv, WorkerInv
<1>4. /\ n \in Nat /\ n =< FrameSize /\ Len(outputRing) + n =< OutCapacity
      /\ n < FrameSize => Len(outputRing) + FrameSize > OutCapacity
  BY <1>2, Constants DEF Least
<1>5. /\ frame \in Seq(Nat) /\ Len(frame) = FrameSize
      /\ rest \in Seq(Nat) /\ Len(rest) = left
  <2>1. FrameSize \in 0 .. Len(framer)
    BY <1>1, <1>2, Constants
  <2> QED
    BY <1>2, <2>1, SplitLengths
<1>6. left \in Nat /\ left < FrameSize /\ left = Len(framer) - FrameSize
  BY <1>1, <1>2, <1>3, Constants
<1> HIDE DEF n, rest, frame, left
<1>7. /\ worker'.pc = "emit" /\ worker'.frame = frame /\ worker'.n = n
      /\ worker' \in [pc : {"none", "check", "pop", "take", "frames", "emit", "done"},
                      n : Nat, frame : Seq(Nat)]
  BY <1>1, <1>4, <1>5
<1>8. TypeOK'
  BY <1>1, <1>5, <1>7 DEF IInv, TypeOK, counts
<1>9. RealtimeInv'
  BY <1>1 DEF IInv, RealtimeInv, counts
<1>10. WorkerInv'
  <2>1. left < 2 * FrameSize
    BY <1>6, Constants
  <2> QED
    BY <1>1, <1>4, <1>5, <1>6, <1>7, <2>1 DEF WorkerInv
<1>11. Held' = Held
  <2>1. Pending' = Pending /\ Pending \in Nat
    BY <1>1, Types DEF IInv, Pending
  <2>2. /\ Held' = Len(outputRing) + FrameSize + left + Len(inputRing) + Pending
        /\ Held = Len(outputRing) + 0 + Len(framer) + Len(inputRing) + Pending
    BY <1>1, <1>3, <1>5, <1>7, <2>1 DEF Held
  <2> QED
    BY <1>2, <1>6, <2>1, <2>2, Constants
<1>12. n < FrameSize => Underrun
  <2> SUFFICES ASSUME n < FrameSize PROVE Underrun
    OBVIOUS
  <2> DEFINE count == rt.count
             headroom == Least(InCapacity, OutCapacity)
  <2>1. Pending \in Nat /\ dropped \in Nat /\ padded \in Nat /\ count \in Nat
    BY Types DEF IInv
  <2>2. Held + dropped = padded + count
    BY DEF IInv, Account
  <2>3. Held = Len(outputRing) + 0 + Len(framer) + Len(inputRing) + Pending
    BY <1>3 DEF Held
  <2>4. headroom \in Nat /\ headroom =< OutCapacity
    BY Constants DEF Least
  <2> HIDE DEF count, headroom
  <2>5. Held > OutCapacity
    BY <1>1, <1>2, <1>4, <2>1, <2>3, Constants
  <2>6. padded + count > headroom
    BY <2>1, <2>2, <2>4, <2>5, <2>3, <1>2, Constants
  <2>7. CASE rt.pc # "idle"
    <3>1. rt.count \in Quanta
      BY <2>7 DEF IInv, RealtimeInv
    <3>2. padded + rt.count > Least(InCapacity, OutCapacity)
      BY <2>6 DEF count, headroom
    <3> QED
      BY <3>1, <3>2 DEF Underrun
  <2>8. CASE rt.pc = "idle"
    <3>1. count = 0
      BY <2>8 DEF IInv, RealtimeInv, count
    <3>2. padded > headroom /\ padded > 0
      BY <2>1, <2>4, <2>6, <3>1
    <3>3. PICK q \in Quanta : TRUE
      BY <3>2 DEF IInv, Losses
    <3>4. q \in Nat
      BY Constants
    <3>5. padded + q > headroom
      BY <2>1, <2>4, <3>2, <3>4
    <3>6. padded + q > Least(InCapacity, OutCapacity)
      BY <3>5 DEF headroom
    <3> QED
      BY <3>6 DEF Underrun
  <2> QED
    BY <2>7, <2>8
<1> QED
  BY <1>1, <1>7, <1>8, <1>9, <1>10, <1>11, <1>12, MovedStep DEF counts

LEMMA EmitFrameStep ==
  ASSUME IInv, EmitFrame
  PROVE  IInv'
<1> DEFINE n == worker.n
           taken == First(worker.frame, n)
           refused == FrameSize - n
<1>1. /\ worker.pc = "emit" /\ outputRing' = outputRing \o taken
      /\ dropped' = dropped + refused
      /\ worker' = [pc |-> "frames", n |-> 0, frame |-> <<>>]
      /\ UNCHANGED <<inputRing, framer, running, rt, host, captured, emitted, padded, heard>>
  BY DEF EmitFrame
<1>2. /\ n \in Nat /\ n =< FrameSize /\ Len(worker.frame) = FrameSize
      /\ Len(framer) < FrameSize /\ Len(outputRing) + n =< OutCapacity
      /\ worker.frame \in Seq(Nat)
  BY <1>1, Types DEF IInv, WorkerInv
<1>3. /\ Len(inputRing) \in Nat /\ Len(framer) \in Nat /\ Len(outputRing) \in Nat
      /\ outputRing \in Seq(Nat) /\ dropped \in Nat /\ padded \in Nat
  BY Types DEF IInv
<1> HIDE DEF n
<1>4. taken \in Seq(Nat) /\ Len(taken) = n
  <2>1. n \in 0 .. Len(worker.frame)
    BY <1>2, Constants
  <2> QED
    BY <1>2, <2>1, SplitLengths
<1> HIDE DEF taken
<1>5. outputRing' \in Seq(Nat) /\ Len(outputRing') = Len(outputRing) + n
  BY <1>1, <1>3, <1>4, ThenLength DEF Then
<1>6. refused \in Nat /\ (refused > 0 => n < FrameSize) /\ n = FrameSize - refused
  BY <1>2, Constants
<1> HIDE DEF refused
<1>7. <<>> \in Seq(Nat) /\ Len(<<>>) = 0
  OBVIOUS
<1>8. worker'.pc = "frames" /\ worker'.frame = <<>> /\ Len(worker'.frame) = 0
  BY <1>1, <1>7
<1>9. TypeOK'
  <2>1. worker' \in [pc : {"none", "check", "pop", "take", "frames", "emit", "done"},
                     n : Nat, frame : Seq(Nat)]
    BY <1>1, <1>7
  <2>2. Len(outputRing') =< OutCapacity
    BY <1>2, <1>5
  <2>3. dropped' \in Nat
    BY <1>1, <1>3, <1>6
  <2> QED
    BY <1>1, <1>5, <2>1, <2>2, <2>3 DEF IInv, TypeOK
<1>10. RealtimeInv'
  <2>1. rt.pc = "fill" => rt.n =< Len(outputRing) + n
    <3> DEFINE k == rt.n
    <3>1. rt.pc = "fill" => k =< Len(outputRing)
      BY DEF IInv, RealtimeInv
    <3>2. k \in Nat
      BY Types DEF IInv
    <3> HIDE DEF k
    <3>3. rt.pc = "fill" => k =< Len(outputRing) + n
      BY <1>2, <1>3, <3>1, <3>2
    <3> QED
      BY <3>3 DEF k
  <2> QED
    BY <1>1, <1>5, <2>1 DEF IInv, RealtimeInv
<1>11. WorkerInv'
  <2>1. Len(framer) < 2 * FrameSize
    BY <1>2, <1>3, Constants
  <2> QED
    BY <1>1, <1>8, <2>1 DEF WorkerInv
<1>12. Held' = Held - refused /\ Owed' = Owed
  <2>1. Pending' = Pending /\ Pending \in Nat /\ Owed' = Owed
    BY <1>1, Types DEF IInv, Pending, Owed
  <2>2. /\ Held' = (Len(outputRing) + n) + 0 + Len(framer) + Len(inputRing) + Pending
        /\ Held = Len(outputRing) + FrameSize + Len(framer) + Len(inputRing) + Pending
    BY <1>1, <1>2, <1>5, <1>8, <2>1 DEF Held
  <2>3. Held' = Held - refused
    BY <1>2, <1>3, <1>6, <2>1, <2>2, Constants
  <2> QED
    BY <2>1, <2>3
<1>13. Account' /\ Bounded'
  <2>1. Held + dropped = padded + rt.count /\ Held =< InCapacity + 2 * FrameSize - 1 + Owed
    BY DEF IInv, Account, Bounded
  <2>2. Held \in Nat /\ Owed \in Nat
    BY Types DEF IInv
  <2>3. (Held - refused) + (dropped + refused) = Held + dropped
    BY <1>3, <1>6, <2>2
  <2>4. Held - refused =< InCapacity + 2 * FrameSize - 1 + Owed
    BY <1>6, <2>1, <2>2, Constants
  <2> QED
    BY <1>1, <1>12, <2>1, <2>3, <2>4 DEF Account, Bounded
<1>14. Losses'
  <2>1. Underrun' = Underrun
    BY <1>1 DEF Underrun
  <2>2. dropped' > 0 => Underrun
    <3>1. CASE refused > 0
      BY <1>1, <1>6, <3>1 DEF IInv, Losses, n
    <3>2. CASE refused = 0
      <4>1. dropped' = dropped
        BY <1>1, <1>3, <3>2
      <4> QED
        BY <4>1 DEF IInv, Losses
    <3> QED
      BY <1>6, <3>1, <3>2
  <2> QED
    BY <1>1, <1>8, <2>1, <2>2 DEF IInv, Losses
<1> QED
  BY <1>9, <1>10, <1>11, <1>13, <1>14 DEF IInv

(* The control thread moves no samples: it starts a worker only where there  *)
(* is none, so none is interrupted with a frame in its hands.                *)
LEMMA HostStep ==
  ASSUME IInv, ControlInv, Host
  PROVE  IInv'
<1>1. CASE Start \/ Join
  <2>1. /\ UNCHANGED <<inputRing, outputRing, framer, rt, counts>>
        /\ \E pc \in {"check", "none"} : worker' = [worker EXCEPT !.pc = pc]
        /\ worker.pc \in {"none", "done"}
        /\ running' \in BOOLEAN /\ host' \in {"idle", "join", "load"}
    BY <1>1 DEF Start, Join, ControlInv
  <2>2. /\ worker'.pc \in {"check", "none"} /\ worker'.frame = worker.frame
        /\ worker' \in [pc : {"none", "check", "pop", "take", "frames", "emit", "done"},
                        n : Nat, frame : Seq(Nat)]
    BY <2>1, WorkerTypes
  <2>3. WorkerInv'
    BY <2>1, <2>2 DEF IInv, WorkerInv
  <2> QED
    BY <2>1, <2>2, <2>3, StillStep
<1>2. CASE StartThrows \/ Stop \/ BeginLoad \/ EndLoad
  <2>1. /\ UNCHANGED <<inputRing, outputRing, framer, rt, counts, worker>>
        /\ running' \in BOOLEAN /\ host' \in {"idle", "join", "load"}
    BY <1>2, WorkerTypes DEF StartThrows, Stop, BeginLoad, EndLoad
  <2>2. WorkerInv'
    BY <2>1 DEF IInv, WorkerInv
  <2> QED
    BY <2>1, <2>2, WorkerTypes, StillStep
<1> QED
  BY <1>1, <1>2 DEF Host

LEMMA StepIInv == IInv /\ ControlInv /\ [Next]_vars => IInv'
<1> SUFFICES ASSUME IInv, ControlInv, [Next]_vars PROVE IInv'
  OBVIOUS
<1>1. CASE Realtime
  BY <1>1, InputLoadStep, InputPublishStep, OutputLoadStep, OutputFillStep DEF Realtime
<1>2. CASE Worker
  BY <1>2, LookStep, WorkerLoadStep, WorkerTakeStep, ProcessFrameStep, EmitFrameStep DEF Worker
<1>3. CASE Host
  BY <1>3, HostStep
<1>4. CASE UNCHANGED vars
  BY <1>4 DEF vars, counts, IInv, TypeOK, RealtimeInv, WorkerInv, Account, Bounded, Losses,
              Held, Pending, Owed, Underrun
<1> QED
  BY <1>1, <1>2, <1>3, <1>4 DEF Next

LEMMA Inductive == Spec => [](IInv /\ ControlInv)
<1>1. Init => IInv /\ ControlInv
  BY InitIInv, InitControl
<1>2. (IInv /\ ControlInv) /\ [Next]_vars => (IInv /\ ControlInv)'
  BY StepIInv, StepControl
<1> QED
  BY <1>1, <1>2, PTL DEF Spec

-----------------------------------------------------------------------------
(* What the push() of the realtime thread has in its hands, and with it all   *)
(* that is on its way.                                                        *)
Pushed == IF rt.pc = "push" THEN Batch ELSE <<>>
InLine(a, b, c, d, e) == Then(a, Then(b, Then(c, Then(d, e))))

LEMMA JoinAtEnd ==
  ASSUME NEW a \in Seq(Nat), NEW b \in Seq(Nat), NEW c \in Seq(Nat), NEW d \in Seq(Nat),
         NEW e \in Seq(Nat)
  PROVE  /\ InLine(a, b, c, d, e) = Then(InLine(a, b, c, d, <<>>), e)
         /\ InLine(a, b, c, d, e) = Then(Then(Then(Then(a, b), c), d), e)
         /\ InLine(a, b, c, d, e) \in Seq(Nat)
         /\ Len(InLine(a, b, c, d, e)) = Len(a) + Len(b) + Len(c) + Len(d) + Len(e)
<1> DEFINE de == Then(d, e)
           cde == Then(c, de)
           bcde == Then(b, cde)
<1>1. /\ de \in Seq(Nat) /\ Len(de) = Len(d) + Len(e) /\ Then(d, <<>>) = d
      /\ Then(a, b) \in Seq(Nat) /\ Then(c, d) \in Seq(Nat)
  BY ThenLength, ThenEmpty
<1> HIDE DEF de
<1>2. cde \in Seq(Nat) /\ Len(cde) = Len(c) + Len(de) /\ Then(b, Then(c, d)) \in Seq(Nat)
  BY <1>1, ThenLength
<1> HIDE DEF cde
<1>3. bcde \in Seq(Nat) /\ Len(bcde) = Len(b) + Len(cde)
  BY <1>2, ThenLength
<1> HIDE DEF bcde
<1>4. Then(a, bcde) \in Seq(Nat) /\ Len(Then(a, bcde)) = Len(a) + Len(bcde)
  BY <1>3, ThenLength
<1>5. InLine(a, b, c, d, e) = Then(a, bcde)
  BY DEF InLine, bcde, cde, de
<1>6. Len(InLine(a, b, c, d, e)) = Len(a) + Len(b) + Len(c) + Len(d) + Len(e)
  <2>1. /\ Len(a) \in Nat /\ Len(b) \in Nat /\ Len(c) \in Nat /\ Len(d) \in Nat
        /\ Len(e) \in Nat
    BY LenProperties
  <2>2. Len(a) + Len(bcde) = Len(a) + (Len(b) + (Len(c) + (Len(d) + Len(e))))
    BY <1>1, <1>2, <1>3
  <2>3. Len(a) + Len(bcde) = Len(a) + Len(b) + Len(c) + Len(d) + Len(e)
    BY <2>1, <2>2
  <2> QED
    BY <1>4, <1>5, <2>3
<1>7. InLine(a, b, c, d, e) = Then(InLine(a, b, c, d, <<>>), e)
  <2>1. Then(c, Then(d, e)) = Then(Then(c, d), e)
    BY ThenAssociative
  <2>2. Then(b, Then(Then(c, d), e)) = Then(Then(b, Then(c, d)), e)
    BY <1>1, ThenAssociative
  <2>3. Then(a, Then(Then(b, Then(c, d)), e)) = Then(Then(a, Then(b, Then(c, d))), e)
    BY <1>2, ThenAssociative
  <2> QED
    BY <1>1, <2>1, <2>2, <2>3 DEF InLine
<1>8. InLine(a, b, c, d, e) = Then(Then(Then(Then(a, b), c), d), e)
  <2>1. Then(Then(Then(Then(a, b), c), d), e) = Then(Then(Then(a, b), c), Then(d, e))
    <3>1. Then(Then(a, b), c) \in Seq(Nat)
      BY <1>1, ThenLength
    <3> QED
      BY <3>1, ThenAssociative
  <2>2. Then(Then(Then(a, b), c), Then(d, e)) = Then(Then(a, b), Then(c, Then(d, e)))
    <3>1. Then(d, e) \in Seq(Nat)
      BY <1>1 DEF de
    <3> QED
      BY <1>1, <3>1, ThenAssociative
  <2>3. Then(Then(a, b), Then(c, Then(d, e))) = Then(a, Then(b, Then(c, Then(d, e))))
    <3>1. Then(c, Then(d, e)) \in Seq(Nat)
      BY <1>2 DEF cde, de
    <3> QED
      BY <3>1, ThenAssociative
  <2> QED
    BY <2>1, <2>2, <2>3 DEF InLine
<1> QED
  BY <1>4, <1>5, <1>6, <1>7, <1>8

LEMMA Line ==
  IInv => /\ outputRing \in Seq(Nat) /\ worker.frame \in Seq(Nat) /\ framer \in Seq(Nat)
          /\ inputRing \in Seq(Nat) /\ Pushed \in Seq(Nat)
          /\ InFlight = InLine(outputRing, worker.frame, framer, inputRing, Pushed)
          /\ InFlight \in Seq(Nat) /\ Len(InFlight) = Held
<1> SUFFICES ASSUME IInv
             PROVE  /\ outputRing \in Seq(Nat) /\ worker.frame \in Seq(Nat)
                    /\ framer \in Seq(Nat) /\ inputRing \in Seq(Nat) /\ Pushed \in Seq(Nat)
                    /\ InFlight = InLine(outputRing, worker.frame, framer, inputRing, Pushed)
                    /\ InFlight \in Seq(Nat) /\ Len(InFlight) = Held
  OBVIOUS
<1>1. /\ outputRing \in Seq(Nat) /\ worker.frame \in Seq(Nat) /\ framer \in Seq(Nat)
      /\ inputRing \in Seq(Nat)
  BY Types DEF IInv
<1>2. Pushed \in Seq(Nat) /\ Len(Pushed) = Pending
  <2>1. CASE rt.pc = "push"
    BY <2>1, BatchQueue DEF Pushed, Pending
  <2>2. CASE rt.pc # "push"
    <3>1. <<>> \in Seq(Nat) /\ Len(<<>>) = 0
      OBVIOUS
    <3> QED
      BY <2>2, <3>1 DEF Pushed, Pending
  <2> QED
    BY <2>1, <2>2
<1>3. InFlight = Then(Then(Then(Then(outputRing, worker.frame), framer), inputRing), Pushed)
  BY DEF InFlight, Then, Pushed
<1>4. /\ InFlight = InLine(outputRing, worker.frame, framer, inputRing, Pushed)
      /\ InFlight \in Seq(Nat)
      /\ Len(InFlight) = Len(outputRing) + Len(worker.frame) + Len(framer) + Len(inputRing)
                            + Len(Pushed)
  <2> DEFINE frame == worker.frame
             p == Pushed
  <2>1. frame \in Seq(Nat) /\ p \in Seq(Nat)
    BY <1>1, <1>2
  <2>2. InFlight = Then(Then(Then(Then(outputRing, frame), framer), inputRing), p)
    BY <1>3
  <2> HIDE DEF frame, p
  <2>3. InLine(outputRing, frame, framer, inputRing, p)
          = Then(Then(Then(Then(outputRing, frame), framer), inputRing), p)
    BY <1>1, <2>1, JoinAtEnd
  <2>4. InLine(outputRing, frame, framer, inputRing, p) \in Seq(Nat)
    BY <1>1, <2>1, JoinAtEnd
  <2>5. Len(InLine(outputRing, frame, framer, inputRing, p))
          = Len(outputRing) + Len(frame) + Len(framer) + Len(inputRing) + Len(p)
    BY <1>1, <2>1, JoinAtEnd
  <2>6. InFlight = InLine(outputRing, frame, framer, inputRing, p)
    BY <2>2, <2>3
  <2> QED
    BY <2>4, <2>5, <2>6 DEF frame, p
<1>5. Len(InFlight) = Held
  BY <1>2, <1>4 DEF Held
<1> QED
  BY <1>1, <1>2, <1>4, <1>5

(* DelayIsSilence and DelayBounded.                                           *)
LEMMA DelayFacts == IInv => DelayIsSilence /\ DelayBounded
<1> SUFFICES ASSUME IInv, rt.pc = "idle"
             PROVE  /\ Len(InFlight) + dropped = padded
                    /\ Len(InFlight) =< InCapacity + 2 * FrameSize - 1
  BY DEF DelayIsSilence, DelayBounded
<1>1. rt.count = 0 /\ Owed = 0 /\ Len(InFlight) = Held
  BY Line DEF IInv, RealtimeInv, Owed
<1>2. Held + dropped = padded + 0 /\ Held =< InCapacity + 2 * FrameSize - 1 + 0
  BY <1>1 DEF IInv, Account, Bounded
<1>3. padded \in Nat
  BY Types DEF IInv
<1> QED
  BY <1>1, <1>2, <1>3, Constants

(* TypeOK (denoise_apo_processor.cpp:35-71): in particular neither ring ever  *)
(* holds more than its capacity, whatever the other thread does between the   *)
(* load and the store of a call.                                              *)
THEOREM TypeCorrect == Spec => []TypeOK
<1>1. IInv => TypeOK
  BY DEF IInv
<1> QED
  BY <1>1, Inductive, PTL

(* DelayIsSilence (denoise_apo_processor.cpp:45-71): between two calls the    *)
(* delay is the silence inserted less what was dropped.                       *)
THEOREM DelayAccounted == Spec => []DelayIsSilence
<1>1. IInv => DelayIsSilence
  BY DelayFacts
<1> QED
  BY <1>1, Inductive, PTL

(* DelayBounded (denoise_apo_processor.cpp:45-71): the delay is less than the *)
(* room in one ring and two frames, for all sizes of quanta, frames and rings.*)
THEOREM DelayHasBound == Spec => []DelayBounded
<1>1. IInv => DelayBounded
  BY DelayFacts
<1> QED
  BY <1>1, Inductive, PTL

(* LossOnlyAfterUnderrun (denoise_apo_processor.cpp:57,63): nothing is lost   *)
(* before the headroom of a ring, less a quantum, was heard as silence.       *)
THEOREM LossesEarned == Spec => []LossOnlyAfterUnderrun
<1>1. IInv => LossOnlyAfterUnderrun
  BY DEF IInv, Losses, Underrun, LossOnlyAfterUnderrun
<1> QED
  BY <1>1, Inductive, PTL

(* The rings the constructor builds, and the two bounds in frames. *)
RingsOfSixteenFrames ==
  InCapacity = NextPowerOfTwo(FrameSize * 16) /\ OutCapacity = NextPowerOfTwo(FrameSize * 16)

DelayUnder34Frames == rt.pc = "idle" => Len(InFlight) < 34 * FrameSize

LossAfterSixteenFrames ==
  dropped > 0 => \E q \in Quanta : padded + q > 16 * FrameSize

(* With the two rings of sixteen frames, rounded up to a power of two, that   *)
(* the constructor builds (denoise_apo_processor.cpp:8-14), less than 34      *)
(* frames are on their way between two calls, and nothing is lost before      *)
(* sixteen frames, less a quantum, were heard as silence.                     *)
THEOREM SixteenFrames ==
  RingsOfSixteenFrames /\ Spec => [](DelayUnder34Frames /\ LossAfterSixteenFrames)
<1> SUFFICES ASSUME RingsOfSixteenFrames
             PROVE  Spec => [](DelayUnder34Frames /\ LossAfterSixteenFrames)
  OBVIOUS
<1> DEFINE capacity == NextPowerOfTwo(FrameSize * 16)
<1>1. FrameSize \in Nat \ {0} /\ InCapacity = capacity /\ OutCapacity = capacity
      /\ capacity \in Nat
  BY Constants DEF RingsOfSixteenFrames
<1>2. capacity >= FrameSize * 16 /\ capacity < 2 * (FrameSize * 16)
  <2>1. FrameSize * 16 \in Nat /\ FrameSize * 16 >= 2
    BY <1>1
  <2> QED
    BY <2>1, RoundsUp
<1> HIDE DEF capacity
<1>3. capacity + 2 * FrameSize - 1 < 34 * FrameSize
  BY <1>1, <1>2
<1>4. IInv => DelayUnder34Frames
  <2> SUFFICES ASSUME IInv, rt.pc = "idle" PROVE Len(InFlight) < 34 * FrameSize
    BY DEF DelayUnder34Frames
  <2>1. Len(InFlight) =< capacity + 2 * FrameSize - 1 /\ Len(InFlight) \in Nat
    BY <1>1, DelayFacts, Line, Types DEF IInv, DelayBounded
  <2> QED
    BY <1>1, <1>3, <2>1
<1>5. IInv => LossAfterSixteenFrames
  <2> SUFFICES ASSUME IInv, dropped > 0
               PROVE  \E q \in Quanta : padded + q > 16 * FrameSize
    BY DEF LossAfterSixteenFrames
  <2>1. PICK q \in Quanta : padded + q > Least(InCapacity, OutCapacity)
    BY DEF IInv, Losses, Underrun
  <2>2. Least(InCapacity, OutCapacity) = capacity /\ padded \in Nat /\ q \in Nat
    BY <1>1, Constants, Types DEF Least, IInv
  <2> QED
    BY <1>1, <1>2, <2>1, <2>2
<1> QED
  BY <1>4, <1>5, Inductive, PTL
-----------------------------------------------------------------------------
(* What a stop() waits for: the steps the worker still makes once running_ is *)
(* clear.  It may have started a turn of its loop, and takes no second one; a *)
(* turn takes at most a frame from the ring, and so finishes at most one.     *)
StepsToGo ==
  CASE worker.pc = "pop" -> 6
    [] worker.pc = "take" -> 5
    [] worker.pc = "frames" -> IF Len(framer) >= FrameSize THEN 4 ELSE 2
    [] worker.pc = "emit" -> 3
    [] worker.pc = "check" -> 1
    [] OTHER -> 0

JoinIsNear ==
  /\ StepsToGo \in 0 .. 6
  /\ StepsToGo = 0 <=> worker.pc \in {"none", "done"}

(* A step of the worker brings the end nearer, one of the realtime thread     *)
(* leaves it where it is.                                                     *)
JoinComesNearer ==
  host = "join" /\ host' = "join" =>
    \/ StepsToGo' < StepsToGo /\ Worker
    \/ StepsToGo' = StepsToGo /\ UNCHANGED worker

LEMMA WorkerNearer ==
  ASSUME IInv, IInv', ControlInv, ~running, Worker
  PROVE  StepsToGo' < StepsToGo
<1> USE DEF StepsToGo
<1>1. CASE CheckRunning
  <2>1. worker.pc = "check" /\ worker'.pc = "done"
    BY <1>1 DEF CheckRunning, ControlInv, Fields
  <2> QED
    BY <2>1
<1>2. CASE SleepWhenEmpty
  <2>1. worker.pc = "pop" /\ worker'.pc = "check"
    BY <1>2 DEF SleepWhenEmpty, ControlInv, Fields
  <2> QED
    BY <2>1
<1>3. CASE WorkerLoad
  <2>1. worker.pc = "pop" /\ worker'.pc = "take"
    BY <1>3 DEF WorkerLoad, ControlInv, Fields
  <2> QED
    BY <2>1
<1>4. CASE WorkerTake
  <2>1. worker.pc = "take" /\ worker'.pc = "frames"
    BY <1>4 DEF WorkerTake, ControlInv, Fields
  <2>2. StepsToGo' \in {2, 4}
    BY <2>1, Types, Constants DEF IInv
  <2> QED
    BY <2>1, <2>2
<1>5. CASE ProcessFrame
  <2>1. worker.pc = "frames" /\ Len(framer) >= FrameSize /\ worker'.pc = "emit"
    BY <1>5 DEF ProcessFrame
  <2> QED
    BY <2>1
<1>6. CASE EmitFrame
  <2>1. worker.pc = "emit" /\ worker'.pc = "frames" /\ framer' = framer
    BY <1>6 DEF EmitFrame
  <2>2. Len(framer') < FrameSize
    BY <2>1 DEF IInv, WorkerInv
  <2>3. ~(Len(framer') >= FrameSize)
    BY <2>1, <2>2, Types, Constants DEF IInv
  <2> QED
    BY <2>1, <2>2, <2>3
<1>7. CASE NoFrame
  <2>1. worker.pc = "frames" /\ Len(framer) < FrameSize /\ worker'.pc = "check"
    BY <1>7 DEF NoFrame, ControlInv, Fields
  <2>2. ~(Len(framer) >= FrameSize)
    BY <2>1, Types, Constants DEF IInv
  <2> QED
    BY <2>1, <2>2
<1> QED
  BY <1>1, <1>2, <1>3, <1>4, <1>5, <1>6, <1>7 DEF Worker

(* stop() (denoise_apo_processor.cpp:40-43) waits for at most six steps of the *)
(* worker, whatever is in the rings and whatever the realtime thread still     *)
(* puts there.  That the worker makes them is the fairness of Spec.            *)
THEOREM StopWaitsForSixSteps == Spec => []JoinIsNear /\ [][JoinComesNearer]_vars
<1>1. IInv => JoinIsNear
  BY DEF IInv, TypeOK, JoinIsNear, StepsToGo
<1>2. (IInv /\ ControlInv) /\ (IInv /\ ControlInv)' /\ [Next]_vars => [JoinComesNearer]_vars
  <2> SUFFICES ASSUME IInv, ControlInv, IInv', Next, host = "join", host' = "join"
               PROVE  \/ StepsToGo' < StepsToGo /\ Worker
                      \/ StepsToGo' = StepsToGo /\ UNCHANGED worker
    BY DEF JoinComesNearer
  <2>1. CASE Worker
    BY <2>1, WorkerNearer DEF ControlInv
  <2>2. CASE Realtime
    <3>1. UNCHANGED <<worker, framer>>
      BY <2>2 DEF Realtime, InputLoad, InputPublish, OutputLoad, OutputFill
    <3> QED
      BY <3>1 DEF StepsToGo
  <2>3. CASE Host
    BY <2>3 DEF Host, Start, StartThrows, Stop, Join, BeginLoad, EndLoad
  <2> QED
    BY <2>1, <2>2, <2>3 DEF Next
<1>3. Spec => []JoinIsNear
  BY <1>1, Inductive, PTL
<1>4. Spec => [][JoinComesNearer]_vars
  BY <1>2, Inductive, PTL DEF Spec
<1> QED
  BY <1>3, <1>4

-----------------------------------------------------------------------------
(* Refinement: the operators of the abstract specification are the same.     *)
LEMMA SameStream ==
  /\ \A first, n : Heard!Block(first, n) = Block(first, n)
  /\ \A q, n : Heard!First(q, n) = First(q, n) /\ Heard!Rest(q, n) = Rest(q, n)
  /\ \A a, b : Heard!Least(a, b) = Least(a, b)
  /\ \A got, n : Heard!Padded(got, n) = Padded(got, n)
BY DEF Heard!Block, Block, Heard!First, First, Heard!Rest, Rest, Heard!Least, Least,
       Heard!Padded, Padded, Heard!Silence, Silence

(* A store that leaves the end of its queue out of what is on its way loses   *)
(* as many samples as it counts.                                              *)
LEMMA LeftOutIsLost ==
  ASSUME NEW s \in Seq(Nat), NEW t \in Seq(Nat), NEW u \in Seq(Nat),
         InFlight = Then(s, Then(t, u)), InFlight' = Then(s, u),
         dropped \in Nat, dropped' = dropped + Len(t), UNCHANGED <<captured, heard>>
  PROVE  [Heard!Next]_Heard!vars
<1> DEFINE gone == Len(t)
           front == Len(s)
           flight == InFlight
<1>1. gone \in Nat /\ front \in Nat /\ Len(u) \in Nat
  BY LenProperties
<1>2. CASE gone = 0
  <2>1. t = <<>>
    BY <1>2
  <2>2. InFlight' = InFlight
    BY <2>1, ThenEmpty
  <2>3. dropped' = dropped
    BY <1>2
  <2> QED
    BY <2>2, <2>3 DEF Heard!vars
<1>3. CASE gone # 0
  <2>1. Then(t, u) \in Seq(Nat) /\ Len(Then(t, u)) = gone + Len(u)
    BY ThenLength
  <2>2. Len(flight) = front + (gone + Len(u))
    <3> DEFINE w == Then(t, u)
    <3>1. flight = Then(s, w) /\ w \in Seq(Nat) /\ Len(w) = gone + Len(u)
      BY <2>1
    <3> HIDE DEF flight, w
    <3>2. Len(flight) = front + Len(w)
      BY <3>1, ThenLength
    <3> QED
      BY <3>1, <3>2
  <2>3. InFlight' = First(flight, front) \o Rest(flight, front + gone)
    BY DropMiddle DEF Then
  <2>4. dropped' = dropped + gone
    OBVIOUS
  <2> HIDE DEF gone, front, flight
  <2>5. gone \in 1 .. Len(flight) /\ front \in 0 .. Len(flight) - gone
    BY <1>1, <1>3, <2>2
  <2>6. Heard!Lose(gone, front)
    BY <2>3, <2>4, SameStream DEF Heard!Lose, flight
  <2> QED
    BY <2>5, <2>6 DEF Heard!Next, flight
<1> QED
  BY <1>2, <1>3

(* What moves from a queue to the one in front of it stays in line: the      *)
(* worker takes from the input ring, and a frame from its framer.            *)
LEMMA TakeInLine ==
  ASSUME NEW a, NEW b, NEW c \in Seq(Nat), NEW e \in Seq(Nat), NEW f \in Seq(Nat),
         NEW r \in Seq(Nat)
  PROVE  InLine(a, b, Then(c, f), r, e) = InLine(a, b, c, Then(f, r), e)
<1> DEFINE re == Then(r, e)
<1>1. re \in Seq(Nat) /\ Then(Then(f, r), e) = Then(f, re)
  BY ThenLength, ThenAssociative
<1>2. Then(Then(c, f), re) = Then(c, Then(f, re))
  BY <1>1, ThenAssociative
<1> QED
  BY <1>1, <1>2 DEF InLine

LEMMA FrameInLine ==
  ASSUME NEW a, NEW d \in Seq(Nat), NEW e \in Seq(Nat), NEW f \in Seq(Nat),
         NEW r \in Seq(Nat)
  PROVE  InLine(a, f, r, d, e) = InLine(a, <<>>, Then(f, r), d, e)
<1> DEFINE de == Then(d, e)
           fr == Then(f, r)
<1>1. de \in Seq(Nat) /\ fr \in Seq(Nat)
  BY ThenLength
<1> HIDE DEF de
<1>2. Then(f, Then(r, de)) = Then(fr, de)
  BY <1>1, ThenAssociative
<1> HIDE DEF fr
<1>3. Then(fr, de) \in Seq(Nat)
  BY <1>1, ThenLength
<1>4. Then(<<>>, Then(fr, de)) = Then(fr, de)
  BY <1>3, ThenEmpty
<1> QED
  BY <1>2, <1>4 DEF InLine, de, fr

(* The end r of a batch that the input ring did not take.                    *)
LEMMA LeaveOutLast ==
  ASSUME NEW a \in Seq(Nat), NEW b \in Seq(Nat), NEW c \in Seq(Nat), NEW d \in Seq(Nat),
         NEW f \in Seq(Nat), NEW r \in Seq(Nat)
  PROVE  /\ InLine(a, b, c, d, f) \in Seq(Nat)
         /\ InLine(a, b, c, d, Then(f, r)) = Then(InLine(a, b, c, d, f), Then(r, <<>>))
         /\ InLine(a, b, c, Then(d, f), <<>>) = Then(InLine(a, b, c, d, f), <<>>)
<1> DEFINE nil == <<>>
           front == InLine(a, b, c, d, nil)
           line == InLine(a, b, c, d, f)
           fr == Then(f, r)
           df == Then(d, f)
<1>1. nil \in Seq(Nat) /\ Then(r, nil) = r
  BY ThenEmpty
<1> HIDE DEF nil
<1>2. front \in Seq(Nat) /\ line \in Seq(Nat) /\ line = Then(front, f)
  <2>1. InLine(a, b, c, d, nil) \in Seq(Nat)
    BY <1>1, JoinAtEnd
  <2>2. InLine(a, b, c, d, f) \in Seq(Nat)
    BY JoinAtEnd
  <2>3. InLine(a, b, c, d, f) = Then(front, f)
    BY JoinAtEnd DEF nil
  <2> QED
    BY <2>1, <2>2, <2>3
<1>3. fr \in Seq(Nat) /\ df \in Seq(Nat)
  BY ThenLength
<1>4. InLine(a, b, c, d, fr) = Then(front, fr)
  <2>1. fr \in Seq(Nat)
    BY <1>3
  <2> HIDE DEF fr
  <2> QED
    BY <2>1, JoinAtEnd DEF nil
<1> HIDE DEF front
<1>5. Then(front, fr) = Then(Then(front, f), r)
  BY <1>2, ThenAssociative
<1>6. InLine(a, b, c, d, fr) = Then(line, Then(r, nil))
  BY <1>1, <1>2, <1>4, <1>5
<1>7. InLine(a, b, c, df, nil) = Then(line, nil)
  <2>1. Then(df, nil) = df
    BY <1>3, ThenEmpty DEF nil
  <2>2. InLine(a, b, c, df, nil) = line
    BY <2>1 DEF InLine
  <2> HIDE DEF line
  <2>3. Then(line, nil) = line
    BY <1>2, ThenEmpty DEF nil
  <2> QED
    BY <2>2, <2>3
<1> QED
  BY <1>2, <1>6, <1>7 DEF nil

(* The end r of a frame that the output ring did not take.                   *)
LEMMA LeaveOutMiddle ==
  ASSUME NEW a \in Seq(Nat), NEW c \in Seq(Nat), NEW d \in Seq(Nat), NEW e \in Seq(Nat),
         NEW f \in Seq(Nat), NEW r \in Seq(Nat)
  PROVE  /\ Then(a, f) \in Seq(Nat) /\ Then(c, Then(d, e)) \in Seq(Nat)
         /\ InLine(a, Then(f, r), c, d, e) = Then(Then(a, f), Then(r, Then(c, Then(d, e))))
         /\ InLine(Then(a, f), <<>>, c, d, e) = Then(Then(a, f), Then(c, Then(d, e)))
<1> DEFINE de == Then(d, e)
           cde == Then(c, de)
           af == Then(a, f)
           fr == Then(f, r)
           rcde == Then(r, cde)
<1>1. de \in Seq(Nat) /\ af \in Seq(Nat)
  BY ThenLength
<1> HIDE DEF de
<1>2. cde \in Seq(Nat)
  BY <1>1, ThenLength
<1> HIDE DEF cde
<1>3. rcde \in Seq(Nat) /\ Then(<<>>, cde) = cde
  BY <1>2, ThenLength, ThenEmpty
<1>4. Then(a, Then(fr, cde)) = Then(af, rcde)
  <2>1. Then(fr, cde) = Then(f, rcde)
    BY <1>2, ThenAssociative
  <2> HIDE DEF rcde
  <2>2. Then(a, Then(f, rcde)) = Then(af, rcde)
    BY <1>3, ThenAssociative
  <2> QED
    BY <2>1, <2>2
<1>5. InLine(a, fr, c, d, e) = Then(a, Then(fr, cde)) /\ InLine(af, <<>>, c, d, e) = Then(af, cde)
  BY <1>3 DEF InLine, cde, de
<1> QED
  BY <1>1, <1>2, <1>4, <1>5 DEF cde, de

LEMMA PushedNow ==
  /\ rt.pc = "push" => Pushed = Batch
  /\ rt.pc # "push" => Pushed = <<>>
BY DEF Pushed

(* A block is captured behind all that is on its way.                        *)
LEMMA InputLoadHeard ==
  ASSUME IInv, InFlight' = InLine(outputRing', worker'.frame, framer', inputRing', Pushed'),
         NEW count \in Quanta, InputLoad(count)
  PROVE  Heard!Next
<1> DEFINE block == Block(captured + 1, count)
           frame == worker.frame
<1>1. /\ captured' = captured + count /\ rt.pc = "idle"
      /\ rt'.pc = "push" /\ rt'.count = count
      /\ UNCHANGED <<outputRing, worker, framer, inputRing, heard, dropped>>
  BY DEF InputLoad
<1>2. captured \in Nat /\ count \in Nat
  BY Types, Constants DEF IInv
<1>3. block \in Seq(Nat)
  BY <1>2, BlockLength
<1>4. Pushed' = block
  <2>1. captured' - rt'.count + 1 = captured + 1
    BY <1>1, <1>2
  <2> QED
    BY <1>1, <2>1 DEF Pushed, Batch
<1>5. InFlight = InLine(outputRing, frame, framer, inputRing, <<>>) /\ frame \in Seq(Nat)
  BY <1>1, PushedNow, Line
<1>6. InFlight' = InLine(outputRing, frame, framer, inputRing, block)
  BY <1>1, <1>4
<1> HIDE DEF block, frame
<1>7. InLine(outputRing, frame, framer, inputRing, block)
        = Then(InLine(outputRing, frame, framer, inputRing, <<>>), block)
  BY <1>3, <1>5, Line, JoinAtEnd
<1>8. InFlight' = InFlight \o block
  BY <1>5, <1>6, <1>7 DEF Then
<1> QED
  BY <1>1, <1>8, SameStream DEF Heard!Next, Heard!Capture, block

(* What a full input ring does not take is lost from the end of the line.    *)
LEMMA InputPublishHeard ==
  ASSUME IInv, InFlight' = InLine(outputRing', worker'.frame, framer', inputRing', Pushed'),
         InputPublish
  PROVE  [Heard!Next]_Heard!vars
<1> DEFINE got == First(Batch, rt.n)
           refused == Rest(Batch, rt.n)
           frame == worker.frame
<1>1. /\ rt.pc = "push" /\ rt'.pc = "pop" /\ inputRing' = Then(inputRing, got)
      /\ dropped' = dropped + (rt.count - rt.n)
      /\ UNCHANGED <<outputRing, worker, framer, captured, heard>>
  BY DEF InputPublish, Then, IInv, TypeOK
<1>2. /\ Batch \in Seq(Nat) /\ Len(Batch) = rt.count /\ rt.n \in 0 .. Len(Batch)
  BY <1>1, BatchQueue, Types DEF IInv, RealtimeInv
<1>3. /\ got \in Seq(Nat) /\ refused \in Seq(Nat) /\ Len(refused) = rt.count - rt.n
      /\ Then(got, refused) = Batch
  <2> DEFINE n == rt.n
  <2>1. n \in 0 .. Len(Batch)
    BY <1>2
  <2> HIDE DEF n
  <2>2. /\ First(Batch, n) \in Seq(Nat) /\ Rest(Batch, n) \in Seq(Nat)
        /\ Len(Rest(Batch, n)) = Len(Batch) - n
    BY <1>2, <2>1, SplitLengths
  <2>3. Then(First(Batch, n), Rest(Batch, n)) = Batch
    BY <1>2, <2>1, SplitAndJoin
  <2> QED
    BY <1>2, <2>2, <2>3 DEF n
<1>4. InFlight = InLine(outputRing, frame, framer, inputRing, Then(got, refused))
  BY <1>1, <1>3, PushedNow, Line
<1>5. InFlight' = InLine(outputRing, frame, framer, Then(inputRing, got), <<>>)
  <2>1. Pushed' = <<>>
    BY <1>1 DEF Pushed
  <2> QED
    BY <1>1, <2>1
<1>6. /\ outputRing \in Seq(Nat) /\ frame \in Seq(Nat) /\ framer \in Seq(Nat)
      /\ inputRing \in Seq(Nat) /\ <<>> \in Seq(Nat) /\ dropped \in Nat
  BY Line, Types DEF IInv
<1> DEFINE line == InLine(outputRing, frame, framer, inputRing, got)
<1> HIDE DEF got, refused, frame
<1>7. /\ line \in Seq(Nat)
      /\ InFlight = Then(line, Then(refused, <<>>)) /\ InFlight' = Then(line, <<>>)
  <2>1. line \in Seq(Nat)
    BY <1>3, <1>6, LeaveOutLast
  <2>2. InLine(outputRing, frame, framer, inputRing, Then(got, refused))
          = Then(line, Then(refused, <<>>))
    BY <1>3, <1>6, LeaveOutLast
  <2>3. InLine(outputRing, frame, framer, Then(inputRing, got), <<>>) = Then(line, <<>>)
    BY <1>3, <1>6, LeaveOutLast
  <2> QED
    BY <1>4, <1>5, <2>1, <2>2, <2>3
<1>8. dropped' = dropped + Len(refused)
  BY <1>1, <1>3
<1> HIDE DEF line
<1> QED
  BY <1>1, <1>3, <1>6, <1>7, <1>8, LeftOutIsLost

(* The oldest samples are heard, and silence where there are none.           *)
LEMMA OutputFillHeard ==
  ASSUME IInv, InFlight' = InLine(outputRing', worker'.frame, framer', inputRing', Pushed'),
         OutputFill
  PROVE  Heard!Next
<1> DEFINE n == rt.n
           count == rt.count
           behind == Then(worker.frame, Then(framer, Then(inputRing, Pushed)))
<1>1. /\ rt.pc = "fill" /\ rt'.pc = "idle"
      /\ outputRing' = Rest(outputRing, n)
      /\ heard' = Padded(First(outputRing, n), count)
      /\ UNCHANGED <<worker, framer, inputRing, captured, dropped>>
  BY DEF OutputFill
<1>2. n \in Nat /\ count \in Nat /\ count \in Quanta /\ n =< count /\ n =< Len(outputRing)
  BY <1>1, Types DEF IInv, RealtimeInv
<1>3. Pushed' = Pushed
  BY <1>1 DEF Pushed
<1>4. InFlight = Then(outputRing, behind) /\ InFlight' = Then(outputRing', behind)
  BY <1>1, <1>3, Line DEF InLine
<1>5. behind \in Seq(Nat)
  <2>1. Then(inputRing, Pushed) \in Seq(Nat)
    BY Line, ThenLength
  <2>2. Then(framer, Then(inputRing, Pushed)) \in Seq(Nat)
    BY <2>1, Line, ThenLength
  <2> QED
    BY <2>2, Line, ThenLength
<1>6. outputRing \in Seq(Nat) /\ Len(outputRing) \in Nat /\ InFlight \in Seq(Nat)
  BY Line, Types DEF IInv
<1> HIDE DEF n, count, behind
<1>7. n \in 0 .. Len(outputRing)
  BY <1>2, <1>6
<1>8. First(InFlight, n) = First(outputRing, n) /\ Rest(InFlight, n) = InFlight'
  BY <1>1, <1>4, <1>5, <1>6, <1>7, SplitJoined
<1>9. n \in 0 .. Least(count, Len(InFlight))
  <2>1. Len(InFlight) = Len(outputRing) + Len(behind) /\ Len(behind) \in Nat
    BY <1>4, <1>5, <1>6, ThenLength, LenProperties
  <2> QED
    BY <1>2, <1>6, <2>1 DEF Least
<1>10. Heard!Hear(count, n)
  BY <1>1, <1>8, SameStream DEF Heard!Hear
<1> QED
  BY <1>2, <1>9, <1>10, SameStream DEF Heard!Next

(* The worker's own moves change nothing of what is on its way.              *)
LEMMA MovesUnheard ==
  ASSUME IInv, InFlight' = InLine(outputRing', worker'.frame, framer', inputRing', Pushed'),
         WorkerTake \/ ProcessFrame
  PROVE  UNCHANGED Heard!vars
<1> DEFINE frame == worker.frame
           p == Pushed
<1>1. /\ outputRing \in Seq(Nat) /\ frame \in Seq(Nat) /\ framer \in Seq(Nat)
      /\ inputRing \in Seq(Nat) /\ p \in Seq(Nat)
      /\ InFlight = InLine(outputRing, frame, framer, inputRing, p)
  BY Line
<1>2. UNCHANGED <<outputRing, captured, heard, dropped>> /\ Pushed' = p
  BY DEF WorkerTake, ProcessFrame, counts, Pushed, Batch
<1>3. CASE WorkerTake
  <2> DEFINE n == worker.n
             got == First(inputRing, n)
             rest == Rest(inputRing, n)
  <2>1. /\ worker.pc = "take" /\ framer' = Then(framer, got) /\ inputRing' = rest
        /\ worker'.frame = frame
    BY <1>3, WorkerTypes DEF WorkerTake, Then
  <2>2. n \in 0 .. Len(inputRing)
    BY <2>1, Types DEF IInv, WorkerInv
  <2>3. got \in Seq(Nat) /\ rest \in Seq(Nat) /\ inputRing = Then(got, rest)
    BY <1>1, <2>2, SplitLengths, SplitAndJoin
  <2> HIDE DEF n, got, rest, frame, p
  <2>4. InFlight' = InLine(outputRing, frame, Then(framer, got), rest, p)
    BY <1>2, <2>1
  <2>5. InLine(outputRing, frame, Then(framer, got), rest, p)
          = InLine(outputRing, frame, framer, Then(got, rest), p)
    BY <1>1, <2>3, TakeInLine
  <2> QED
    BY <1>1, <1>2, <2>3, <2>4, <2>5 DEF Heard!vars
<1>4. CASE ProcessFrame
  <2> DEFINE next == First(framer, FrameSize)
             rest == Rest(framer, FrameSize)
  <2>1. /\ worker.pc = "frames" /\ framer' = rest /\ worker'.frame = next
        /\ inputRing' = inputRing /\ Len(framer) >= FrameSize
    BY <1>4 DEF ProcessFrame
  <2>2. FrameSize \in 0 .. Len(framer)
    BY <2>1, Types, Constants DEF IInv
  <2>3. next \in Seq(Nat) /\ rest \in Seq(Nat) /\ framer = Then(next, rest)
    BY <1>1, <2>2, SplitLengths, SplitAndJoin
  <2>4. frame = <<>>
    <3>1. Len(frame) = 0
      BY <2>1 DEF IInv, WorkerInv
    <3> QED
      BY <1>1, <3>1
  <2> HIDE DEF next, rest, frame, p
  <2>5. InFlight' = InLine(outputRing, next, rest, inputRing, p)
    BY <1>2, <2>1
  <2>6. InLine(outputRing, next, rest, inputRing, p)
          = InLine(outputRing, <<>>, Then(next, rest), inputRing, p)
    BY <1>1, <2>3, FrameInLine
  <2> QED
    BY <1>1, <1>2, <2>3, <2>4, <2>5, <2>6 DEF Heard!vars
<1> QED
  BY <1>3, <1>4

(* What a full output ring does not take is lost from the middle.            *)
LEMMA EmitFrameHeard ==
  ASSUME IInv, InFlight' = InLine(outputRing', worker'.frame, framer', inputRing', Pushed'),
         EmitFrame
  PROVE  [Heard!Next]_Heard!vars
<1> DEFINE n == worker.n
           frame == worker.frame
           got == First(frame, n)
           refused == Rest(frame, n)
           p == Pushed
<1>1. /\ worker.pc = "emit" /\ outputRing' = Then(outputRing, got)
      /\ dropped' = dropped + (FrameSize - n) /\ worker'.frame = <<>>
      /\ UNCHANGED <<inputRing, framer, captured, heard>> /\ Pushed' = p
  BY DEF EmitFrame, Then, Pushed, Batch
<1>2. /\ outputRing \in Seq(Nat) /\ frame \in Seq(Nat) /\ framer \in Seq(Nat)
      /\ inputRing \in Seq(Nat) /\ p \in Seq(Nat) /\ dropped \in Nat
      /\ InFlight = InLine(outputRing, frame, framer, inputRing, p)
  BY Line, Types DEF IInv
<1>3. n \in 0 .. Len(frame) /\ Len(frame) = FrameSize
  <2>1. /\ n \in Nat /\ n =< FrameSize
        /\ Len(frame) = FrameSize
    BY <1>1, Types DEF IInv, WorkerInv
  <2> HIDE DEF n, frame
  <2> QED
    BY <2>1, Constants
<1> HIDE DEF n, frame, p
<1>4. /\ got \in Seq(Nat) /\ refused \in Seq(Nat) /\ Len(refused) = FrameSize - n
      /\ frame = Then(got, refused)
  BY <1>2, <1>3, SplitLengths, SplitAndJoin
<1> HIDE DEF got, refused
<1>5. InFlight' = InLine(Then(outputRing, got), <<>>, framer, inputRing, p)
  BY <1>1
<1> DEFINE front == Then(outputRing, got)
           behind == Then(framer, Then(inputRing, p))
<1>6. /\ front \in Seq(Nat) /\ behind \in Seq(Nat)
      /\ InFlight = Then(front, Then(refused, behind)) /\ InFlight' = Then(front, behind)
  <2>1. front \in Seq(Nat) /\ behind \in Seq(Nat)
    <3>1. front \in Seq(Nat) /\ Then(inputRing, p) \in Seq(Nat)
      BY <1>2, <1>4, ThenLength
    <3> QED
      BY <1>2, <3>1, ThenLength
  <2>2. InLine(outputRing, Then(got, refused), framer, inputRing, p)
          = Then(front, Then(refused, behind))
    BY <1>2, <1>4, LeaveOutMiddle
  <2>3. InLine(Then(outputRing, got), <<>>, framer, inputRing, p) = Then(front, behind)
    BY <1>2, <1>4, LeaveOutMiddle
  <2> QED
    BY <1>2, <1>4, <1>5, <2>1, <2>2, <2>3
<1>7. dropped' = dropped + Len(refused)
  BY <1>1, <1>4
<1> HIDE DEF front, behind
<1> QED
  BY <1>1, <1>2, <1>4, <1>6, <1>7, LeftOutIsLost

LEMMA InitHeard == Init => Heard!Init
<1> SUFFICES ASSUME Init PROVE Heard!Init
  OBVIOUS
<1>1. /\ inputRing = <<>> /\ outputRing = <<>> /\ framer = <<>> /\ heard = <<>>
      /\ rt = [pc |-> "idle", count |-> 0, n |-> 0]
      /\ worker = [pc |-> "none", n |-> 0, frame |-> <<>>]
      /\ captured = 0 /\ dropped = 0
  BY Zenon DEF Init
<1>2. rt.pc # "push" /\ worker.frame = <<>>
  BY <1>1
<1>3. <<>> \o <<>> = <<>>
  OBVIOUS
<1>4. InFlight = <<>>
  BY <1>1, <1>2, <1>3 DEF InFlight
<1> QED
  BY <1>1, <1>4 DEF Heard!Init

(* The other steps move no sample.                                           *)
LEMMA StillUnheard ==
  ASSUME IInv, ControlInv,
         \/ UNCHANGED vars \/ OutputLoad \/ CheckRunning \/ SleepWhenEmpty \/ WorkerLoad
         \/ NoFrame \/ Host
  PROVE  UNCHANGED Heard!vars
<1>1. UNCHANGED <<outputRing, framer, inputRing, captured, heard, dropped>>
  BY DEF OutputLoad, CheckRunning, SleepWhenEmpty, WorkerLoad, NoFrame, Host, Start,
         StartThrows, Stop, Join, BeginLoad, EndLoad, vars, counts
<1>2. worker'.frame = worker.frame
  BY DEF ControlInv, Fields, OutputLoad, CheckRunning, SleepWhenEmpty, WorkerLoad, NoFrame,
         Host, Start, StartThrows, Stop, Join, BeginLoad, EndLoad, vars
<1>3. Pushed' = Pushed
  <2>1. CASE OutputLoad
    <3>1. rt.pc = "pop" /\ rt'.pc = "fill"
      BY <2>1 DEF OutputLoad, IInv, TypeOK
    <3> QED
      BY <3>1 DEF Pushed
  <2>2. CASE ~OutputLoad
    <3>1. rt' = rt
      BY <2>2 DEF CheckRunning, SleepWhenEmpty, WorkerLoad, NoFrame, Host, Start,
                  StartThrows, Stop, Join, BeginLoad, EndLoad, vars
    <3> QED
      BY <1>1, <3>1 DEF Pushed, Batch
  <2> QED
    BY <2>1, <2>2
<1>4. InFlight' = InFlight
  BY <1>1, <1>2, <1>3 DEF InFlight, Pushed
<1> QED
  BY <1>1, <1>4 DEF Heard!vars

LineNow == InFlight = InLine(outputRing, worker.frame, framer, inputRing, Pushed)

LEMMA StepHeard == (IInv /\ ControlInv) /\ IInv' /\ [Next]_vars => [Heard!Next]_Heard!vars
<1>1. IInv => LineNow
  BY Line DEF LineNow
<1>2. IInv' => LineNow'
  BY <1>1, PTL
<1> SUFFICES ASSUME IInv, ControlInv, LineNow', [Next]_vars
             PROVE  [Heard!Next]_Heard!vars
  BY <1>2
<1>3. InFlight' = InLine(outputRing', worker'.frame, framer', inputRing', Pushed')
  BY DEF LineNow
<1>4. ASSUME NEW count \in Quanta, InputLoad(count)
      PROVE  Heard!Next
  BY <1>3, <1>4, InputLoadHeard
<1>5. CASE InputPublish
  BY <1>3, <1>5, InputPublishHeard
<1>6. CASE OutputFill
  BY <1>3, <1>6, OutputFillHeard
<1>7. CASE WorkerTake \/ ProcessFrame
  BY <1>3, <1>7, MovesUnheard
<1>8. CASE EmitFrame
  BY <1>3, <1>8, EmitFrameHeard
<1>9. CASE \/ UNCHANGED vars \/ OutputLoad \/ CheckRunning \/ SleepWhenEmpty \/ WorkerLoad
           \/ NoFrame \/ Host
  BY <1>9, StillUnheard
<1> QED
  BY <1>4, <1>5, <1>6, <1>7, <1>8, <1>9 DEF Next, Realtime, Worker

(* ImplementsDelayedStream (denoise_apo_processor.cpp:35-71): across the two  *)
(* rings, the framer, the worker's frame and the call in progress, and any    *)
(* number of stop() and start(), what is heard is the captured stream, late,  *)
(* in order and each sample at most once; a sample that is not on its way was *)
(* heard or counted as lost.                                                  *)
THEOREM StreamKept == Spec => ImplementsDelayedStream
BY InitHeard, StepHeard, Inductive, PTL DEF Spec, ImplementsDelayedStream, Heard!Spec
-----------------------------------------------------------------------------
(* What DelayedStream says of the order of the samples, here.                 *)
LEMMA HeardMoves ==
  ASSUME [Heard!Next]_Heard!vars
  PROVE  Moves(captured, InFlight, heard, captured', InFlight', heard')
<1> DEFINE queue == InFlight
           queueNext == InFlight'
<1> HIDE DEF queue, queueNext
<1>1. ASSUME NEW n \in Quanta, Heard!Capture(n)
      PROVE  Moves(captured, queue, heard, captured', queueNext, heard')
  <2>1. /\ n \in Nat /\ captured' = captured + n /\ heard' = heard
        /\ queueNext = queue \o Block(captured + 1, n)
    BY <1>1, SameStream, Constants DEF Heard!Capture, queue, queueNext
  <2> QED
    BY <2>1 DEF Moves
<1>2. ASSUME NEW n \in Quanta, NEW k \in 0 .. Heard!Least(n, Len(InFlight)), Heard!Hear(n, k)
      PROVE  Moves(captured, queue, heard, captured', queueNext, heard')
  <2>1. /\ n \in Nat /\ k \in 0 .. Least(n, Len(queue)) /\ captured' = captured
        /\ queueNext = Rest(queue, k) /\ heard' = Padded(First(queue, k), n)
    BY <1>2, SameStream, Constants DEF Heard!Hear, queue, queueNext
  <2> QED
    BY <2>1 DEF Moves
<1>3. ASSUME NEW n \in 1 .. Len(InFlight), NEW k \in 0 .. Len(InFlight) - n, Heard!Lose(n, k)
      PROVE  Moves(captured, queue, heard, captured', queueNext, heard')
  <2>1. /\ n \in 1 .. Len(queue) /\ k \in 0 .. Len(queue) - n
        /\ captured' = captured /\ heard' = heard
        /\ queueNext = First(queue, k) \o Rest(queue, k + n)
    BY <1>3, SameStream DEF Heard!Lose, queue, queueNext
  <2> QED
    BY <2>1 DEF Moves
<1>4. ASSUME UNCHANGED Heard!vars
      PROVE  Moves(captured, queue, heard, captured', queueNext, heard')
  <2>1. captured' = captured /\ queueNext = queue /\ heard' = heard
    BY <1>4 DEF Heard!vars, queue, queueNext
  <2> QED
    BY <2>1 DEF Moves
<1>5. Moves(captured, queue, heard, captured', queueNext, heard')
  BY <1>1, <1>2, <1>3, <1>4 DEF Heard!Next
<1> QED
  BY <1>5 DEF queue, queueNext

LEMMA InOrderIs ==
  Heard!InOrder <=> Ordered(captured, InFlight) /\ HeardOf(captured, InFlight, heard)
BY DEF Heard!InOrder, Heard!Past, Ordered, HeardOf, PastIn, Heard!Silence, Silence

LEMMA InitOrder == Init => Heard!InOrder
<1> SUFFICES ASSUME Init PROVE Heard!InOrder
  OBVIOUS
<1>1. InFlight = <<>> /\ heard = <<>>
  BY InitHeard DEF Heard!Init
<1>2. DOMAIN <<>> = {}
  OBVIOUS
<1> QED
  BY <1>1, <1>2 DEF Heard!InOrder

LEMMA StepOrder ==
  ASSUME IInv, ControlInv, IInv', Heard!InOrder, [Next]_vars
  PROVE  /\ Heard!InOrder'
         /\ \A p \in Nat : Heard!Past(p) => Heard!Past(p)'
         /\ heard' = heard \/ Heard!FromFlight
<1> DEFINE queue == InFlight
           queueNext == InFlight'
<1>1. captured \in Nat /\ queue \in Seq(Nat) /\ heard \in Seq(Nat)
  BY Line DEF IInv, TypeOK
<1>2. Moves(captured, queue, heard, captured', queueNext, heard')
  BY StepHeard, HeardMoves
<1>3. Ordered(captured, queue) /\ HeardOf(captured, queue, heard)
  BY InOrderIs
<1> HIDE DEF queue, queueNext
<1>4. /\ Ordered(captured', queueNext) /\ HeardOf(captured', queueNext, heard')
      /\ \A p \in Nat : PastIn(p, captured, queue) => PastIn(p, captured', queueNext)
      /\ \/ heard' = heard
         \/ \A i \in DOMAIN heard' :
              heard'[i] = Silence \/ \E j \in DOMAIN queue : heard'[i] = queue[j]
  BY <1>1, <1>2, <1>3, MovesInOrder
<1>5. Heard!InOrder'
  BY <1>4 DEF Heard!InOrder, Heard!Past, Ordered, HeardOf, PastIn, Heard!Silence, Silence,
              queueNext
<1>6. \A p \in Nat : Heard!Past(p) => Heard!Past(p)'
  BY <1>4 DEF Heard!Past, PastIn, queue, queueNext
<1>7. heard' = heard \/ Heard!FromFlight
  BY <1>4 DEF Heard!FromFlight, Heard!Silence, Silence, queue
<1> QED
  BY <1>5, <1>6, <1>7

(* Whatever the three threads interleave, and whichever ring was full, a block *)
(* that processInPlace() gives back is in the order of capture, with silence   *)
(* only behind its samples, and everything still to come was captured after it *)
(* (denoise_apo_processor.cpp:45-71).                                          *)
THEOREM OrderKept == Spec => []Heard!InOrder
<1>1. (IInv /\ ControlInv) /\ (IInv /\ ControlInv)' /\ Heard!InOrder /\ [Next]_vars
        => Heard!InOrder'
  BY StepOrder
<1> QED
  BY <1>1, InitOrder, Inductive, PTL DEF Spec

(* What has been passed over, heard or lost, does not come back, through any   *)
(* number of stop() and start(): what is found in the rings then is later than *)
(* all that was heard (denoise_apo_processor.cpp:35-43).                       *)
THEOREM PastForGood ==
  ASSUME NEW p \in Nat
  PROVE  Spec => [](Heard!Past(p) => []Heard!Past(p))
<1>1. (IInv /\ ControlInv) /\ (IInv /\ ControlInv)' /\ Heard!InOrder /\ Heard!Past(p)
        /\ [Next]_vars => Heard!Past(p)'
  BY StepOrder
<1> QED
  BY <1>1, OrderKept, Inductive, PTL DEF Spec

(* A new block is made of samples that were on their way, and silence: the     *)
(* buffer processInPlace() works in has the captured block until the end of    *)
(* the call, and none of it stays (denoise_apo_processor.cpp:62-71).           *)
THEOREM NothingMadeUp == Spec => [][Heard!FromFlight]_heard
<1>1. (IInv /\ ControlInv) /\ (IInv /\ ControlInv)' /\ Heard!InOrder /\ [Next]_vars
        => [Heard!FromFlight]_heard
  BY StepOrder
<1> QED
  BY <1>1, OrderKept, Inductive, PTL DEF Spec
=============================================================================
