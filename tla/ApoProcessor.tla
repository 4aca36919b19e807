---------------------------- MODULE ApoProcessor ----------------------------
(***************************************************************************)
(* platform/windows/denoise_apo_processor.cpp: three threads around two    *)
(* rings.  The realtime thread calls processInPlace(), which pushes a      *)
(* block of input and pops as much processed output, without ever waiting. *)
(* The worker thread moves samples from the input ring through the framer  *)
(* and the pipeline to the output ring.  The host's control thread starts  *)
(* and stops the worker, and loads models while it is stopped.             *)
(*                                                                         *)
(* A ring is the queue that RingBuffer.tla implements.  Each push() and    *)
(* pop() is two steps: the load that fixes how many samples it moves, and  *)
(* the store that makes the move visible.  What is private to a thread is  *)
(* done in the same step as the access to a ring next to it.  A load here  *)
(* returns the current index; RingBuffer.tla has the loads that do not.    *)
(***************************************************************************)
EXTENDS SampleStream

CONSTANTS FrameSize,    \* frameSize_, also the hop
          InCapacity,   \* of inputRing_: FrameSize * 16 rounded up
          OutCapacity,  \* of outputRing_
          Quanta,       \* the frameCount of a processInPlace()
          MaxCaptured   \* bound on the length of the captured stream

ASSUME ApoAssumption ==
  /\ FrameSize \in Nat \ {0}
  /\ InCapacity \in Nat \ {0}
  /\ OutCapacity \in Nat \ {0}
  /\ Quanta \subseteq Nat \ {0}
  /\ MaxCaptured \in Nat

VARIABLES inputRing, outputRing,
          framer,       \* Framer::buffer_, touched only by the worker
          running,      \* running_
          rt,           \* the realtime thread: pc, frameCount, n of the ring call
          worker,       \* the worker thread: pc, n of the ring call, its frame
          host,         \* the control thread: "idle", "join" or "load"
          captured,     \* samples given to processInPlace() so far
          emitted,      \* processed samples it gave back so far
          padded,       \* samples of silence it gave back so far
          dropped,      \* samples a full ring did not take so far
          heard         \* the buffer the last processInPlace() gave back

counts == <<captured, emitted, padded, dropped, heard>>
vars == <<inputRing, outputRing, framer, running, rt, worker, host, counts>>

Init ==
  /\ inputRing = <<>>
  /\ outputRing = <<>>
  /\ framer = <<>>
  /\ running = FALSE
  /\ rt = [pc |-> "idle", count |-> 0, n |-> 0]
  /\ worker = [pc |-> "none", n |-> 0, frame |-> <<>>]
  /\ host = "idle"
  /\ captured = 0
  /\ emitted = 0
  /\ padded = 0
  /\ dropped = 0
  /\ heard = <<>>
-----------------------------------------------------------------------------
(***************************************************************************)
(* processInPlace(), on the realtime thread.                               *)
(***************************************************************************)
Batch == Block(captured - rt.count + 1, rt.count)

(* Faults: a push() that does not look at the room there is, or keeps a slot free. *)
InputLoadUnbounded(count) ==
  /\ rt.pc = "idle"
  /\ captured + count =< MaxCaptured
  /\ captured' = captured + count
  /\ rt' = [pc |-> "push", count |-> count, n |-> count]
  /\ UNCHANGED <<inputRing, outputRing, framer, running, worker, host,
                 emitted, padded, dropped, heard>>

InputLoadButOne(count) ==
  /\ rt.pc = "idle"
  /\ captured + count =< MaxCaptured
  /\ captured' = captured + count
  /\ rt' = [pc |-> "push", count |-> count,
            n |-> IF Len(inputRing) = InCapacity
                  THEN 0 ELSE Least(count, InCapacity - 1 - Len(inputRing))]
  /\ UNCHANGED <<inputRing, outputRing, framer, running, worker, host,
                 emitted, padded, dropped, heard>>

InputLoad(count) ==
  /\ rt.pc = "idle"
  /\ captured + count =< MaxCaptured
  /\ captured' = captured + count
  /\ rt' = [pc |-> "push", count |-> count,
            n |-> Least(count, InCapacity - Len(inputRing))]
  /\ UNCHANGED <<inputRing, outputRing, framer, running, worker, host,
                 emitted, padded, dropped, heard>>

InputPublish ==
  /\ rt.pc = "push"
  /\ inputRing' = inputRing \o First(Batch, rt.n)
  /\ dropped' = dropped + (rt.count - rt.n)
  /\ rt' = [rt EXCEPT !.pc = "pop"]
  /\ UNCHANGED <<outputRing, framer, running, worker, host,
                 captured, emitted, padded, heard>>

(* Fault: the output is taken in whole blocks or not at all. *)
OutputLoadWhole ==
  /\ rt.pc = "pop"
  /\ rt' = [rt EXCEPT !.pc = "fill",
                     !.n = IF Len(outputRing) >= rt.count THEN rt.count ELSE 0]
  /\ UNCHANGED <<inputRing, outputRing, framer, running, worker, host, counts>>

OutputLoad ==
  /\ rt.pc = "pop"
  /\ rt' = [rt EXCEPT !.pc = "fill", !.n = Least(rt.count, Len(outputRing))]
  /\ UNCHANGED <<inputRing, outputRing, framer, running, worker, host, counts>>

(* The store, and std::fill for what was not there. *)
OutputFill ==
  /\ rt.pc = "fill"
  /\ outputRing' = Rest(outputRing, rt.n)
  /\ emitted' = emitted + rt.n
  /\ padded' = padded + (rt.count - rt.n)
  /\ heard' = Padded(First(outputRing, rt.n), rt.count)
  /\ rt' = [pc |-> "idle", count |-> 0, n |-> 0]
  /\ UNCHANGED <<inputRing, framer, running, worker, host, captured, dropped>>

Realtime ==
  \/ \E count \in Quanta : InputLoad(count)
  \/ InputPublish
  \/ OutputLoad
  \/ OutputFill
-----------------------------------------------------------------------------
(***************************************************************************)
(* workerLoop().                                                           *)
(***************************************************************************)
(* Fault: the worker stays for the samples left in the framer. *)
CheckRunningOrRest ==
  /\ worker.pc = "check"
  /\ worker' = [worker EXCEPT !.pc = IF running \/ framer # <<>> THEN "pop" ELSE "done"]
  /\ UNCHANGED <<inputRing, outputRing, framer, running, rt, host, counts>>

CheckRunning ==
  /\ worker.pc = "check"
  /\ worker' = [worker EXCEPT !.pc = IF running THEN "pop" ELSE "done"]
  /\ UNCHANGED <<inputRing, outputRing, framer, running, rt, host, counts>>

(* Fault: the worker may sleep until there is a whole frame. *)
SleepUntilFrame ==
  /\ worker.pc = "pop"
  /\ Len(inputRing) < FrameSize
  /\ worker' = [worker EXCEPT !.pc = "check"]
  /\ UNCHANGED <<inputRing, outputRing, framer, running, rt, host, counts>>

(* Nothing to pop: sleep for 5 ms, then look at running_ again. *)
SleepWhenEmpty ==
  /\ worker.pc = "pop"
  /\ inputRing = <<>>
  /\ worker' = [worker EXCEPT !.pc = "check"]
  /\ UNCHANGED <<inputRing, outputRing, framer, running, rt, host, counts>>

WorkerLoad ==
  /\ worker.pc = "pop"
  /\ inputRing # <<>>
  /\ worker' = [worker EXCEPT !.pc = "take", !.n = Least(FrameSize, Len(inputRing))]
  /\ UNCHANGED <<inputRing, outputRing, framer, running, rt, host, counts>>

(* The store of pop(), and framer_.push(). *)
WorkerTake ==
  /\ worker.pc = "take"
  /\ framer' = framer \o First(inputRing, worker.n)
  /\ inputRing' = Rest(inputRing, worker.n)
  /\ worker' = [worker EXCEPT !.pc = "frames", !.n = 0]
  /\ UNCHANGED <<outputRing, running, rt, host, counts>>

(* Fault: the hop is one sample shorter than the frame. *)
ProcessFrameOverlapping ==
  /\ worker.pc = "frames"
  /\ Len(framer) >= FrameSize
  /\ worker' = [pc |-> "emit", frame |-> First(framer, FrameSize),
                n |-> Least(FrameSize, OutCapacity - Len(outputRing))]
  /\ framer' = Rest(framer, FrameSize - 1)
  /\ UNCHANGED <<inputRing, outputRing, running, rt, host, counts>>

(* tryGetFrame(), processFrame(), and the load of outputRing_.push(). *)
ProcessFrame ==
  /\ worker.pc = "frames"
  /\ Len(framer) >= FrameSize
  /\ worker' = [pc |-> "emit", frame |-> First(framer, FrameSize),
                n |-> Least(FrameSize, OutCapacity - Len(outputRing))]
  /\ framer' = Rest(framer, FrameSize)
  /\ UNCHANGED <<inputRing, outputRing, running, rt, host, counts>>

EmitFrame ==
  /\ worker.pc = "emit"
  /\ outputRing' = outputRing \o First(worker.frame, worker.n)
  /\ dropped' = dropped + (FrameSize - worker.n)
  /\ worker' = [pc |-> "frames", n |-> 0, frame |-> <<>>]
  /\ UNCHANGED <<inputRing, framer, running, rt, host,
                 captured, emitted, padded, heard>>

NoFrame ==
  /\ worker.pc = "frames"
  /\ Len(framer) < FrameSize
  /\ worker' = [worker EXCEPT !.pc = "check"]
  /\ UNCHANGED <<inputRing, outputRing, framer, running, rt, host, counts>>

Worker ==
  \/ CheckRunning
  \/ SleepWhenEmpty
  \/ WorkerLoad
  \/ WorkerTake
  \/ ProcessFrame
  \/ EmitFrame
  \/ NoFrame
-----------------------------------------------------------------------------
(***************************************************************************)
(* The control thread.  start() when running_ is already set, and stop()   *)
(* when it is not, return without a change: stuttering steps.              *)
(***************************************************************************)

(* Fault: start() empties the framer, losing part of a frame. *)
StartAfresh ==
  /\ host = "idle"
  /\ ~running
  /\ running' = TRUE
  /\ framer' = <<>>
  /\ worker' = [worker EXCEPT !.pc = "check"]
  /\ UNCHANGED <<inputRing, outputRing, rt, host, counts>>

(* A restart finds the rings and the framer as the last run left them. *)
Start ==
  /\ host = "idle"
  /\ ~running
  /\ running' = TRUE
  /\ worker' = [worker EXCEPT !.pc = "check"]
  /\ UNCHANGED <<inputRing, outputRing, framer, rt, host, counts>>

(* start() when the thread cannot be created: std::thread throws out of it, and *)
(* running_ stays set with no worker until the next stop().                     *)
StartThrows ==
  /\ host = "idle"
  /\ ~running
  /\ running' = TRUE
  /\ UNCHANGED <<inputRing, outputRing, framer, rt, worker, host, counts>>

(* Fault: stop() does not wait for the worker. *)
StopWithoutJoin ==
  /\ host = "idle"
  /\ running
  /\ running' = FALSE
  /\ UNCHANGED <<inputRing, outputRing, framer, rt, worker, host, counts>>

(* stop(), and the destructor, which is stop(). *)
Stop ==
  /\ host = "idle"
  /\ running
  /\ running' = FALSE
  /\ host' = "join"
  /\ UNCHANGED <<inputRing, outputRing, framer, rt, worker, counts>>

(* joinable() is false when the worker was never created. *)
Join ==
  /\ host = "join"
  /\ worker.pc \in {"done", "none"}
  /\ worker' = [worker EXCEPT !.pc = "none"]
  /\ host' = "idle"
  /\ UNCHANGED <<inputRing, outputRing, framer, running, rt, counts>>

(* loadVadModel() and its siblings write the slots of the pipeline that the  *)
(* worker reads; the host calls them before start() or after stop().         *)
BeginLoad ==
  /\ host = "idle"
  /\ ~running
  /\ host' = "load"
  /\ UNCHANGED <<inputRing, outputRing, framer, running, rt, worker, counts>>

EndLoad ==
  /\ host = "load"
  /\ host' = "idle"
  /\ UNCHANGED <<inputRing, outputRing, framer, running, rt, worker, counts>>

Host == Start \/ StartThrows \/ Stop \/ Join \/ BeginLoad \/ EndLoad
-----------------------------------------------------------------------------
Next == Realtime \/ Worker \/ Host

(* The operating system runs the worker, and join() returns once the thread *)
(* it waits for is done.  Nothing is assumed of the realtime thread or of   *)
(* when the host calls.                                                     *)
Fairness == WF_vars(Worker) /\ WF_vars(Join)

Spec == Init /\ [][Next]_vars /\ Fairness
-----------------------------------------------------------------------------
TypeOK ==
  /\ inputRing \in Seq(Nat) /\ Len(inputRing) =< InCapacity
  /\ outputRing \in Seq(Nat) /\ Len(outputRing) =< OutCapacity
  /\ framer \in Seq(Nat)
  /\ running \in BOOLEAN
  /\ rt \in [pc : {"idle", "push", "pop", "fill"}, count : Nat, n : Nat]
  /\ worker \in [pc : {"none", "check", "pop", "take", "frames", "emit", "done"},
                 n : Nat, frame : Seq(Nat)]
  /\ host \in {"idle", "join", "load"}
  /\ captured \in Nat
  /\ emitted \in Nat
  /\ padded \in Nat
  /\ dropped \in Nat
  /\ heard \in Seq(Nat)

(* Every sample on its way from the input of processInPlace() to its output, *)
(* the next to be heard first.                                               *)
InFlight == outputRing \o worker.frame \o framer \o inputRing
              \o (IF rt.pc = "push" THEN Batch ELSE <<>>)

(* What is heard is the captured stream, late: in order, with nothing heard   *)
(* twice and silence only at the end of a block, and what is missing was      *)
(* counted when a full ring did not take it - across the two rings, the       *)
(* worker's locals, and any number of stop() and start()                      *)
(* (denoise_apo_processor.cpp:35-71).                                         *)
Heard == INSTANCE DelayedStream WITH inFlight <- InFlight, lost <- dropped
ImplementsDelayedStream == Heard!Spec

(* Between two calls of processInPlace() the delay of the output is all the  *)
(* silence that was ever inserted, less what full rings dropped: stop() in   *)
(* the middle of a frame loses nothing, and an underrun once heard delays    *)
(* the stream for good, since nothing ever skips ahead.                      *)
DelayIsSilence == rt.pc = "idle" => Len(InFlight) + dropped = padded

(* The delay never grows to the room there is in both rings: silence is only *)
(* inserted when the output ring is empty, so all that is delayed is then in *)
(* the input ring and the worker's hands.                                    *)
DelayBounded == rt.pc = "idle" => Len(InFlight) =< InCapacity + 2 * FrameSize - 1

(* A sample is lost only after the headroom of a ring, less a quantum, has   *)
(* been heard as silence: a worker that keeps up never costs any audio,      *)
(* although both results of push() are ignored (lines 57 and 63).            *)
LossOnlyAfterUnderrun ==
  dropped > 0 => \E q \in Quanta : padded + q > Least(InCapacity, OutCapacity)

(* Once stop() has returned no worker is left: models are never loaded into  *)
(* slots the worker is reading, and start() never creates a second consumer  *)
(* of the input ring.                                                        *)
WorkerGoneWhenStopped == host # "join" /\ ~running => worker.pc = "none"

(* stop() returns, whatever the realtime thread does meanwhile, after a      *)
(* start() that failed too.                                                  *)
StopReturns == host = "join" ~> host = "idle"

(* While there is a worker that was not stopped every sample captured leaves *)
(* the input ring, a full output ring notwithstanding.                       *)
EverySampleTaken ==
  \A p \in 1 .. MaxCaptured :
    LET waiting == running /\ worker.pc # "none"
                     /\ \E i \in DOMAIN inputRing : inputRing[i] = p
    IN  waiting ~> ~waiting
=============================================================================
