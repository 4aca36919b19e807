--------------------------- MODULE PipeWireFilter ---------------------------
(***************************************************************************)
(* platform/linux/denoise_pipewire_filter.cpp, from main() to its exit     *)
(* status.  main() reads the command line, loads the models it names and   *)
(* runs a PipeWire main loop; the whole filter then works in the process   *)
(* callback, on the thread of that loop (it is connected with              *)
(* PW_FILTER_FLAG_NONE).  Each callback captures a quantum, turns every    *)
(* whole frame it can into a processed frame in outputRing, and then owes  *)
(* the graph a quantum of output.  The quantum is the graph's choice and   *)
(* may change from one callback to the next.                               *)
(*                                                                         *)
(* A callback that gets a null buffer returns at once and changes nothing: *)
(* it is a stuttering step.  The pipeline is a function from a frame to a  *)
(* frame of the same length, or throws; Pipeline.tla looks inside it.      *)
(***************************************************************************)
EXTENDS SampleStream

CONSTANTS FrameSize,    \* --frame-size
          Capacity,     \* of outputRing: FrameSize * 8 rounded up by RingBuffer
          Quanta,       \* the values position->clock.duration may take
          Commands,     \* the command lines the program may be started with
          MaxCaptured   \* bound on the length of the captured stream

Stages == 1 .. 3        \* vad, denoise, speaker, in the order of `Binding'

(* What a command line makes of the argument loop, and the file each model    *)
(* flag names, if any (a flag that ends the line names none).                  *)
CommandLine ==
  [parse : {"runs", "help", "usage", "throws"},
   model : [Stages -> {"none", "good", "refused"}]]

ASSUME FilterAssumption ==
  /\ FrameSize \in Nat \ {0}      \* DenoisePipeline and Framer throw on 0
  /\ Capacity \in Nat
  /\ Quanta \subseteq Nat
  /\ Commands \subseteq CommandLine
  /\ MaxCaptured \in Nat

VARIABLES pc,           \* "args", "load", "idle" (in the loop), "frames" (in the
                        \* callback) or "exited"
          command,      \* argv
          stage,        \* the stage whose binding is next
          quit,         \* a signal has reached the signalfd of the loop
          exit,         \* what the program ended with
          nSamples,     \* the quantum of the callback in progress
          framer,       \* Framer::buffer_
          ring,         \* outputRing
          out,          \* the buffer the last callback handed to the graph
          captured,     \* samples taken from the input port so far
          emitted,      \* processed samples given to the output port so far
          padded,       \* samples of silence given to the output port so far
          dropped       \* samples outputRing had no room for so far

main == <<command, stage, quit, exit>>
stream == <<nSamples, framer, ring, out, captured, emitted, padded, dropped>>
vars == <<pc, main, stream>>

Init ==
  /\ pc = "args"
  /\ command \in Commands
  /\ stage = 1
  /\ quit = FALSE
  /\ exit = "none"
  /\ nSamples = 0
  /\ framer = <<>>
  /\ ring = <<>>
  /\ out = <<>>
  /\ captured = 0
  /\ emitted = 0
  /\ padded = 0
  /\ dropped = 0
-----------------------------------------------------------------------------
Exit(status) ==
  /\ pc' = "exited"
  /\ exit' = status
  /\ UNCHANGED <<command, stage, quit, stream>>

(* The loop over argv and the pipeline's constructor: usage errors and --help *)
(* return, a frame size that is no number or 0 throws out of main().          *)
ParseArgs ==
  /\ pc = "args"
  /\ command.parse = "runs"
  /\ pc' = "load"
  /\ UNCHANGED <<main, stream>>

ReturnEarly ==
  /\ pc = "args"
  /\ \/ command.parse = "help" /\ Exit("0")
     \/ command.parse = "usage" /\ Exit("2")
     \/ command.parse = "throws" /\ Exit("terminate")

(* Fault: a model that cannot be loaded is reported and skipped. *)
LoadModelOrSkip ==
  /\ pc = "load"
  /\ stage \in Stages
  /\ stage' = stage + 1
  /\ UNCHANGED <<pc, command, quit, exit, stream>>

(* One turn of the loop over the bindings. *)
LoadModel ==
  /\ pc = "load"
  /\ stage \in Stages
  /\ command.model[stage] # "refused"
  /\ stage' = stage + 1
  /\ UNCHANGED <<pc, command, quit, exit, stream>>

LoadFails ==
  /\ pc = "load"
  /\ stage \in Stages
  /\ command.model[stage] = "refused"
  /\ Exit("1")

(* From the framer's construction to pw_main_loop_run(). *)
Connect ==
  /\ pc = "load"
  /\ stage \notin Stages
  /\ pc' = "idle"
  /\ UNCHANGED <<main, stream>>

ConnectFails ==
  /\ pc = "load"
  /\ stage \notin Stages
  /\ Exit("1")

(* SIGINT or SIGTERM, at any time: it waits in the signalfd until the loop     *)
(* gets to it.                                                                 *)
Signal ==
  /\ pc \in {"idle", "frames"}
  /\ ~quit
  /\ quit' = TRUE
  /\ UNCHANGED <<pc, command, stage, exit, stream>>

(* Fault: the loop goes on until what is held has been heard. *)
QuitWhenDrained ==
  /\ pc = "idle"
  /\ quit
  /\ Len(framer) + Len(ring) = 0
  /\ Exit("0")

(* The loop dispatches the signal between two callbacks; main() destroys the   *)
(* filter and returns.                                                         *)
Quit ==
  /\ pc = "idle"
  /\ quit
  /\ Exit("0")
-----------------------------------------------------------------------------
(* onProcess() up to its loop: the quantum goes to the framer. *)
OnProcess(n) ==
  /\ pc = "idle"
  /\ captured + n =< MaxCaptured
  /\ pc' = "frames"
  /\ nSamples' = n
  /\ framer' = framer \o Block(captured + 1, n)
  /\ captured' = captured + n
  /\ UNCHANGED <<main, ring, out, emitted, padded, dropped>>

(* Fault: the hop is one sample shorter than the frame. *)
ProcessFrameOverlapping ==
  /\ pc = "frames"
  /\ Len(framer) >= FrameSize
  /\ LET written == Accepted(ring, First(framer, FrameSize), Capacity)
     IN  /\ ring' = ring \o written
         /\ dropped' = dropped + (FrameSize - Len(written))
  /\ framer' = Rest(framer, FrameSize - 1)
  /\ UNCHANGED <<pc, main, nSamples, out, captured, emitted, padded>>

(* One turn of the loop.  What push() returns is ignored: a frame that does *)
(* not fit in the ring loses its tail.                                      *)
ProcessFrame ==
  /\ pc = "frames"
  /\ Len(framer) >= FrameSize
  /\ LET frame == First(framer, FrameSize)
         written == Accepted(ring, frame, Capacity)
     IN  /\ ring' = ring \o written
         /\ dropped' = dropped + (FrameSize - Len(written))
  /\ framer' = Rest(framer, FrameSize)
  /\ UNCHANGED <<pc, main, nSamples, out, captured, emitted, padded>>

(* The pipeline throws, which only a stage with a model does.  The exception   *)
(* leaves the callback, and nobody catches it.                                 *)
FrameThrows ==
  /\ pc = "frames"
  /\ Len(framer) >= FrameSize
  /\ \E s \in Stages : command.model[s] = "good"
  /\ Exit("terminate")

(* The end of the callback, when the ring holds a whole quantum. *)
EmitQuantum ==
  /\ pc = "frames"
  /\ Len(framer) < FrameSize
  /\ Len(ring) >= nSamples
  /\ pc' = "idle"
  /\ out' = First(ring, nSamples)
  /\ ring' = Rest(ring, nSamples)
  /\ emitted' = emitted + nSamples
  /\ UNCHANGED <<main, nSamples, framer, captured, padded, dropped>>

(* Faults: the underrun is not told from the normal case; only whole quanta   *)
(* are emitted; the silence is put before the samples.                        *)
EmitAndPadAlways ==
  /\ pc = "frames"
  /\ Len(framer) < FrameSize
  /\ pc' = "idle"
  /\ out' = Padded(ring, nSamples)
  /\ ring' = <<>>
  /\ emitted' = emitted + Len(ring)
  /\ padded' = padded + (nSamples - Len(ring))
  /\ UNCHANGED <<main, nSamples, framer, captured, dropped>>

EmitOnlySilence ==
  /\ pc = "frames"
  /\ Len(framer) < FrameSize
  /\ Len(ring) < nSamples
  /\ pc' = "idle"
  /\ out' = Padded(<<>>, nSamples)
  /\ padded' = padded + nSamples
  /\ UNCHANGED <<main, nSamples, framer, ring, captured, emitted, dropped>>

EmitSilenceFirst ==
  /\ pc = "frames"
  /\ Len(framer) < FrameSize
  /\ Len(ring) < nSamples
  /\ pc' = "idle"
  /\ out' = Padded(<<>>, nSamples - Len(ring)) \o ring
  /\ ring' = <<>>
  /\ emitted' = emitted + Len(ring)
  /\ padded' = padded + (nSamples - Len(ring))
  /\ UNCHANGED <<main, nSamples, framer, captured, dropped>>

(* The end of the callback on startup or underrun: all there is, then silence. *)
EmitAndPad ==
  /\ pc = "frames"
  /\ Len(framer) < FrameSize
  /\ Len(ring) < nSamples
  /\ pc' = "idle"
  /\ out' = Padded(ring, nSamples)
  /\ ring' = <<>>
  /\ emitted' = emitted + Len(ring)
  /\ padded' = padded + (nSamples - Len(ring))
  /\ UNCHANGED <<main, nSamples, framer, captured, dropped>>

Next ==
  \/ ParseArgs
  \/ ReturnEarly
  \/ LoadModel
  \/ LoadFails
  \/ Connect
  \/ ConnectFails
  \/ Signal
  \/ Quit
  \/ \E n \in Quanta : OnProcess(n)
  \/ ProcessFrame
  \/ FrameThrows
  \/ EmitQuantum
  \/ EmitAndPad

(* A callback runs to its end, and each turn of the loop dispatches every      *)
(* source that is ready, so that a signal is not passed over for ever; the     *)
(* graph and the signals owe nothing.                                          *)
Fairness ==
  /\ WF_vars(ProcessFrame)
  /\ WF_vars(EmitQuantum)
  /\ WF_vars(EmitAndPad)
  /\ SF_vars(Quit)

Spec == Init /\ [][Next]_vars /\ Fairness
-----------------------------------------------------------------------------
TypeOK ==
  /\ pc \in {"args", "load", "idle", "frames", "exited"}
  /\ command \in Commands
  /\ stage \in 1 .. 4
  /\ quit \in BOOLEAN
  /\ exit \in {"none", "0", "1", "2", "terminate"}
  /\ nSamples \in Nat
  /\ framer \in Seq(Nat)
  /\ ring \in Seq(Nat)
  /\ out \in Seq(Nat) /\ (pc = "idle" => Len(out) = nSamples)
  /\ captured \in Nat
  /\ emitted \in Nat
  /\ padded \in Nat
  /\ dropped \in Nat

(* Between two callbacks the filter holds less than a frame, whatever the      *)
(* quanta have been: "actual latency is bounded by frameSize/sampleRate"       *)
(* (denoise_pipewire_filter.cpp:166).  The loop and the two ways to end the    *)
(* callback together never let a backlog build up in framer or ring.           *)
LatencyBounded == pc = "idle" => Len(framer) + Len(ring) < FrameSize

(* Between two callbacks the delay of the output is exactly the silence that   *)
(* was ever inserted, less what was dropped: a sample captured is emitted      *)
(* once, held, or dropped, and a quantum in is a quantum out.                  *)
SilenceIsDelay == pc = "idle" => Len(framer) + Len(ring) + dropped = padded

(* The ring has room for every frame of a callback: no processed sample is     *)
(* lost to the ignored result of push() (line 74), "the ring buffer can never  *)
(* be the bottleneck" (line 165).  It is true only of the quanta that QuantaFit *)
(* admits.                                                                     *)
NoSampleDropped == dropped = 0

(* The quanta for which the ring is large enough: what a callback adds and the *)
(* frame less one that was held before it fit together.                        *)
QuantaFit == \A n \in Quanta : n + FrameSize - 1 =< Capacity

(* What is captured and not yet heard: the ring is ahead of the framer. *)
Heard == INSTANCE DelayedStream WITH inFlight <- ring \o framer, heard <- out, lost <- dropped

(* Whoever listens to the output port hears the captured stream, late: the     *)
(* callback, its loop and its underruns implement DelayedStream, which says    *)
(* that samples leave in order and once, that a short block ends in silence,   *)
(* and that what is dropped is counted.                                        *)
ImplementsDelayedStream == Heard!Spec

(* A filter that runs has every model its command line names, and one that     *)
(* ends with status 0 was asked to: a model that is refused at any stage, or a *)
(* graph that cannot be reached, ends the program before a sample passes       *)
(* (lines 153-162 and 198-201).                                                *)
StartsWhole ==
  /\ pc \in {"idle", "frames"} => \A s \in Stages : command.model[s] # "refused"
  /\ exit = "0" => quit \/ command.parse = "help"
  /\ exit = "1" => captured = 0

(* Ctrl-C ends the program whatever the graph does: no sequence of quanta      *)
(* keeps the loop in the callback, or the signal waiting, for ever             *)
(* (lines 176-179, 203).                                                       *)
SignalEndsFilter == quit ~> pc = "exited"
=============================================================================
