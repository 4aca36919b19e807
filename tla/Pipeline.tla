------------------------------ MODULE Pipeline ------------------------------
(***************************************************************************)
(* core/pipeline/pipeline.cpp: an ordered list of stages, each with a      *)
(* model slot, and processFrame(), which sends one frame through them.     *)
(* The caller loads models between frames and catches what is thrown, as   *)
(* tests/test_pipeline_onnx.cpp does; a step is a loadModel() or one       *)
(* stage's part of a frame.                                                *)
(***************************************************************************)
EXTENDS OnnxModel

CONSTANTS FrameSize,    \* frameSize_, fixed at construction
          Kinds,        \* the kinds of the stages, in the order of addStage()
          Files,        \* the model files each stage's loadModel() may be given
          FrameSizes,   \* sizes of the frames processFrame() may be given
          MaxFrames     \* bound on the frames processed

ASSUME PipelineAssumption ==
  /\ FrameSize \in Nat \ {0}
  /\ Kinds \in Seq({"vad", "denoise", "speaker_isolation"})
  /\ DOMAIN Files = DOMAIN Kinds
  /\ \A s \in DOMAIN Kinds : Files[s] \subseteq ModelFiles /\ NoFile \notin Files[s]
  /\ FrameSizes \subseteq Nat
  /\ MaxFrames \in Nat

Stages == DOMAIN Kinds

VARIABLES model,        \* the model_ of each stage
          rejected,     \* stages whose last loadModel() returned false
          at,           \* 0 between frames, else the stage the frame is in
          gateByVad,    \* the argument of the last processFrame()
          ctx,          \* FrameContext: size of samples, and what set the two values
          frames,       \* frames given to processFrame() so far
          outcome,      \* how the last processFrame() ended
          runs          \* frames each stage has run since its model was loaded

vars == <<model, rejected, at, gateByVad, ctx, frames, outcome, runs>>

(* vadProbability and speakerScore are the frame whose run set them, or        *)
(* Unset for the 1.0f of a new FrameContext.                                   *)
Unset == 0
NewContext(size) == [size |-> size, vad |-> Unset, score |-> Unset, gatedBy |-> Unset]

Init ==
  /\ model = [s \in Stages |-> NewModel]
  /\ rejected = {}
  /\ at = 0
  /\ gateByVad = FALSE
  /\ ctx = NewContext(0)
  /\ frames = 0
  /\ outcome = "none"
  /\ runs = [s \in Stages |-> 0]
-----------------------------------------------------------------------------
(* Stage::loadModel.  A model that loads but has the wrong input size is       *)
(* reported and stays in the slot.                                             *)
LoadReturnsTrue(slot) == IsLoaded(slot) /\ slot.inputSize = FrameSize

LoadModel(s, file) ==
  /\ at = 0
  /\ model' = [model EXCEPT ![s] = Load(@, file)]
  /\ rejected' = IF LoadReturnsTrue(model'[s]) THEN rejected \ {s} ELSE rejected \union {s}
  /\ runs' = [runs EXCEPT ![s] = 0]
  /\ UNCHANGED <<at, gateByVad, ctx, frames, outcome>>

(* Fault: one FrameContext is reused for every frame. *)
ProcessFrameReusing(size, gate) ==
  /\ at = 0
  /\ frames < MaxFrames
  /\ frames' = frames + 1
  /\ gateByVad' = gate
  /\ IF size = FrameSize
     THEN at' = 1 /\ ctx' = [ctx EXCEPT !.size = size] /\ outcome' = "running"
     ELSE outcome' = "bad frame" /\ UNCHANGED <<at, ctx>>
  /\ UNCHANGED <<model, rejected, runs>>

(* DenoisePipeline::processFrame, up to its loop. *)
ProcessFrame(size, gate) ==
  /\ at = 0
  /\ frames < MaxFrames
  /\ frames' = frames + 1
  /\ gateByVad' = gate
  /\ IF size = FrameSize
     THEN at' = 1 /\ ctx' = NewContext(size) /\ outcome' = "running"
     ELSE outcome' = "bad frame" /\ UNCHANGED <<at, ctx>>
  /\ UNCHANGED <<model, rejected, runs>>

(* Stage::process without a model. *)
Passthrough ==
  /\ at \in Stages
  /\ ~IsLoaded(model[at])
  /\ at' = at + 1
  /\ UNCHANGED <<model, rejected, gateByVad, ctx, frames, outcome, runs>>

(* run() throws out of processFrame(): the frame is lost, the slot unchanged. *)
RunThrowsOut ==
  /\ at \in Stages
  /\ IsLoaded(model[at])
  /\ RunThrows(model[at], ctx.size)
  /\ at' = 0
  /\ outcome' = "threw"
  /\ UNCHANGED <<model, rejected, gateByVad, ctx, frames, runs>>

(* The switch of Stage::process throws when it cannot use the output. *)
Unusable(s) ==
  \/ Kinds[s] = "denoise" /\ OutputSize(model[s]) # ctx.size
  \/ Kinds[s] # "denoise" /\ OutputSize(model[s]) = 0

(* The frame is lost all the same, but the model has run. *)
OutputThrowsOut ==
  /\ at \in Stages
  /\ IsLoaded(model[at])
  /\ ~RunThrows(model[at], ctx.size)
  /\ Unusable(at)
  /\ model' = [model EXCEPT ![at] = AfterRun(@)]
  /\ runs' = [runs EXCEPT ![at] = @ + 1]
  /\ at' = 0
  /\ outcome' = "threw"
  /\ UNCHANGED <<rejected, gateByVad, ctx, frames>>

RunStage ==
  /\ at \in Stages
  /\ IsLoaded(model[at])
  /\ ~RunThrows(model[at], ctx.size)
  /\ ~Unusable(at)
  /\ model' = [model EXCEPT ![at] = AfterRun(@)]
  /\ runs' = [runs EXCEPT ![at] = @ + 1]
  /\ ctx' = CASE Kinds[at] = "vad" -> [ctx EXCEPT !.vad = frames]
              [] Kinds[at] = "denoise" -> [ctx EXCEPT !.size = OutputSize(model[at])]
              [] OTHER -> [ctx EXCEPT !.score = frames]
  /\ at' = at + 1
  /\ UNCHANGED <<rejected, gateByVad, frames, outcome>>

(* After the last stage: gateByVad multiplies by the probability in ctx. *)
Return ==
  /\ at = Len(Kinds) + 1
  /\ ctx' = IF gateByVad THEN [ctx EXCEPT !.gatedBy = ctx.vad] ELSE ctx
  /\ at' = 0
  /\ outcome' = "returned"
  /\ UNCHANGED <<model, rejected, gateByVad, frames, runs>>

Next ==
  \/ \E s \in Stages : \E file \in Files[s] : LoadModel(s, file)
  \/ \E size \in FrameSizes, gate \in BOOLEAN : ProcessFrame(size, gate)
  \/ Passthrough
  \/ RunThrowsOut
  \/ OutputThrowsOut
  \/ RunStage
  \/ Return

Spec == Init /\ [][Next]_vars
-----------------------------------------------------------------------------
Slot ==
  [session : (UNION {Files[s] : s \in Stages}) \union {NoFile}, inputName : BOOLEAN, inputSize : Nat,
   outputName : BOOLEAN, stateInName : BOOLEAN, stateOutName : BOOLEAN,
   hasState : BOOLEAN, stateSize : Nat, state : [size : Nat, runs : Nat \union {Garbage}]]

TypeOK ==
  /\ model \in [Stages -> Slot]
  /\ rejected \subseteq Stages
  /\ at \in 0 .. Len(Kinds) + 1 /\ gateByVad \in BOOLEAN
  /\ ctx \in [size : Nat, vad : Nat, score : Nat, gatedBy : Nat]
  /\ frames \in Nat
  /\ outcome \in {"none", "running", "returned", "threw", "bad frame"}
  /\ runs \in [Stages -> Nat]

(* What a file declares, whatever the slot held before. *)
Declares(file, name) ==
  \/ \E k \in DOMAIN file.inputs : file.inputs[k].name = name
  \/ \E k \in DOMAIN file.outputs : file.outputs[k].name = name
DeclaredSize(file, name) ==
  (CHOOSE t \in {file.inputs[k] : k \in DOMAIN file.inputs} : t.name = name).dim

(* After any sequence of loads, a loaded slot describes the file it has and     *)
(* nothing of the files before: the members of OnnxModel that load() leaves     *)
(* half assigned when it fails (onnx_model.cpp:38-89) never leak into a later   *)
(* model.                                                                       *)
SlotDescribesSession ==
  \A s \in Stages : IsLoaded(model[s]) =>
    LET m == model[s] IN
    /\ m.inputSize = DeclaredSize(m.session, "input")
    /\ m.hasState <=> Declares(m.session, "state_in")
    /\ m.hasState <=> Declares(m.session, "state_out")
    /\ m.state.size = IF m.hasState THEN DeclaredSize(m.session, "state_in") ELSE 0

(* "feeds each call's state_out back in as the next call's state_in,            *)
(* initialized to zero on load" (onnx_model.h:30-32): the recurrent state of a  *)
(* model whose state_out is as long as its state_in has every frame the stage   *)
(* has run since the load, once, the frames that were lost to an exception of   *)
(* this stage or a later one included.                                          *)
StateFollowsRuns ==
  \A s \in Stages :
    IsLoaded(model[s]) /\ model[s].hasState
      /\ StateOutSize(model[s]) = model[s].stateSize
    => model[s].state.runs = runs[s]

(* A file that keeps the whole contract of onnx_model.h:16-29 and docs/MODELS.md *)
(* for a stage of this kind, the sizes of its outputs included.                  *)
KeepsContract(file, kind) ==
  /\ file.parses
  /\ file.runs
  /\ Declares(file, "input") /\ DeclaredSize(file, "input") = FrameSize
  /\ \E k \in DOMAIN file.outputs :
       file.outputs[k].name = "output" /\
       IF kind = "denoise" THEN file.outputs[k].count = FrameSize ELSE file.outputs[k].count > 0

(* A frame of the right size is only ever lost to a stage whose model breaks the *)
(* contract: a stage without a model, or with a good one, never throws, whatever *)
(* was loaded into it before and whatever the other stages do to the frame.      *)
ThrowsOnlyOffContract ==
  [][outcome = "running" /\ outcome' = "threw" =>
       IsLoaded(model[at]) /\ ~KeepsContract(model[at].session, Kinds[at])]_vars

(* What processFrame() returns is this frame's.  It has the size it was given,   *)
(* whatever the models do (pipeline.cpp:52-56): the rings and framers downstream *)
(* count on it.  The probability and the score are the ones computed from that   *)
(* very frame, and 1.0 only when no stage of the kind has a model (pipeline.h:23 *)
(* and 24); the probability gates the frame exactly when the caller asked for it *)
(* (pipeline.cpp:103-105).  None is an earlier frame's, nor one that an          *)
(* exception left behind.                                                        *)
ReturnsThisFrame ==
  [][outcome = "running" /\ outcome' = "returned" =>
       LET Current(kind) ==
             IF \E s \in Stages : Kinds[s] = kind /\ IsLoaded(model[s]) THEN frames ELSE Unset
       IN  /\ ctx'.size = FrameSize
           /\ ctx'.vad = Current("vad")
           /\ ctx'.score = Current("speaker_isolation")
           /\ ctx'.gatedBy = IF gateByVad THEN Current("vad") ELSE Unset]_vars

(* pipeline.h:34-36: loadModel() "Returns false (and leaves the stage in         *)
(* passthrough) if the file does not exist, fails to parse, or does not match    *)
(* the tensor contract".                                                         *)
FailedLoadLeavesPassthrough == \A s \in rejected : ~IsLoaded(model[s])

(* docs/MODELS.md:92-93: "Stage::loadModel validates the tensor names/shapes at  *)
(* load time and fails loudly": when every model was accepted, no frame of the   *)
(* right size is lost to a shape found wrong while it is processed.              *)
ShapesCheckedAtLoad ==
  [][outcome = "running" /\ outcome' = "threw" => rejected # {}]_vars
=============================================================================
