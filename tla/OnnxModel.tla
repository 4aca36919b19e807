------------------------------ MODULE OnnxModel ------------------------------
(***************************************************************************)
(* core/inference/onnx_model.cpp: one model slot, which load() fills from  *)
(* a file and run() applies to a frame.  The module has no variables: it   *)
(* gives the slot after each operation as a function of the slot before.   *)
(*                                                                         *)
(* A file is what ONNX Runtime reports of it: whether a session can be     *)
(* made, and the tensors it declares: an input has a name and its fixed    *)
(* size, or NotFixed for one that is not 1-D with a fixed size; an output  *)
(* has a name and the number of elements a run yields, which no shape in   *)
(* the file need tell and which the fixed inputs make the same for every   *)
(* run; and whether the session, once made, can be run on the float        *)
(* tensors it is given.                                                    *)
(***************************************************************************)
EXTENDS Integers, Sequences

CONSTANT NoFile         \* session_ == nullptr

NotFixed == -1

Inputs == [name : STRING, dim : Nat \union {NotFixed}]
Outputs == [name : STRING, count : Nat]

(* In a graph a name stands for one value. *)
TensorLists(tensorType) ==
  {tensors \in Seq(tensorType) :
     \A j, k \in DOMAIN tensors : tensors[j].name = tensors[k].name => tensors[j] = tensors[k]}

ModelFiles ==
  [parses : BOOLEAN, runs : BOOLEAN,
   inputs : TensorLists(Inputs), outputs : TensorLists(Outputs)]

(* The members of OnnxModel.  A name is whether it is not empty; the recurrent *)
(* state is its size and the number of runs folded into it, 0 when it is all   *)
(* zeros, Garbage when it was read past the end of a tensor.                   *)
NewModel ==
  [session |-> NoFile, inputName |-> FALSE, inputSize |-> 0, outputName |-> FALSE,
   stateInName |-> FALSE, stateOutName |-> FALSE, hasState |-> FALSE,
   stateSize |-> 0, state |-> [size |-> 0, runs |-> 0]]

Garbage == -1

IsLoaded(model) == model.session # NoFile

(* Fault: the size of an input is taken as declared, a dynamic one included. *)
RefusedInputByName(t) == t.name \notin {"input", "state_in"}

RefusedInput(t) == t.dim = NotFixed \/ t.name \notin {"input", "state_in"}
RefusedOutput(t) == t.name \notin {"output", "state_out"}

Tensor(tensors, name) == CHOOSE t \in tensors : t.name = name
Declared(tensors, name) == \E t \in tensors : t.name = name

(* The tensors that the loops of load() get to record before a refused one. *)
InputsRead(file) ==
  {file.inputs[k] : k \in {k \in DOMAIN file.inputs :
                             \A j \in 1 .. k : ~RefusedInput(file.inputs[j])}}
OutputsRead(file) ==
  {file.outputs[k] : k \in {k \in DOMAIN file.outputs :
                              \A j \in 1 .. k : ~RefusedOutput(file.outputs[j])}}

(* Fault: a size that a file before has set is kept. *)
ReadInputsKeepingSizes(model, file) ==
  LET read == InputsRead(file)
      SizeOf(name, old) ==
        IF Declared(read, name) /\ old = 0 THEN Tensor(read, name).dim ELSE old
  IN  [model EXCEPT !.session = file,
                    !.inputName = Declared(read, "input"),
                    !.inputSize = SizeOf("input", @),
                    !.stateInName = Declared(read, "state_in"),
                    !.stateSize = SizeOf("state_in", @)]

(* The names are cleared first, the sizes are not. *)
ReadInputs(model, file) ==
  LET read == InputsRead(file)
      SizeOf(name, old) == IF Declared(read, name) THEN Tensor(read, name).dim ELSE old
  IN  [model EXCEPT !.session = file,
                    !.inputName = Declared(read, "input"),
                    !.inputSize = SizeOf("input", @),
                    !.stateInName = Declared(read, "state_in"),
                    !.stateSize = SizeOf("state_in", @)]

ReadOutputs(model, file) ==
  [model EXCEPT !.outputName = Declared(OutputsRead(file), "output"),
                !.stateOutName = Declared(OutputsRead(file), "state_out")]

PairState(model) == [model EXCEPT !.hasState = model.stateInName /\ model.stateOutName]

(* Faults: the state is sized by stateSize_ whatever hasState_ says; it is     *)
(* resized and not zeroed.                                                     *)
ZeroStateAlways(model) ==
  [model EXCEPT !.state = [size |-> model.stateSize, runs |-> 0]]
ResizeState(model) ==
  [model EXCEPT !.state.size = IF model.hasState THEN model.stateSize ELSE 0]

ZeroState(model) ==
  [model EXCEPT !.state = [size |-> IF model.hasState THEN model.stateSize ELSE 0,
                           runs |-> 0]]

Unload(model) == [model EXCEPT !.session = NoFile]

(* load(): each way out resets the session but leaves the other members as far *)
(* as they got.  It returns true exactly when the result is loaded.            *)
Load(model, file) ==
  LET in == ReadInputs(model, file)
      out == ReadOutputs(in, file)
      paired == PairState(out)
  IN  CASE ~file.parses -> Unload(model)
        [] file.parses /\ (\E k \in DOMAIN file.inputs : RefusedInput(file.inputs[k])) ->
             Unload(in)
        [] OTHER ->
             IF \/ \E k \in DOMAIN file.outputs : RefusedOutput(file.outputs[k])
                \/ ~out.inputName
                \/ ~out.outputName
             THEN Unload(out)
             ELSE IF out.stateInName # out.stateOutName
                  THEN Unload(paired)
                  ELSE ZeroState(paired)

(* run() throws before anything has changed: no model, a frame of the wrong    *)
(* size, or an Ort::Exception out of Session::Run, which load() cannot foresee *)
(* because it looks at no element type.                                        *)
RunThrows(model, size) ==
  \/ ~IsLoaded(model)
  \/ size # model.inputSize
  \/ ~model.session.runs

(* The elements of the tensors a run yields, the product of the dimensions    *)
(* they have then: neither was looked at when the file was loaded.            *)
OutputSize(model) == Tensor(OutputsRead(model.session), "output").count
StateOutSize(model) == Tensor(OutputsRead(model.session), "state_out").count

(* run() once the session has: stateSize_ elements of state_out become the    *)
(* state, whatever its size; past its end the copy reads foreign memory.      *)
AfterRun(model) ==
  IF ~model.hasState
  THEN model
  ELSE [model EXCEPT !.state.runs =
          IF StateOutSize(model) < model.stateSize \/ @ = Garbage THEN Garbage ELSE @ + 1]
=============================================================================
