-------------------------- MODULE Pipeline_proofs ---------------------------
(***************************************************************************)
(* The pipeline and its model slots: whatever files are loaded into        *)
(* whatever stages, in any order and with frames in between, a loaded slot *)
(* describes its file, the recurrent state follows the runs, a frame is    *)
(* lost only to a model that breaks the contract, and what is returned is  *)
(* this frame's.                                                           *)
(***************************************************************************)
EXTENDS Pipeline, TLAPS

AllInputs(file) == {file.inputs[k] : k \in DOMAIN file.inputs}
AllOutputs(file) == {file.outputs[k] : k \in DOMAIN file.outputs}

(* A file with which load() gets past its two loops and the check of the names. *)
Accepted(file) ==
  /\ \A k \in DOMAIN file.inputs : ~RefusedInput(file.inputs[k])
  /\ \A k \in DOMAIN file.outputs : ~RefusedOutput(file.outputs[k])
  /\ Declared(AllInputs(file), "input")
  /\ Declared(AllOutputs(file), "output")
  /\ Declared(AllInputs(file), "state_in") <=> Declared(AllOutputs(file), "state_out")

(* SlotDescribesSession, of one slot. *)
Describes(m) ==
  /\ m.inputSize = DeclaredSize(m.session, "input")
  /\ m.hasState <=> Declares(m.session, "state_in")
  /\ m.hasState <=> Declares(m.session, "state_out")
  /\ m.state.size = IF m.hasState THEN DeclaredSize(m.session, "state_in") ELSE 0

SlotInv(m, files) ==
  IsLoaded(m) => m.session \in files /\ Accepted(m.session) /\ Describes(m)
-----------------------------------------------------------------------------
(* What a file declares, and what the loops of load() read of it.             *)
LEMMA FileTypes ==
  ASSUME NEW file \in ModelFiles
  PROVE  /\ file.inputs \in Seq(Inputs) /\ file.outputs \in Seq(Outputs)
         /\ file.parses \in BOOLEAN /\ file.runs \in BOOLEAN
BY DEF ModelFiles, TensorLists

LEMMA ReadTypes ==
  ASSUME NEW file \in ModelFiles
  PROVE  /\ InputsRead(file) \subseteq [name : STRING, dim : Nat]
         /\ OutputsRead(file) \subseteq Outputs
<1>1. /\ \A k \in DOMAIN file.inputs : file.inputs[k] \in Inputs /\ k \in 1 .. k
      /\ \A k \in DOMAIN file.outputs : file.outputs[k] \in Outputs
  BY FileTypes
<1>2. ASSUME NEW t \in InputsRead(file) PROVE t \in [name : STRING, dim : Nat]
  <2>1. PICK k \in DOMAIN file.inputs :
          t = file.inputs[k] /\ \A j \in 1 .. k : ~RefusedInput(file.inputs[j])
    BY DEF InputsRead
  <2>2. t \in Inputs /\ ~RefusedInput(t)
    BY <1>1, <2>1
  <2> QED
    BY <2>2 DEF Inputs, RefusedInput
<1>3. OutputsRead(file) \subseteq Outputs
  BY <1>1 DEF OutputsRead
<1> QED
  BY <1>2, <1>3

LEMMA AllRead ==
  ASSUME NEW file \in ModelFiles
  PROVE  /\ (\A k \in DOMAIN file.inputs : ~RefusedInput(file.inputs[k])) =>
              InputsRead(file) = AllInputs(file)
         /\ (\A k \in DOMAIN file.outputs : ~RefusedOutput(file.outputs[k])) =>
              OutputsRead(file) = AllOutputs(file)
<1>1. /\ \A k \in DOMAIN file.inputs : \A j \in 1 .. k : j \in DOMAIN file.inputs
      /\ \A k \in DOMAIN file.outputs : \A j \in 1 .. k : j \in DOMAIN file.outputs
  BY FileTypes
<1>2. ASSUME \A k \in DOMAIN file.inputs : ~RefusedInput(file.inputs[k])
      PROVE  InputsRead(file) = AllInputs(file)
  BY <1>1, <1>2, Zenon DEF InputsRead, AllInputs
<1>3. ASSUME \A k \in DOMAIN file.outputs : ~RefusedOutput(file.outputs[k])
      PROVE  OutputsRead(file) = AllOutputs(file)
  BY <1>1, <1>3, Zenon DEF OutputsRead, AllOutputs
<1> QED
  BY <1>2, <1>3

LEMMA TensorFound ==
  ASSUME NEW tensors, NEW name, Declared(tensors, name)
  PROVE  Tensor(tensors, name) \in tensors /\ Tensor(tensors, name).name = name
BY DEF Declared, Tensor

(* In an accepted file the names and the sizes are where they should be.      *)
LEMMA AcceptedDeclares ==
  ASSUME NEW file \in ModelFiles, Accepted(file)
  PROVE  /\ Declares(file, "state_in") <=> Declared(AllInputs(file), "state_in")
         /\ Declares(file, "state_out") <=> Declared(AllOutputs(file), "state_out")
<1>1. \A k \in DOMAIN file.outputs : file.outputs[k].name # "state_in"
  BY DEF Accepted, RefusedOutput
<1>2. \A k \in DOMAIN file.inputs : file.inputs[k].name # "state_out"
  BY DEF Accepted, RefusedInput
<1>3. /\ Declared(AllInputs(file), "state_in") <=>
           \E k \in DOMAIN file.inputs : file.inputs[k].name = "state_in"
      /\ Declared(AllOutputs(file), "state_out") <=>
           \E k \in DOMAIN file.outputs : file.outputs[k].name = "state_out"
  BY DEF Declared, AllInputs, AllOutputs
<1> QED
  BY <1>1, <1>2, <1>3 DEF Declares

LEMMA SizeIsTensor ==
  ASSUME NEW file, NEW name
  PROVE  DeclaredSize(file, name) = Tensor(AllInputs(file), name).dim
BY DEF DeclaredSize, Tensor, AllInputs
-----------------------------------------------------------------------------
(* The pieces of load(), one after the other.                                 *)
FileSet == UNION {Files[s] : s \in Stages}

LEMMA ReadInputsSlot ==
  ASSUME NEW m \in Slot, NEW file \in ModelFiles, file \in FileSet
  PROVE  LET in == ReadInputs(m, file)
             read == InputsRead(file)
         IN  /\ in \in Slot
             /\ in.session = file
             /\ in.inputName = Declared(read, "input")
             /\ in.stateInName = Declared(read, "state_in")
             /\ in.inputName => in.inputSize = Tensor(read, "input").dim
             /\ in.stateInName => in.stateSize = Tensor(read, "state_in").dim
<1> DEFINE in == ReadInputs(m, file)
           read == InputsRead(file)
           hasInput == Declared(read, "input")
           hasState == Declared(read, "state_in")
           inputSize == IF hasInput THEN Tensor(read, "input").dim ELSE m.inputSize
           stateSize == IF hasState THEN Tensor(read, "state_in").dim ELSE m.stateSize
<1>1. inputSize \in Nat /\ stateSize \in Nat
  <2>1. m.inputSize \in Nat /\ m.stateSize \in Nat
    BY DEF Slot
  <2>2. read \subseteq [name : STRING, dim : Nat]
    BY ReadTypes
  <2> HIDE DEF read
  <2>3. /\ hasInput => Tensor(read, "input") \in [name : STRING, dim : Nat]
        /\ hasState => Tensor(read, "state_in") \in [name : STRING, dim : Nat]
    BY <2>2, TensorFound
  <2> QED
    BY <2>1, <2>3
<1>2. hasInput \in BOOLEAN /\ hasState \in BOOLEAN
  BY DEF Declared
<1>3. in = [m EXCEPT !.session = file, !.inputName = hasInput, !.inputSize = inputSize,
                     !.stateInName = hasState, !.stateSize = stateSize]
  BY DEF ReadInputs
<1> HIDE DEF in, hasInput, hasState, inputSize, stateSize
<1>4. /\ in \in Slot /\ in.session = file /\ in.inputName = hasInput
      /\ in.stateInName = hasState /\ in.inputSize = inputSize /\ in.stateSize = stateSize
  BY <1>1, <1>2, <1>3 DEF Slot, FileSet
<1> QED
  BY <1>4 DEF in, hasInput, hasState, inputSize, stateSize

LEMMA ReadOutputsSlot ==
  ASSUME NEW m \in Slot, NEW file
  PROVE  LET out == ReadOutputs(m, file)
         IN  /\ out \in Slot
             /\ out.session = m.session
             /\ out.inputName = m.inputName /\ out.inputSize = m.inputSize
             /\ out.stateInName = m.stateInName /\ out.stateSize = m.stateSize
             /\ out.outputName = Declared(OutputsRead(file), "output")
             /\ out.stateOutName = Declared(OutputsRead(file), "state_out")
<1> DEFINE output == Declared(OutputsRead(file), "output")
           stateOut == Declared(OutputsRead(file), "state_out")
<1>1. output \in BOOLEAN /\ stateOut \in BOOLEAN
  BY DEF Declared
<1>2. ReadOutputs(m, file) = [m EXCEPT !.outputName = output, !.stateOutName = stateOut]
  BY DEF ReadOutputs
<1> HIDE DEF output, stateOut
<1> QED
  BY <1>1, <1>2 DEF Slot, output, stateOut

LEMMA PairStateSlot ==
  ASSUME NEW m \in Slot
  PROVE  LET paired == PairState(m)
         IN  /\ paired \in Slot
             /\ paired.session = m.session
             /\ paired.inputSize = m.inputSize /\ paired.stateSize = m.stateSize
             /\ paired.hasState <=> m.stateInName /\ m.stateOutName
<1> DEFINE has == m.stateInName /\ m.stateOutName
<1>1. has \in BOOLEAN
  OBVIOUS
<1>2. PairState(m) = [m EXCEPT !.hasState = has]
  BY DEF PairState
<1> HIDE DEF has
<1>3. /\ PairState(m) \in Slot /\ PairState(m).hasState = has
      /\ PairState(m).session = m.session
      /\ PairState(m).inputSize = m.inputSize /\ PairState(m).stateSize = m.stateSize
  BY <1>1, <1>2 DEF Slot
<1> QED
  BY <1>3 DEF has

LEMMA ZeroStateSlot ==
  ASSUME NEW m \in Slot
  PROVE  LET zero == ZeroState(m)
         IN  /\ zero \in Slot
             /\ zero.session = m.session /\ zero.inputSize = m.inputSize
             /\ zero.hasState = m.hasState /\ zero.stateSize = m.stateSize
             /\ zero.state.size = (IF m.hasState THEN m.stateSize ELSE 0)
             /\ zero.state.runs = 0
<1> DEFINE size == IF m.hasState THEN m.stateSize ELSE 0
           state == [size |-> size, runs |-> 0]
<1>1. size \in Nat
  BY DEF Slot
<1> HIDE DEF size
<1>2. state \in [size : Nat, runs : Nat \union {Garbage}] /\ state.size = size /\ state.runs = 0
  BY <1>1
<1>3. ZeroState(m) = [m EXCEPT !.state = state]
  BY DEF ZeroState, size
<1> HIDE DEF state
<1>4. /\ ZeroState(m) \in Slot /\ ZeroState(m).state = state
      /\ ZeroState(m).session = m.session /\ ZeroState(m).inputSize = m.inputSize
      /\ ZeroState(m).hasState = m.hasState /\ ZeroState(m).stateSize = m.stateSize
  BY <1>2, <1>3 DEF Slot
<1> QED
  BY <1>2, <1>4 DEF size

LEMMA UnloadSlot ==
  ASSUME NEW m \in Slot
  PROVE  Unload(m) \in Slot /\ ~IsLoaded(Unload(m))
<1> DEFINE sessions == FileSet \union {NoFile}
<1>1. NoFile \in sessions
  OBVIOUS
<1>2. Slot = [session : sessions, inputName : BOOLEAN, inputSize : Nat,
              outputName : BOOLEAN, stateInName : BOOLEAN, stateOutName : BOOLEAN,
              hasState : BOOLEAN, stateSize : Nat,
              state : [size : Nat, runs : Nat \union {Garbage}]]
  BY Zenon DEF Slot, FileSet
<1> HIDE DEF sessions
<1>3. Unload(m) \in Slot /\ Unload(m).session = NoFile
  BY <1>1, <1>2 DEF Unload
<1> QED
  BY <1>3 DEF IsLoaded

(* load() with any slot and any file: if it succeeds, the slot has the file's  *)
(* names and sizes and a state of zeros, and nothing of what it had before.    *)
LEMMA LoadSlot ==
  ASSUME NEW m \in Slot, NEW file \in ModelFiles, file \in FileSet
  PROVE  /\ Load(m, file) \in Slot
         /\ IsLoaded(Load(m, file)) =>
              /\ Load(m, file).session = file
              /\ Accepted(file)
              /\ Describes(Load(m, file))
              /\ Load(m, file).state.runs = 0
<1> DEFINE in == ReadInputs(m, file)
           out == ReadOutputs(in, file)
           paired == PairState(out)
           zero == ZeroState(paired)
           refusedIn == \E k \in DOMAIN file.inputs : RefusedInput(file.inputs[k])
           refusedOut == \E k \in DOMAIN file.outputs : RefusedOutput(file.outputs[k])
           accepted == /\ file.parses /\ ~refusedIn /\ ~refusedOut
                       /\ out.inputName /\ out.outputName
                       /\ out.stateInName = out.stateOutName
<1>1. /\ in \in Slot /\ in.session = file
      /\ in.inputName = Declared(InputsRead(file), "input")
      /\ in.stateInName = Declared(InputsRead(file), "state_in")
      /\ in.inputName => in.inputSize = Tensor(InputsRead(file), "input").dim
      /\ in.stateInName => in.stateSize = Tensor(InputsRead(file), "state_in").dim
  BY ReadInputsSlot, Zenon
<1> HIDE DEF in
<1>2. /\ out \in Slot /\ out.session = file
      /\ out.inputName = in.inputName /\ out.inputSize = in.inputSize
      /\ out.stateInName = in.stateInName /\ out.stateSize = in.stateSize
      /\ out.outputName = Declared(OutputsRead(file), "output")
      /\ out.stateOutName = Declared(OutputsRead(file), "state_out")
  BY <1>1, ReadOutputsSlot
<1> HIDE DEF out
<1>3. /\ paired \in Slot /\ paired.session = file
      /\ paired.inputSize = in.inputSize /\ paired.stateSize = in.stateSize
      /\ paired.hasState <=> out.stateInName /\ out.stateOutName
  BY <1>2, PairStateSlot
<1> HIDE DEF paired
<1>4. /\ zero \in Slot /\ zero.session = file /\ zero.inputSize = in.inputSize
      /\ zero.hasState = paired.hasState
      /\ zero.state.size = (IF paired.hasState THEN in.stateSize ELSE 0)
      /\ zero.state.runs = 0
  BY <1>3, ZeroStateSlot
<1> HIDE DEF zero
<1>5. Load(m, file) \in {Unload(m), Unload(in), Unload(out), Unload(paired)} \/
        (Load(m, file) = zero /\ accepted)
  BY Zenon DEF Load, in, out, paired, zero
<1>6. ASSUME accepted
      PROVE  Accepted(file) /\ Describes(zero)
  <2>1. InputsRead(file) = AllInputs(file) /\ OutputsRead(file) = AllOutputs(file)
    BY <1>6, AllRead
  <2>2. Accepted(file)
    BY <1>1, <1>2, <1>6, <2>1 DEF Accepted
  <2>3. /\ Declares(file, "state_in") <=> Declared(AllInputs(file), "state_in")
        /\ Declares(file, "state_out") <=> Declared(AllOutputs(file), "state_out")
    BY <2>2, AcceptedDeclares
  <2>4. zero.inputSize = DeclaredSize(file, "input")
    BY <1>1, <1>2, <1>4, <1>6, <2>1, SizeIsTensor
  <2>5. /\ zero.hasState <=> Declares(file, "state_in")
        /\ zero.hasState <=> Declares(file, "state_out")
    BY <1>1, <1>2, <1>3, <1>4, <1>6, <2>1, <2>3
  <2>6. zero.state.size = IF zero.hasState THEN DeclaredSize(file, "state_in") ELSE 0
    BY <1>1, <1>2, <1>3, <1>4, <1>6, <2>1, SizeIsTensor
  <2> QED
    BY <1>4, <2>2, <2>4, <2>5, <2>6 DEF Describes
<1>7. CASE Load(m, file) = zero /\ accepted
  BY <1>4, <1>6, <1>7
<1>8. CASE Load(m, file) \in {Unload(m), Unload(in), Unload(out), Unload(paired)}
  BY <1>1, <1>2, <1>3, <1>8, UnloadSlot
<1> QED
  BY <1>5, <1>7, <1>8

(* run() changes the recurrent state and nothing else; the state gains the run *)
(* if state_out is as long as state_in.                                        *)
LEMMA AfterRunSlot ==
  ASSUME NEW m \in Slot
  PROVE  LET after == AfterRun(m)
         IN  /\ after \in Slot
             /\ after.session = m.session /\ after.inputSize = m.inputSize
             /\ after.hasState = m.hasState /\ after.stateSize = m.stateSize
             /\ after.state.size = m.state.size
             /\ m.hasState /\ StateOutSize(m) = m.stateSize /\ m.state.runs \in Nat
                  => after.state.runs = m.state.runs + 1
<1>1. CASE ~m.hasState
  BY <1>1 DEF AfterRun
<1>2. CASE m.hasState
  <2> DEFINE counted == IF StateOutSize(m) < m.stateSize \/ m.state.runs = Garbage
                        THEN Garbage ELSE m.state.runs + 1
             state == [m.state EXCEPT !.runs = counted]
  <2>1. m.stateSize \in Nat /\ m.state \in [size : Nat, runs : Nat \union {Garbage}]
    BY DEF Slot
  <2>2. counted \in Nat \union {Garbage}
    <3>1. m.state.runs \in Nat \union {Garbage}
      BY <2>1
    <3> QED
      BY <3>1
  <2>3. StateOutSize(m) = m.stateSize /\ m.state.runs \in Nat => counted = m.state.runs + 1
    <3> SUFFICES ASSUME StateOutSize(m) = m.stateSize, m.state.runs \in Nat
                 PROVE  counted = m.state.runs + 1
      OBVIOUS
    <3>1. m.state.runs # Garbage
      BY DEF Garbage
    <3>2. ~(StateOutSize(m) < m.stateSize)
      BY <2>1
    <3> QED
      BY <3>1, <3>2
  <2> HIDE DEF counted
  <2>4. /\ state \in [size : Nat, runs : Nat \union {Garbage}]
        /\ state.size = m.state.size /\ state.runs = counted
    BY <2>1, <2>2
  <2>5. AfterRun(m) = [m EXCEPT !.state = state]
    BY <1>2 DEF AfterRun, counted
  <2> HIDE DEF state
  <2>6. /\ AfterRun(m) \in Slot /\ AfterRun(m).state = state
        /\ AfterRun(m).session = m.session /\ AfterRun(m).inputSize = m.inputSize
        /\ AfterRun(m).hasState = m.hasState /\ AfterRun(m).stateSize = m.stateSize
    BY <2>4, <2>5 DEF Slot
  <2> QED
    BY <2>3, <2>4, <2>6
<1> QED
  BY <1>1, <1>2
-----------------------------------------------------------------------------
(* Whether one of the first n stages is of this kind and has a model.         *)
Among(n, kind) == \E s \in Stages : s =< n /\ Kinds[s] = kind /\ IsLoaded(model[s])

(* While a frame is in the stages it has its size, and the probability and    *)
(* the score are what a stage behind it has set for this very frame.          *)
Midway ==
  /\ outcome = "running" <=> at # 0
  /\ at # 0 => /\ ctx.size = FrameSize
               /\ ctx.gatedBy = Unset
               /\ ctx.vad = IF Among(at - 1, "vad") THEN frames ELSE Unset
               /\ ctx.score = IF Among(at - 1, "speaker_isolation") THEN frames ELSE Unset

IInv ==
  /\ TypeOK
  /\ \A s \in Stages : SlotInv(model[s], Files[s])
  /\ StateFollowsRuns
  /\ Midway

LEMMA StagesAre == Stages = 1 .. Len(Kinds) /\ Len(Kinds) \in Nat
BY PipelineAssumption DEF Stages

LEMMA NewModelSlot == NewModel \in Slot /\ ~IsLoaded(NewModel)
<1>1. NewModel.session = NoFile /\ 0 \in Nat /\ FALSE \in BOOLEAN
  BY DEF NewModel
<1>2. [size |-> 0, runs |-> 0] \in [size : Nat, runs : Nat \union {Garbage}]
  OBVIOUS
<1>3. NewModel \in Slot
  BY <1>2 DEF NewModel, Slot
<1> QED
  BY <1>1, <1>3 DEF IsLoaded

LEMMA InitIInv == Init => IInv
<1> SUFFICES ASSUME Init PROVE IInv
  OBVIOUS
<1>1. /\ model = [s \in Stages |-> NewModel] /\ rejected = {} /\ at = 0 /\ gateByVad = FALSE
      /\ ctx = NewContext(0) /\ frames = 0 /\ outcome = "none" /\ runs = [s \in Stages |-> 0]
  BY DEF Init
<1>2. TypeOK
  <2>1. model \in [Stages -> Slot] /\ runs \in [Stages -> Nat]
    BY <1>1, NewModelSlot
  <2>2. ctx \in [size : Nat, vad : Nat, score : Nat, gatedBy : Nat]
    BY <1>1 DEF NewContext, Unset
  <2>3. rejected \subseteq Stages /\ frames \in Nat
    BY <1>1
  <2>4. at \in 0 .. Len(Kinds) + 1
    BY <1>1, StagesAre
  <2>5. gateByVad \in BOOLEAN /\ outcome = "none"
    BY <1>1
  <2> QED
    BY <2>1, <2>2, <2>3, <2>4, <2>5, Zenon DEF TypeOK
<1>3. \A s \in Stages : ~IsLoaded(model[s])
  BY <1>1, NewModelSlot
<1>4. Midway
  BY <1>1 DEF Midway
<1> QED
  BY <1>2, <1>3, <1>4 DEF IInv, SlotInv, StateFollowsRuns

(* What a step does to the slots: nothing, one load, or one run.              *)
SlotsStep ==
  \/ model' = model /\ runs' = runs
  \/ \E s \in Stages : \E file \in Files[s] :
       model' = [model EXCEPT ![s] = Load(@, file)] /\ runs' = [runs EXCEPT ![s] = 0]
  \/ /\ at \in Stages /\ IsLoaded(model[at])
     /\ model' = [model EXCEPT ![at] = AfterRun(@)]
     /\ runs' = [runs EXCEPT ![at] = @ + 1]

LEMMA NextSlots == [Next]_vars => SlotsStep
BY DEF Next, vars, SlotsStep, LoadModel, ProcessFrame, Passthrough, RunThrowsOut,
       OutputThrowsOut, RunStage, Return

LEMMA StepSlots ==
  ASSUME IInv, SlotsStep
  PROVE  /\ model' \in [Stages -> Slot] /\ runs' \in [Stages -> Nat]
         /\ \A s \in Stages : SlotInv(model'[s], Files[s])
         /\ StateFollowsRuns'
<1>1. /\ model \in [Stages -> Slot] /\ runs \in [Stages -> Nat]
      /\ \A s \in Stages : SlotInv(model[s], Files[s])
  BY DEF IInv, TypeOK
<1>2. \A s \in Stages : IsLoaded(model[s]) /\ model[s].hasState
                          /\ StateOutSize(model[s]) = model[s].stateSize
                        => model[s].state.runs = runs[s]
  BY DEF IInv, StateFollowsRuns
<1>3. CASE model' = model /\ runs' = runs
  BY <1>1, <1>2, <1>3 DEF StateFollowsRuns
<1>4. ASSUME NEW s \in Stages, NEW file \in Files[s],
             model' = [model EXCEPT ![s] = Load(@, file)], runs' = [runs EXCEPT ![s] = 0]
      PROVE  /\ model' \in [Stages -> Slot] /\ runs' \in [Stages -> Nat]
             /\ \A r \in Stages : SlotInv(model'[r], Files[r])
             /\ StateFollowsRuns'
  <2> DEFINE new == Load(model[s], file)
  <2>1. file \in ModelFiles /\ file \in FileSet /\ model[s] \in Slot
    BY <1>1, PipelineAssumption DEF FileSet, Stages
  <2>2. /\ new \in Slot
        /\ IsLoaded(new) => /\ new.session = file /\ Accepted(file) /\ Describes(new)
                            /\ new.state.runs = 0
    BY <2>1, LoadSlot
  <2>3. model' = [model EXCEPT ![s] = new]
    BY <1>4
  <2> HIDE DEF new
  <2>4. /\ model'[s] = new /\ runs'[s] = 0
        /\ \A r \in Stages : r # s => model'[r] = model[r] /\ runs'[r] = runs[r]
    BY <1>1, <1>4, <2>3
  <2>5. model' \in [Stages -> Slot] /\ runs' \in [Stages -> Nat]
    BY <1>1, <1>4, <2>2, <2>3
  <2>6. SlotInv(new, Files[s])
    BY <2>2 DEF SlotInv
  <2>7. StateFollowsRuns'
    BY <1>2, <2>2, <2>4 DEF StateFollowsRuns
  <2> QED
    BY <1>1, <2>4, <2>5, <2>6, <2>7
<1>5. CASE /\ at \in Stages /\ IsLoaded(model[at])
           /\ model' = [model EXCEPT ![at] = AfterRun(@)]
           /\ runs' = [runs EXCEPT ![at] = @ + 1]
  <2> DEFINE old == model[at]
             new == AfterRun(old)
             n == runs[at]
  <2>1. old \in Slot /\ IsLoaded(old) /\ SlotInv(old, Files[at]) /\ n \in Nat
    BY <1>1, <1>5
  <2>2. /\ new \in Slot
        /\ new.session = old.session /\ new.inputSize = old.inputSize
        /\ new.hasState = old.hasState /\ new.stateSize = old.stateSize
        /\ new.state.size = old.state.size
        /\ old.hasState /\ StateOutSize(old) = old.stateSize /\ old.state.runs \in Nat
             => new.state.runs = old.state.runs + 1
    BY <2>1, AfterRunSlot
  <2>3. model' = [model EXCEPT ![at] = new] /\ runs' = [runs EXCEPT ![at] = n + 1]
    BY <1>5
  <2>4. old.hasState /\ StateOutSize(old) = old.stateSize => old.state.runs = n
    BY <1>2, <1>5
  <2> HIDE DEF new, old, n
  <2>5. /\ model'[at] = new /\ runs'[at] = n + 1
        /\ \A r \in Stages : r # at => model'[r] = model[r] /\ runs'[r] = runs[r]
    BY <1>1, <1>5, <2>3
  <2>6. model' \in [Stages -> Slot] /\ runs' \in [Stages -> Nat]
    <3>1. model' \in [Stages -> Slot]
      BY <1>1, <2>2, <2>3
    <3>2. n + 1 \in Nat
      BY <2>1
    <3>3. runs' \in [Stages -> Nat]
      BY <1>1, <2>3, <3>2
    <3> QED
      BY <3>1, <3>3
  <2>7. SlotInv(new, Files[at])
    BY <2>1, <2>2 DEF SlotInv, Describes, IsLoaded
  <2>8. StateOutSize(new) = StateOutSize(old) /\ IsLoaded(new)
    BY <2>1, <2>2 DEF StateOutSize, IsLoaded
  <2>9. new.hasState /\ StateOutSize(new) = new.stateSize => new.state.runs = n + 1
    BY <2>1, <2>2, <2>4, <2>8
  <2>10. StateFollowsRuns'
    BY <1>2, <2>5, <2>9 DEF StateFollowsRuns
  <2> QED
    BY <1>1, <2>5, <2>6, <2>7, <2>10
<1> QED
  BY <1>3, <1>4, <1>5 DEF SlotsStep
-----------------------------------------------------------------------------
(* In which stage a frame is, and what it carries.                            *)
LEMMA StepTypes ==
  ASSUME IInv, [Next]_vars
  PROVE  /\ at' \in 0 .. Len(Kinds) + 1
         /\ gateByVad' \in BOOLEAN
         /\ ctx' \in [size : Nat, vad : Nat, score : Nat, gatedBy : Nat]
         /\ frames' \in Nat
         /\ outcome' \in {"none", "running", "returned", "threw", "bad frame"}
         /\ rejected' \subseteq Stages
<1> DEFINE last == Len(Kinds)
           Contexts == [size : Nat, vad : Nat, score : Nat, gatedBy : Nat]
<1>1. /\ last \in Nat /\ at \in 0 .. last + 1 /\ frames \in Nat
      /\ at \in Stages => at \in 1 .. last
  BY StagesAre DEF IInv, TypeOK
<1>2. /\ ctx \in Contexts
      /\ outcome \in {"none", "running", "returned", "threw", "bad frame"}
      /\ rejected \subseteq Stages /\ gateByVad \in BOOLEAN
  BY DEF IInv, TypeOK
<1> USE DEF Next, vars
<1>8. gateByVad' \in BOOLEAN
  <2>1. gateByVad' = gateByVad \/ gateByVad' \in BOOLEAN
    BY DEF LoadModel, ProcessFrame, Passthrough, RunThrowsOut, OutputThrowsOut, RunStage, Return
  <2> QED
    BY <1>2, <2>1
<1>3. at' \in 0 .. last + 1
  <2>1. at' \in {0, 1, at} \/ (at \in Stages /\ at' = at + 1)
    BY DEF LoadModel, ProcessFrame, Passthrough, RunThrowsOut, OutputThrowsOut, RunStage, Return
  <2> HIDE DEF last
  <2>2. /\ 0 \in 0 .. last + 1 /\ 1 \in 0 .. last + 1
        /\ at \in Stages => at + 1 \in 0 .. last + 1
    BY <1>1
  <2> QED
    BY <1>1, <2>1, <2>2
<1>4. frames' \in Nat
  <2>1. frames' \in {frames, frames + 1}
    BY DEF LoadModel, ProcessFrame, Passthrough, RunThrowsOut, OutputThrowsOut, RunStage, Return
  <2>2. frames + 1 \in Nat
    BY <1>1
  <2> QED
    BY <1>1, <2>1, <2>2
<1>5. outcome' \in {"none", "running", "returned", "threw", "bad frame"}
  BY <1>2
     DEF LoadModel, ProcessFrame, Passthrough, RunThrowsOut, OutputThrowsOut, RunStage, Return
<1>6. rejected' \subseteq Stages
  BY <1>2
     DEF LoadModel, ProcessFrame, Passthrough, RunThrowsOut, OutputThrowsOut, RunStage, Return
<1>7. ctx' \in Contexts
  <2>1. \/ ctx' \in {ctx, [ctx EXCEPT !.vad = frames], [ctx EXCEPT !.score = frames],
                     [ctx EXCEPT !.gatedBy = ctx.vad]}
        \/ \E size \in FrameSizes : ctx' = NewContext(size)
        \/ /\ Kinds[at] = "denoise" /\ ~Unusable(at)
           /\ ctx' = [ctx EXCEPT !.size = OutputSize(model[at])]
    BY DEF LoadModel, ProcessFrame, Passthrough, RunThrowsOut, OutputThrowsOut, RunStage, Return
  <2>2. Kinds[at] = "denoise" /\ ~Unusable(at) => OutputSize(model[at]) = ctx.size
    BY DEF Unusable
  <2>3. \A size \in FrameSizes : NewContext(size) \in Contexts
    BY PipelineAssumption DEF NewContext, Unset
  <2> QED
    BY <1>1, <1>2, <2>1, <2>2, <2>3
<1> QED
  BY <1>3, <1>4, <1>5, <1>6, <1>7, <1>8

(* A run leaves a model where it is.                                          *)
LEMMA LoadedStays ==
  ASSUME model \in [Stages -> Slot], at \in Stages,
         model' = [model EXCEPT ![at] = AfterRun(@)]
  PROVE  \A s \in Stages : IsLoaded(model'[s]) <=> IsLoaded(model[s])
<1>1. AfterRun(model[at]).session = model[at].session
  BY AfterRunSlot
<1>2. \A s \in Stages : model'[s] = IF s = at THEN AfterRun(model[at]) ELSE model[s]
  OBVIOUS
<1> QED
  BY <1>1, <1>2 DEF IsLoaded

LEMMA StepMidway ==
  ASSUME IInv, [Next]_vars
  PROVE  Midway'
<1>1. /\ at \in 0 .. Len(Kinds) + 1 /\ frames \in Nat
      /\ ctx \in [size : Nat, vad : Nat, score : Nat, gatedBy : Nat]
      /\ model \in [Stages -> Slot]
      /\ Len(Kinds) \in Nat /\ Stages = 1 .. Len(Kinds)
  BY StagesAre DEF IInv, TypeOK
<1>2. /\ outcome = "running" <=> at # 0
      /\ at # 0 => /\ ctx.size = FrameSize /\ ctx.gatedBy = Unset
                   /\ ctx.vad = IF Among(at - 1, "vad") THEN frames ELSE Unset
                   /\ ctx.score = IF Among(at - 1, "speaker_isolation") THEN frames ELSE Unset
  BY DEF IInv, Midway
<1>3. ASSUME NEW s \in Stages, NEW file \in Files[s], LoadModel(s, file) PROVE Midway'
  BY <1>2, <1>3 DEF LoadModel, Midway
<1>4. ASSUME NEW size \in FrameSizes, NEW gate \in BOOLEAN, ProcessFrame(size, gate)
      PROVE  Midway'
  <2>1. CASE size = FrameSize
    <3>1. /\ at' = 1 /\ ctx' = NewContext(size) /\ outcome' = "running"
      BY <1>4, <2>1 DEF ProcessFrame
    <3>2. /\ ctx'.size = FrameSize /\ ctx'.vad = Unset /\ ctx'.gatedBy = Unset
          /\ ctx'.score = Unset
      BY <2>1, <3>1 DEF NewContext
    <3>3. ~Among(at - 1, "vad")' /\ ~Among(at - 1, "speaker_isolation")'
      BY <1>1, <3>1 DEF Among
    <3> QED
      BY <3>1, <3>2, <3>3 DEF Midway
  <2>2. CASE size # FrameSize
    BY <1>4, <2>2 DEF ProcessFrame, Midway
  <2> QED
    BY <2>1, <2>2
<1>5. CASE Passthrough
  <2>1. /\ at \in Stages /\ ~IsLoaded(model[at]) /\ at' = at + 1 /\ at # 0
        /\ model' = model /\ ctx' = ctx /\ frames' = frames /\ outcome' = outcome
    BY <1>1, <1>5 DEF Passthrough
  <2>2. /\ Among(at - 1, "vad")' <=> Among(at - 1, "vad")
        /\ Among(at - 1, "speaker_isolation")' <=> Among(at - 1, "speaker_isolation")
    BY <1>1, <2>1 DEF Among
  <2> QED
    BY <1>1, <1>2, <2>1, <2>2 DEF Midway
<1>6. CASE RunThrowsOut \/ OutputThrowsOut
  BY <1>6 DEF RunThrowsOut, OutputThrowsOut, Midway
<1>7. CASE RunStage
  <2>1. /\ at \in Stages /\ IsLoaded(model[at]) /\ ~Unusable(at) /\ at' = at + 1 /\ at # 0
        /\ model' = [model EXCEPT ![at] = AfterRun(@)]
        /\ frames' = frames /\ outcome' = outcome
        /\ ctx' = CASE Kinds[at] = "vad" -> [ctx EXCEPT !.vad = frames]
                    [] Kinds[at] = "denoise" -> [ctx EXCEPT !.size = OutputSize(model[at])]
                    [] OTHER -> [ctx EXCEPT !.score = frames]
    BY <1>1, <1>7 DEF RunStage
  <2>2. \A s \in Stages : IsLoaded(model'[s]) <=> IsLoaded(model[s])
    BY <1>1, <2>1, LoadedStays
  <2>3. /\ ctx'.size = FrameSize /\ ctx'.gatedBy = Unset
        /\ ctx'.vad = IF Kinds[at] = "vad" THEN frames ELSE ctx.vad
        /\ ctx'.score = IF Kinds[at] = "speaker_isolation" THEN frames ELSE ctx.score
    <3>1. CASE Kinds[at] = "vad"
      BY <1>1, <1>2, <2>1, <3>1
    <3>2. CASE Kinds[at] = "denoise"
      <4>1. OutputSize(model[at]) = ctx.size
        BY <2>1, <3>2 DEF Unusable
      <4> QED
        BY <1>1, <1>2, <2>1, <3>2, <4>1
    <3>3. CASE Kinds[at] # "vad" /\ Kinds[at] # "denoise"
      <4>1. Kinds[at] = "speaker_isolation"
        BY <2>1, <3>3, PipelineAssumption DEF Stages
      <4> QED
        BY <1>1, <1>2, <2>1, <3>3, <4>1
    <3> QED
      BY <3>1, <3>2, <3>3
  <2>4. /\ Among(at - 1, "vad")' <=> (Among(at - 1, "vad") \/ Kinds[at] = "vad")
        /\ Among(at - 1, "speaker_isolation")'
             <=> (Among(at - 1, "speaker_isolation") \/ Kinds[at] = "speaker_isolation")
    <3>0. at' - 1 = at
      BY <1>1, <2>1
    <3>1. \A s \in Stages : s =< at <=> (s =< at - 1 \/ s = at)
      BY <1>1, <2>1
    <3>2. /\ Among(at - 1, "vad")'
               <=> \E s \in Stages : s =< at /\ Kinds[s] = "vad" /\ IsLoaded(model[s])
          /\ Among(at - 1, "speaker_isolation")'
               <=> \E s \in Stages :
                     s =< at /\ Kinds[s] = "speaker_isolation" /\ IsLoaded(model[s])
      BY <2>2, <3>0 DEF Among
    <3> QED
      BY <2>1, <3>1, <3>2 DEF Among
  <2>5. at' # 0
    BY <1>1, <2>1
  <2> QED
    BY <1>2, <2>1, <2>3, <2>4, <2>5 DEF Midway
<1>8. CASE Return
  BY <1>8 DEF Return, Midway
<1>9. CASE UNCHANGED vars
  BY <1>9 DEF IInv, vars, Midway, Among
<1> QED
  BY <1>3, <1>4, <1>5, <1>6, <1>7, <1>8, <1>9 DEF Next

LEMMA StepIInv == IInv /\ [Next]_vars => IInv'
<1> SUFFICES ASSUME IInv, [Next]_vars PROVE IInv'
  OBVIOUS
<1>1. /\ model' \in [Stages -> Slot] /\ runs' \in [Stages -> Nat]
      /\ \A s \in Stages : SlotInv(model'[s], Files[s])
      /\ StateFollowsRuns'
  BY NextSlots, StepSlots
<1> QED
  BY <1>1, StepTypes, StepMidway DEF IInv, TypeOK

(* IInv holds of every state there is.                                        *)
THEOREM Inductive == Spec => []IInv
BY InitIInv, StepIInv, PTL DEF Spec

(* The slots, the frame and the counters have their types: the sizes that     *)
(* load() takes from a file are never negative (onnx_model.cpp:44-55).        *)
THEOREM TypeCorrect == Spec => []TypeOK
<1>1. IInv => TypeOK
  BY DEF IInv
<1> QED
  BY <1>1, Inductive, PTL

(* Whatever was loaded before, a loaded slot describes its own file           *)
(* (onnx_model.cpp:25-98).                                                    *)
THEOREM SlotIsItsFile == Spec => []SlotDescribesSession
<1>1. IInv => SlotDescribesSession
  BY Zenon DEF IInv, SlotInv, Describes, SlotDescribesSession
<1> QED
  BY <1>1, Inductive, PTL

(* The recurrent state has every run since the load, once, lost frames        *)
(* included (onnx_model.cpp:146-152).                                         *)
THEOREM StateHasEveryRun == Spec => []StateFollowsRuns
<1>1. IInv => StateFollowsRuns
  BY DEF IInv
<1> QED
  BY <1>1, Inductive, PTL
-----------------------------------------------------------------------------
(* The "output" tensor of a file that keeps the contract is the one run() reads. *)
LEMMA ContractOutput ==
  ASSUME NEW m \in Slot, m.session \in ModelFiles, Accepted(m.session),
         NEW k \in DOMAIN m.session.outputs, m.session.outputs[k].name = "output"
  PROVE  OutputSize(m) = m.session.outputs[k].count
<1> DEFINE file == m.session
           t == Tensor(AllOutputs(file), "output")
<1>1. OutputsRead(file) = AllOutputs(file)
  BY AllRead DEF Accepted
<1>2. t \in AllOutputs(file) /\ t.name = "output"
  BY TensorFound DEF Accepted
<1> HIDE DEF t
<1>3. PICK j \in DOMAIN file.outputs : t = file.outputs[j]
  BY <1>2 DEF AllOutputs
<1>4. t = file.outputs[k]
  BY <1>2, <1>3 DEF ModelFiles, TensorLists
<1> QED
  BY <1>1, <1>4 DEF OutputSize, t

LEMMA ContractHolds ==
  ASSUME IInv, at \in Stages, IsLoaded(model[at]), KeepsContract(model[at].session, Kinds[at]),
         at # 0
  PROVE  ~RunThrows(model[at], ctx.size) /\ ~Unusable(at)
<1> DEFINE m == model[at]
           file == m.session
<1>1. /\ m \in Slot /\ file \in Files[at] /\ Accepted(file) /\ Describes(m)
      /\ ctx.size = FrameSize
  BY DEF IInv, TypeOK, SlotInv, Midway
<1>2. file \in ModelFiles
  BY <1>1, PipelineAssumption DEF Stages
<1>3. file.runs /\ m.inputSize = FrameSize
  BY <1>1 DEF Describes, KeepsContract
<1>4. ~RunThrows(m, ctx.size)
  BY <1>1, <1>3 DEF RunThrows
<1>5. PICK k \in DOMAIN file.outputs :
        /\ file.outputs[k].name = "output"
        /\ IF Kinds[at] = "denoise" THEN file.outputs[k].count = FrameSize
                                    ELSE file.outputs[k].count > 0
  BY DEF KeepsContract
<1>6. OutputSize(m) = file.outputs[k].count
  BY <1>1, <1>2, <1>5, ContractOutput
<1>7. ~Unusable(at)
  <2> DEFINE size == OutputSize(model[at])
  <2>1. /\ Kinds[at] = "denoise" => size = FrameSize
        /\ Kinds[at] # "denoise" => size > 0
    BY <1>5, <1>6
  <2>2. Unusable(at) <=> \/ Kinds[at] = "denoise" /\ size # FrameSize
                         \/ Kinds[at] # "denoise" /\ size = 0
    BY <1>1 DEF Unusable
  <2> HIDE DEF size
  <2>3. ~(0 > 0)
    OBVIOUS
  <2> QED
    BY <2>1, <2>2, <2>3
<1> QED
  BY <1>4, <1>7

(* A frame of the right size is lost only to a stage with a model that breaks *)
(* the contract, whatever else is or was loaded (pipeline.cpp:38-69 and       *)
(* onnx_model.cpp:104-152).                                                   *)
THEOREM ThrowsJustified == Spec => ThrowsOnlyOffContract
<1>1. IInv /\ [Next]_vars
        => [outcome = "running" /\ outcome' = "threw" =>
              IsLoaded(model[at]) /\ ~KeepsContract(model[at].session, Kinds[at])]_vars
  <2> SUFFICES ASSUME IInv, Next, outcome = "running", outcome' = "threw"
               PROVE  IsLoaded(model[at]) /\ ~KeepsContract(model[at].session, Kinds[at])
    BY DEF vars
  <2>1. RunThrowsOut \/ OutputThrowsOut
    BY DEF Next, LoadModel, ProcessFrame, Passthrough, RunStage, Return
  <2>2. /\ at \in Stages /\ IsLoaded(model[at])
        /\ RunThrows(model[at], ctx.size) \/ Unusable(at)
    BY <2>1 DEF RunThrowsOut, OutputThrowsOut
  <2>3. at # 0
    BY DEF IInv, Midway
  <2> QED
    BY <2>2, <2>3, ContractHolds
<1> QED
  BY <1>1, Inductive, PTL DEF Spec, ThrowsOnlyOffContract

(* What is returned has the size it was given, and the probability and the    *)
(* score of this very frame, 1.0 only when no stage of the kind has a model;  *)
(* it is gated by that probability exactly when that was asked for            *)
(* (pipeline.cpp:89-109).                                                     *)
THEOREM ReturnsCurrent == Spec => ReturnsThisFrame
<1> DEFINE Current(kind) ==
             IF \E s \in Stages : Kinds[s] = kind /\ IsLoaded(model[s]) THEN frames ELSE Unset
<1>1. IInv /\ [Next]_vars
        => [outcome = "running" /\ outcome' = "returned" =>
              /\ ctx'.size = FrameSize
              /\ ctx'.vad = Current("vad")
              /\ ctx'.score = Current("speaker_isolation")
              /\ ctx'.gatedBy = IF gateByVad THEN Current("vad") ELSE Unset]_vars
  <2> SUFFICES ASSUME IInv, Next, outcome = "running", outcome' = "returned"
               PROVE  /\ ctx'.size = FrameSize
                      /\ ctx'.vad = Current("vad")
                      /\ ctx'.score = Current("speaker_isolation")
                      /\ ctx'.gatedBy = IF gateByVad THEN Current("vad") ELSE Unset
    BY DEF vars
  <2>1. Return
    BY DEF Next, LoadModel, ProcessFrame, Passthrough, RunThrowsOut, OutputThrowsOut, RunStage
  <2>2. /\ at = Len(Kinds) + 1 /\ at # 0
        /\ ctx' = IF gateByVad THEN [ctx EXCEPT !.gatedBy = ctx.vad] ELSE ctx
    BY <2>1, StagesAre DEF Return
  <2>3. /\ ctx \in [size : Nat, vad : Nat, score : Nat, gatedBy : Nat]
        /\ ctx.size = FrameSize /\ ctx.gatedBy = Unset
        /\ ctx.vad = IF Among(at - 1, "vad") THEN frames ELSE Unset
        /\ ctx.score = IF Among(at - 1, "speaker_isolation") THEN frames ELSE Unset
    BY <2>2 DEF IInv, TypeOK, Midway
  <2>4. ASSUME NEW kind
        PROVE  Among(at - 1, kind) <=> \E s \in Stages : Kinds[s] = kind /\ IsLoaded(model[s])
    <3>1. \A s \in Stages : s =< at - 1
      BY <2>2, StagesAre
    <3> QED
      BY <3>1 DEF Among
  <2>5. ctx.vad = Current("vad") /\ ctx.score = Current("speaker_isolation")
    BY <2>3, <2>4
  <2> HIDE DEF Current
  <2> QED
    BY <2>2, <2>3, <2>5
<1> QED
  BY <1>1, Inductive, PTL DEF Spec, ReturnsThisFrame
=============================================================================
