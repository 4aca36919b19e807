# A specification of DeNoise

TLA+ modules, TLC configurations and TLAPS proofs for DeNoise: the C++ core
(`core/`), the three platform front ends (`platform/`) and the command-line tool
(`tools/`). Every definition that stands for code is translated from the source;
`PROJECT.json` ("map") says which lines.

## The system

Audio is captured in blocks whose size the operating system chooses, cut into
frames of a fixed size, sent frame by frame through a pipeline of optional ONNX
models, and handed back in blocks of whatever size is asked for.

| Component | State | Operations | Who calls it |
|---|---|---|---|
| `RingBuffer` (`core/audio/ring_buffer.cpp`) | slots, two free-running indexes | `push`, `pop`, `clear`, `availableToRead/Write` | one producer and one consumer thread |
| `Framer`, `OverlapAdder` (`core/audio/framer.cpp`) | buffered samples; overlap tail | `push`, `tryGetFrame`; `addFrame` | one thread |
| `LinearResampler` (`core/audio/resampler.cpp`) | fractional phase, pending samples | `process` | the CLI, per file |
| `OnnxModel` (`core/inference/onnx_model.cpp`) | session, tensor names and sizes, recurrent state | `load`, `run`, `resetState` | `Stage` |
| `Stage`, `DenoisePipeline` (`core/pipeline/pipeline.cpp`) | stages with a model slot each | `loadModel`, `processFrame` | front ends |
| PipeWire filter (`platform/linux`) | framer, output ring | `main` up to its exit status, process callback, signal handler | the user, the PipeWire main loop |
| `ApoProcessor` (`platform/windows`) | two rings, framer, `running_`, worker thread | `processInPlace`, `start`, `stop`, `load*Model` | realtime thread, worker thread, control thread |
| macOS driver (`platform/macos`) | property table, reference count, two rings, worker thread | the AudioServerPlugIn vtable | coreaudiod's threads |
| `denoise_cli` (`tools/denoise_cli`) | none between runs | `main`, WAV reader and writer | the user |

How they interact: the PipeWire filter is single-threaded - the callback pushes a
quantum into the framer, runs the pipeline on every whole frame, pushes the result
into a ring and pops a quantum from it. The Windows processor and the macOS driver
run the pipeline on a worker thread between two rings, so that the realtime thread
never waits. The CLI composes reader, resampler, framer, pipeline, resampler and
writer in sequence.

What is hard here: the memory accesses of two threads in the ring and the wrap of
its indexes; quanta that change from one callback to the next; underruns that pad
with silence in the middle of a frame; the ignored results of `push`; `stop()`
against a worker that may be inside the pipeline, restarts that find old samples or
follow a start that failed to create its thread; a `load()` that gives up half way; an exception after a
model's recurrent state has advanced; chunk boundaries in the framer and the
resampler; sizes taken from a file.

What makes each part correct:

- **RingBuffer**: it is a bounded FIFO for every interleaving; no slot is written
  while it may be read; no unsigned subtraction underflows.
- **Framer / OverlapAdder**: frames depend on the stream and not on how it was cut;
  what overlap-add hands out is final.
- **LinearResampler**: chunking changes nothing; nothing determinable is held back.
- **OnnxModel / Pipeline**: a slot describes its file alone; the recurrent state has
  each run once; only a model that breaks the contract throws; a frame that is
  returned has the size it was given, and its probability, score and gate are its own;
  a failed load leaves passthrough.
- **PipeWire filter**: it runs with all the models it was asked for or not at all; the
  delay is less than a frame and equals the silence inserted; nothing is lost; the
  output is the input delayed; a signal ends it.
- **ApoProcessor**: the output is the input delayed, the account of delay and loss, no
  worker after `stop()`, `stop()` returns, no captured sample stays behind for ever.
- **macOS driver**: the property calls agree with each other and describe a tree of
  objects; one worker while the IO runs, unless it could not be created, and none once
  the last client has stopped it or the driver is destroyed.
- **CLI, WAV**: nothing outside the file is decoded; the output is the resampled
  input, all channels averaged, but for less than a frame; an output file appears only
  after the last frame; the tool reads back what it wrote, with one exception; it ends,
  whatever sizes the file claims.

## Modules

| Module | Models | Correspondence |
|---|---|---|
| `BoundedFifo` | what `ring_buffer.h` promises | abstract: `push`, `pop`, `clear` are one step each |
| `DelayedStream` | what a front end owes its listener | abstract: a block is captured, a block is heard whose end may be silence, or samples on the way are lost and counted; `InOrder`, `Past` and `FromFlight` say what that means to a listener |
| `RingBuffer` | `ring_buffer.cpp` | a step is one load or store of an index or one slot copy; `producer.pc`/`consumer.pc` are where each thread is in its call; `seen` is the last index a thread has loaded; `Visible` is what an acquire load may return |
| `SampleStream` | operators the front ends share | a sample is its position in the captured stream; `Accepted`, `First`, `Rest` are a ring at rest, `NextPowerOfTwo` its capacity |
| `Framing` | `framer.cpp` | `Push`, `TryGetFrame`, `AddFrame` |
| `Resampler` | `resampler.cpp` | `Process`; positions are integers in units of `1/outputRate` |
| `OnnxModel` | `onnx_model.cpp` | no variables: `Load`, `AfterRun` give the slot after the operation; each exit of `load()` keeps what was assigned before it; an output has the number of elements a run yields, whatever shape it declares |
| `Pipeline` | `pipeline.cpp` | a step is a `loadModel` or one stage's part of `processFrame`; the probability and the score in `ctx` are the frame whose run set them |
| `PipeWireFilter` | `denoise_pipewire_filter.cpp` | `pc` is where `main()` is; a step of the start is the argument loop, one model binding or the connection; a step of the callback is its beginning, a turn of its loop, or its end; a signal waits in `quit` until the loop gets to it |
| `ApoProcessor` | `denoise_apo_processor.cpp` | three threads; each ring call is a load step and a publish step; `StartThrows` is a `start()` whose thread cannot be created |
| `DenoiseCli` | `main.cpp`, `wav_io.cpp` | a step is one chunk of the input, one frame, or a call between them; each way out of `main()` sets `exit`; the tool may run again on its own output; uses the operators of `Resampler` for each pair of rates; a sample is a whole number of units of a quarter of a 16-bit step, and an average of channels and an interpolated sample are rounded down to a unit; a file is its length and the chunk header at each position, a `data` chunk the samples it decodes to in each encoding |
| `MacDriver` | `DeNoiseAudioDriver.cpp` | `plugIn` is the life of the bundle, from the factory to the destructor of the static `Driver`; one thread of coreaudiod asks `HasProperty`, `IsPropertySettable`, `GetPropertyDataSize`, `GetPropertyData` in turn, one makes `StartIO`/`StopIO` for its clients, and the worker loops; `CreateFails` is a `StartIO` whose thread cannot be created, which `failed` remembers for the properties; a value is its size and the objects it names |
| `MC*` | constants for TLC | |
| `X_proofs` | theorems about `X`, for each of `RingBuffer`, `SampleStream`, `PipeWireFilter`, `ApoProcessor`, `MacDriver`, `Framing`, `Pipeline`, `DenoiseCli` | extends `X`, and `SampleStream_proofs` where it needs lemmas on sequences; `DenoiseCli_proofs` also has the resampler |

`PipeWireFilter` and `ApoProcessor` use the ring as the queue that `RingBuffer`
is shown to implement, and treat the pipeline as a function on frames that keeps
their size or throws, which `Pipeline` justifies (`ReturnsThisFrame`,
`ThrowsOnlyOffContract`). Both are shown to implement `DelayedStream`, through the
mapping that lists what is captured and not yet heard, in both rings, the framer and
the locals of the threads.

Some definitions come with a *fault* next to them: the same definition with a
plausible bug. They are not part of any specification; `PROJECT.json` ("mutants")
pairs each with the property that catches it.

## What TLC checks

| Run | Shows | Bounds, and why they are enough |
|---|---|---|
| `ring_buffer` | type, no data race, indexes in step, refinement of `BoundedFifo`; no call waits for the other thread | capacity 2, indexes wrap at 8 (four laps), all batches up to 3 of two sample values (more than the capacity), pops of 1 and 3; no bound on the length of a behaviour |
| `framing` | frames follow the stream; overlap-add is final | frame 5, every hop 1..5, chunks 0..6, 24 samples: several frames overlap at every hop, dividing or not |
| `resampler` | chunking does not matter; nothing held back | eight rate pairs, chunks 0..5, 40 samples; 7:1 and 7:2 reach the clamp |
| `pipeline` | what a slot holds and its state follows after any sequence of loads and frames; when a frame throws; what a returned frame carries | the front ends' three stages; twelve files, one for each way `load()` and `Session::Run` can end, for the denoise stage, two for each neighbour; loads between frames, 3 frames: enough for something to be left over from the first, an exception in between included; gated or not, each frame anew |
| `pipewire_filter` | start with every model or not at all; delay, loss, refinement of `DelayedStream`; a signal ends the filter | frame 3, capacity 32, every quantum 0..30 that fits, 40 samples: the ring is filled to within a frame of its capacity; a command line for each way through `main()`, with models missing, good and refused |
| `apo_processor` | refinement of `DelayedStream`, delay, loss, no worker after stop; `stop()` returns; every sample is taken | frame 2, rings of 4, quanta 1 and 3, 10 samples: both rings overflow and run dry, restarts, and starts that fail, at every point |
| `mac_driver` | the property calls agree; the objects form a tree; one worker while the IO runs, unless it could not be created, and none left at exit; `StopIO` returns | every selector the driver knows and one it does not, the three objects and an unknown one, buffers of 0, 4, 8 and 40 bytes: below and at each size; two clients, so that one stops what the other started; two references; two answers kept at a time, which is what `ObjectsFormTree` compares |
| `denoise_cli` | what is decoded, what is written and when, a second pass over the output; `main()` returns | scale 8 for 2^15 and sizes that wrap at 32 for 2^32, nineteen files (each check of `readWav` fails on one; one to three channels, odd and truncated chunks, a second `data` chunk), rates 0, 1 and 2, frames of 0, 2 and 3, command lines that are incomplete or have a malformed number; two runs, the second over every output of the first: the longest has 18 samples, so its size wraps with a chunk header's worth of samples behind; `Buffered` = 48 bytes, so closing may lose anything from a byte to the whole of a short file; `Spellings`: the samples behind a wrapped size spell nothing, a `data` header or a `fmt ` header |
| `failed_load`, `shapes_at_load`, `large_quantum`, `write_error` | four places where the code and its documentation differ, see below | |

Deadlock checking is off only where the program really may stop: `pipewire_filter`
exits, `mac_driver` when its process does, `framing` and `resampler` at the end of
the stream, and `denoise_cli` when `main()` returns.

**Fairness.** `ApoProcessor` assumes weak fairness of the worker thread (the
operating system runs it; it never blocks, its sleep is 5 ms) and of the return of
`join()` once the thread has ended. Nothing is assumed of the realtime thread or of
the host. `MacDriver` assumes the same of its worker and its `join()`.
`PipeWireFilter` assumes that a callback runs to its end, and strong fairness of the
dispatch of a signal: each turn of the PipeWire loop dispatches every source that is
ready, so callbacks cannot overtake a signal for ever, although between two of them
the signal is not always enabled. `DenoiseCli` assumes that a program that was
started runs on. `RingBuffer` states no fairness in its specification, since nobody
promises that either thread is scheduled; `WaitFree` has the assumption inside: if
one thread keeps taking its steps, its call returns, whatever the other does.
`Framing`, `Resampler` and `Pipeline` are checked for safety only.

### Where code and documentation differ

- `failed_load`: `Stage::loadModel` returns false for a model of the wrong frame
  size (`pipeline.cpp:27`) but leaves it in the slot; `pipeline.h:34-35` promises
  passthrough.
- `shapes_at_load`: the size of the output tensor is first looked at when a frame is
  processed (`pipeline.cpp:52`); `docs/MODELS.md:92-93` promises validation at load.
- `large_quantum`: a quantum larger than the ring less a frame makes
  `outputRing.push` drop samples (`denoise_pipewire_filter.cpp:74`); the comment at
  line 165 says the ring can never be the bottleneck. `pipewire_filter` and
  `NothingDropped` below say for which quanta that is true.
- `write_error`: when a write fails, `writeWav` returns `f.good()` without a reason
  (`wav_io.cpp:202`); `wav_io.h:21` says that it sets `*errorOut`, which is all that
  `main()` prints.

More facts of the code show in the model without a documented promise against
them. The stream is flushed by its destructor, after `f.good()` was returned, so a
failure then goes unnoticed (`CloseFails`), whatever part of the file was still in the
buffer. And `dataSize` is a `uint32_t`, so an output of 2^31 samples or more declares
fewer than it has (`DataSize`). `SecondPassIsFaithful` covers both: a file that is cut
off is refused, never read in part, and one whose size has wrapped is read up to that
size. The exception is `Misleads`: the walk of `readWav` goes on behind the wrapped size,
among samples, and where their bytes read `fmt ` or `data` with a size that fits
(`wav_io.cpp:72` and `86`) it takes them for a header and forgets the one it had. The
run reaches such files, and without the exception the property is violated there.

A `StartIO` whose thread cannot be created leaves `running_` set
(`DeNoiseAudioDriver.cpp:359-360`): until the next `StopIO`, every `StartIO` reports
success and nothing works on the samples (`StartIOAgain`). `ApoProcessor::start()` is
alike. `denoise_cli` ends by an uncaught exception on a number that `std::stoul` or
`std::stod` does not take (`main.cpp:84` and `88`, `MalformedNumber`). In the PipeWire filter a
model flag that ends the command line names no model and the stage passes audio
through (`denoise_pipewire_filter.cpp:125-130`), where `denoise_cli` refuses the same
command line.

Three comments do not say what the code does, and no run speaks of them:
`GetZeroTimeStamp` anchors sample time 0 at the host time of every call with the same
seed, a timeline that is reset all the time although `DeNoiseAudioDriver.cpp:296`
says it never is; `onnx_model.h:50-51` says that `run()` throws
`std::runtime_error`, but an `Ort::Exception` passes through it; `ring_buffer.h:18`
speaks of a `peek()` that does not exist.

The comment at `resampler.cpp:41-45` says that the clamp gives up a little phase
accuracy. `ChunksDoNotMatter` shows that it does not: the phase carried over is
exact.

## What is proved

Every safety property that a passing run checks, and the three refinements, for all
values of the constants that satisfy the assumption each module names; what the
listener's specification means; the constants the code itself chooses; and of most
liveness properties the half that is not about fairness: a number of steps which
every step lowers.

| Assumption | Asks for |
|---|---|
| `RingAssumption` | a positive capacity that divides the number of indexes and is smaller than it, as a power of two below 2^64 does |
| `FilterAssumption`, `ApoAssumption` | a positive frame size and, in the second, positive capacities and quanta; natural numbers otherwise |
| `FramingAssumption` | a positive frame size, hops from 1 to it |
| `ResamplerAssumption` | rates above 0 |
| `PipelineAssumption` | a positive frame size; any sequence of stages of the three kinds, and for each any set of model files |
| `DriverAssumption` | the ids of the objects differ; buffer sizes are natural numbers |
| `CliAssumption` | a positive scale and range of sizes; a stream that buffers any number of bytes |
| `InputAssumption` | header fields are natural numbers, samples are integers; a `data` chunk has, in every encoding, the samples that its size says |
| `SpellingAssumption` | the same of the chunks that written samples spell, which are behind the headers; in the encodings the tool does not write, the samples are any integers, as many as the largest size asks for |

`RingBuffer_proofs`:

- `TypeCorrect`, `InOrder`, `RaceFree`: `TypeOK`, `IndexesInStep` and `NoDataRace`
  are invariants.
- `BoundedQueue`: the ring implements `BoundedFifo` (`ImplementsFifo`).

`IndexesInStep` is not inductive: it speaks of what the indexes are, and each thread
acts on what it last saw of the other's. `InStep` says instead that a stale view only
errs on the safe side: the slots between the read index the producer has seen and
the write index, with those a `push()` in progress will fill, are at most a capacity;
and a `pop()` in progress takes no more than lies before the write index the
consumer has seen. Its steps rest on lemmas about distances on a circle of indexes
(`DistAdd`, `DistJoin`, `DistRest`): two arcs of which one continues the other add
up, whatever the wrap. `RaceFree` then follows because the slot being read and the
slot being written are less than a capacity apart and the capacity divides the
number of indexes (`SlotsDiffer`). For `BoundedQueue` the queue is what lies in the
slots between the indexes. `Copies` adds how far the two copy loops have got: the slots
behind the queue hold the head of the batch, so the store of the write index appends
the batch at one stroke; the caller of `pop()` has the head of the queue, which the
producer cannot reach (`SlotsApart`), so the store of the read index removes what
was copied. All other steps leave the queue as it is.

- `ShortOnlyWhenFull`: `push()` takes its whole batch, or all the room behind the read
  index it loaded. `ImplementsFifo` alone would allow a `push()` that takes less.
- `NobodyWaits`: a call ends within `Capacity + 1` steps of its own thread, one nearer
  with each, and no step of the other thread puts it off. It is what `WaitFree` says but
  for the assumption that the thread goes on.

`SampleStream_proofs` has lemmas that say of the operators on sequences how long their
results are, what their elements are, and how blocks split and join (`Then` is
concatenation, stated so that the provers can use it); of the moves of a stream, that
capturing behind, hearing in front and losing in between keep its order
(`MovesInOrder`); and of integer division what the resampler needs (`QuotientUnique`,
`QuotientShift`, and `TurnsAre`: how many turns a loop with a fixed increment makes).
Its theorems are about the capacity of a ring:

- `RoundsUp`: `nextPowerOfTwo()` returns a power of two, at least 2 and at least its
  argument, and less than twice it.
- `CapacityDivides`: that power divides every larger one, so the rings the code builds
  satisfy `RingAssumption`.

`NextPowerOfTwo` is a recursive function, and a choice made by `CHOOSE` has to be shown
to exist: the function that takes each `p` to the least of its doublings that is at least
`v` (`DoubleIsDefined`). The inductions it takes are stated as the existence of a least
element of a set (`LeastElement`), which follows from the well-founded order on the finite
intervals below each number. A power of two is a number that is in every
set that has 1 and, with each of its members, the double.

`PipeWireFilter_proofs`:

- `TypeCorrect`, `Latency`, `Delay`: `TypeOK`, `LatencyBounded` and `SilenceIsDelay`
  are invariants.
- `NothingDropped`: if every quantum and a frame less one fit the ring together
  (`QuantaFit`), `NoSampleDropped` is an invariant.
- `WholeStart`: `StartsWhole` is an invariant, for every command line. `StartInv` adds
  which stages the loop over the bindings has done.
- `EightFramesAreEnough`: the ring `main()` builds, eight frames rounded up to a power of
  two, satisfies `QuantaFit` for every quantum up to seven frames and one sample: for
  these `NoSampleDropped` is an invariant. `large_quantum` is a quantum beyond.
- `CallbackIsShort`: the loop of the callback starts with less than a frame and the
  quantum, and each turn takes a frame of it, so a signal waits for a few turns only.
- `StreamKept`: the filter implements `DelayedStream` (`ImplementsDelayedStream`).
- `OrderKept`, `PastForGood`, `NothingMadeUp`: what that means to a listener.
  `Heard!InOrder` is an invariant, a position that is `Heard!Past` stays so, and a new
  block satisfies `Heard!FromFlight`.

The properties of the samples are not inductive. The callback's loop moves samples
between the framer and the ring, so the invariant has to hold inside the loop as well:
`IInv` adds that what is held, plus what was dropped, is the silence inserted plus the
quantum still owed to the graph while a callback is in progress. The bound on the
latency then follows from the guard of the two ends of the callback: the framer has
less than a frame, and the ring is either empty or was brought back to what it held
before. For the refinement, what is on its way is the ring and behind it the framer:
the beginning of a callback captures a block, its end emits one, and a turn of its loop
either changes nothing that is heard or loses the part of a frame that did not fit.

A step of `DelayedStream` says what is heard next; that nothing is ever heard twice or
out of order is a fact about all its behaviours together. `InOrder` is inductive: what
is on its way is strictly increasing and lies within what was captured, and each sample
of the block heard last is before all of it. `Past(p)` says that nothing at or before
`p` can come any more, so together the three theorems say that no sample is heard twice,
out of order, or without having been captured.

`ApoProcessor_proofs`:

- `WorkerGone`: `WorkerGoneWhenStopped` is an invariant. `ControlInv` adds that a worker
  ends only after `running_` was cleared, that models are loaded while it is clear, and
  that only `stop()` can find it clear with a worker still there.
- `TypeCorrect`, `DelayAccounted`, `DelayHasBound`, `LossesEarned`: `TypeOK`,
  `DelayIsSilence`, `DelayBounded` and `LossOnlyAfterUnderrun` are invariants.
- `SixteenFrames`: with the rings the constructor builds, the last two bounds in frames.
- `StopWaitsForSixSteps`: once `running_` is cleared, the worker ends in at most six
  steps, whatever is in the rings and whatever the realtime thread still puts there: a turn
  of its loop takes at most a frame from the ring and so finishes at most one.
- `StreamKept`: the processor implements `DelayedStream`.
- `OrderKept`, `PastForGood`, `NothingMadeUp`: as for the filter, through any number of
  `stop()` and `start()`.

`DelayIsSilence` and `DelayBounded` are stated for the moments between two calls of the
realtime thread, but the worker moves samples at any moment, and loses them too. `IInv` therefore has to hold between the load and the store of every ring call:
`RealtimeInv` and `WorkerInv` say that a count which was fixed by a load still fits when
it is stored, because the other thread has only made more room or put in more samples;
`Account` counts the block whose `push()` has not stored yet; `Bounded` allows for what
the call in progress will still take out; `Losses` says that a loss is certain, and
earned, from the load on that found too little room, before the store that counts it.
All of it needs `ControlInv`: a second worker beside one that has a frame in its hands
would lose that frame without a count. For the refinement the five places a sample may
be in are one line (`InLine`): output ring, frame of the worker, framer, input ring,
block of the realtime thread. A step moves a boundary in it, extends it, takes from its
front, or leaves out a piece that is counted as dropped.

`Framing_proofs`:

- `FramesInOrder`, `ReadyOnce`: `FramesFollowStream` and `ReadyIsFinal` are invariants.

`TailSums` says what is in the tail: each sample as many times as frames added so far
cover it. Adding a frame counts one more (`CountNext`), samples behind the last frame
have none yet (`CountNone`), and what leaves at the front is covered by no later frame,
so it has all it will ever get (`CountAll`).

`Pipeline_proofs`:

- `TypeCorrect`, `SlotIsItsFile`, `StateHasEveryRun`: `TypeOK`, `SlotDescribesSession`
  and `StateFollowsRuns` are invariants.
- `ThrowsJustified`, `ReturnsCurrent`: `ThrowsOnlyOffContract` and `ReturnsThisFrame`
  hold of every step.

`SlotInv` says of every slot that counts as loaded that its session is one of an
accepted file of its stage and that its names and sizes are those of that session; it is
proved for the parts of `load()` in the order of the code, every exit included
(`ReadInputsSlot`, `ReadOutputsSlot`, `PairStateSlot`, `ZeroStateSlot`). `Midway` says
what the context of a frame holds between two stages: its size is the frame's, and the
probability is the one a `Vad` stage before has set for this frame, so nothing is left
of an earlier one. That the size found under a name is the size of the tensor of that
name needs that a name stands for one value in a file (`TensorLists` in `OnnxModel`), as
it does in an ONNX graph.

`MacDriver_proofs`:

- `OneAnswer`, `ObjectTree`, `OneWorker`, `TypeCorrect`: `AnswersAgree`,
  `ObjectsFormTree`, `OneWorkerWhileRunning` and `TypeOK` are invariants, for any ids and
  selectors the host asks for, any buffer sizes and any number of clients.
- `StopIOWaitsForTwoSteps`: a join waits for at most two steps of the worker.

`OneWorker` speaks of a worker that is there exactly when `running_` is set and its
creation did not fail. `OneTable` shows once that `GetPropertyData` has exactly the properties `HasProperty`
claims; each fits the buffer of 256 bytes it is measured with (`SizeFitsScratch`).
The invariants add that the answers gathered so far are those the calls would give
(`QueryInv`, `ObjectsInv`), what `StartIO` and `StopIO` have half done
(`LifecycleInv`), and what the host may ask for next (`HostInv`).

`DenoiseCli_proofs`, the resampler:

- `ChunksAreNothing`, `NothingWaits`: `ChunksDoNotMatter` and `NothingHeldBack` are
  invariants of `Resampler`, for every pair of rates and every way to cut a stream.

The module has a `Resampler` of its own as an instance, `Stream`, because the tool is the
only part of the repository that resamples; its assumption is a hypothesis of the two
theorems. `StreamInv` adds where the phase stands: what was dropped from the front
of the stream, times the output rate, plus the phase, is the number of samples made
times the input rate. It holds because the clamp of `resampler.cpp:41-45` drops whole
samples and keeps the difference, and the position of a sample in the stream is then
independent of the chunk it is computed in (`QuotientShift`).

`DenoiseCli_proofs`, the tool:

- `TypeCorrect`, `DecodesInside`, `InputAtRate`, `SecondPass`: `TypeOK`,
  `DataInsideFile`, `OutputIsResampledInput` and `SecondPassIsFaithful` are invariants.
- `OutputWaits`: `OutputWaitsForFrames` holds of every step.
- `NoRunGoesOn`: every step of `main()` brings its end nearer: there are six calls in
  order, the walk over the chunks passes at least a header at each, and the loop over the
  frames at least a sample.

`CliInv` follows the file through `main()`: `ReaderInv`, the last chunks found are
chunks of the file that end inside it; `PhaseInv`, what each call may take for granted
because of the returns before it; `StreamFollows`, the output and what is left in the
framer are together the input at `--rate`; `WrittenInv` and `FilesInv`, what a file that
the tool wrote looks like; `WalkInv`, that `readWav` finds its two headers in turn and
nothing else unless the file misleads it. The sum over the channels of a frame is a
difference of two sums from the beginning of the chunk (`SumsOfPart`), which is how
`OutputIsResampledInput` states it, without saying where a frame starts; both
roundings, of the average and of the interpolation, are down and below a unit, so that a
sample is less than two units below the exact value (`AveragesInterpolated`). That a
second pass moves a sample by one step at most (`SecondStep`) is arithmetic on the
scales 2^15 and 2^15 - 1, for any scale.

Only model-checked:

- liveness: `WaitFree`, `SignalEndsFilter`, `StopReturns`, `EverySampleTaken`,
  `StopIOReturns`, `MainReturns`. That a fair step is taken when it is enabled needs
  `ENABLED`, which is out of the prover's reach. `NobodyWaits`, `CallbackIsShort`,
  `StopWaitsForSixSteps`, `StopIOWaitsForTwoSteps` and `NoRunGoesOn` prove what is
  left of each without it. `EverySampleTaken` has no such theorem: how long a sample
  stays depends on how often the realtime thread calls;
- the four runs that show a difference between code and documentation.

## Not modelled

- Sample values and what a model computes (the models are opaque); rounding of
  doubles in the resampler.
- `OnnxModel::resetState`, which nothing calls.
- In the macOS driver: `loadDenoiseModel`, which nothing calls; the calls that return a
  constant; `DoIOOperation` and the worker's way from ring to ring, because nothing
  pushes into `captureRing_` (`DeNoiseAudioDriver.h:85-95`) and only silence is ever
  read. That is why its status is "partly". `StartIO` and `StopIO` come from one thread
  at a time: two overlapping calls could assign to a joinable `std::thread`, and
  nothing in the repository says whether the host makes them. They name the device; for
  any other object id they return `kAudioHardwareBadObjectError` and change nothing
  (`DeNoiseAudioDriver.cpp:284` and `289`).
- An exception of the pipeline on the worker of `ApoProcessor`: it ends the process,
  after which there is nothing to say (`PipeWireFilter` has the same as `FrameThrows`).
- The single PipeWire calls that set up the node: together they are `Connect` or
  `ConnectFails`. `DeNoiseApo.h` (comments only).
- A fractional `--rate`: rates are integers.
- The bytes of a WAV file. What a chunk decodes to in each encoding, and which headers
  the bytes of written samples spell, is given, not computed: `Spellings` may pair
  samples with any chunk behind the headers, so there are more of these files in the
  model than the tool can write. The sum over the channels in `float` is exact.
- How many elements the output of a model has may change from run to run in ONNX; in
  `OnnxModel` the fixed sizes of the inputs make it the same in every run.
- Stale loads in `ApoProcessor`: its loads return the current index. `RingBuffer`
  has stale loads; in `ApoProcessor` they would look like a slower partner.
- What a copy past the end of a `state_out` shorter than `state_in` reads: the state is
  marked `Garbage`, and `StateFollowsRuns` says that only such a model has one.

## Plan

Done, in this order: `RingBuffer`, `SampleStream`, `PipeWireFilter` with its proofs,
`OnnxModel` and `Pipeline`, `ApoProcessor`, `Framing`, `Resampler`, `DenoiseCli`,
`MacDriver` with its proofs, the safety proofs of `RingBuffer`; then `DelayedStream`
and its two refinements, `main()` of the PipeWire filter, the life of the macOS
plug-in, the failing `start()`, liveness where there was none, and the proofs of
`WholeStart` and `WorkerGone`; then the proofs of the three refinements and of all
other safety properties that runs check; then what `DelayedStream` means, the
capacities the code chooses, and the bounds behind the liveness properties.

Left, where the tools or the repository would have to give more:

1. Liveness proofs, with a prover that handles `ENABLED`.
2. Samples on the macOS worker, once something pushes into `captureRing_`.
3. Overlapping `start()` and `stop()` of `ApoProcessor`, and fractional rates in the
   command-line tool, if they are to be supported.
