----------------------------- MODULE DenoiseCli -----------------------------
(***************************************************************************)
(* tools/denoise_cli: main() reads a WAV file, resamples it in one call,   *)
(* cuts it into frames, sends each through the pipeline and writes a WAV   *)
(* file.  A step is one chunk of the input, one frame, or one of the calls *)
(* between them; each way out of main() sets `exit'.  The tool may be run  *)
(* again on the file it wrote.                                             *)
(*                                                                         *)
(* A file is its length in bytes and, for each position, the chunk header  *)
(* one finds there.  A sample value is an integer, in units of 1/Full: a   *)
(* 16-bit sample r, which stands for r/Scale, is 4 * r of them, so that    *)
(* the average of two or of four channels and a midpoint are exact.        *)
(***************************************************************************)
EXTENDS Integers, Sequences

CONSTANTS Scale,        \* 32768: 2^15
          SizeMod,      \* number of values of a uint32_t
          Buffered,     \* most bytes a std::ofstream may keep until it is closed
          Spellings,    \* what the bytes of the samples written may spell
          InputFiles,   \* what --in may name
          Commands,     \* what parseArgs() makes of the command line
          MaxRuns       \* bound on the number of runs

ASSUME CliAssumption ==
  /\ Scale \in Nat \ {0}
  /\ SizeMod \in Nat \ {0}
  /\ Buffered \in Nat
  /\ MaxRuns \in Nat \ {0}

(* The formats and widths that readWav() decodes. *)
Encodings == {<<"pcm", 8>>, <<"pcm", 16>>, <<"pcm", 24>>, <<"pcm", 32>>, <<"float", 32>>}
Bits(encoding) == encoding[2]

(* What readWav() may find in a file: unsigned fields, and in a "data" chunk the *)
(* samples that its bytes are in each encoding.                                  *)
IsChunk(chunk) ==
  /\ chunk.size \in Nat
  /\ chunk.id = "fmt" => chunk.rate \in Nat /\ chunk.channels \in Nat /\ chunk.bits \in Nat
  /\ chunk.id = "data" =>
       \A e \in Encodings : /\ chunk.payload[e] \in Seq(Int)
                            /\ chunk.size =< Len(chunk.payload[e]) * (Bits(e) \div 8)

IsWavFile(f) ==
  /\ f.length \in Nat
  /\ \A p \in 12 .. f.length : IsChunk(f.chunks[p])

(* The chunk headers that the samples of a file spell, and what its samples are *)
(* in the encodings that the tool does not write.                               *)
ASSUME SpellingAssumption ==
  \A spelling \in Spellings :
    /\ \A p \in DOMAIN spelling.chunks : p \in Nat /\ p >= 44 /\ IsChunk(spelling.chunks[p])
    /\ spelling.readings \in [Encodings -> Seq(Int)]
    /\ \A e \in Encodings : SizeMod =< Len(spelling.readings[e]) * (Bits(e) \div 8)

ASSUME InputAssumption ==
  /\ \A f \in InputFiles : f.opens /\ f.riff => IsWavFile(f)
  /\ \A command \in Commands : command.rate \in Nat /\ command.frameSize \in Nat

VARIABLES pc,           \* where main() is
          args,         \* the command of this run
          file,         \* the file --in names
          again,        \* whether that is the file the run before wrote
          reader,       \* readWav(): pos, and the last "fmt " and "data" chunks found
          samples,      \* processingRateSamples, then what is left in the framer
          output,       \* the processed samples
          outFile,      \* what --out names: a file, or NoOutput
          exit,         \* how main() ended, or "running"
          err,          \* whether the failing call said why in *errorOut
          runs          \* runs started so far

vars == <<pc, args, file, again, reader, samples, output, outFile, exit, err, runs>>

Full == 4 * Scale
Magnitude(v) == IF v < 0 THEN -v ELSE v

NoOutput == [opens |-> FALSE]
NoChunk == [id |-> "none", size |-> 0]
NewReader == [pos |-> 12, fmt |-> NoChunk, data |-> NoChunk, start |-> 0]

Resampling(inRate, outRate) ==
  INSTANCE Resampler WITH rates <- <<inRate, outRate>>, phase <- 0, pending <- <<>>,
                          received <- 0, output <- <<>>, Rates <- {<<inRate, outRate>>},
                          Chunks <- Nat, MaxReceived <- 0

Init ==
  /\ pc = "start"
  /\ args \in Commands
  /\ file \in InputFiles
  /\ again = FALSE
  /\ reader = NewReader
  /\ samples = <<>>
  /\ output = <<>>
  /\ outFile = NoOutput
  /\ exit = "running"
  /\ err = FALSE
  /\ runs = 1

(* The ways out: a return from main(), with or without a reason in err, and an *)
(* exception that nobody catches.                                              *)
Exit(status, explained) ==
  /\ pc' = "exited"
  /\ exit' = status
  /\ err' = explained
-----------------------------------------------------------------------------
(* parseArgs(): a flag without its value, an unknown one, --help, or no --in or *)
(* --out.                                                                       *)
Usage ==
  /\ pc = "start"
  /\ args.flags = "incomplete"
  /\ Exit("usage", TRUE)
  /\ UNCHANGED <<args, file, again, reader, samples, output, outFile, runs>>

(* std::stoul and std::stod throw on what is not a number. *)
MalformedNumber ==
  /\ pc = "start"
  /\ args.flags = "malformed"
  /\ Exit("aborted", FALSE)
  /\ UNCHANGED <<args, file, again, reader, samples, output, outFile, runs>>

(* readWav() up to its loop. *)
OpenInput ==
  /\ pc = "start"
  /\ args.flags = "complete"
  /\ IF file.opens /\ file.riff
     THEN pc' = "chunks" /\ UNCHANGED <<exit, err>>
     ELSE Exit("failed", TRUE)
  /\ UNCHANGED <<args, file, again, reader, samples, output, outFile, runs>>

(* Fault: only the header has to fit. *)
HasHeader == reader.pos + 8 =< file.length

(* A header fits, and what it declares ends inside the file. *)
HasChunk ==
  /\ reader.pos + 8 =< file.length
  /\ reader.pos + 8 + file.chunks[reader.pos].size =< file.length

(* Fault: the header is not counted. *)
NextPositionPastData(chunk) == reader.pos + chunk.size + (chunk.size % 2)

NextPosition(chunk) == reader.pos + 8 + chunk.size + (chunk.size % 2)

(* One turn of the loop of readWav(). *)
ReadChunk ==
  /\ pc = "chunks"
  /\ HasChunk
  /\ LET chunk == file.chunks[reader.pos]
     IN  IF chunk.id = "fmt" /\ chunk.size < 16
         THEN Exit("failed", TRUE) /\ UNCHANGED reader
         ELSE /\ reader' = CASE chunk.id = "fmt" ->
                                  [reader EXCEPT !.pos = NextPosition(chunk), !.fmt = chunk]
                             [] chunk.id = "data" ->
                                  [reader EXCEPT !.pos = NextPosition(chunk), !.data = chunk,
                                                 !.start = reader.pos + 8]
                             [] OTHER -> [reader EXCEPT !.pos = NextPosition(chunk)]
              /\ UNCHANGED <<pc, exit, err>>
  /\ UNCHANGED <<args, file, again, samples, output, outFile, runs>>

AudioFormat ==
  IF reader.fmt.format = "extensible" /\ reader.fmt.size >= 40
  THEN reader.fmt.subFormat ELSE reader.fmt.format
Encoding == <<AudioFormat, reader.fmt.bits>>
Supported == Encoding \in Encodings

FrameBytes == (reader.fmt.bits \div 8) * reader.fmt.channels
NumFrames == reader.data.size \div FrameBytes

(* What readWav() checks after its loop; an unsupported format is only noticed *)
(* by the first sample.                                                        *)
Readable ==
  /\ reader.fmt # NoChunk
  /\ reader.data # NoChunk
  /\ reader.fmt.channels # 0
  /\ reader.fmt.bits \div 8 # 0
  /\ reader.data.size % FrameBytes = 0
  /\ Supported \/ NumFrames = 0

(* The sums of the first 0, 1, ... elements of s. *)
Sums(s) ==
  LET sum[k \in 0 .. Len(s)] == IF k = 0 THEN 0 ELSE sum[k - 1] + s[k]
  IN  sum

(* Fault: frames are a sample apart, whatever the number of channels. *)
ChannelSumOverlapping(k) ==
  LET n == reader.fmt.channels
  IN  Sums(SubSeq(reader.data.payload[Encoding], k, k + n - 1))[n]

(* The sum over the channels of frame k, which are next to each other. *)
ChannelSum(k) ==
  LET n == reader.fmt.channels
  IN  Sums(SubSeq(reader.data.payload[Encoding], (k - 1) * n + 1, (k - 1) * n + n))[n]

(* The average of the channels, rounded down to a unit. *)
Mono == [k \in 1 .. NumFrames |-> (4 * ChannelSum(k)) \div reader.fmt.channels]

EndOfChunks ==
  /\ pc = "chunks"
  /\ ~HasChunk
  /\ IF Readable
     THEN pc' = "resample" /\ samples' = Mono /\ UNCHANGED <<exit, err>>
     ELSE Exit("failed", TRUE) /\ UNCHANGED samples
  /\ UNCHANGED <<args, file, again, reader, output, outFile, runs>>
-----------------------------------------------------------------------------
(* One process() of a new resampler.  It throws unless both rates are positive. *)
Resampled(inRate, outRate) ==
  LET Value(s) == s.s0 + ((s.s1 - s.s0) * s.frac) \div outRate
  IN  [k \in 1 .. Resampling(inRate, outRate)!Determinable(Len(samples)) |->
         Value(Resampling(inRate, outRate)!Interpolated(samples, (k - 1) * inRate))]

Resample ==
  /\ pc = "resample"
  /\ LET rate == reader.fmt.rate
     IN  CASE rate = args.rate -> pc' = "load" /\ UNCHANGED <<samples, exit, err>>
           [] rate # args.rate /\ (rate = 0 \/ args.rate = 0) ->
                Exit("aborted", FALSE) /\ UNCHANGED samples
           [] OTHER -> /\ pc' = "load"
                       /\ samples' = Resampled(rate, args.rate)
                       /\ UNCHANGED <<exit, err>>
  /\ UNCHANGED <<args, file, again, reader, output, outFile, runs>>

(* The pipeline, which throws on frames of size 0; its models; and the framer. *)
LoadModels ==
  /\ pc = "load"
  /\ CASE args.frameSize = 0 -> Exit("aborted", FALSE)
       [] args.frameSize # 0 /\ args.model = "refused" -> Exit("failed", TRUE)
       [] OTHER -> pc' = "frames" /\ UNCHANGED <<exit, err>>
  /\ UNCHANGED <<args, file, again, reader, samples, output, outFile, runs>>

ProcessFrame ==
  /\ pc = "frames"
  /\ Len(samples) >= args.frameSize
  /\ args.model # "throws"
  /\ output' = output \o SubSeq(samples, 1, args.frameSize)
  /\ samples' = SubSeq(samples, args.frameSize + 1, Len(samples))
  /\ UNCHANGED <<pc, args, file, again, reader, outFile, exit, err, runs>>

(* Fault: the exception is caught and what there is is written. *)
FrameThrowsCaught ==
  /\ pc = "frames"
  /\ Len(samples) >= args.frameSize
  /\ args.model = "throws"
  /\ pc' = "write"
  /\ UNCHANGED <<args, file, again, reader, samples, output, outFile, exit, err, runs>>

(* A model with the wrong output: the exception ends the program. *)
FrameThrows ==
  /\ pc = "frames"
  /\ Len(samples) >= args.frameSize
  /\ args.model = "throws"
  /\ Exit("aborted", FALSE)
  /\ UNCHANGED <<args, file, again, reader, samples, output, outFile, runs>>

(* What does not fill a frame is dropped, with a warning. *)
EndOfFrames ==
  /\ pc = "frames"
  /\ Len(samples) < args.frameSize
  /\ pc' = "write"
  /\ UNCHANGED <<args, file, again, reader, samples, output, outFile, exit, err, runs>>
-----------------------------------------------------------------------------
Clamped(v) == IF v > Full THEN Full ELSE IF v < -Full THEN -Full ELSE v

(* Fault: scaled by 2^15, which the largest sample does not survive. *)
QuantizedFull(v) ==
  LET rounded == (2 * Magnitude(Clamped(v)) * Scale + Full) \div (2 * Full)
  IN  IF v < 0 THEN -rounded ELSE rounded

(* lround(clamped * 32767), halves away from zero. *)
Quantized(v) ==
  LET rounded == (2 * Magnitude(Clamped(v)) * (Scale - 1) + Full) \div (2 * Full)
  IN  IF v < 0 THEN -rounded ELSE rounded

(* Fault: the size counts samples. *)
DataSizeInSamples(n) == n % SizeMod

(* dataSize, a uint32_t. *)
DataSize(n) == (2 * n) % SizeMod

(* The file writeWav() writes: two headers, and samples whose bytes may spell *)
(* others, which a reader meets that a wrapped size leads among them.         *)
Written(spelling) ==
  LET n == Len(output)
      fmt == [id |-> "fmt", size |-> 16, format |-> "pcm", channels |-> 1,
              rate |-> args.rate, bits |-> 16]
      quantized == [k \in 1 .. n |-> Quantized(output[k])]
      data == [id |-> "data", size |-> DataSize(n),
               payload |-> [spelling.readings EXCEPT ![<<"pcm", 16>>] = quantized]]
  IN  [opens |-> TRUE, riff |-> TRUE, length |-> 44 + 2 * n,
       chunks |-> [pos \in 12 .. 44 + 2 * n |->
                     CASE pos = 12 -> fmt
                       [] pos = 36 -> data
                       [] pos \in DOMAIN spelling.chunks -> spelling.chunks[pos]
                       [] OTHER -> [id |-> "other", size |-> 0]]]

(* The first bytes of a file, which is one for readWav() from 12 bytes on. *)
CutOff(f, length) == [f EXCEPT !.length = length, !.riff = length >= 12]

WriteOutput ==
  /\ pc = "write"
  /\ \E spelling \in Spellings : outFile' = Written(spelling)
  /\ Exit("ok", TRUE)
  /\ UNCHANGED <<args, file, again, reader, samples, output, runs>>

(* The output cannot be opened. *)
OpenOutputFails ==
  /\ pc = "write"
  /\ Exit("failed", TRUE)
  /\ UNCHANGED <<args, file, again, reader, samples, output, outFile, runs>>

(* A write fails: some of the file is there, and f.good() is all that is said. *)
WriteFails ==
  /\ pc = "write"
  /\ \E spelling \in Spellings :
       LET complete == Written(spelling)
       IN  \E length \in 0 .. complete.length - 1 : outFile' = CutOff(complete, length)
  /\ Exit("failed", FALSE)
  /\ UNCHANGED <<args, file, again, reader, samples, output, runs>>

(* The bytes still in the buffer are written when the stream is destroyed, *)
(* after f.good() was returned: if that fails, nobody hears of it.         *)
CloseFails ==
  /\ pc = "write"
  /\ \E spelling \in Spellings :
       LET complete == Written(spelling)
       IN  \E length \in 0 .. complete.length - 1 :
             /\ complete.length - length =< Buffered
             /\ outFile' = CutOff(complete, length)
  /\ Exit("ok", TRUE)
  /\ UNCHANGED <<args, file, again, reader, samples, output, runs>>

(* The tool is run on the file it has written. *)
RunAgain ==
  /\ pc = "exited"
  /\ exit = "ok"
  /\ runs < MaxRuns
  /\ runs' = runs + 1
  /\ pc' = "start"
  /\ args' \in Commands
  /\ file' = outFile
  /\ again' = TRUE
  /\ reader' = NewReader
  /\ samples' = <<>>
  /\ output' = <<>>
  /\ exit' = "running"
  /\ err' = FALSE
  /\ UNCHANGED outFile

Step ==
  \/ Usage
  \/ MalformedNumber
  \/ OpenInput
  \/ ReadChunk
  \/ EndOfChunks
  \/ Resample
  \/ LoadModels
  \/ ProcessFrame
  \/ FrameThrows
  \/ EndOfFrames
  \/ WriteOutput
  \/ OpenOutputFails
  \/ WriteFails
  \/ CloseFails

Next == Step \/ RunAgain

(* A program that is started runs on; that it is started again is up to the user. *)
Spec == Init /\ [][Next]_vars /\ WF_vars(Step)
-----------------------------------------------------------------------------
(* readWav() has returned true. *)
Loaded == pc \in {"resample", "load", "frames", "write"} \/ exit = "ok"

(* The samples of a file the tool wrote, and whether its size wrapped and led a *)
(* reader to samples that spell a header.                                       *)
Stored(f) == f.chunks[36].payload[<<"pcm", 16>>]
Misleads(f) ==
  /\ 2 * Len(Stored(f)) >= SizeMod
  /\ \E p \in 44 + f.chunks[36].size .. f.length : f.chunks[p].id \in {"fmt", "data"}

(* Every sample written fits an int16_t: static_cast<int16_t> of the result of  *)
(* lround (wav_io.cpp:197) changes nothing.                                     *)
TypeOK ==
  /\ pc \in {"start", "chunks", "resample", "load", "frames", "write", "exited"}
  /\ args \in Commands
  /\ again \in BOOLEAN
  /\ reader.pos \in Nat
  /\ samples \in Seq(Int)
  /\ output \in Seq(Int)
  /\ outFile.opens =>
       \A k \in DOMAIN Stored(outFile) : Stored(outFile)[k] \in -Scale .. Scale - 1
  /\ exit \in {"running", "usage", "failed", "aborted", "ok"}
  /\ err \in BOOLEAN
  /\ runs \in 1 .. MaxRuns

(* Whatever sizes the chunks of the file declare, truncated and odd ones        *)
(* included, the samples decoded lie inside the file (wav_io.cpp:61-92).        *)
DataInsideFile == Loaded => reader.start + reader.data.size =< file.length

(* "With no model flags ... the output is the input, resampled to --rate"       *)
(* (main.cpp:44-45), but for less than a frame at the end, and "multi-channel    *)
(* inputs are averaged" (wav_io.h:13): each sample is the interpolation at its   *)
(* time of what the file has stored, all channels of a frame taken together, and *)
(* at most two units less, across the decoding, the one call of the resampler    *)
(* and the cut into frames.                                                      *)
OutputIsResampledInput ==
  exit = "ok" =>
    LET rate == reader.fmt.rate
        channels == reader.fmt.channels
        sums == Sums(file.chunks[reader.start - 8].payload[Encoding])
        FrameSum(i) == sums[i * channels] - sums[(i - 1) * channels]
        Time(k) == (k - 1) * rate
        Interpolation(i, frac) ==
          IF frac = 0 THEN args.rate * FrameSum(i)
          ELSE (args.rate - frac) * FrameSum(i) + frac * FrameSum(i + 1)
        due == CASE rate = args.rate -> NumFrames
                 [] rate # args.rate /\ NumFrames = 0 -> 0
                 [] OTHER -> ((NumFrames - 1) * args.rate + rate - 1) \div rate
    IN  /\ \A k \in DOMAIN output :
             IF rate = args.rate
             THEN 4 * FrameSum(k) - channels * output[k] \in 0 .. channels - 1
             ELSE 4 * Interpolation(Time(k) \div args.rate + 1, Time(k) % args.rate)
                    - (channels * args.rate) * output[k] \in 0 .. 2 * (channels * args.rate) - 1
        /\ due - Len(output) \in 0 .. args.frameSize - 1

(* What --out names is touched only when every frame there is went through the  *)
(* pipeline: a model that is refused or that throws leaves an earlier output    *)
(* alone (main.cpp:136-171).                                                    *)
OutputWaitsForFrames ==
  [][outFile' # outFile => Len(samples) < args.frameSize /\ args.model # "refused"]_vars

(* What the tool reads of a file it has written is what it wrote, the same rate  *)
(* and samples, and of one whose size wrapped in the 32 bits of its header       *)
(* (wav_io.cpp:174) its first samples and nothing else, unless what follows them *)
(* spells a header (wav_io.cpp:72 and 86).  A second pass at the same rate moves *)
(* a sample by one step at most and never away from zero, although reading       *)
(* divides by 2^15 and writing multiplies by 2^15 - 1 (wav_io.cpp:123 and 197).  *)
SecondPassIsFaithful ==
  again /\ Loaded /\ ~Misleads(file) =>
    LET first == Stored(file)
    IN  /\ reader.fmt = file.chunks[12]
        /\ reader.data = file.chunks[36]
        /\ 2 * Len(Mono) = (2 * Len(first)) % SizeMod
        /\ exit = "ok" /\ args.rate = reader.fmt.rate =>
             \A k \in DOMAIN output :
               LET second == Stored(outFile)[k]
               IN  /\ Magnitude(second - first[k]) =< 1
                   /\ Magnitude(second) =< Magnitude(first[k])

(* Every run ends, with a status or an exception, whatever the file says of      *)
(* itself: the walk over the chunks moves on past every one, empty ones and      *)
(* those of odd size included (wav_io.cpp:60-92), and so does the loop over the  *)
(* frames (main.cpp:164).                                                        *)
MainReturns == pc # "exited" ~> pc = "exited"

(* wav_io.h:16 and 21: readWav() and writeWav() "Returns false and sets          *)
(* *errorOut" on failure, which is all that the message of main() says of it.    *)
FailureIsExplained == exit = "failed" => err
=============================================================================
