------------------------------- MODULE AudioFile -------------------------------
(***************************************************************************)
(* How an audio file becomes samples at 16 kHz: loadAudioFromUri of        *)
(* TranscriptionRepository.kt and AudioDecodeUtils.kt.  Positions and      *)
(* sizes in a WAV file are counted in bytes as the code counts them, in    *)
(* 32-bit integers; what the samples sound like is left out.  MediaCodec   *)
(* is external: it buffers frames and may be slow, announce its output     *)
(* format late, or fail.                                                   *)
(***************************************************************************)
EXTENDS Integers

CONSTANTS HalfRange,      \* Int ranges over -HalfRange..HalfRange-1, 2^31 in Kotlin
          Garbage,        \* sizes read at places that are not a chunk
          MaxFrames,      \* bound on the frames of a track
          Rates,          \* sample rates of tracks
          TargetRate      \* 16000

Ints == (-HalfRange)..(HalfRange - 1)

ASSUME RangeAssumption == HalfRange \in Nat \ {0} /\ 0 \in Garbage /\ Garbage \subseteq Ints
ASSUME RatesAssumption == {TargetRate} \subseteq Rates /\ Rates \subseteq Nat \ {0} /\ MaxFrames \in Nat

\* No file of the model, of 60 bytes at most, is longer than an Int counts.
ASSUME LongAssumption == 60 < HalfRange

VARIABLES file,           \* the file, its bytes and the track in it
          pc,
          pos, dataOffset, dataSize,    \* the scan of the WAV chunks
          attempts,       \* calls of decodeToMono16k that have begun
          left, held,     \* frames the extractor, and the codec, still have
          inEOS, outEOS,  \* sawInputEOS, sawOutputEOS
          format,         \* outputFormat: the sample rate and the channels
          samples,        \* outSamples.size
          result          \* length of the array, how much of it was filled, and its origin

scanVars == <<pos, dataOffset, dataSize>>
codecVars == <<attempts, left, held, inEOS, outEOS, format, samples>>
vars == <<file, pc, pos, dataOffset, dataSize, attempts, left, held, inEOS, outEOS,
          format, samples, result>>

\* A WAV file is a fmt chunk at 12, perhaps a LIST chunk of "list" bytes, and a
\* data chunk of "data" bytes.  Chunks are padded to an even length; a writer
\* that streams does not know the data's length and declares 0xFFFFFFFF.  Off
\* the chunks four bytes read as the size "junk", which may be any: what stands
\* there need not be well formed.  The extractor may report
\* another format than the codec will produce.
Format == [rate : Rates, channels : 1..2]
File == [stream : {"bytes", "null", "throws"}, kind : {"short", "other", "wav"},
         list : {0, 2, 3}, data : {0, 2, 4}, streamed : BOOLEAN, junk : Garbage,
         frames : (-1)..MaxFrames, track : Format, output : Format]

\* A WAV file of the one kind the loader reads has the track it says, and only
\* an odd chunk leads off the chunks; frames = -1 stands for a file without an
\* audio track.
Consistent(f) ==
  /\ f.kind = "wav" =>
       /\ f.frames = f.data \div 2
       /\ f.output = [rate |-> TargetRate, channels |-> 1] /\ f.track = f.output
  /\ f.kind # "wav" => f.list = 0 /\ f.data = 0 /\ ~f.streamed
  /\ f.list # 3 => f.junk = 0

TypeOK ==
  /\ file \in File
  /\ pc \in {"open", "scan", "copy", "decode", "input", "output", "convert", "done", "crashed"}
  /\ {pos, dataOffset, dataSize} \subseteq Ints
  /\ attempts \in 0..2
  /\ left \in 0..MaxFrames /\ held \in 0..MaxFrames
  /\ inEOS \in BOOLEAN /\ outEOS \in BOOLEAN
  /\ format \in Format
  /\ samples \in 0..(2 * MaxFrames)
  /\ result.length \in Nat /\ result.filled \in 0..result.length

NoResult == [length |-> 0, filled |-> 0, from |-> "nothing"]

Init ==
  /\ file \in {f \in File : Consistent(f)}
  /\ pc = "open"
  /\ pos = 0 /\ dataOffset = -1 /\ dataSize = 0
  /\ attempts = 0 /\ left = 0 /\ held = 0 /\ samples = 0
  /\ inEOS = FALSE /\ outEOS = FALSE
  /\ format = file.track
  /\ result = NoResult

-------------------------------------------------------------------------------
\* Kotlin's Int: sums wrap around, quotients are truncated.
Int32_Wide(x) == x        \* a plausible bug: integers that do not wrap
Int32(x) == ((x + HalfRange) % (2 * HalfRange)) - HalfRange
Half(x) == IF x < 0 THEN -((-x) \div 2) ELSE x \div 2

Even(n) == n + (n % 2)
DataAt == 36 + IF file.list = 0 THEN 0 ELSE 8 + Even(file.list)
Size == DataAt + 8 + file.data

\* What the four bytes of the id and the four of the size at p read as.
ChunkAt(p) ==
  IF p = 12 THEN [id |-> "fmt ", size |-> 16]
  ELSE IF p = DataAt THEN [id |-> "data", size |-> IF file.streamed THEN -1 ELSE file.data]
  ELSE IF p = 36 THEN [id |-> "LIST", size |-> file.list]
  ELSE [id |-> "????", size |-> file.junk]

Return(length, filled, from) ==
  /\ pc' = "done"
  /\ result' = [length |-> length, filled |-> filled, from |-> from]

FrameCount == IF file.frames < 0 THEN 0 ELSE file.frames

\* The length resampleLinear gives to n samples at rate r: the product of doubles
\* that the code truncates is exact enough for this at the usual rates; at others
\* it may come out one less.
Resampled(n, r) ==
  IF r = TargetRate THEN n
  ELSE IF n * TargetRate < r THEN 1 ELSE (n * TargetRate) \div r

-------------------------------------------------------------------------------
(***************************************************************************)
(* Plausible bugs, each substituted for the definition of like name.       *)
(***************************************************************************)

\* The length of the header is forgotten.
NextChunk_NoHeader(size) == Int32(pos + size)

\* < in place of <=: the last eight bytes are never looked at.
MoreChunks_Strict == Int32(pos + 8) < Size

\* The loop ends with the input.
Drained_InputOnly == inEOS

-------------------------------------------------------------------------------
\* Opening and reading the stream; the header must say mono, 16 kHz and 16 bits,
\* or the empty array is returned at once.
Open ==
  /\ pc = "open"
  /\ \/ /\ file.stream = "bytes" /\ file.kind = "wav"
        /\ pc' = "scan" /\ pos' = 12
        /\ UNCHANGED result
     \/ /\ file.stream = "bytes" /\ file.kind # "wav"
        /\ Return(0, 0, "nothing")
        /\ UNCHANGED pos
     \/ /\ file.stream # "bytes"
        /\ pc' = "decode"
        /\ UNCHANGED <<pos, result>>
  /\ UNCHANGED <<file, dataOffset, dataSize, codecVars>>

MoreChunks == Int32(pos + 8) <= Size

NextChunk(size) == Int32(pos + 8 + size)

\* One turn of the search for the data chunk; outside the file it throws.
ScanChunk ==
  /\ pc = "scan" /\ MoreChunks /\ pos \in 0..(Size - 8)
  /\ LET c == ChunkAt(pos)
     IN \/ /\ c.id = "data"
           /\ dataOffset' = pos + 8 /\ dataSize' = c.size
           /\ pc' = "copy"
           /\ UNCHANGED pos
        \/ /\ c.id # "data"
           /\ pos' = NextChunk(c.size)
           /\ UNCHANGED <<pc, dataOffset, dataSize>>
  /\ UNCHANGED <<file, codecVars, result>>

ScanThrows ==
  /\ pc = "scan" /\ MoreChunks /\ pos \notin 0..(Size - 8)
  /\ pc' = "decode"
  /\ UNCHANGED <<file, scanVars, codecVars, result>>

ScanEnds ==
  /\ pc = "scan" /\ ~MoreChunks
  /\ Return(0, 0, "nothing")
  /\ UNCHANGED <<file, scanVars, codecVars>>

SampleCount == Half(dataSize)

\* The array is allocated, which throws if its size is negative, and filled as
\* long as there are bytes.
Copy ==
  /\ pc = "copy"
  /\ \/ /\ Int32(dataOffset + dataSize) > Size
        /\ Return(0, 0, "nothing")
     \/ /\ Int32(dataOffset + dataSize) <= Size /\ SampleCount < 0
        /\ pc' = "decode"
        /\ UNCHANGED result
     \/ /\ Int32(dataOffset + dataSize) <= Size /\ SampleCount >= 0
        /\ LET there == (Size - dataOffset) \div 2
           IN Return(SampleCount, IF SampleCount <= there THEN SampleCount ELSE there, "wav")
  /\ UNCHANGED <<file, scanVars, codecVars>>

-------------------------------------------------------------------------------
\* decodePcm up to the loop: without an audio track, or if a call throws, there
\* is no sound.
BeginDecode ==
  /\ pc = "decode"
  /\ attempts' = attempts + 1
  /\ \/ /\ Return(0, 0, "nothing")
        /\ UNCHANGED <<left, held, inEOS, outEOS, format, samples>>
     \/ /\ file.frames >= 0
        /\ pc' = "input"
        /\ left' = file.frames /\ held' = 0 /\ samples' = 0
        /\ inEOS' = FALSE /\ outEOS' = FALSE
        /\ format' = file.track
        /\ UNCHANGED result
  /\ UNCHANGED <<file, scanVars>>

Drained == outEOS

\* The input half of the loop: a frame, the end of the stream, or no buffer free.
Feed ==
  /\ pc = "input" /\ ~Drained
  /\ pc' = "output"
  /\ \/ ~inEOS /\ left > 0 /\ left' = left - 1 /\ held' = held + 1 /\ UNCHANGED inEOS
     \/ ~inEOS /\ left = 0 /\ inEOS' = TRUE /\ UNCHANGED <<left, held>>
  /\ UNCHANGED <<file, scanVars, attempts, outEOS, format, samples, result>>

SkipInput ==
  /\ pc = "input" /\ ~Drained
  /\ pc' = "output"
  /\ UNCHANGED <<file, scanVars, codecVars, result>>

\* The output half: nothing yet, the format, or a buffer of some of the frames.
TryAgainLater ==
  /\ pc = "output"
  /\ pc' = "input"
  /\ UNCHANGED <<file, scanVars, codecVars, result>>

FormatChanged ==
  /\ pc = "output" /\ format # file.output
  /\ format' = file.output
  /\ pc' = "input"
  /\ UNCHANGED <<file, scanVars, attempts, left, held, inEOS, outEOS, samples, result>>

OutputBuffer ==
  /\ pc = "output"
  /\ \E n \in 0..held :
       /\ n > 0 => format = file.output
       /\ n > 0 \/ (inEOS /\ held = 0)
       /\ held' = held - n
       /\ samples' = samples + n * file.output.channels
       /\ outEOS' \in IF inEOS /\ held = n THEN (IF n = 0 THEN {TRUE} ELSE BOOLEAN) ELSE {FALSE}
  /\ pc' = "input"
  /\ UNCHANGED <<file, scanVars, attempts, left, inEOS, format, result>>

\* getOutputBuffer gives null, or a call throws.
CodecFails ==
  /\ pc \in {"input", "output"}
  /\ Return(0, 0, "nothing")
  /\ UNCHANGED <<file, scanVars, codecVars>>

LoopEnds ==
  /\ pc = "input" /\ Drained
  /\ pc' = "convert"
  /\ UNCHANGED <<file, scanVars, codecVars, result>>

\* downmixToMono
Mono == samples \div format.channels

\* resampleLinear, which throws if there is nothing to resample: the catch of
\* loadAudioFromUri surrounds the first call if the stream was null, and nothing
\* surrounds the call in the catch.
Convert ==
  /\ pc = "convert"
  /\ \/ /\ Mono > 0 \/ format.rate = TargetRate
        /\ Return(Resampled(Mono, format.rate), Resampled(Mono, format.rate), "decoder")
     \/ /\ Mono = 0 /\ format.rate # TargetRate
        /\ pc' = IF file.stream = "null" /\ attempts = 1 THEN "decode" ELSE "crashed"
        /\ UNCHANGED result
  /\ UNCHANGED <<file, scanVars, codecVars>>

Ended == pc \in {"done", "crashed"} /\ UNCHANGED vars

Next ==
  \/ Open \/ ScanChunk \/ ScanThrows \/ ScanEnds \/ Copy
  \/ BeginDecode \/ Feed \/ SkipInput \/ TryAgainLater \/ FormatChanged \/ OutputBuffer
  \/ CodecFails \/ LoopEnds \/ Convert
  \/ Ended

Spec == Init /\ [][Next]_vars

\* The caller's thread runs on, and the codec takes and gives what it has.
FairSpec ==
  /\ Spec
  /\ WF_vars(Next)
  /\ SF_vars(Feed) /\ SF_vars(FormatChanged) /\ SF_vars(OutputBuffer)

-------------------------------------------------------------------------------
Supported == file.stream = "bytes" /\ file.kind = "wav"

\* The search of TranscriptionRepository.kt:152-157 finds the data chunk, and all
\* its samples are loaded and nothing else, in every supported WAV file whose
\* chunks are of even length and that declares the length of its data.
PlainWavLoaded ==
  pc = "done" /\ Supported /\ ~file.streamed /\ file.list # 3 =>
    result = [length |-> file.data \div 2, filled |-> file.data \div 2, from |-> "wav"]

\* What is decoded lasts as long as the track, whatever the order in which the
\* codec takes input, announces its format and gives output.
DurationKept ==
  pc = "done" /\ result.from = "decoder" =>
    result.length = IF FrameCount = 0 THEN 0 ELSE Resampled(FrameCount, file.output.rate)

\* The size read off the chunks, at 47 behind an odd one, leads back into the file.
LeadsBack == 47 + 8 + file.junk \in 0..47

\* Loading ends, whether in an array or in an exception, in every file that does not
\* lead the search back, sums that wrap around included.  In one that does
\* pos += 8 + size (TranscriptionRepository.kt:156) may stand still or go round in a
\* circle, and the loop then never ends: a size of -8 is read again and again, one
\* of -43 leads to the fmt chunk.
LoadEnds == ~LeadsBack => <>(pc \in {"done", "crashed"})
===============================================================================
