---------------------------- MODULE AudioFileProofs ----------------------------
(***************************************************************************)
(* Proofs about AudioFile, for integers of any width that counts a file of *)
(* the model, tracks of any length and any rates: its types, that a plain  *)
(* WAV file is loaded whole, and that decoding keeps the duration.         *)
(***************************************************************************)
EXTENDS AudioFile, TLAPS

(***************************************************************************)
(* The invariant has four parts: the scan of the chunks, which must stay   *)
(* in the file wherever it reads; the plain files, whose scan has only     *)
(* three places to be at; the codec, which has given samples for all the   *)
(* frames that it and the extractor no longer have; and the result.        *)
(***************************************************************************)
ScanInv ==
  /\ file \in File
  /\ pc \in {"open", "scan", "copy", "decode", "input", "output", "convert", "done", "crashed"}
  /\ pos \in Ints /\ dataOffset \in Ints /\ dataSize \in {-1, 0, 2, 4}
  /\ pc = "copy" => dataOffset = DataAt + 8

Plain == Supported /\ ~file.streamed /\ file.list # 3

PlainInv ==
  Plain =>
    /\ pc \in {"open", "scan", "copy", "done"}
    /\ pc = "scan" => pos \in {12, 36, DataAt}
    /\ pc = "copy" => dataSize = file.data
    /\ pc = "done" =>
         result = [length |-> file.data \div 2, filled |-> file.data \div 2, from |-> "wav"]

CodecInv ==
  /\ left \in 0..MaxFrames /\ held \in 0..MaxFrames
  /\ inEOS \in BOOLEAN /\ outEOS \in BOOLEAN
  /\ format \in Format
  /\ samples \in 0..(2 * MaxFrames)
  /\ attempts \in 0..2
  /\ pc \in {"open", "scan", "copy"} => attempts = 0
  /\ pc = "decode" => attempts \in 0..1
  /\ pc \in {"input", "output", "convert"} =>
       /\ file.frames >= 0
       /\ left + held <= file.frames
       /\ samples = (file.frames - left - held) * file.output.channels
       /\ samples # 0 => format = file.output
       /\ inEOS => left = 0
       /\ outEOS => inEOS /\ held = 0
  /\ pc = "convert" => outEOS

ResultInv ==
  /\ result.length \in Nat /\ result.filled \in 0..result.length
  /\ DurationKept

Inv == ScanInv /\ PlainInv /\ CodecInv /\ ResultInv

-------------------------------------------------------------------------------
(***************************************************************************)
(* Arithmetic.                                                             *)
(***************************************************************************)
LEMMA Modulus ==
  ASSUME NEW r \in Nat \ {0}
  PROVE  /\ \A x \in Int : x % r \in 0..(r - 1)
         /\ \A x \in 0..(r - 1) : x % r = x
  OBVIOUS

\* Whatever is added up, the sum is an Int, and the right one if it is one.
LEMMA Int32Wraps ==
  /\ \A x \in Int : Int32(x) \in Ints
  /\ \A x \in Ints : Int32(x) = x
  <1> DEFINE r == 2 * HalfRange
  <1>1. r \in Nat \ {0} /\ HalfRange \in Nat BY RangeAssumption
  <1>2. \A x \in Int : (x + HalfRange) % r \in 0..(r - 1) BY <1>1, Modulus
  <1>3. \A x \in 0..(r - 1) : x % r = x BY <1>1, Modulus
  <1>4. ASSUME NEW x \in Ints PROVE (x + HalfRange) % r = x + HalfRange
    <2>1. x + HalfRange \in 0..(r - 1) BY <1>1 DEF Ints
    <2>2. QED BY <1>3, <2>1
  <1> HIDE DEF r
  <1>5. \A x \in Int : Int32(x) = ((x + HalfRange) % r) - HalfRange BY DEF Int32, r
  <1>6. r = HalfRange + HalfRange BY <1>1 DEF r
  <1>7. ASSUME NEW x \in Int PROVE Int32(x) \in Ints
    <2>1. PICK y \in 0..(r - 1) : Int32(x) = y - HalfRange BY <1>2, <1>5
    <2>2. QED BY <1>1, <1>6, <2>1 DEF Ints
  <1>8. ASSUME NEW x \in Ints PROVE Int32(x) = x
    <2>1. x \in Int BY <1>1, <1>8 DEF Ints
    <2>2. Int32(x) = (x + HalfRange) - HalfRange BY <1>4, <1>5, <2>1
    <2>3. QED BY <1>1, <2>1, <2>2
  <1>9. QED BY <1>7, <1>8

LEMMA Products ==
  ASSUME NEW x \in Nat, NEW r \in Nat \ {0}
  PROVE  x * r \in Nat /\ x \div r \in Nat
  OBVIOUS

\* Downmixing undoes the interleaving of the channels.
LEMMA Downmix ==
  ASSUME NEW n \in Nat, NEW c \in 1..2
  PROVE  (n * c) \div c = n
  <1>1. CASE c = 1 BY <1>1
  <1>2. CASE c = 2 BY <1>2
  <1>3. QED BY <1>1, <1>2

LEMMA Lengths == \A n \in Nat, r \in Rates : Resampled(n, r) \in Nat
  <1> SUFFICES ASSUME NEW n \in Nat, NEW r \in Rates PROVE Resampled(n, r) \in Nat
    OBVIOUS
  <1>1. r \in Nat \ {0} /\ TargetRate \in Nat \ {0} BY RatesAssumption
  <1>2. n * TargetRate \in Nat BY <1>1, Products
  <1>3. (n * TargetRate) \div r \in Nat BY <1>1, <1>2, Products
  <1>4. QED BY <1>3 DEF Resampled

\* The places of a file.
LEMMA Places ==
  ASSUME file \in File
  PROVE  /\ file.list \in {0, 2, 3} /\ file.data \in {0, 2, 4}
         /\ DataAt \in {36, 46, 48}
         /\ file.list = 0 => DataAt = 36
         /\ file.list = 2 => DataAt = 46
         /\ Size = DataAt + 8 + file.data
         /\ 0..Size \subseteq Ints
  <1>1. file.list \in {0, 2, 3} /\ file.data \in {0, 2, 4} BY DEF File
  <1>2. Even(2) = 4 - 2 /\ Even(3) = 4 BY DEF Even
  <1>3. DataAt \in {36, 46, 48} /\ (file.list = 0 => DataAt = 36) /\ (file.list = 2 => DataAt = 46)
    BY <1>1, <1>2 DEF DataAt
  <1>4. Size = DataAt + 8 + file.data BY DEF Size
  <1>5. Size \in 0..60 BY <1>1, <1>3, <1>4
  <1>6. 0..Size \subseteq Ints BY <1>5, RangeAssumption, LongAssumption DEF Ints
  <1>7. QED BY <1>1, <1>3, <1>4, <1>6

LEMMA Widths == {-1, 0, 12} \subseteq Ints
  BY RangeAssumption, LongAssumption DEF Ints

-------------------------------------------------------------------------------
(***************************************************************************)
(* The WAV loader.                                                         *)
(***************************************************************************)
LEMMA OpenKeeps == ASSUME Inv, Open PROVE Inv'
  <1>1. ScanInv' BY Widths DEF Open, Return, Inv, ScanInv
  <1>2. PlainInv' BY DEF Open, Return, Inv, PlainInv, Plain, Supported
  <1>3. CodecInv' BY DEF Open, Return, codecVars, Inv, CodecInv
  <1>4. ResultInv' BY DEF Open, Return, Inv, ResultInv, DurationKept
  <1>5. QED BY <1>1, <1>2, <1>3, <1>4 DEF Inv

\* What is read at a place, and the places that reading on leads to.
LEMMA Chunks ==
  ASSUME file \in File, NEW p \in Ints
  PROVE  /\ ChunkAt(p).id = "data" => p = DataAt /\ ChunkAt(p).size \in {-1, file.data}
         /\ ChunkAt(p).size \in Int
         /\ p = DataAt => ChunkAt(p).id = "data" /\ (~file.streamed => ChunkAt(p).size = file.data)
         /\ p = 12 => ChunkAt(p).size = 16
         /\ p = 36 /\ p # DataAt => ChunkAt(p).size = file.list
  <1>1. DataAt # 12 BY Places
  <1>2. file.junk \in Int /\ file.list \in Int /\ file.data \in Int
    <2>1. file.junk \in Garbage /\ file.list \in {0, 2, 3} /\ file.data \in {0, 2, 4}
      BY DEF File
    <2>2. Ints \subseteq Int BY RangeAssumption DEF Ints
    <2>3. Garbage \subseteq Ints BY RangeAssumption
    <2>4. file.junk \in Int BY <2>1, <2>2, <2>3, Zenon
    <2>5. file.list \in Int /\ file.data \in Int BY <2>1
    <2>6. QED BY <2>4, <2>5
  <1>3. QED BY <1>1, <1>2 DEF ChunkAt

LEMMA ScanChunkKeeps == ASSUME Inv, ScanChunk PROVE Inv'
  <1>f. file \in File /\ pos \in Ints /\ file' = file /\ pc = "scan"
    BY DEF Inv, ScanInv, ScanChunk
  <1>p. pos \in 0..(Size - 8) BY DEF ScanChunk
  <1> DEFINE c == ChunkAt(pos)
  <1>c. /\ c.id = "data" => pos = DataAt /\ c.size \in {-1, file.data}
        /\ c.size \in Int
        /\ pos = DataAt => c.id = "data" /\ (~file.streamed => c.size = file.data)
        /\ pos = 12 => c.size = 16
        /\ pos = 36 /\ pos # DataAt => c.size = file.list
    BY <1>f, Chunks
  <1>o. \/ /\ c.id = "data"
           /\ dataOffset' = pos + 8 /\ dataSize' = c.size
           /\ pc' = "copy" /\ pos' = pos
        \/ /\ c.id # "data"
           /\ pos' = Int32(pos + 8 + c.size)
           /\ UNCHANGED <<pc, dataOffset, dataSize>>
    BY DEF ScanChunk, NextChunk
  <1> HIDE DEF c
  <1>d. /\ file.list \in {0, 2, 3} /\ file.data \in {0, 2, 4}
        /\ DataAt \in {36, 46, 48} /\ DataAt' = DataAt
        /\ file.list = 0 => DataAt = 36
        /\ file.list = 2 => DataAt = 46
        /\ Size = DataAt + 8 + file.data
        /\ 0..Size \subseteq Ints
    BY <1>f, Places DEF DataAt, Even
  <1>1. ScanInv'
    <2>1. CASE c.id = "data"
      <3>1. dataOffset' = DataAt + 8 /\ dataOffset' \in Ints /\ dataSize' \in {-1, 0, 2, 4}
        BY <1>o, <1>c, <1>d, <2>1
      <3>2. QED BY <1>f, <1>o, <1>d, <2>1, <3>1 DEF Inv, ScanInv
    <2>2. CASE c.id # "data"
      <3>1. pos + 8 + c.size \in Int BY <1>c, <1>p, <1>d
      <3>2. pos' \in Ints BY <1>o, <2>2, <3>1, Int32Wraps
      <3>3. QED BY <1>f, <1>o, <1>d, <2>2, <3>2 DEF Inv, ScanInv
    <2>3. QED BY <2>1, <2>2
  <1>2. PlainInv'
    <2> SUFFICES ASSUME Plain PROVE PlainInv'
      BY <1>f DEF PlainInv, Plain, Supported
    <2>1. pos \in {12, 36, DataAt} /\ file.list \in {0, 2} /\ ~file.streamed
      BY <1>f, <1>d DEF Inv, PlainInv, Plain
    <2>2. CASE c.id = "data"
      BY <1>f, <1>o, <1>c, <2>1, <2>2 DEF PlainInv, Plain, Supported
    <2>3. CASE c.id # "data"
      <3>1. pos = 12 \/ (pos = 36 /\ file.list = 2 /\ DataAt = 46)
        BY <1>c, <1>d, <2>1, <2>3
      <3>2. pos + 8 + c.size \in {36, DataAt} BY <1>c, <1>d, <3>1
      <3>3. pos + 8 + c.size \in Ints BY <1>d, <3>2
      <3>4. pos' \in {36, DataAt} BY <1>o, <2>3, <3>2, <3>3, Int32Wraps
      <3>5. QED BY <1>f, <1>o, <1>d, <2>3, <3>4 DEF PlainInv, Plain, Supported
    <2>4. QED BY <2>2, <2>3
  <1>3. pc' \in {"scan", "copy"} BY <1>f, <1>o
  <1>4. CodecInv' BY <1>f, <1>3 DEF ScanChunk, codecVars, Inv, CodecInv
  <1>5. ResultInv' BY <1>3 DEF ScanChunk, Inv, ResultInv, DurationKept
  <1>6. QED BY <1>1, <1>2, <1>4, <1>5 DEF Inv

\* A plain file never leads off its chunks.
LEMMA PlainScans ==
  ASSUME Inv, Plain, pc = "scan"
  PROVE  MoreChunks /\ pos \in 0..(Size - 8)
  <1>1. pos \in {12, 36, DataAt} BY DEF Inv, PlainInv
  <1>2. /\ file.data \in {0, 2, 4} /\ DataAt \in {36, 46, 48}
        /\ Size = DataAt + 8 + file.data /\ 0..Size \subseteq Ints
    BY Places DEF Inv, ScanInv
  <1>3. pos \in 0..(Size - 8) BY <1>1, <1>2
  <1>4. pos + 8 \in 0..Size /\ pos + 8 \in Ints BY <1>2, <1>3
  <1>5. Int32(pos + 8) = pos + 8 BY <1>4, Int32Wraps
  <1>6. QED BY <1>3, <1>4, <1>5 DEF MoreChunks

LEMMA ScanFailsKeeps == ASSUME Inv, ScanThrows \/ ScanEnds PROVE Inv'
  <1>1. ~Plain BY PlainScans DEF ScanThrows, ScanEnds
  <1>2. PlainInv' BY <1>1 DEF ScanThrows, ScanEnds, PlainInv, Plain, Supported
  <1>3. ScanInv' BY DEF ScanThrows, ScanEnds, Return, scanVars, Inv, ScanInv
  <1>4. CodecInv' BY DEF ScanThrows, ScanEnds, Return, codecVars, Inv, CodecInv
  <1>5. ResultInv' BY DEF ScanThrows, ScanEnds, Return, Inv, ResultInv, DurationKept
  <1>6. QED BY <1>2, <1>3, <1>4, <1>5 DEF Inv

LEMMA CopyKeeps == ASSUME Inv, Copy PROVE Inv'
  <1>f. file \in File /\ file' = file /\ pc = "copy" /\ dataSize \in {-1, 0, 2, 4}
        /\ dataOffset = DataAt + 8
    BY DEF Inv, ScanInv, Copy
  <1>d. /\ file.data \in {0, 2, 4} /\ DataAt \in {36, 46, 48}
        /\ Size = DataAt + 8 + file.data /\ 0..Size \subseteq Ints
    BY <1>f, Places
  <1>h. SampleCount \in {0, 1, 2} /\ (dataSize = file.data => SampleCount = file.data \div 2)
    <2>1. Half(-1) = 0 /\ Half(0) = 0 /\ Half(2) = 1 /\ Half(4) = 2 BY DEF Half
    <2>2. QED BY <1>f, <2>1, <1>d DEF SampleCount
  <1>t. (Size - dataOffset) \div 2 = file.data \div 2 /\ file.data \div 2 \in Nat BY <1>f, <1>d
  <1>o. /\ pc' = "done"
        /\ \/ /\ Int32(dataOffset + dataSize) > Size
              /\ result' = [length |-> 0, filled |-> 0, from |-> "nothing"]
           \/ \E n \in {SampleCount, file.data \div 2} :
                /\ n <= SampleCount
                /\ SampleCount <= file.data \div 2 => n = SampleCount
                /\ result' = [length |-> SampleCount, filled |-> n, from |-> "wav"]
    BY <1>h, <1>t DEF Copy, Return
  <1>1. ScanInv' BY <1>o DEF Copy, scanVars, Inv, ScanInv
  <1>2. PlainInv'
    <2> SUFFICES ASSUME Plain PROVE PlainInv'
      BY <1>f DEF PlainInv, Plain, Supported
    <2>1. dataSize = file.data BY <1>f DEF Inv, PlainInv
    <2>2. dataOffset + dataSize = Size /\ Size \in Ints BY <1>f, <1>d, <2>1
    <2>3. Int32(dataOffset + dataSize) = Size BY <2>2, Int32Wraps
    <2>4. SampleCount = file.data \div 2 BY <1>h, <2>1
    <2>5. ~(Int32(dataOffset + dataSize) > Size) BY <1>d, <2>3
    <2>6. result' = [length |-> SampleCount, filled |-> SampleCount, from |-> "wav"]
      BY <1>o, <2>4, <2>5
    <2>7. QED BY <1>f, <1>o, <2>4, <2>6 DEF PlainInv, Plain, Supported
  <1>3. CodecInv' BY <1>o DEF Copy, codecVars, Inv, CodecInv
  <1>4. ResultInv' BY <1>o, <1>h, <1>t DEF ResultInv, DurationKept
  <1>5. QED BY <1>1, <1>2, <1>3, <1>4 DEF Inv

-------------------------------------------------------------------------------
(***************************************************************************)
(* The decoder.                                                            *)
(***************************************************************************)
DecoderStep ==
  \/ BeginDecode \/ Feed \/ SkipInput \/ TryAgainLater \/ FormatChanged \/ OutputBuffer
  \/ CodecFails \/ LoopEnds \/ Convert

Formats == {"input", "output", "convert"}

LEMMA FileTyped ==
  ASSUME file \in File
  PROVE  /\ file.frames \in (-1)..MaxFrames /\ MaxFrames \in Nat
         /\ file.track \in Format /\ file.output \in Format
         /\ file.output.channels \in 1..2 /\ file.output.rate \in Rates
  BY RatesAssumption DEF File, Format

LEMMA BeginDecodeKeeps == ASSUME Inv, BeginDecode PROVE CodecInv' /\ ResultInv'
  <1>t. file.frames \in (-1)..MaxFrames /\ MaxFrames \in Nat /\ file.track \in Format
        /\ file.output.channels \in 1..2
    BY FileTyped DEF Inv, ScanInv
  <1>a. attempts \in 0..1 /\ file' = file /\ attempts' = attempts + 1
    BY DEF BeginDecode, Inv, CodecInv
  <1>1. CASE Return(0, 0, "nothing") /\ UNCHANGED <<left, held, inEOS, outEOS, format, samples>>
    BY <1>1, <1>a DEF Return, Inv, CodecInv, ResultInv, DurationKept
  <1>2. CASE /\ file.frames >= 0
             /\ pc' = "input"
             /\ left' = file.frames /\ held' = 0 /\ samples' = 0
             /\ inEOS' = FALSE /\ outEOS' = FALSE
             /\ format' = file.track
             /\ UNCHANGED result
    <2>1. (file.frames - left' - held') * file.output.channels = 0 BY <1>2, <1>t
    <2>b. inEOS' \in BOOLEAN /\ outEOS' \in BOOLEAN /\ ~inEOS' /\ ~outEOS' BY <1>2, Zenon
    <2>c. left' \in 0..MaxFrames /\ held' \in 0..MaxFrames /\ samples' \in 0..(2 * MaxFrames)
          /\ attempts' \in 0..2 /\ left' + held' <= file.frames
      BY <1>2, <1>a, <1>t
    <2>2. CodecInv' BY <1>2, <1>a, <1>t, <2>1, <2>b, <2>c DEF CodecInv
    <2>3. ResultInv' BY <1>2 DEF Inv, ResultInv, DurationKept
    <2>4. QED BY <2>2, <2>3
  <1>3. QED BY <1>1, <1>2 DEF BeginDecode

\* A buffer of n frames gives as many samples of every channel.
LEMMA OutputKeeps == ASSUME Inv, OutputBuffer PROVE CodecInv' /\ ResultInv'
  <1>t. file.frames \in (-1)..MaxFrames /\ MaxFrames \in Nat /\ file.output.channels \in 1..2
    BY FileTyped DEF Inv, ScanInv
  <1>p. /\ pc = "output" /\ pc' = "input" /\ file' = file
        /\ UNCHANGED <<attempts, left, inEOS, format, result>>
    BY DEF OutputBuffer
  <1>c. /\ file.frames >= 0 /\ left + held <= file.frames
        /\ samples = (file.frames - left - held) * file.output.channels
        /\ samples # 0 => format = file.output
        /\ inEOS => left = 0
        /\ left \in Nat /\ held \in Nat
    BY <1>p DEF Inv, CodecInv
  <1>n. PICK n \in 0..held :
          /\ n > 0 => format = file.output
          /\ held' = held - n
          /\ samples' = samples + n * file.output.channels
          /\ outEOS' \in IF inEOS /\ held = n THEN (IF n = 0 THEN {TRUE} ELSE BOOLEAN) ELSE {FALSE}
    BY DEF OutputBuffer
  <1>1. samples' = (file.frames - left - held') * file.output.channels
    <2>1. CASE file.output.channels = 1 BY <1>c, <1>n, <1>t, <2>1
    <2>2. CASE file.output.channels = 2 BY <1>c, <1>n, <1>t, <2>2
    <2>3. QED BY <1>t, <2>1, <2>2
  <1>2. held' \in 0..MaxFrames /\ left + held' <= file.frames
    BY <1>c, <1>n, <1>t
  <1>3. samples' \in 0..(2 * MaxFrames)
    <2>1. file.frames - left - held' \in 0..MaxFrames BY <1>c, <1>n, <1>t
    <2>2. CASE file.output.channels = 1 BY <1>1, <1>t, <2>1, <2>2
    <2>3. CASE file.output.channels = 2 BY <1>1, <1>t, <2>1, <2>3
    <2>4. QED BY <1>t, <2>2, <2>3
  <1>4. samples' # 0 => format = file.output
    <2>1. CASE n = 0
      <3>1. samples' = samples BY <1>n, <1>c, <1>t, <2>1
      <3>2. QED BY <1>c, <3>1
    <2>2. QED BY <1>n, <2>1
  <1>5. outEOS' \in BOOLEAN /\ (outEOS' => inEOS /\ held' = 0)
    <2>1. CASE inEOS /\ held = n
      <3>1. held' = 0 BY <1>n, <1>c, <2>1
      <3>2. outEOS' \in BOOLEAN BY <1>n, <2>1, Zenon
      <3>3. QED BY <2>1, <3>1, <3>2
    <2>2. CASE ~(inEOS /\ held = n)
      BY <1>n, <2>2, Zenon
    <2>3. QED BY <2>1, <2>2
  <1>6. CodecInv'
    BY <1>p, <1>c, <1>1, <1>2, <1>3, <1>4, <1>5 DEF Inv, CodecInv
  <1>7. ResultInv' BY <1>p DEF Inv, ResultInv, DurationKept
  <1>8. QED BY <1>6, <1>7

LEMMA FeedKeeps == ASSUME Inv, Feed PROVE CodecInv' /\ ResultInv'
  <1> DEFINE f == file.frames
  <1>t. f \in Int /\ MaxFrames \in Nat /\ f <= MaxFrames
    <2>1. f \in (-1)..MaxFrames /\ MaxFrames \in Nat BY FileTyped DEF Inv, ScanInv
    <2> HIDE DEF f
    <2>2. QED BY <2>1
  <1>p. /\ pc = "input" /\ pc' = "output" /\ file' = file /\ ~outEOS
        /\ UNCHANGED <<attempts, outEOS, format, samples, result>>
    BY DEF Feed, Drained
  <1>c. left \in Nat /\ held \in Nat /\ left + held <= f
    BY <1>p DEF Inv, CodecInv
  <1>f. \/ ~inEOS /\ left > 0 /\ left' = left - 1 /\ held' = held + 1 /\ inEOS' = inEOS
        \/ ~inEOS /\ left = 0 /\ inEOS' = TRUE /\ left' = left /\ held' = held
    BY DEF Feed
  <1>1. left' \in Nat /\ held' \in Nat /\ left' + held' = left + held
    <2>1. \/ left > 0 /\ left' = left - 1 /\ held' = held + 1
          \/ left' = left /\ held' = held
      BY <1>f, Zenon
    <2> HIDE DEF f
    <2>2. QED BY <1>c, <2>1
  <1>i. inEOS' \in BOOLEAN /\ (inEOS' => left' = 0)
    <2>1. inEOS \in BOOLEAN BY DEF Inv, CodecInv
    <2>2. CASE inEOS' = inEOS /\ ~inEOS BY <2>1, <2>2, Zenon
    <2>3. CASE left = 0 /\ inEOS' = TRUE /\ left' = left BY <2>3, Zenon
    <2>4. QED BY <1>f, <2>2, <2>3, Zenon
  <1>2. /\ f - left' - held' = f - left - held /\ left' + held' <= f
        /\ left' \in 0..MaxFrames /\ held' \in 0..MaxFrames
    <2> HIDE DEF f
    <2>1. PICK x \in Int, m \in Nat : x = f /\ m = MaxFrames /\ x <= m BY <1>t
    <2>2. PICK l \in Nat, h \in Nat : l = left /\ h = held /\ l + h <= x BY <1>c, <2>1
    <2>3. PICK l1 \in Nat, h1 \in Nat : l1 = left' /\ h1 = held' /\ l1 + h1 = l + h
      BY <1>1, <2>2
    <2>4. x - l1 - h1 = x - l - h /\ l1 + h1 <= x /\ l1 \in 0..m /\ h1 \in 0..m
      <3>1. l1 + h1 = l + h /\ l + h <= x /\ x <= m BY <2>1, <2>2, <2>3
      <3>2. QED BY <3>1
    <2>5. QED BY <2>1, <2>2, <2>3, <2>4, Zenon
  <1>s. f >= 0 /\ samples = (f - left - held) * file.output.channels
    BY <1>p DEF Inv, CodecInv
  <1>3. samples = (f - left' - held') * file.output.channels BY <1>2, <1>s, Zenon
  <1>4. CodecInv' BY <1>p, <1>s, <1>i, <1>2, <1>3 DEF Inv, CodecInv
  <1>5. ResultInv' BY <1>p DEF Inv, ResultInv, DurationKept
  <1>6. QED BY <1>4, <1>5

\* When the loop has ended, the samples are those of the whole track.
LEMMA WholeTrack ==
  ASSUME Inv, pc = "convert"
  PROVE  /\ file.frames \in Nat /\ Mono = file.frames
         /\ file.frames > 0 => format = file.output
  <1>t. file.frames \in (-1)..MaxFrames /\ MaxFrames \in Nat /\ file.output.channels \in 1..2
        /\ format.channels \in 1..2
    BY FileTyped DEF Inv, ScanInv, CodecInv, Format
  <1>1. file.frames \in Nat /\ left = 0 /\ held = 0
    BY <1>t DEF Inv, CodecInv
  <1>2. samples = file.frames * file.output.channels /\ (samples # 0 => format = file.output)
    BY <1>t, <1>1 DEF Inv, CodecInv
  <1>3. CASE file.frames = 0
    <2>1. samples = 0 BY <1>2, <1>3, <1>t
    <2>2. Mono = 0 BY <1>t, <2>1 DEF Mono
    <2>3. QED BY <1>1, <1>3, <2>2
  <1>4. CASE file.frames # 0
    <2>1. samples # 0
      <3>1. CASE file.output.channels = 1 BY <1>1, <1>2, <1>4, <3>1
      <3>2. CASE file.output.channels = 2 BY <1>1, <1>2, <1>4, <3>2
      <3>3. QED BY <1>t, <3>1, <3>2
    <2>2. format = file.output BY <1>2, <2>1
    <2>3. Mono = file.frames BY <1>1, <1>2, <1>t, <2>2, Downmix DEF Mono
    <2>4. QED BY <1>1, <2>2, <2>3
  <1>5. QED BY <1>3, <1>4

LEMMA ConvertKeeps == ASSUME Inv, Convert PROVE CodecInv' /\ ResultInv'
  <1>w. /\ file.frames \in Nat /\ Mono = file.frames /\ FrameCount = file.frames
        /\ file.frames > 0 => format = file.output
    BY WholeTrack DEF Convert, FrameCount
  <1>r. format.rate \in Rates /\ Resampled(Mono, format.rate) \in Nat
    BY <1>w, Lengths DEF Inv, CodecInv, Format
  <1>f. file' = file /\ UNCHANGED codecVars BY DEF Convert
  <1>1. CASE /\ Mono > 0 \/ format.rate = TargetRate
             /\ Return(Resampled(Mono, format.rate), Resampled(Mono, format.rate), "decoder")
    <2>1. CodecInv' BY <1>1, <1>f DEF Return, codecVars, Inv, CodecInv
    <2>2. result'.length = Resampled(Mono, format.rate) /\ result'.filled = result'.length
      BY <1>1 DEF Return
    <2>3. result'.length = IF FrameCount = 0 THEN 0 ELSE Resampled(FrameCount, file.output.rate)
      <3>1. CASE file.frames = 0
        <4>1. Resampled(0, TargetRate) = 0 BY DEF Resampled
        <4>2. QED BY <1>1, <1>w, <2>2, <3>1, <4>1
      <3>2. CASE file.frames > 0 BY <1>w, <2>2, <3>2
      <3>3. QED BY <1>w, <3>1, <3>2
    <2>4. FrameCount' = FrameCount BY <1>f DEF FrameCount
    <2>5. ResultInv' BY <1>f, <1>r, <2>2, <2>3, <2>4 DEF ResultInv, DurationKept
    <2>6. QED BY <2>1, <2>5
  <1>2. CASE /\ pc' = IF file.stream = "null" /\ attempts = 1 THEN "decode" ELSE "crashed"
             /\ UNCHANGED result
    BY <1>2, <1>f DEF codecVars, Inv, CodecInv, ResultInv, DurationKept
  <1>3. QED BY <1>1, <1>2 DEF Convert

\* The decoder has nothing to do with a plain WAV file.
LEMMA DecoderKeeps == ASSUME Inv, DecoderStep PROVE Inv'
  <1>1. /\ pc \in {"decode", "input", "output", "convert"}
        /\ pc' \in {"decode", "input", "output", "convert", "done", "crashed"}
        /\ UNCHANGED <<file, scanVars>>
    BY DEF DecoderStep, BeginDecode, Feed, SkipInput, TryAgainLater, FormatChanged, OutputBuffer,
           CodecFails, LoopEnds, Convert, Return
  <1>2. ScanInv' BY <1>1 DEF Inv, ScanInv, scanVars
  <1>3. PlainInv' BY <1>1 DEF Inv, PlainInv, Plain, Supported
  <1>4. CodecInv' /\ ResultInv'
    <2>1. CASE SkipInput \/ TryAgainLater
      BY <2>1 DEF SkipInput, TryAgainLater, codecVars, Inv, CodecInv, ResultInv, DurationKept
    <2>2. CASE FormatChanged
      <3>1. file.output \in Format BY FileTyped DEF Inv, ScanInv
      <3>2. QED BY <2>2, <3>1 DEF FormatChanged, Inv, CodecInv, ResultInv, DurationKept
    <2>3. CASE CodecFails
      BY <2>3 DEF CodecFails, Return, codecVars, Inv, CodecInv, ResultInv, DurationKept
    <2>4. CASE LoopEnds
      BY <2>4 DEF LoopEnds, Drained, codecVars, Inv, CodecInv, ResultInv, DurationKept
    <2>5. QED
      BY <2>1, <2>2, <2>3, <2>4, BeginDecodeKeeps, FeedKeeps, OutputKeeps, ConvertKeeps
      DEF DecoderStep
  <1>5. QED BY <1>2, <1>3, <1>4 DEF Inv

-------------------------------------------------------------------------------
LEMMA InvInit == Init => Inv
  <1> SUFFICES ASSUME Init PROVE Inv
    OBVIOUS
  <1>1. file \in File BY DEF Init
  <1>2. ScanInv BY <1>1, Widths DEF Init, ScanInv
  <1>3. PlainInv BY DEF Init, PlainInv
  <1>4. CodecInv
    <2>1. inEOS \in BOOLEAN /\ outEOS \in BOOLEAN BY Zenon DEF Init
    <2>2. QED BY <1>1, <2>1, FileTyped DEF Init, CodecInv
  <1>5. ResultInv BY DEF Init, NoResult, ResultInv, DurationKept
  <1>6. QED BY <1>2, <1>3, <1>4, <1>5 DEF Inv

LEMMA InvStep == Inv /\ [Next]_vars => Inv'
  <1>1. Inv /\ UNCHANGED vars => Inv'
    BY DEF vars, Inv, ScanInv, PlainInv, Plain, Supported, CodecInv, ResultInv, DurationKept,
           FrameCount, DataAt
  <1>2. QED
    BY <1>1, OpenKeeps, ScanChunkKeeps, ScanFailsKeeps, CopyKeeps, DecoderKeeps
    DEF Next, DecoderStep, Ended

LEMMA Invariance == Spec => []Inv
  BY InvInit, InvStep, PTL DEF Spec

-------------------------------------------------------------------------------
\* The scan, the codec and the array have their types: every position in the file
\* is an Int, and no array is filled beyond its length (AudioFile's TypeOK).
THEOREM TypeCorrect == Spec => []TypeOK
  <1>1. Inv => TypeOK
    BY Widths, Places, RangeAssumption DEF Inv, ScanInv, CodecInv, ResultInv, TypeOK
  <1>2. QED BY <1>1, Invariance, PTL

\* A WAV file with its chunks at even lengths and its data declared is loaded
\* whole, however wide an Int is (TranscriptionRepository.kt:149-170).
THEOREM PlainFilesLoaded == Spec => []PlainWavLoaded
  <1>1. Inv => PlainWavLoaded
    BY DEF Inv, PlainInv, Plain, PlainWavLoaded
  <1>2. QED BY <1>1, Invariance, PTL

\* Decoding a track of any length keeps its duration, in whatever order the codec
\* takes input, announces its format and gives output (AudioDecodeUtils.kt:38-120).
THEOREM DurationIsKept == Spec => []DurationKept
  <1>1. Inv => DurationKept BY DEF Inv, ResultInv
  <1>2. QED BY <1>1, Invariance, PTL
===============================================================================
