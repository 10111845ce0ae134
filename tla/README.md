# Whisper Android: TLA+ models of the app and of the engine it runs on

This directory holds TLA+ specifications of the Android application in
`src/` (the speech-to-text app "Whisper": Kotlin over a thin C++ JNI layer over
whisper.cpp and ggml, which the repository carries), TLC configurations that
check them on small instances, and TLAPS proofs about them. Paths below are
relative to the repository; `FT` stands for
`src/feature-transcription/src/main/java/com/app/whisper`, `WC` for
`src/native/whisper.cpp/src/whisper.cpp`, `GG` for
`src/native/whisper.cpp/ggml/src`.

To check a run: `tlc -config ModelManagerSerial.cfg MCModelLoading.tla`. To check
the proofs of a module: `tlapm ModelManagerProofs.tla`.

## 1. Inventory

| Component | Source | State it keeps | Operations |
|---|---|---|---|
| ModelManager | `FT/data/model/ModelManager.kt` | the model files `<fileName>` and `<fileName>.part` | `downloadModel`, `deleteModel`, `isModelDownloaded` |
| WhisperNative + JNI | `FT/nativelib/WhisperNative.kt`, `src/native/jni/whisper_jni.cpp` | `contextPtr`, the native contexts, `g_n_threads` | `initialize`, `transcribe`, `release` |
| TranscriptionRepository | `FT/data/repository/TranscriptionRepository.kt` | none | forwards to the two above and to the recorder; reads WAV files |
| TranscriptionViewModel | `FT/presentation/viewmodel/TranscriptionViewModel.kt` | `TranscriptionUiState`, `recordingJob`, `modelDownloadJob`, `audioBuffer` | load, select, download and cancel a model, record, transcribe, preferences |
| AudioRecorder | `src/feature-audio/.../audio/AudioRecorder.kt` | `audioRecord`, `isRecording` | `startRecording` (a flow), `stopRecording` |
| ModelsViewModel | `FT/presentation/viewmodel/ModelsViewModel.kt` | the rows of the Manage Models screen, `jobs` | download, cancel, delete, default, background work and its observers |
| ModelDownloadWorker, CancelDownloadReceiver | `FT/work/*.kt` | WorkManager's queue, notifications | `doWork`, `onReceive` |
| PreferencesManager | `src/feature-settings/.../PreferencesManager.kt` | the DataStore | get and set of six keys |
| Audio loading | `TranscriptionRepository.kt:70-176`, `src/core/.../AudioDecodeUtils.kt` | none | parse WAV, decode, downmix, resample |
| whisper.cpp: model file | `WC` 1510-1978, 3649-3773 | the open file, `n_loaded` | `whisper_init_from_file_with_params` |
| whisper.cpp: decoding | `WC` 998-1167, 6190-7716 | `prompt_past`, the decoders, the self-attention cache, the spectrogram | `whisper_full` and what it calls |
| ggml: graph building | `GG/ggml.c` 6246-6320 | a graph's nodes and leafs | `ggml_build_forward_expand` |
| ggml: graph allocator | `GG/ggml-alloc.c` | free blocks, offsets, reference counts | `ggml_gallocr_reserve`, `ggml_gallocr_alloc_graph` |
| ggml: compute threads | `GG/ggml-cpu/ggml-cpu.c` | a pool: `n_graph`, `stop`, `abort`, `current_chunk`, the barrier's counters, `wdata` | `ggml_graph_compute` |
| Compose screens | `FT/presentation/ui/*.kt` | the open file picker, dialogs | which button is enabled when |

**How they interact.** Both view models call `ModelManager.downloadModel`, which
hops to the IO dispatcher and reports progress by a callback that runs on the
streaming thread; the worker calls it too, from WorkManager's pool. These three
share no lock; what they share is the file system. `TranscriptionViewModel`
calls `WhisperNative.initialize` and `transcribe` through the repository; each
hops to the IO dispatcher, where calls share the unsynchronised field
`contextPtr` and the C++ global `g_n_threads`. The recording job runs
`AudioRecorder.startRecording` on an IO thread and shares its two fields with
`stopRecording` on the main thread. The screens read the view models' state and
so decide which request can be made next.

`initialize` opens the final path while `ModelManager` may delete or replace it;
the two share the inode. `transcribe` calls `whisper_full`, which decodes window
by window: it builds graphs (`ggml_build_forward_expand`), places their tensors in
a buffer measured beforehand (the allocator), and has a pool of threads compute
them; between the graphs it samples tokens and moves the cache's cells between
decoders. The cache and the weights lie outside the measured buffer.

**What is hard.** Cancelling a coroutine is cooperative: code that already runs
on an IO thread goes on until its next suspension point, its `onProgress` still
fires, and the awaiting caller gets `CancellationException` in place of the
block's result, so neither `onSuccess` nor `onFailure` runs. Jobs are replaced
without being joined. The process may die between any two file operations.
WorkManager replaces, stops, retries and reports asynchronously. A codec takes
input and gives output in any order. ggml's threads spin at a barrier that is
reused at once, and share a chunk counter and a scratch buffer; buffers are
reused by tensors that are not needed together, which the plan of a larger graph
decides; whisper.cpp's decoders share cells of one cache and outlive the
temperature they were reset for. `PROJECT.json` lists 40 such hazards, each
at its line with the properties that watch it. Where the code runs into the hazard
there is no property that would hold, and where a run's user is one who cannot meet it
(`PatientNext`, `UnhurriedNext`) the run says nothing about it: such hazards name no
property, and a note says what happens.

**What makes each component correct.**

* ModelManager: a file at the final path is complete, since `isModelDownloaded`
  asks for nothing but its existence; it is not written again; every call ends.
* TranscriptionViewModel and WhisperNative: "Ready" is shown of the model that is
  loaded; the download that `cancelModelDownload` would cancel is the one under
  way; what is shown is what is stored; every coroutine ends.
* Recording: the screen records if and only if a job does; transcriptions run one
  at a time; a stopped job ends.
* Background downloads: the `jobs` map knows every download that may act on a
  row; a work runs while exactly one worker does it, of its own model; no row goes on
  showing progress.
* Audio files: every sample of a file arrives, and loading ends in every file whose
  sizes do not lead the search back.
* Model file: a load ends with the whole model or with none.
* Decoding: a decoder attends to its prompt and its own tokens; context and cache
  are never exceeded; a window's result is its own; every call ends.
* Graphs: nodes in an order they can be computed in; no operand is overwritten
  before its last reader has read it; outputs survive; each part of a node is
  computed once; every call returns.

## 2. Modules

| Module | Models | Extends / uses |
|---|---|---|
| `ModelStore` | the abstract promise of `downloadModel` to its callers | |
| `ModelManager` | `downloadModel` and `deleteModel` on a file system of inodes | instantiates `ModelStore` |
| `ModelLoading` | `whisper_model_load` reading the file beside them | extends `ModelManager` |
| `WhisperNative` | `initialize` and `transcribe` with the JNI functions | |
| `TranscriptionViewModel` | the model half of the view model, the preferences | extends `WhisperNative` |
| `Recording` | the recording half of the view model, AudioRecorder, the buttons | |
| `BackgroundDownloads` | ModelsViewModel, the worker, the receiver; WorkManager as environment | |
| `AudioFile` | the WAV loader, the decoder loop, downmix and resampling as lengths | |
| `WhisperKvCache` | the self-attention cache: operators | |
| `WhisperFull` | `whisper_full_with_state`, call after call | extends `WhisperKvCache` |
| `WhisperSegments` | how a window's result is cut into segments: operators | |
| `GgmlBarrier` | `ggml_barrier` | |
| `GgmlGraph` | the abstract promise of `ggml_graph_compute` | |
| `GgmlThreadpool` | `ggml_graph_compute` and its pool | extends `GgmlBarrier` |
| `GgmlAlloc` | `ggml-alloc.c`: operators | |
| `GgmlBuild` | `ggml_build_forward_expand`: operators; the order of the decoder's self-attention | |
| `GgmlCompute` | a scheduler: allocator, pool and the buffer's contents together | extends `GgmlThreadpool`, `GgmlAlloc`; instantiates `GgmlGraph` |
| `ModelManagerProofs` (and `ModelLoading`), `TranscriptionViewModelProofs`, `RecordingProofs`, `BackgroundDownloadsProofs`, `AudioFileProofs`, `WhisperFullProofs`, `GgmlAllocProofs`, `GgmlComputeProofs` | proofs | |
| `MC...` | the instances TLC explores, their symmetry sets, and the comparisons of pure operators with reference definitions | |

### ModelManager

The paths are variables that name inodes (`tmp`, `out`), `blocks[i]` is the set
of body chunks on disk in inode `i`, and every caller has a program counter, the
inode its sink writes to (`fd`) and the number of chunks it has read (`got`).
There is one action per step of lines 41-88 at which another caller can see a
difference: `Begin`, `RequestAnswered`/`Refused`/`Throws`, `CleanTmp`, `OpenSink`,
`CheckActive` (the `isActive` test), `ReadChunk`, `ReadEof`, `CloseSink`,
`DeleteOut`, `RenameTmp`, `CatchDelete`, `Return`. The last chunk read stays in
the sink's buffer until the next write or `close`, as okio's buffered sink keeps
it (`Flush`). An open sink writes to its inode after a rename or an unlink, as
on Linux. `NeverDispatched` is `withContext` refusing a job that is already
cancelled. `Crash` ends every call and leaves the disk. One model is modelled:
the files of two models have different names and never meet.

### ModelLoading

whisper.cpp opens the final path (`OpenModel`) and from then on reads the inode
it got (`fin`), whatever becomes of the path. A part of the file is what one
group of reads takes: the magic with the hparams, the filters with the
vocabulary, then for each tensor its header and its data. A part is there, behind
the end of the file, or a hole (reads as zeros) left by a caller that writes on
into a file another truncated. `ReadHeader` alone looks for the end; `ReadData`
does not check that it got anything; `Loaded` counts. `Refuse` stands for every
way to NULL. The chunks of `ModelManager` are these parts, so that a file that is
short is short somewhere in particular. `LoadNext` lets the loader and
`ModelManager` take turns; `Held` is POSIX's promise that the inode of an open
file is not handed out again.

### TranscriptionViewModel over WhisperNative

A coroutine (`co[c]`) is the one of `loadPreferencesAndModel` or a download job;
its `pc` is the suspension point it waits at, since what happens between two
suspension points on `Dispatchers.Main.immediate` is atomic. Each action is
named for the call that returns: `StoreSelected`, `ReadPreferences`,
`FixThreads`, `ApplyPreferences`, `ReadSelected`, `ChooseModel`, `DownloadEnds`,
`DownloadSucceeded`, `DownloadFailed`, `InitReturns`. A cancelled coroutine ends
by `CancelledEnds`, past its handlers. `Progress` is `onProgress` on the
streaming thread. `downloadModel` itself is what `ModelStore` allows: it stores
the model or fails, perhaps having withdrawn an older copy; `ManageModels` lets
the other screen change the files and the default. `Recreate` is the activity
finished and opened again: the scope is cancelled, the singletons stay. The coroutines
of the old view model are `"cleared"`: one that streams goes on to the next test of
`isActive`, but its `onProgress` is not shown on the new screen.
`WhisperNative` splits a native call at each read and write of the shared
fields; a context is known by the model it was loaded from.

### Recording

A job goes through `Dispatch`, `OpenRecorder`, `StartRecorder`, the loop
(`TestFlag`, `ReadSamples`, `ReadNothing`, `Emit`) and `JobEnds`, the catch in
the view model. `Emit` always throws: the flow is collected on the main thread
and emits inside `withContext(Dispatchers.IO)`, which the flow's context check
refuses. So no chunk ever reaches the buffer, and the buffer is left out.
`DecoderEnds` is the end of a transcription; a failed one of a file emits
nothing and leaves `isProcessing` set. An `AudioRecord` that is stopped before it
is initialised would throw on the main thread; that end of the process is left
out.

### BackgroundDownloads

Rows have `downloaded` and `progress` (is it non-null); a foreground coroutine, a
worker and WorkManager's record of each unique name have a state each; an
observer is told of changes late and sees the last one only. `Literal` is the
one name all models share: in `uniqueWorkName` the dollar sign is escaped, in
the receiver it is not. `work` and `worker` follow WorkManager's documentation:
REPLACE and cancel stop a worker, which learns it at its next suspension point,
and take its notification away. A worker that cannot be made (the manifest does
not remove WorkManager's default initializer, and the worker is Hilt's) or whose
`setForeground` throws fails the work.

### AudioFile

`ScanChunk`, `ScanThrows`, `ScanEnds`, `Copy` are the search for the data chunk
in 32-bit integers (of a smaller width in the instance); the decoder is its loop,
one action per outcome of the two `dequeue` calls. Samples are counted, not
computed.

### WhisperFull over WhisperKvCache

One state, and calls of `whisper_full` on it one after the other. `pc` is the place
in the loops: `window` (the outer loop's head), `temperature`, `sample`, `decode`,
`rank`, `output`. `Encode` sets what a window sets anew; `StartTemperature` resets
the decoders, makes or clears the cache, stores the prompt and shares its cells;
`Sample` and `Beam` take a token for every running decoder among those the logits
filter leaves (`Allowed`: the timestamp rules of `whisper_process_logits`) and do
with it what lines 7306-7388 do (`Update`); `Moved` is the exchange of sequences
that the code makes by way of spare ones; `Decode` stores the batch in the slot the cache finds; `Rank`
cuts the results, lets repetitive ones fail, chooses the best and falls back to the
next temperature; `Output` makes the past and moves the window. Which allowed token
is sampled, scores, entropies and the no-speech probability are nondeterministic.
Every computation may fail (`EncodeFails`, `PromptFails`, `DecodeFails`,
`CacheFails`); the last one frees the state under the context that still points to
it, after which nothing is modelled (`gone`).

A cache cell has its position, its set of sequences and, as history, the token
whose keys and values it holds: `CacheCoherent` compares what the mask of
`whisper_decode_internal` lets a decoder see with what it should see. What decoders
hold of an earlier window is left out at `Encode`; that nothing reads it is
`BestOfThisWindow`. The code copies cells to one sequence after the other; `SeqCpAll` and
`SeqMove` say what is left of these loops. One action samples for all decoders, although the code has a
thread per decoder: each works on its own decoder, and they are joined.

`WhisperSegments` is the loop of lines 7582-7689 as a fold, compared in
`MCWhisperFull` with a definition without a loop.

### The ggml modules

`GgmlBarrier` has one action per atomic access of `ggml_barrier`; `trips` counts,
as history, how many barriers a thread has gone through. `GgmlThreadpool` is the
disposable pool `ggml_graph_compute` makes when the CPU backend has none, as in the
app (`cpu_ctx->threadpool` is NULL), in the build without OpenMP: workers poll, take
the mutex, sleep and are woken (`FindWork`, `GiveUpPolling`, `Sleep`), all threads walk
the nodes, a node is shared by rows, done by thread 0, or is a `mul_mat` with its
conversion, its barrier and its chunk counter. `Kickoff` and `Stop` are atomic since
the code holds the mutex; computing a chunk and fetching the next number is one
step. `written` is history: which part of which node which thread computed.

`GgmlAlloc` are operators: best fit among the free blocks, merging at free, the two
walks over the graph with reference counts, views, results put in the place of an
operand, reservation and its reuse. An output is protected by its own flag only: a
view flagged as output is protected through what it is a view of only if that is
flagged too. `NeedsRealloc` compares the numbers of leafs and of nodes and the sizes of what is to be
allocated, views and what is held elsewhere counting nothing, and not what reads what, as
the code does. `WellFormed` and `SameShape` say what the graphs of whisper.cpp are like
(section 5). `GgmlCompute` has the buffer (`mem`: which tensor each row holds), so that
`OperandsIntact` and `OutputsKept` are about what threads would really read; what is
held elsewhere (`External`: the weights, the KV cache and the views into it) is never in
the buffer.

`GgmlBuild` is the recursive walk that orders the nodes, and the part of
`whisper_build_graph_decoder` where order is all there is: the attention reads the
cache through views that do not depend on the copies into it.

### External parts

Modelled from how the code uses them: WorkManager, `WorkInfo`, process death, the
activity's end, open inodes (12 of the mapped definitions, marked external).

## 3. Runs

| Run | Instance | Checks |
|---|---|---|
| `mm_serial` | 2 callers one at a time, 3 inodes, a model of 2 tensors (6 parts), a loader (193,603 states) | `TypeOK`, `FinalComplete`, `LoadedWhole`, `PublishedImmutable`, `StoreRefined` |
| `mm_concurrent` | 2 racing callers, 3 inodes, 1 chunk, weak fairness (145,373) | `NoAlias`, `PublishedNeverTruncated`, `CallsReturn` |
| `vm_patient` | 2 models, 2 coroutines, thread counts 4 and 8; a user who waits (4,348) | `TypeOK`, `ReadyHonest`, `DownloadingHonest`, `PreferencesAgree` |
| `vm_ends` | 1 model, 2 coroutines, any user, weak fairness (241,440) | `JobOwned`, `CoroutinesEnd` |
| `rec` | 2 jobs, 2 transcriptions, 2 reads to a second, an unhurried user, weak fairness (488) | `TypeOK`, `RecordingHonest`, `OneTranscription`, `RunningIsShown`, `CancelledJobsEnd` |
| `bg` | 2 models, 2 jobs, 2 workers, two downloads alive at a time; no foreground download abandoned (1,624,934) | `TypeOK`, `JobOwned`, `OneWorkerPerName`, `QuietRows` |
| `audio` | WAV files with 0, 2 or 4 bytes of data and no, an even or an odd chunk before it; tracks of up to 3 frames, 3 rates, 2 channels; 8-bit positions; off the chunks sizes that go on, stay (-8), lead back (-43 to the first chunk) or out of the file (31,134) | `TypeOK`, `PlainWavLoaded`, `DurationKept`, `LoadEnds` |
| `compute` | every graph of 3 nodes that reads both its inputs by one thread, an attention block, a tall product and a wide one by 2 and 3 threads, a plan outgrown, a row stored in and read from the KV cache (179,838) | `TypeOK`, `BarrierSafe`, `OperandsIntact`, `OutputsKept`, `GraphComputed`, `Returns` |
| `whisper` | a context of 14 positions, 2 decoders, 3 temperatures, greedy and beam search, audio of 0, 50 ms and 20.3 s, call after call (289,385) | `TypeOK`, `CacheCoherent`, `PositionInContext`, `SlotFound`, `BestOfThisWindow`, `CallEnds` |
| `load_race` | as `mm_serial`, the callers racing | `WeightsWhole` is violated |
| `vm_wrong_model` | 2 models, 2 coroutines, any user | `QuietReadyHonest` is violated |
| `bg_notification_cancel` | 2 models, 1 job, 1 worker | `NotificationCancels` is violated |

Before a run TLC evaluates the named assumptions of its modules. Those of the `MC`
modules compare pure operators with reference definitions, over every small input:
`SlotsAreFound` (the search loop of `whisper_kv_cache_find_slot` over all caches of up
to 6 cells finds what `FindSlot` says), `CopiesInOne` (the copies of the prompt and
the exchange by way of spare sequences do to every cache of two cells and three
sequences what `SeqCpAll` and `SeqMove` say), `SegmentsAsMarked` and `SegmentsInOrder` (the
segments of every result of up to 5 tokens), `GraphsWellBuilt` (every graph of 4
tensors), `CacheStoredFirst` (decoders of up to 4 layers) and `BlockAsBuilt`.

**What they show.** Used by one caller at a time ModelManager keeps its promise
through cancellations, refusals, exceptions and crashes: it implements
`ModelStore`, whose one weakness is that a replaced model is withdrawn before the
new one is published, and a load beside it gets a whole model or none. Racing
callers still cannot alias the two paths or truncate a published file. A user who waits sees the truth; a user who does not
keeps ownership of the download, but may see "Ready" of the wrong model. The
recorder's screen state is sound under every interleaving; ending a cancelled job
needs a user who lets it start. A background work is running while exactly one worker
does it, though a stopped one may still be streaming, and the rows come to rest, unless a foreground download was abandoned. No decoder ever sees
another's tokens, with whatever failures before; the context is filled to its last
position and not beyond. The barrier holds, so the allocator's reuse of buffers,
decided for one order of the nodes, is safe when threads compute them; and a plan
made for the largest graph is safe for the smaller ones of the same shape.

**Bounds and why they are enough.** Two callers, coroutines, jobs or workers are
enough for every hazard listed, each of which is about one actor meeting an older
one; what can be said for all numbers is proved (section 5). Three inodes are
one per caller's sink and one for the final path. `Size` is 6 where a model is read,
two tensors being what a missing last one takes, and 1 where only the files'
identity does. `Second = 2` lets a job
hold samples with and without having reached a second. `MaxFrames = 3` at rates
below, at and above the target covers truncation and the minimum length 1. The
narrow integers (`HalfRange = 128`) are reached by `Garbage`, the sizes read off
the chunks, so that sums do wrap; it has one size or more of each kind: forward by
less than a header, past the end, standing still, back to a chunk at once or in several
steps, back past all of them, and out of the file. In `bg` two workers let a stopped one
stream on beside its replacement; the constraint `AtMostTwoDownloads` follows what any
two foreground coroutines and workers do together, and not three at once, which the
theorems of section 5 include. `pendingThreads` allows one
write of the thread count at a time; DataStore serialises writes. A request that
finds no free coroutine, transcription or worker waits: a bound. In `whisper`,
14 positions leave three tokens to a window, enough to see a timestamp, a text
behind it and the end, and the last position of the context reached with the longer
prompt; two decoders share, exchange and free cells; 20.3 s are two windows when the
first ends in a timestamp, the second of them with a past. In `compute` three threads
are those that find a barrier open, spin and come last; four times two rows are
where `mul_mat` changes how it cuts chunks. `MaxThreads`, `TextCtx` and the like are
arbitrary in the proofs.

**Fairness.** The dispatchers run every coroutine, native call and IO block
(`WF_vars` of each actor's own steps, never of the user's). OkHttp's default
timeouts end a read that gets nothing. For a codec, weak fairness of the loop is
not enough, for the code may be told "try again later" for ever: `AudioFile`
assumes (`SF_vars`) that a codec asked again and again takes a frame, announces
its format and gives a buffer. `CancelledJobsEnd` is checked for a user who stops
a recording once it captures: `stopRecording` before the flag is set is undone by
`startRecording`, and the job never ends (the hazard at `AudioRecorder.kt:40`).
`WhisperFull` assumes that a call goes on while it can: `FairSpec` says so of the
steps that move `pc` inside of a call; each of its steps does, and TLC finds no
deadlock. In `FairComputeSpec` every thread, the caller included, goes on running;
spurious wakeups and aborts are left to chance.
`PatientNext` and `UnhurriedNext` restrict the user, never the system.

**Deadlock** is checked in every run; `AudioFile` says by `Ended` where it stops,
`WhisperFull` by `Crashed`.

**Mutants.** Beside each module's actions stand plausible bugs (`StopRecording_KeepsFlag`,
`ReadEof_NoBreak`, ...); each property of a passing run is violated when the bug
named in `PROJECT.json` takes the place of the action.

## 4. Where the code and its words disagree

Three disagreements are runs:

* `load_race`: two calls for one model share one `.part` path. One deletes or
  replaces the file the other streams to, and the first to finish renames
  whatever the path names: a file that is still being written, which
  `isModelDownloaded` accepts. "Ensure tmp file clean" (`ModelManager.kt:54`) and
  "Atomically move to final path" (`:76`) hold for one caller only. And
  `whisper_model_load` accepts a file that ends before the data of its last tensor:
  it counts tensors by their headers, although line 1969 means to refuse a model
  that is not all there ("ERROR not all tensors loaded from model file"). The view
  models can make two calls: `startModelDownloadInternal` cancels the older job
  without joining it, and the two screens and the worker do not know of each
  other.
* `vm_wrong_model`: `selectModel` leaves the coroutine that loads the previous
  model running; once all is quiet the screen says "Ready" beside a model that is
  not the one in `contextPtr`.
* `bg_notification_cancel`: the notification's Cancel reaches no work, because
  the view model's names come from an escaped template and the receiver's do not.

Others were met while modelling and are visible in a definition rather than in a
run of their own:

* A model file without any tensor is loaded as an "empty model for testing"
  (`Loaded`, `WC` 1966); decoding with it yields nothing.
* Audio without samples does not replace the spectrogram, so the last call's is
  transcribed again (`Call`; `whisper_jni.cpp:60` passes what it got, `WC` 6815).
* If a larger cache cannot be had, the state is freed and the context keeps pointing
  to it (`CacheFails`, `WC` 7116): the next call uses freed memory.
* Under the logits filter a timestamp never goes back, so the failure of `WC` 7327
  cannot happen.
* A segment starts at the timestamp that ended the one before it, not at the one it
  begins with (`StartTime`, `WC` 7648).
* `initialize` leaks the context it replaces (`WhisperNative.kt:32`), and a return from
  inside `use` leaves a file's later chunks unread (`TranscriptionRepository.kt:148`).
* Replacing a model deletes it first (`DeleteOut`): a crash before `RenameTmp`
  leaves neither copy.
* A cancellation after the last `isActive` test does not stop the rename.
* `cancelModelDownload` leaves `modelDownloadProgress` set (`CancelledEnds`), and
  `startModelDownload` then refuses.
* A failed load leaves the screen at "Initializing" (`InitReturns`).
* A thread count set after the load is not used by `transcribe` (`FetchContext`
  reads `gThreads`).
* `contextPtr` may become null between `GuardContext` and `FetchContext` when a
  load fails beside a transcription.
* No emitted chunk is ever delivered (`Emit`), so what is transcribed after a
  recording is empty.
* After an exception the `AudioRecord` goes on capturing (`JobEnds`).
* A failed transcription of a file leaves `isProcessing` set (`DecoderEnds`), and
  a transcription of a cleared view model runs beside the next one's
  (`ViewModelCleared`).
* One work name for all models: Download All keeps the last model's work only
  (`DownloadAll`), and every row takes its end for its own (`Observe`).
* A row's Cancel does not reach the background download it shows
  (`CancelDownload`); a late `onProgress` puts the progress back (`JobProgress`).
* Failures are retried without limit (`AfterFailure`); a late report of a stopped
  worker posts its notification again (`WorkerProgress`).
* A chunk of odd length hides the data chunk behind it (`NextChunk`); a WAV file
  of undeclared length gives no samples (`Copy`). A size that leads the search back
  keeps it going for ever: `pos += 8 + size` (`TranscriptionRepository.kt:156`) stands
  still at -8, and -43 read at 47 goes back to 12 (`LeadsBack`, which `LoadEnds`
  excepts). A file that is no supported WAV
  file never reaches the decoder (`Open`); a track that decodes to nothing at
  another rate throws out of the loader (`Convert`).

## 5. Proofs

All for any finite or infinite sets of callers, inodes, jobs, models and so on,
from the assumptions named in the modules (a body has at least one chunk, `None`
is none of the others, the processor count and 4 are thread counts, a graph is a
sequence of at least one node, an Int counts further than the 60 bytes of the
longest file modelled, the context has 10 positions or more, the cache no fewer,
there is a temperature, and a scheduler's graphs are as the next paragraph says).
`ModelManagerProofs` extends `ModelLoading` so that both are in one module; what it
proves of `ModelManager` cites nothing `ModelLoading` assumes.

*What graphs are like* (`WellFormed`, `SameShape`, `ShapesAssumption`). A tensor is made
after those it reads and the one it is a view of (`ggml_visit_parents` puts them in
that order), and a view of a view is made one of the tensor itself, and not larger
(`ggml_new_tensor_impl`). whisper.cpp computes into a view only by `ggml_cpy` into the KV
caches (`WC:2167-2168, 2362-2363, 2614-2615`) and, in the VAD, into its
state (`4627, 4631`), all in buffers of their own, and flags as output only the results
of computations (`2054, 4669`). All tensors together are smaller than the `SIZE_MAX / 2`
the allocator starts from (`GG/ggml-alloc.c:286`), in the model `Unlimited`, a number. One function builds all graphs of a
scheduler (`whisper_sched_graph_init` is given it), for other numbers of tokens; so two
of them that pass `ggml_gallocr_needs_realloc` differ in sizes alone. That comparison
itself does not look at what reads what (the hazard at its line), so the assumption
stands in place of it. An operand that has the result's layout in the measured graph has
it in the smaller one too: the operations that may work in place take operands of the
result's shape whatever the sizes are, or a row of constants from the weights. TLC
evaluates these assumptions on the instance's graphs, those of `GgmlBuild` among them.

| Theorem | States |
|---|---|
| `ModelManagerProofs!TypeCorrect` | `Spec => []TypeOK` |
| `ModelManagerProofs!AliasFree`, `NeverTruncated` | `NoAlias` and `PublishedNeverTruncated`, however many callers race |
| `ModelManagerProofs!SerialInvariant`, `SerialComplete`, `SerialImmutable` | `SerialInv`, `FinalComplete`, `PublishedImmutable` for one caller at a time |
| `ModelManagerProofs!SerialRefinesStore` | `SerialSpec => Store!Spec`: the refinement |
| `ModelManagerProofs!LoadingRefinesManager` | `SerialLoadSpec => SerialSpec` |
| `ModelManagerProofs!WholeModelLoaded` | `LoadedWhole`, for models of any number of tensors |
| `TranscriptionViewModelProofs!TypeCorrect`, `DownloadsOwned` | the types and `JobOwned`, for any user |
| `TranscriptionViewModelProofs!PatientReady`, `PatientDownloading`, `PatientPreferences` | `ReadyHonest`, `DownloadingHonest` and `PreferencesAgree` for the patient user |
| `RecordingProofs!TypeCorrect`, `RecordingShown` | the types and `RecordingHonest`, for any user |
| `RecordingProofs!TranscriptionsApart`, `RunningShown` | `OneTranscription` and `RunningIsShown` for the unhurried user |
| `BackgroundDownloadsProofs!TypeCorrect`, `DownloadsOwned`, `OneWorker` | the types, `JobOwned` and `OneWorkerPerName`, for any number of models, and downloads abandoned or not |
| `BackgroundDownloadsProofs!RowsQuiet` | `QuietRows`, as long as no foreground download is abandoned |
| `AudioFileProofs!TypeCorrect`, `PlainFilesLoaded`, `DurationIsKept` | the types, `PlainWavLoaded` and `DurationKept`, for every width of an Int, all rates and tracks of any length |
| `GgmlComputeProofs!BarrierIsSafe` | `BarrierSafe`, for any number of threads and any graphs |
| `GgmlComputeProofs!PoolTypeCorrect`, `PoolComputesGraphs` | the pool's types, and `Spec => Computed!Spec`: the refinement of `GgmlGraph` |
| `GgmlAllocProofs!AllocKeeps`, `FreeKeeps` | the free blocks stay in order; what is given out was free and is free no more, what is freed is what was told, and nothing else changes |
| `GgmlAllocProofs!ReserveSound`, `PlanSound` | the plan made for a graph is sound (`SoundPlan`), and for a smaller one of its shape, for graphs of any size |
| `GgmlComputeProofs!OperandsAreIntact`, `OutputsAreKept` | `OperandsIntact` and `OutputsKept`, for every scheduler, its graphs of any size and any number of threads |
| `GgmlComputeProofs!SlicesAreOfThisNode` | the half of `OperandsIntact` that is about the converted operand in the work buffer |
| `GgmlComputeProofs!ComputeIsPool`, `ComputeBarrierIsSafe`, `ComputeTypeCorrect`, `GraphsAreComputed` | `ComputeSpec => Spec` of the pool, and so `BarrierSafe`, the types and `GraphComputed` beside the allocator |
| `WhisperFullProofs!TypeCorrect`, `CacheIsCoherent` | the types and `CacheCoherent`, for every context, number of decoders and parameters |
| `WhisperFullProofs!SlotIsFound` | `SlotFound`, likewise |
| `WhisperFullProofs!PositionsKnown` | `PositionInContext`, likewise |
| `WhisperFullProofs!BestFromWindow` | `BestOfThisWindow`, likewise |

*ModelManager.* `NoAlias` is inductive with the types, because a sink is opened on
an inode no path names. `FinalComplete` is not: a partial `.part` file could be
renamed. `SerialInv` adds what the code relies on without saying so: one call is
active; while its sink is open the `.part` path names the sink's inode, which
holds the chunks read less the one in the buffer; at `close` the whole body has
been read; from `replace` on the `.part` file is complete. The refinement maps the
file at the final path to "absent" or "complete" and each call to its phase;
every step is then a step of `ModelStore` or a stutter.

*ModelLoading.* A loader changes nothing of `ModelManager`, so `SerialInv` holds beside
it. `LoadInv` adds that the inode that is read is a complete one and not that of the
`.part` path (`Intact`: calls write to that one only), and that so far everything was
there, the end of the file being met behind the last tensor (`Reading`).

*TranscriptionViewModel.* `JobOwned` needs that only download coroutines are
jobs and stand at a download's suspension points (`Fits`), and that a new job
cancels the one `modelDownloadJob` named. The types need that a pending
`initialize` carries a thread count (`CallCarries`).

For the patient user the screen's flags speak of what is under way. `PatientInv` says
that one coroutine is under way at most (`OneAtATime`); that the load it waits for is of
its model, which is the one selected, and "Ready" is not shown meanwhile (`LoadShown`);
that `modelDownloadJob` names no cancelled download (`JobShown`) and a progress that is
shown is that of the job it names, or there is none (`ProgressShown`); that a model shown
as loaded is shown as downloaded (`StoredShown`), so that the patient user, who sees
`DownloadButton` while it is not, never downloads over it; that the thread
count shown is the stored one, or one yet to be stored or shown (`ThreadsShown`); and
where a transcription stands (`FileInv`). Each of the three properties is a few
conjuncts of it.

*Recording.* `RecordingHonest` is not inductive: a job that leaves its loop
normally ends without telling the screen. `ShownRuns` adds that the flag is set
while the screen records and its job is in the loop, since only `stopRecording`
clears it, and with it `isRecording`; so that job leaves only by an exception,
whose catch resets `isRecording`. `Fits` bounds the samples a job holds. For the
unhurried user `Alone` says that whatever is alive is what the screen shows: a
transcription has `isProcessing`, a job is `recordingJob`.

*BackgroundDownloads.* `JobsInv`, `WorkInv` with `Driven`, and `ShownInv` are inductive one
after the other: foreground downloads, work and workers, what is shown. That a worker
which is not stopped has a running work of its model to itself is `Matched`; that a
running work has such a worker is `Driven`, and together they are `OneWorkerPerName`,
although stopped workers of the same name may still be streaming. `RowsQuiet` adds `RowsInv`: every
row with progress is that of a download whose coroutine will clear it (`Downloading`),
or a work that ends has yet to be reported to its observer (`WillHear`).

*AudioFile.* `PlainWavLoaded` needs the position of the scan: at the head of each chunk
`pos` is that chunk's place in the file, and behind the chunks of a plain file that is
its data (`PlainInv`). No sum wraps on such a file, as it is shorter than an Int counts.
Files stay the shapes the model has (`File`); what is general is the width, the rates
and the track. `DurationKept` needs that what the extractor and the codec still hold and
what has been put out make up the track, and that the loop does not end while they hold
some (`CodecInv`).

*The barrier.* `nBarrier` counts those that came since the barrier opened last
(`Counted`); a thread is where the number of openings it has seen says (`Placed`);
and the last one to come finds all the others waiting (`Alone`). That a thread of the
team alone ever gets there is `Outside`.

*The pool.* That no two threads of a team are further apart than one barrier does not say
yet which node they are at. `NodeAt` and `HalfAt` compute both from the number of barriers
a thread has seen open and the graph alone: a node takes one barrier, a multiplication
another one behind the conversion of its operand. So the threads that have seen the same
barriers are at the same node (`Knows`, `Together`), an abort, which the caller's thread
decides before a barrier, reaches all of them at the same node (`AbortInv`), and slices
converted between two barriers are of the node the chunks are multiplied at
(`SlicesInv`). `WrittenInv` says what has been computed when the threads stand there: of
nodes before, every part; of this one, those of the threads that have come further and
the chunks below the counter that no thread still holds (`ChunksInv`), each of which was
handed out once, since the counter is set between two barriers that all pass. Every step
is then one of `GgmlGraph` or a stutter.

*The allocator.* The free blocks are in order, apart, and the last of them is endless
(`FreeOK`); a range is `Clear` if no block meets it. `AllocKeeps` and `FreeKeeps` are
about any such list, so about every merge with the block before, behind or both. Along
the walk the tensors allocated have ranges that are clear and apart (`Layout`); the
endless block begins no further out than what the tensors placed so far add up to,
so that it does not run out. What lets a tensor be freed is its counts: `Counts` says
that they are the number of operands still to be read that are this tensor, and of its
views of which some still are. So what is still wanted, by an operand or as an output,
is allocated (`Kept`, with `Useless`: counts of zero mean wanted no more). `Walked` is
all of that, of the operands not yet read, and is kept by each loop of the code
(`AllocateNode` for operands and nodes, `UpdateParent`). `PlacedWell` is what comes of
it: a tensor placed while an earlier one is wanted has rows of its own, or is its only
reader left, works row by row, and has its layout (`Takes`). Offsets of the measured
graph fit a smaller one of the same shape, whose ranges are parts of those
(`SmallerSound`). The walk is a fold; its loops are unrolled into a sequence of states
and induction goes over the rounds, as a least round that fails (`Numbers`).

*The buffer.* `MemInv` says that whatever has been computed, or put in as an input, is in
its rows of the buffer, except where a later tensor that shares them was computed since.
When a thread works at a node, the nodes before it are complete and of those behind it
nothing is (`AtWork`, from the pool's invariant). So if a row of an operand were lost, it
would be to a tensor up to this node, while this node still needs the operand; a sound
plan lets only this node itself take its place, row by row (`Covered`), and the row the
thread reads is one of its own part, which it has not computed yet (`OperandThere`). An
output is wanted for ever, so nothing takes its place (`OutputThere`). `OperandsIntact`
is not inductive, and neither is it with the pool's invariant alone: the plan and the
buffer's history are needed. TLC checked `PlanInv` and `MemInv` on the run's states
before they were proved.

*WhisperFull.* The context is filled exactly, so `PositionInContext` depends on how a
window ends: without timestamps a decoder has no result before it ends, and so does
not go on after the last token (`Sizes`). `best` is 0 or of this window before the
first temperature and of this window after, since every temperature resets decoder 0
(`Bests`). The types need that a window is not decoded in the last 100 ms (`Typing`).

*The decoders' cache.* `Holds` says of one decoder that its cells are the prompt's tokens
and its own, each position once, and `CacheInv` that this is so of every running one.
A decoder that beam search lets follow another gets a copy of what that one holds
(`MoveHeld`), the batch adds one position to each that runs (`BatchHeld`), and the
mask's limit leaves out no cell in use (`AllSeen`).
That a slot is found in one piece needs where the cells are as well: the prompt's come
first, and tokens of one position, which were stored together, are less than a batch
apart (`Packed`). One decoder alone uses no more cells than there are tokens
(`CellIsThere`). With d decoders the cells behind the prompt are cut in blocks of d: if
the batch fits nowhere, no block is free; two of every other block are too far apart to
have cells of one position, so there are no more of them than positions decoded
(`SlotIsThere`), while `CacheFactor` makes room for one more (`RoomForBatches`).

*Only model-checked:* all liveness, which the provers do not reach; what the recursive
walk of `ggml_build_forward_expand` orders (`GgmlBuild`) and how a window is cut into
segments (`WhisperSegments`), recursion over data that TLC compares with reference
definitions; and the assumptions of the `MC` modules.

## 6. Not modelled

`NetworkModule`, `WhisperApp`, `MainActivity`, `AppThemeViewModel`, the theme,
formatting helpers and build files: wiring without behaviour of their own.
`WhisperNative.release`, `transcribeFile`,
`loadAudioFile` and `getWaveformData` have no caller. Language, translate, theme
and the Wi-Fi switch are read and written as the thread count is. The number of
native contexts leaked by `initialize`, what a decoder leaves unreleased, and
error texts have no property. `Resampled` divides integers where the code truncates a
product of doubles (`AudioDecodeUtils.kt:125-126`), which may come out one less at some
rates. The manifest declares no permission, so downloads
and recordings may be refused outright: a refused request and a recorder that
throws are among the outcomes of `RequestThrows` and `RecorderThrows`.

Of whisper.cpp: where a search for a slot that fails leaves `cache.head` (the call fails
with it, and the cache is cleared before it is used again), the spectrogram, the encoder, language detection, the initial
prompt, grammars, VAD, DTW and token timestamps, the abort and encoder callbacks,
`single_segment`, and what the parts of a model file hold. Of ggml: pools that are
kept, paused and resumed (the app makes none; `GG/ggml-cpu/ggml-cpu.c:2893-2906`
reads two fields without order there), the OpenMP build, priorities and affinities,
the abort at more than `MAX_FREE_BLOCKS` (256) free blocks (`GG/ggml-alloc.c:265`),
several buffers, alignment, gradients, the split of a graph between back ends. The
numeric kernels, quantisation and data formats compute reals and bits, out of TLC's
reach; the GPU back ends, the examples, tools and bindings are not built for the app
and make up nearly all of the repository's lines.

## 7. Plan

Done: the app (downloads, view models, recording, background work, audio files),
the model file, decoding, and ggml's graphs from building to computing; two abstract
specifications and their refinements; proofs of all the safety properties of the
runs that pass.

Left, in this order:

1. A module that composes both screens' downloads with `ModelStore` per model:
   the transcription screen, the Manage Models screen and the worker as its
   callers, and process death with WorkManager's queue surviving it.
2. The scheduler's split of a graph between back ends, if the app comes to use one.
