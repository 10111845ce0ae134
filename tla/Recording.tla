------------------------------- MODULE Recording -------------------------------
(***************************************************************************)
(* Recording and transcription: AudioRecorder.kt, the recording half of    *)
(* TranscriptionViewModel.kt and the buttons of TranscriptionScreen.kt.  A *)
(* recording job runs on an IO thread and shares the recorder's two        *)
(* fields, without a lock, with stopRecording on the main thread and with  *)
(* jobs it outlives.  Samples and texts are left out; so is the buffer of  *)
(* chunks, which stays empty because no emit returns (see Emit).           *)
(***************************************************************************)
EXTENDS Integers

CONSTANTS Jobs,           \* recording jobs that may be alive at a time
          Decoders,       \* transcriptions that may be alive at a time
          Second,         \* reads of the recorder that make one second of audio
          None            \* no job

ASSUME SecondAssumption == Second \in Nat \ {0}
ASSUME NoneAssumption == None \notin Jobs

VARIABLES isRecording, isProcessing, isModelLoaded,   \* TranscriptionUiState
          picker,         \* the file picker is open
          recordingJob,   \* of the view model
          audioRecord, flag,      \* fields of AudioRecorder (flag: isRecording)
          job,            \* progress of each recording job
          decoder         \* progress of each transcription

uiVars == <<isRecording, isProcessing, isModelLoaded, picker>>
recorderVars == <<audioRecord, flag>>
vars == <<isRecording, isProcessing, isModelLoaded, picker, recordingJob,
          audioRecord, flag, job, decoder>>

\* Where a job is: before its block, before and after the AudioRecord is created,
\* at the loop's test, in read, in emit, after the loop, and leaving the block
\* by an exception or normally.
Stages == {"idle", "dispatch", "open", "start", "loop", "read", "emit", "threw", "returned"}

TypeOK ==
  /\ isRecording \in BOOLEAN /\ isProcessing \in BOOLEAN
  /\ isModelLoaded \in BOOLEAN /\ picker \in BOOLEAN
  /\ recordingJob \in Jobs \cup {None}
  /\ audioRecord \in {"null", "created", "capturing"} /\ flag \in BOOLEAN
  /\ job \in [Jobs -> [pc : Stages, data : 0..Second, status : {"active", "cancelled"}]]
  /\ decoder \in [Decoders -> [kind : {"none", "record", "file"},
                               status : {"active", "cancelled"}]]

NoJob == [pc |-> "idle", data |-> 0, status |-> "active"]
NoDecoder == [kind |-> "none", status |-> "active"]

Init ==
  /\ isRecording = FALSE /\ isProcessing = FALSE /\ isModelLoaded = FALSE /\ picker = FALSE
  /\ recordingJob = None
  /\ audioRecord = "null" /\ flag = FALSE
  /\ job = [j \in Jobs |-> NoJob]
  /\ decoder = [t \in Decoders |-> NoDecoder]

-------------------------------------------------------------------------------
(***************************************************************************)
(* Plausible bugs, each substituted for the action of like name to show    *)
(* that the properties below depend on what the code does.                 *)
(***************************************************************************)

\* Lets a file be chosen while a recording is transcribed.
ChooseFileEnabled_Processing == ~isRecording /\ ~picker

\* Cancels the job and releases the recorder, but leaves the loop's flag set.
StopRecording_KeepsFlag ==
  /\ isModelLoaded /\ ~isProcessing /\ ~picker /\ isRecording
  /\ job' = [j \in Jobs |-> IF j = recordingJob /\ job[j].pc # "idle"
                            THEN [job[j] EXCEPT !.status = "cancelled"] ELSE job[j]]
  /\ audioRecord' = "null"
  /\ isRecording' = FALSE /\ isProcessing' = TRUE
  /\ \E t \in Decoders : decoder[t] = NoDecoder /\ decoder' = [decoder EXCEPT ![t].kind = "record"]
  /\ UNCHANGED <<isModelLoaded, picker, recordingJob, flag>>

\* Stops the recorder and leaves it to the flag to end the job.
StopRecording_KeepsJob ==
  /\ isModelLoaded /\ ~isProcessing /\ ~picker /\ isRecording
  /\ flag' = FALSE
  /\ audioRecord' = "null"
  /\ isRecording' = FALSE /\ isProcessing' = TRUE
  /\ \E t \in Decoders : decoder[t] = NoDecoder /\ decoder' = [decoder EXCEPT ![t].kind = "record"]
  /\ UNCHANGED <<isModelLoaded, picker, recordingJob, job>>

\* Collects samples without ever emitting them.
ReadSamples_NeverEmits(j) ==
  /\ audioRecord = "capturing"
  /\ job[j].pc = "read"
  /\ job' = [job EXCEPT ![j].data = @ + 1, ![j].pc = "loop"]
  /\ UNCHANGED <<uiVars, recordingJob, recorderVars, decoder>>

\* Catches the exception and shows the error only.
JobEnds_KeepsRecording(j) ==
  /\ job[j].pc \in {"threw", "returned"}
  /\ job' = [job EXCEPT ![j] = NoJob]
  /\ UNCHANGED <<uiVars, recordingJob, recorderVars, decoder>>

-------------------------------------------------------------------------------
\* The buttons.
RecordEnabled == isModelLoaded /\ ~isProcessing /\ ~picker
ChooseFileEnabled == ~isRecording /\ ~isProcessing /\ ~picker

\* A transcription starts.
Decode(kind) ==
  \E t \in Decoders :
    /\ decoder[t] = NoDecoder
    /\ decoder' = [decoder EXCEPT ![t].kind = kind]

StartRecording ==
  /\ RecordEnabled /\ ~isRecording
  /\ isRecording' = TRUE /\ isProcessing' = FALSE
  /\ \E j \in Jobs :
       /\ job[j].pc = "idle"
       /\ job' = [job EXCEPT ![j].pc = "dispatch"]
       /\ recordingJob' = j
  /\ UNCHANGED <<isModelLoaded, picker, recorderVars, decoder>>

\* Cancel the job, stop and release the recorder, transcribe what was buffered:
\* nothing, a second or more of it having thrown and the rest never been emitted.
StopRecording ==
  /\ RecordEnabled /\ isRecording
  /\ job' = [j \in Jobs |-> IF j = recordingJob /\ job[j].pc # "idle"
                            THEN [job[j] EXCEPT !.status = "cancelled"] ELSE job[j]]
  /\ flag' = FALSE
  /\ audioRecord' = "null"
  /\ isRecording' = FALSE /\ isProcessing' = TRUE
  /\ Decode("record")
  /\ UNCHANGED <<isModelLoaded, picker, recordingJob>>

ChooseFile ==
  /\ ChooseFileEnabled
  /\ picker' = TRUE
  /\ UNCHANGED <<isRecording, isProcessing, isModelLoaded, recordingJob,
                 recorderVars, job, decoder>>

\* transcribeFileUri, if a file was picked.
PickerReturns ==
  /\ picker
  /\ picker' = FALSE
  /\ \/ UNCHANGED <<isProcessing, decoder>>
     \/ isProcessing' = TRUE /\ Decode("file")
  /\ UNCHANGED <<isRecording, isModelLoaded, recordingJob, recorderVars, job>>

\* selectModel clears isModelLoaded; loading one sets it.
ModelUnloaded ==
  /\ isModelLoaded' = FALSE
  /\ UNCHANGED <<isRecording, isProcessing, picker, recordingJob, recorderVars, job, decoder>>

ModelLoaded ==
  /\ isModelLoaded' = TRUE
  /\ UNCHANGED <<isRecording, isProcessing, picker, recordingJob, recorderVars, job, decoder>>

\* The activity is finished and opened again: viewModelScope is cancelled, the
\* recorder is not stopped, and a new view model starts from the defaults.
ViewModelCleared ==
  /\ isRecording' = FALSE /\ isProcessing' = FALSE /\ isModelLoaded' = FALSE /\ picker' = FALSE
  /\ recordingJob' = None
  /\ job' = [j \in Jobs |-> IF job[j].pc = "idle" THEN job[j]
                            ELSE [job[j] EXCEPT !.status = "cancelled"]]
  /\ decoder' = [t \in Decoders |-> IF decoder[t].kind = "none" THEN decoder[t]
                                    ELSE [decoder[t] EXCEPT !.status = "cancelled"]]
  /\ UNCHANGED recorderVars

-------------------------------------------------------------------------------
Move(j, from, to) == job[j].pc = from /\ job' = [job EXCEPT ![j].pc = to]

\* The block begins, or is skipped when the job is cancelled already.
Dispatch(j) ==
  /\ \/ Move(j, "dispatch", "open")
     \/ job[j].status = "cancelled" /\ Move(j, "dispatch", "threw")
  /\ UNCHANGED <<uiVars, recordingJob, recorderVars, decoder>>

\* A new AudioRecord replaces the one the field held, which nobody can stop then.
OpenRecorder(j) ==
  /\ Move(j, "open", "start")
  /\ audioRecord' = "created"
  /\ UNCHANGED <<uiVars, recordingJob, flag, decoder>>

\* audioRecord?.startRecording() does nothing when stopRecording came first.
StartRecorder(j) ==
  /\ Move(j, "start", "loop")
  /\ audioRecord' = IF audioRecord = "null" THEN "null" ELSE "capturing"
  /\ flag' = TRUE
  /\ UNCHANGED <<uiVars, recordingJob, decoder>>

\* No permission or no microphone: the constructor or startRecording throws.
RecorderThrows(j) ==
  /\ Move(j, "open", "threw") \/ Move(j, "start", "threw")
  /\ UNCHANGED <<uiVars, recordingJob, recorderVars, decoder>>

TestFlag(j) ==
  /\ Move(j, "loop", IF flag THEN "read" ELSE IF job[j].data > 0 THEN "emit" ELSE "returned")
  /\ UNCHANGED <<uiVars, recordingJob, recorderVars, decoder>>

\* read returns samples, or nothing: zero, an error code, or no recorder at all.
ReadSamples(j) ==
  /\ audioRecord = "capturing"
  /\ job[j].pc = "read"
  /\ LET data == job[j].data + 1
     IN job' = [job EXCEPT ![j].data = data, ![j].pc = IF data = Second THEN "emit" ELSE "loop"]
  /\ UNCHANGED <<uiVars, recordingJob, recorderVars, decoder>>

ReadNothing(j) ==
  /\ Move(j, "read", "loop")
  /\ UNCHANGED <<uiVars, recordingJob, recorderVars, decoder>>

\* The flow was collected on the main thread and emits on the IO thread: the
\* collector refuses (and it refuses a cancelled job first), so emit throws.
Emit(j) ==
  /\ Move(j, "emit", "threw")
  /\ UNCHANGED <<uiVars, recordingJob, recorderVars, decoder>>

\* catch (e: Exception), which a cancellation is too; a normal end of a job
\* that is not cancelled leaves the screen as it is.
JobEnds(j) ==
  /\ job[j].pc \in {"threw", "returned"}
  /\ isRecording' = (isRecording /\ job[j].pc = "returned" /\ job[j].status = "active")
  /\ job' = [job EXCEPT ![j] = NoJob]
  /\ UNCHANGED <<isProcessing, isModelLoaded, picker, recordingJob, recorderVars,
                 decoder>>

JobStep(j) ==
  \/ Dispatch(j) \/ OpenRecorder(j) \/ StartRecorder(j) \/ RecorderThrows(j)
  \/ TestFlag(j) \/ ReadSamples(j) \/ ReadNothing(j) \/ Emit(j) \/ JobEnds(j)

\* transcribe returns a text or fails: collect and the fold of stopRecording reset
\* isProcessing, but a file's failure is not emitted and so resets nothing.
DecoderEnds(t) ==
  LET heard == decoder[t].status = "active"
  IN /\ decoder[t].kind # "none"
     /\ decoder' = [decoder EXCEPT ![t] = NoDecoder]
     /\ \/ isProcessing' = (isProcessing /\ ~heard)
        \/ isProcessing' = (isProcessing /\ (~heard \/ decoder[t].kind = "file"))
     /\ UNCHANGED <<isRecording, isModelLoaded, picker, recordingJob, recorderVars, job>>

User == StartRecording \/ StopRecording \/ ChooseFile \/ PickerReturns

Environment == ModelUnloaded \/ ModelLoaded

Next ==
  \/ User \/ Environment \/ ViewModelCleared
  \/ \E j \in Jobs : JobStep(j)
  \/ \E t \in Decoders : DecoderEnds(t)

Spec == Init /\ [][Next]_vars

\* The IO dispatcher runs every job and every transcription.
Fairness ==
  /\ \A j \in Jobs : WF_vars(JobStep(j))
  /\ \A t \in Decoders : WF_vars(DecoderEnds(t))

\* A user who stops a recording only once it captures, and starts the next one, or
\* leaves the screen, only when the last and what it transcribes have ended.
UnhurriedNext ==
  \/ StartRecording /\ \A j \in Jobs : job[j].pc = "idle"
  \/ StopRecording /\ \A j \in Jobs : job[j].pc \notin {"dispatch", "open", "start"}
  \/ ChooseFile \/ PickerReturns \/ Environment
  \/ /\ ViewModelCleared
     /\ \A j \in Jobs : job[j].pc = "idle"
     /\ \A t \in Decoders : decoder[t].kind = "none"
  \/ \E j \in Jobs : JobStep(j)
  \/ \E t \in Decoders : DecoderEnds(t)

UnhurriedSpec == Init /\ [][UnhurriedNext]_vars /\ Fairness

-------------------------------------------------------------------------------
Alive(j) == job[j].pc # "idle" /\ job[j].status = "active"

\* The screen says it records only while the job Stop would cancel is alive.
RecordingHonest == isRecording => recordingJob \in Jobs /\ Alive(recordingJob)

\* "Not thread safe for same context" (whisper.h:600): unless the screen is left during
\* one, transcriptions run one at a time.  Nothing but the buttons' guards sees to it.
OneTranscription ==
  \A t, u \in Decoders : decoder[t].kind # "none" /\ decoder[u].kind # "none" => t = u

\* A job that is recording is one the screen shows, and Stop can end.
RunningIsShown ==
  \A j \in Jobs : Alive(j) /\ job[j].pc \in {"loop", "read"} => isRecording

\* Every recording job ends once it is cancelled: the loop of AudioRecorder sees
\* the flag that stopRecording has cleared.
CancelledJobsEnd == \A j \in Jobs : job[j].status = "cancelled" ~> job[j].pc = "idle"
===============================================================================
