---------------------------- MODULE RecordingProofs ----------------------------
(***************************************************************************)
(* Proofs about Recording: its types, and that the screen never shows a    *)
(* recording whose job is gone.                                            *)
(***************************************************************************)
EXTENDS Recording, TLAPS

JobRecord == [pc : Stages, data : 0..Second, status : {"active", "cancelled"}]
DecoderRecord == [kind : {"none", "record", "file"}, status : {"active", "cancelled"}]

JobsTyped == job \in [Jobs -> JobRecord]
DecodersTyped == decoder \in [Decoders -> DecoderRecord]
UiTyped ==
  /\ isRecording \in BOOLEAN /\ isProcessing \in BOOLEAN
  /\ isModelLoaded \in BOOLEAN /\ picker \in BOOLEAN
  /\ recordingJob \in Jobs \cup {None}
  /\ audioRecord \in {"null", "created", "capturing"} /\ flag \in BOOLEAN

(***************************************************************************)
(* RecordingHonest alone is not inductive: a job that leaves its loop      *)
(* normally ends without telling the screen.  It never does while the      *)
(* screen records, because then the flag is set once the loop is reached:  *)
(* only stopRecording clears it, and with it isRecording.                  *)
(***************************************************************************)
ShownRuns ==
  isRecording =>
    /\ recordingJob \in Jobs
    /\ Alive(recordingJob)
    /\ job[recordingJob].pc # "returned"
    /\ job[recordingJob].pc \in {"loop", "read"} => flag

\* A job is not cancelled before it has begun, and in its loop has collected
\* less than what makes it emit.
Fits(r) ==
  /\ r.pc = "idle" => r.status = "active"
  /\ r.pc \notin {"emit", "threw", "returned"} => r.data < Second
JobsFit == \A j \in Jobs : Fits(job[j])

Inv == UiTyped /\ JobsTyped /\ DecodersTyped /\ JobsFit /\ ShownRuns

LEMMA InvTypes == Inv => TypeOK
  BY DEF Inv, TypeOK, UiTyped, JobsTyped, DecodersTyped, JobRecord, DecoderRecord

-------------------------------------------------------------------------------
\* The updates of a record keep its type.
LEMMA MoveRecord ==
  ASSUME NEW r \in JobRecord, NEW p \in Stages
  PROVE  LET s == [r EXCEPT !.pc = p]
         IN s \in JobRecord /\ s.pc = p /\ s.status = r.status /\ s.data = r.data
  BY Zenon DEF JobRecord

LEMMA CancelRecord ==
  ASSUME NEW r \in JobRecord
  PROVE  LET s == [r EXCEPT !.status = "cancelled"]
         IN s \in JobRecord /\ s.pc = r.pc /\ s.data = r.data
  BY Zenon DEF JobRecord

LEMMA NoJobRecord == NoJob \in JobRecord /\ Fits(NoJob)
  BY SecondAssumption DEF NoJob, JobRecord, Stages, Fits

LEMMA DecoderRecords ==
  /\ NoDecoder \in DecoderRecord
  /\ \A r \in DecoderRecord :
       /\ [r EXCEPT !.status = "cancelled"] \in DecoderRecord
       /\ \A k \in {"record", "file"} : [r EXCEPT !.kind = k] \in DecoderRecord
  <1>1. NoDecoder \in DecoderRecord
    BY DEF NoDecoder, DecoderRecord
  <1>2. ASSUME NEW r \in DecoderRecord
        PROVE  [r EXCEPT !.status = "cancelled"] \in DecoderRecord
    BY Zenon DEF DecoderRecord
  <1>3. ASSUME NEW r \in DecoderRecord, NEW k \in {"record", "file"}
        PROVE  [r EXCEPT !.kind = k] \in DecoderRecord
    BY Zenon DEF DecoderRecord
  <1>4. QED BY <1>1, <1>2, <1>3

\* One job changes.
LEMMA OneJob ==
  ASSUME JobsTyped, NEW j \in Jobs, NEW r \in JobRecord, job' = [job EXCEPT ![j] = r]
  PROVE  /\ JobsTyped'
         /\ job'[j] = r
         /\ \A k \in Jobs \ {j} : job'[k] = job[k]
  BY DEF JobsTyped

\* Some jobs that have begun are cancelled.
LEMMA Cancelling ==
  ASSUME JobsTyped, JobsFit, NEW S, NEW f, f = job',
         f = [j \in Jobs |-> IF j \in S THEN [job[j] EXCEPT !.status = "cancelled"] ELSE job[j]],
         \A j \in Jobs : j \in S => job[j].pc # "idle"
  PROVE  JobsTyped' /\ JobsFit'
  <1>1. \A j \in Jobs : /\ j \in S => f[j] \in JobRecord /\ Fits(f[j])
                        /\ j \notin S => f[j] = job[j]
    BY CancelRecord DEF JobsTyped, JobsFit, Fits
  <1>2. f \in [Jobs -> JobRecord] BY <1>1 DEF JobsTyped
  <1>3. QED BY <1>1, <1>2 DEF JobsTyped, JobsFit

LEMMA DecodeTyped ==
  ASSUME DecodersTyped, NEW kind \in {"record", "file"}, Decode(kind)
  PROVE  DecodersTyped'
  BY DecoderRecords DEF DecodersTyped, Decode

-------------------------------------------------------------------------------
LEMMA InvInit == Init => Inv
  <1> SUFFICES ASSUME Init PROVE Inv
    OBVIOUS
  <1>1. JobsTyped /\ JobsFit BY NoJobRecord DEF Init, JobsTyped, JobsFit
  <1>2. DecodersTyped BY DecoderRecords DEF Init, DecodersTyped
  <1>3. UiTyped /\ ShownRuns BY DEF Init, UiTyped, ShownRuns
  <1>4. QED BY <1>1, <1>2, <1>3 DEF Inv

\* The buttons, the model and the end of the view model.
LEMMA ScreenStep ==
  ASSUME Inv, User \/ Environment \/ ViewModelCleared
  PROVE  Inv'
  <1> USE DEF Inv
  <1>1. CASE StartRecording
    <2>1. PICK j \in Jobs : /\ job' = [job EXCEPT ![j].pc = "dispatch"]
                            /\ job[j].pc = "idle" /\ recordingJob' = j
      BY <1>1 DEF StartRecording
    <2> DEFINE r == [job[j] EXCEPT !.pc = "dispatch"]
    <2>t. /\ job[j] \in JobRecord /\ job[j].status = "active" /\ job[j].data < Second
          /\ "dispatch" \in Stages
      BY <2>1 DEF JobsTyped, JobsFit, Fits, Stages
    <2>2. /\ r \in JobRecord /\ r.pc = "dispatch" /\ r.status = "active"
          /\ r.data = job[j].data
      BY <2>t, MoveRecord
    <2> HIDE DEF r
    <2>3. JobsTyped' /\ job'[j] = r /\ \A k \in Jobs \ {j} : job'[k] = job[k]
      BY <2>1, <2>2, OneJob DEF r, JobsTyped
    <2>4. JobsFit' BY <2>t, <2>2, <2>3 DEF JobsFit, Fits
    <2>5. ShownRuns' BY <2>1, <2>2, <2>3 DEF ShownRuns, Alive
    <2>6. UiTyped' /\ DecodersTyped'
      BY <1>1, <2>1 DEF StartRecording, UiTyped, DecodersTyped, recorderVars
    <2>7. QED BY <2>3, <2>4, <2>5, <2>6
  <1>2. CASE StopRecording
    <2> DEFINE S == {k \in Jobs : k = recordingJob /\ job[k].pc # "idle"}
    <2>1. job' = [k \in Jobs |-> IF k \in S THEN [job[k] EXCEPT !.status = "cancelled"]
                                 ELSE job[k]]
      BY <1>2 DEF StopRecording
    <2>2. \A k \in Jobs : k \in S => job[k].pc # "idle" OBVIOUS
    <2> HIDE DEF S
    <2>3. JobsTyped' /\ JobsFit' BY <2>1, <2>2, Cancelling
    <2>4. DecodersTyped' BY <1>2, DecodeTyped DEF StopRecording
    <2>5. UiTyped' /\ ShownRuns' BY <1>2 DEF StopRecording, UiTyped, ShownRuns
    <2>6. QED BY <2>3, <2>4, <2>5
  <1>3. CASE ChooseFile
    BY <1>3 DEF ChooseFile, UiTyped, JobsTyped, DecodersTyped, JobsFit, ShownRuns, Alive,
                recorderVars
  <1>4. CASE PickerReturns
    <2>1. DecodersTyped'
      BY <1>4, DecodeTyped DEF PickerReturns, DecodersTyped
    <2>2. UiTyped' BY <1>4 DEF PickerReturns, UiTyped, recorderVars
    <2>3. JobsTyped' /\ JobsFit' /\ ShownRuns'
      BY <1>4 DEF PickerReturns, JobsTyped, JobsFit, ShownRuns, Alive, recorderVars
    <2>4. QED BY <2>1, <2>2, <2>3
  <1>5. CASE Environment
    <2>1. /\ isModelLoaded' \in BOOLEAN
          /\ UNCHANGED <<isRecording, isProcessing, picker, recordingJob, recorderVars, job, decoder>>
      BY <1>5 DEF Environment, ModelUnloaded, ModelLoaded
    <2>2. UiTyped' /\ JobsTyped' /\ DecodersTyped' /\ JobsFit'
      BY <2>1 DEF UiTyped, JobsTyped, DecodersTyped, JobsFit, recorderVars
    <2>3. ShownRuns' BY <2>1 DEF ShownRuns, Alive, recorderVars
    <2>4. QED BY <2>2, <2>3
  <1>6. CASE ViewModelCleared
    <2> DEFINE S == {k \in Jobs : job[k].pc # "idle"}
    <2>1. job' = [k \in Jobs |-> IF k \in S THEN [job[k] EXCEPT !.status = "cancelled"]
                                 ELSE job[k]]
      BY <1>6 DEF ViewModelCleared
    <2>2. \A k \in Jobs : k \in S => job[k].pc # "idle" OBVIOUS
    <2> HIDE DEF S
    <2>3. JobsTyped' /\ JobsFit' BY <2>1, <2>2, Cancelling
    <2>4. DecodersTyped' BY <1>6, DecoderRecords DEF ViewModelCleared, DecodersTyped
    <2>5. UiTyped' /\ ShownRuns' BY <1>6 DEF ViewModelCleared, UiTyped, ShownRuns, recorderVars
    <2>6. QED BY <2>3, <2>4, <2>5
  <1>7. QED BY <1>1, <1>2, <1>3, <1>4, <1>5, <1>6 DEF User

-------------------------------------------------------------------------------
\* A job that moves on, the screen and the other jobs untouched.
LEMMA Moving ==
  ASSUME Inv, NEW j \in Jobs, NEW r \in JobRecord, job' = [job EXCEPT ![j] = r],
         Fits(r), r.pc # "idle", r.status = job[j].status, UNCHANGED <<uiVars, recordingJob, decoder>>,
         audioRecord' \in {"null", "created", "capturing"}, flag' \in BOOLEAN,
         flag => flag',
         r.pc = "returned" => ~(flag /\ job[j].pc = "loop"),
         r.pc = "returned" => job[j].pc = "loop",
         r.pc = "loop" => flag' \/ job[j].pc = "read",
         r.pc = "read" => flag'
  PROVE  Inv'
  <1>1. JobsTyped' /\ job'[j] = r /\ \A k \in Jobs \ {j} : job'[k] = job[k]
    BY OneJob DEF Inv
  <1>2. UiTyped' /\ DecodersTyped' BY DEF Inv, UiTyped, DecodersTyped, uiVars
  <1>3. JobsFit' BY <1>1 DEF Inv, JobsFit
  <1>4. ShownRuns'
    BY <1>1 DEF Inv, ShownRuns, Alive, uiVars
  <1>5. QED BY <1>1, <1>2, <1>3, <1>4 DEF Inv

LEMMA JobStepInv ==
  ASSUME Inv, NEW j \in Jobs, JobStep(j)
  PROVE  Inv'
  <1>1. ASSUME NEW from, NEW to \in Stages \ {"idle"}, Move(j, from, to),
               UNCHANGED <<uiVars, recordingJob, decoder>>,
               audioRecord' \in {"null", "created", "capturing"}, flag' \in BOOLEAN,
               flag => flag',
               to = "returned" => ~flag /\ from = "loop",
               to = "loop" => flag' \/ from = "read",
               to = "read" => flag',
               to \in {"emit", "threw", "returned"} \/ from \notin {"emit", "threw", "returned"}
        PROVE  Inv'
    <2> DEFINE r == [job[j] EXCEPT !.pc = to]
    <2>1. /\ r \in JobRecord /\ r.pc = to /\ r.status = job[j].status
          /\ r.data = job[j].data
      BY MoveRecord DEF Inv, JobsTyped
    <2>2. job' = [job EXCEPT ![j] = r] /\ job[j].pc = from
      BY <1>1 DEF Move, Inv, JobsTyped
    <2>f. Fits(r) BY <1>1, <2>1, <2>2 DEF Inv, JobsFit, Fits
    <2> HIDE DEF r
    <2>3. QED BY <1>1, <2>1, <2>2, <2>f, Moving
  <1> DEFINE Still == UNCHANGED <<uiVars, recordingJob, decoder>>
  <1>t. audioRecord \in {"null", "created", "capturing"} /\ flag \in BOOLEAN
    BY DEF Inv, UiTyped
  <1>2. CASE Dispatch(j)
    BY <1>1, <1>2, <1>t DEF Dispatch, Stages, recorderVars
  <1>3. CASE OpenRecorder(j)
    BY <1>1, <1>3, <1>t DEF OpenRecorder, Stages
  <1>4. CASE StartRecorder(j)
    BY <1>1, <1>4, <1>t DEF StartRecorder, Stages
  <1>5. CASE RecorderThrows(j)
    BY <1>1, <1>5, <1>t DEF RecorderThrows, Stages, recorderVars
  <1>6. CASE TestFlag(j)
    BY <1>1, <1>6, <1>t DEF TestFlag, Stages, recorderVars
  <1>7. CASE ReadSamples(j)
    <2> DEFINE n == job[j].data + 1
               p == IF n = Second THEN "emit" ELSE "loop"
               r == [job[j] EXCEPT !.data = n, !.pc = p]
    <2>1. /\ job' = [job EXCEPT ![j] = r] /\ job[j].pc = "read"
          /\ UNCHANGED <<uiVars, recordingJob, audioRecord, flag, decoder>>
      BY <1>7 DEF ReadSamples, recorderVars
    <2>2. job[j] \in JobRecord /\ p \in Stages /\ p \in {"emit", "loop"}
      BY DEF Inv, JobsTyped, Stages
    <2>3. n \in 0..Second /\ (n # Second => n < Second)
      BY <2>1, <2>2, SecondAssumption DEF Inv, JobsFit, Fits, JobRecord
    <2>p. p = "loop" => n < Second
      BY <2>3
    <2> HIDE DEF n, p
    <2>r. \A q \in JobRecord :
            LET s == [q EXCEPT !.data = n, !.pc = p]
            IN s \in JobRecord /\ s.pc = p /\ s.status = q.status /\ s.data = n
      BY <2>2, <2>3, Zenon DEF JobRecord
    <2>4. r \in JobRecord /\ r.pc = p /\ r.status = job[j].status /\ r.data = n
      BY <2>2, <2>r DEF r
    <2>f. Fits(r) BY <2>2, <2>p, <2>4 DEF Fits
    <2> HIDE DEF r
    <2>5. QED BY <1>t, <2>1, <2>2, <2>4, <2>f, Moving
  <1>8. CASE ReadNothing(j)
    BY <1>1, <1>8, <1>t DEF ReadNothing, Stages, recorderVars
  <1>9. CASE Emit(j)
    BY <1>1, <1>9, <1>t DEF Emit, Stages, recorderVars
  <1>10. CASE JobEnds(j)
    <2>1. job' = [job EXCEPT ![j] = NoJob] /\ job[j].pc \in {"threw", "returned"}
      BY <1>10 DEF JobEnds
    <2>2. JobsTyped' /\ job'[j] = NoJob /\ \A k \in Jobs \ {j} : job'[k] = job[k]
      BY <2>1, OneJob, NoJobRecord DEF Inv
    <2>3. JobsFit' BY <2>2, NoJobRecord DEF Inv, JobsFit
    <2>4. UiTyped' /\ DecodersTyped'
      BY <1>10 DEF JobEnds, Inv, UiTyped, DecodersTyped, recorderVars
    <2>5. ShownRuns'
      BY <1>10, <2>2 DEF JobEnds, Inv, ShownRuns, Alive, recorderVars
    <2>6. QED BY <2>2, <2>3, <2>4, <2>5 DEF Inv
  <1>11. QED BY <1>2, <1>3, <1>4, <1>5, <1>6, <1>7, <1>8, <1>9, <1>10 DEF JobStep

LEMMA DecoderStepInv ==
  ASSUME Inv, NEW t \in Decoders, DecoderEnds(t)
  PROVE  Inv'
  <1>1. DecodersTyped' BY DecoderRecords DEF DecoderEnds, Inv, DecodersTyped
  <1>2. isProcessing' \in BOOLEAN BY DEF DecoderEnds, Inv, UiTyped
  <1>3. UNCHANGED <<isRecording, isModelLoaded, picker, recordingJob, recorderVars, job>>
    BY DEF DecoderEnds
  <1>4. UiTyped' BY <1>2, <1>3 DEF Inv, UiTyped, recorderVars
  <1>5. JobsTyped' /\ JobsFit' /\ ShownRuns'
    BY <1>3 DEF Inv, JobsTyped, JobsFit, ShownRuns, Alive, recorderVars
  <1>6. QED BY <1>1, <1>4, <1>5 DEF Inv

LEMMA Invariance == Spec => []Inv
  <1>1. Inv /\ Next => Inv'
    BY ScreenStep, JobStepInv, DecoderStepInv DEF Next
  <1>2. Inv /\ UNCHANGED vars => Inv'
    BY DEF Inv, UiTyped, JobsTyped, DecodersTyped, JobsFit, ShownRuns, Alive, vars
  <1>3. QED BY <1>1, <1>2, InvInit, PTL DEF Spec

-------------------------------------------------------------------------------
\* Every reachable state of the recorder, the screen and the transcriptions has
\* its type (Recording's TypeOK), for any number of jobs and transcriptions.
THEOREM TypeCorrect == Spec => []TypeOK
  BY Invariance, InvTypes, PTL

\* Whenever the screen says it records, the job that stopRecording would cancel
\* is alive (TranscriptionViewModel.kt:106-136, AudioRecorder.kt:23-72), however
\* many older jobs and transcriptions, and view models, came before it.
THEOREM RecordingShown == Spec => []RecordingHonest
  <1>1. Inv => RecordingHonest BY DEF Inv, ShownRuns, RecordingHonest
  <1>2. QED BY <1>1, Invariance, PTL

-------------------------------------------------------------------------------
(***************************************************************************)
(* The unhurried user.  Transcriptions are kept apart by isProcessing and  *)
(* the picker, recordings by recordingJob: a second of either never        *)
(* begins while one is alive, whatever the first has come to.              *)
(***************************************************************************)
DecodingAlone ==
  /\ picker => ~isRecording /\ ~isProcessing
  /\ \A t \in Decoders : decoder[t].kind # "none" =>
       /\ isProcessing /\ ~picker
       /\ \A u \in Decoders \ {t} : decoder[u].kind = "none"

RecordingAlone ==
  \A j \in Jobs : job[j].pc # "idle" =>
    /\ recordingJob = j
    /\ job[j].status = "active" /\ job[j].pc \notin {"threw", "returned"} => isRecording

Alone == DecodingAlone /\ RecordingAlone

LEMMA AloneInit == Init => Alone
  BY DEF Init, Alone, DecodingAlone, RecordingAlone, NoJob, NoDecoder

\* A transcription starts where none is alive.
LEMMA DecodeAlone ==
  ASSUME DecodersTyped, NEW kind \in {"record", "file"}, Decode(kind),
         \A t \in Decoders : decoder[t].kind = "none", isProcessing', ~picker'
  PROVE  DecodingAlone'
  <1>1. PICK t \in Decoders : decoder' = [decoder EXCEPT ![t].kind = kind]
    BY DEF Decode
  <1>2. \A u \in Decoders \ {t} : decoder'[u] = decoder[u]
    BY <1>1 DEF DecodersTyped
  <1>3. QED BY <1>2 DEF DecodingAlone

LEMMA ScreenAlone ==
  ASSUME Inv, Alone,
         \/ StartRecording /\ \A j \in Jobs : job[j].pc = "idle"
         \/ StopRecording \/ ChooseFile \/ PickerReturns \/ Environment
         \/ /\ ViewModelCleared
            /\ \A j \in Jobs : job[j].pc = "idle"
            /\ \A t \in Decoders : decoder[t].kind = "none"
  PROVE  Alone'
  <1> USE DEF Inv, Alone
  <1>1. CASE StartRecording /\ \A j \in Jobs : job[j].pc = "idle"
    <2>1. PICK j \in Jobs : job' = [job EXCEPT ![j].pc = "dispatch"] /\ recordingJob' = j
      BY <1>1 DEF StartRecording
    <2>2. \A k \in Jobs \ {j} : job'[k] = job[k] BY <2>1 DEF JobsTyped
    <2>3. RecordingAlone' BY <1>1, <2>1, <2>2 DEF StartRecording, RecordingAlone
    <2>4. DecodingAlone' BY <1>1 DEF StartRecording, RecordEnabled, DecodingAlone
    <2>5. QED BY <2>3, <2>4
  <1>2. CASE StopRecording
    <2>1. ~isProcessing /\ ~picker /\ picker' = picker /\ isProcessing' = TRUE /\ Decode("record")
      BY <1>2 DEF StopRecording, RecordEnabled
    <2>2. DecodingAlone' BY <2>1, DecodeAlone DEF DecodingAlone
    <2>3. \A j \in Jobs : job'[j].pc # "idle" => recordingJob = j /\ job'[j].status = "cancelled"
      <3> SUFFICES ASSUME NEW j \in Jobs, job'[j].pc # "idle"
                   PROVE  recordingJob = j /\ job'[j].status = "cancelled"
        OBVIOUS
      <3>1. job[j] \in JobRecord BY DEF JobsTyped
      <3>2. job'[j] = IF j = recordingJob /\ job[j].pc # "idle"
                        THEN [job[j] EXCEPT !.status = "cancelled"] ELSE job[j]
        BY <1>2 DEF StopRecording
      <3>3. job[j].pc # "idle" BY <3>2
      <3>4. j = recordingJob BY <3>3 DEF RecordingAlone
      <3>5. QED BY <3>1, <3>2, <3>3, <3>4 DEF JobRecord
    <2>4. RecordingAlone' BY <1>2, <2>3 DEF StopRecording, RecordingAlone
    <2>5. QED BY <2>2, <2>4
  <1>3. CASE ChooseFile
    BY <1>3 DEF ChooseFile, ChooseFileEnabled, DecodingAlone, RecordingAlone
  <1>4. CASE PickerReturns
    <2>1. RecordingAlone' BY <1>4 DEF PickerReturns, RecordingAlone
    <2>2. DecodingAlone'
      <3>1. picker /\ picker' = FALSE /\ ~isProcessing BY <1>4 DEF PickerReturns, DecodingAlone
      <3>2. \A t \in Decoders : decoder[t].kind = "none" BY <3>1 DEF DecodingAlone
      <3>3. CASE UNCHANGED <<isProcessing, decoder>> BY <3>1, <3>2, <3>3 DEF DecodingAlone
      <3>4. CASE isProcessing' = TRUE /\ Decode("file") BY <3>1, <3>2, <3>4, DecodeAlone
      <3>5. QED BY <1>4, <3>3, <3>4 DEF PickerReturns
    <2>3. QED BY <2>1, <2>2
  <1>5. CASE Environment
    BY <1>5 DEF Environment, ModelUnloaded, ModelLoaded, DecodingAlone, RecordingAlone
  <1>6. CASE /\ ViewModelCleared
             /\ \A j \in Jobs : job[j].pc = "idle"
             /\ \A t \in Decoders : decoder[t].kind = "none"
    BY <1>6 DEF ViewModelCleared, DecodingAlone, RecordingAlone
  <1>7. QED BY <1>1, <1>2, <1>3, <1>4, <1>5, <1>6

LEMMA JobStepAlone ==
  ASSUME Inv, Alone, NEW j \in Jobs, JobStep(j)
  PROVE  Alone'
  <1> USE DEF Inv, Alone
  <1> DEFINE Still == UNCHANGED <<isProcessing, isModelLoaded, picker, recordingJob, decoder>>
  <1>1. CASE JobEnds(j)
    <2>1. job' = [job EXCEPT ![j] = NoJob] /\ job[j].pc # "idle" /\ Still
      BY <1>1 DEF JobEnds
    <2>2. job'[j].pc = "idle" /\ \A k \in Jobs \ {j} : job'[k] = job[k] /\ job[k].pc = "idle"
      BY <2>1, NoJobRecord DEF JobsTyped, RecordingAlone, NoJob
    <2>3. RecordingAlone' BY <2>2 DEF RecordingAlone
    <2>r. isRecording' => isRecording BY <1>1 DEF JobEnds
    <2>4. DecodingAlone' BY <2>1, <2>r, Zenon DEF DecodingAlone
    <2>5. QED BY <2>3, <2>4
  <1>2. CASE ~JobEnds(j)
    <2>1. Still /\ UNCHANGED isRecording
      BY <1>2 DEF JobStep, Dispatch, OpenRecorder, StartRecorder, RecorderThrows, TestFlag,
                  ReadSamples, ReadNothing, Emit, uiVars
    <2> DEFINE Kept == /\ job[j].pc \notin {"idle", "threw", "returned"}
                       /\ job'[j].status = job[j].status
                       /\ \A k \in Jobs \ {j} : job'[k] = job[k]
    <2>2. Kept
      <3>1. ASSUME NEW from \in Stages \ {"idle", "threw", "returned"}, NEW to \in Stages,
                   Move(j, from, to)
            PROVE  Kept
        BY <3>1, MoveRecord DEF Move, JobsTyped
      <3>2. CASE ReadSamples(j)
        BY <3>2 DEF ReadSamples, JobsTyped, JobRecord
      <3>3. QED
        BY <1>2, <3>1, <3>2 DEF JobStep, Dispatch, OpenRecorder, StartRecorder, RecorderThrows,
                                TestFlag, ReadNothing, Emit, Stages
    <2>3. RecordingAlone' BY <2>1, <2>2 DEF RecordingAlone
    <2>4. DecodingAlone' BY <2>1 DEF DecodingAlone
    <2>5. QED BY <2>3, <2>4
  <1>3. QED BY <1>1, <1>2

LEMMA DecoderStepAlone ==
  ASSUME Inv, Alone, NEW t \in Decoders, DecoderEnds(t)
  PROVE  Alone'
  <1>1. /\ decoder[t].kind # "none"
        /\ UNCHANGED <<isRecording, picker, recordingJob, job>>
    BY DEF DecoderEnds
  <1>2. \A u \in Decoders : decoder'[u].kind = "none"
    BY <1>1 DEF DecoderEnds, NoDecoder, Inv, DecodersTyped, Alone, DecodingAlone
  <1>3. picker' => ~isRecording' /\ ~isProcessing'
    BY <1>1 DEF Alone, DecodingAlone
  <1>4. QED BY <1>1, <1>2, <1>3 DEF Alone, DecodingAlone, RecordingAlone

LEMMA AloneInvariance == UnhurriedSpec => [](Inv /\ Alone)
  <1>1. UnhurriedNext => Next
    BY DEF UnhurriedNext, Next, User
  <1>2. Inv /\ UnhurriedNext => Inv'
    BY <1>1, ScreenStep, JobStepInv, DecoderStepInv DEF Next
  <1>3. Inv /\ Alone /\ UnhurriedNext => Alone'
    BY ScreenAlone, JobStepAlone, DecoderStepAlone DEF UnhurriedNext
  <1>4. Inv /\ Alone /\ UNCHANGED vars => Inv' /\ Alone'
    BY DEF Inv, UiTyped, JobsTyped, DecodersTyped, JobsFit, ShownRuns, Alive, vars,
           Alone, DecodingAlone, RecordingAlone
  <1>5. QED BY <1>2, <1>3, <1>4, InvInit, AloneInit, PTL DEF UnhurriedSpec

\* Transcriptions run one at a time (whisper.h:600), kept apart by the buttons' guards
\* alone, if the screen is not left during one.
THEOREM TranscriptionsApart == UnhurriedSpec => []OneTranscription
  <1>1. Alone => OneTranscription
    BY DEF Alone, DecodingAlone, OneTranscription
  <1>2. QED BY <1>1, AloneInvariance, PTL

\* A job that records is one the screen shows and Stop can end, if recordings are stopped
\* once they capture and started when the last has ended.
THEOREM RunningShown == UnhurriedSpec => []RunningIsShown
  <1>1. Alone => RunningIsShown
    BY DEF Alone, RecordingAlone, RunningIsShown, Alive
  <1>2. QED BY <1>1, AloneInvariance, PTL
================================================================================
