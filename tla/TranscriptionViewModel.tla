------------------------ MODULE TranscriptionViewModel ------------------------
(***************************************************************************)
(* Choosing, downloading and loading a model in TranscriptionViewModel.kt, *)
(* composed with WhisperNative and with what ModelStore promises of a      *)
(* download.  Coroutines of viewModelScope run on the main thread between  *)
(* two suspension points, so one such stretch is one action; DataStore,    *)
(* downloadModel and initialize run elsewhere and in any order meanwhile.  *)
(* Of the preferences, the thread count stands for language and translate  *)
(* too: the three are read, shown and written in the same way.             *)
(***************************************************************************)
EXTENDS WhisperNative

CONSTANTS Coroutines,     \* coroutines that may be alive at a time
          File,           \* the native call of a file transcription
          Avail,          \* availableProcessors
          None            \* no coroutine, no pending write

ASSUME CallsAssumption == Calls = Coroutines \cup {File} /\ File \notin Coroutines
ASSUME NoneAssumption == /\ None \notin Coroutines /\ None \notin Threads
                         /\ "completed" \notin Coroutines \cup {None}
ASSUME AvailAssumption == {4, Avail} \subseteq Threads

VARIABLES selected, loaded, downloaded, progress, nThreads,   \* TranscriptionUiState
          jobRef,         \* modelDownloadJob: null, a live job, or a completed one
          co,             \* progress of each coroutine
          stored, threadsStored,    \* the DataStore
          pendingThreads, \* a setThreads the DataStore has yet to apply
          file            \* file[m]: the model's file is at its final path

uiVars == <<selected, loaded, downloaded, progress, nThreads>>
storeVars == <<stored, threadsStored, pendingThreads>>
vars == <<contextPtr, gThreads, call, selected, loaded, downloaded, progress, nThreads,
          jobRef, co, stored, threadsStored, pendingThreads, file>>

\* Where a coroutine is suspended: in setSelectedModel, in the reads of the
\* preferences, in setThreads, before it shows them, in getSelectedModel, before
\* it acts on it, in downloadModel, after it, and in initialize.
Loading == {"store", "prefs", "fix", "apply", "read", "choose"}
Downloading == {"download", "downloaded", "failed"}
Stages == {"idle", "init"} \cup Loading \cup Downloading

Coroutine == [pc : Stages, model : Models \cup {NoContext}, threads : Threads \cup {4},
              kind : {"plain", "job"}, status : {"active", "cancelled", "cleared"}]

TypeOK ==
  /\ NativeTypeOK
  /\ selected \in Models /\ stored \in Models
  /\ loaded \in BOOLEAN /\ downloaded \in BOOLEAN /\ progress \in BOOLEAN
  /\ nThreads \in Threads /\ threadsStored \in Threads
  /\ pendingThreads \in Threads \cup {None}
  /\ jobRef \in Coroutines \cup {None, "completed"}
  /\ co \in [Coroutines -> Coroutine]
  /\ file \in [Models -> BOOLEAN]

Idle == [pc |-> "idle", model |-> NoContext, threads |-> 4, kind |-> "plain", status |-> "active"]
Launched(pc) == [Idle EXCEPT !.pc = pc]

\* A fresh process: the default selection, the preferences of earlier runs.
Init ==
  /\ NativeInit
  /\ \E m \in Models : selected = m
  /\ loaded = FALSE /\ downloaded = FALSE /\ progress = FALSE
  /\ nThreads = 4
  /\ jobRef = None
  /\ \E c \in Coroutines : co = [d \in Coroutines |-> IF d = c THEN Launched("prefs") ELSE Idle]
  /\ stored \in Models /\ threadsStored \in Threads /\ pendingThreads = None
  /\ file \in [Models -> BOOLEAN]

-------------------------------------------------------------------------------
At(c, pc) == co[c].pc = pc /\ co[c].status = "active"

Move(c, from, to) == At(c, from) /\ co' = [co EXCEPT ![c].pc = to]

\* The coroutine ends; modelDownloadJob goes on naming a job that has completed.
End(c) ==
  /\ co' = [co EXCEPT ![c] = Idle]
  /\ jobRef' = IF jobRef = c THEN "completed" ELSE jobRef

-------------------------------------------------------------------------------
(***************************************************************************)
(* Plausible bugs, each substituted for the action of like name to show    *)
(* that the properties below depend on what the code does.                 *)
(***************************************************************************)

\* Leaves the older download job running.
StartDownload_KeepsOld(c, m) ==
  /\ progress' = TRUE
  /\ jobRef' = c
  /\ co' = [co EXCEPT ![c] = [Launched("download") EXCEPT !.model = m, !.kind = "job"]]

\* Shows the new model as loaded as long as the old one is.
SelectModel_KeepsLoaded(m) ==
  /\ selected' = m
  /\ downloaded' = FALSE /\ progress' = FALSE
  /\ \E c \in Coroutines :
       /\ co[c].pc = "idle"
       /\ co' = [co EXCEPT ![c] = [Launched("store") EXCEPT !.model = m]]
  /\ UNCHANGED <<nativeVars, loaded, nThreads, jobRef, storeVars, file>>

\* Shows the count before coerceIn.
SetThreads_Uncoerced(n) ==
  /\ pendingThreads = None
  /\ nThreads' = 0
  /\ pendingThreads' = n
  /\ UNCHANGED <<nativeVars, selected, loaded, downloaded, progress, jobRef, co,
                 stored, threadsStored, file>>

\* Takes the processor count without writing it back.
FixThreads_NotStored(c) ==
  /\ At(c, "fix")
  /\ co' = [co EXCEPT ![c] = [@ EXCEPT !.threads = Avail, !.pc = "apply"]]
  /\ UNCHANGED <<nativeVars, uiVars, jobRef, storeVars, file>>

\* Reports the error and leaves the progress where it was.
DownloadFailed_KeepsProgress(c) ==
  /\ At(c, "failed")
  /\ End(c)
  /\ UNCHANGED <<nativeVars, uiVars, storeVars, file>>

\* Tries again for as long as the download fails.
DownloadFailed_Retries(c) ==
  /\ Move(c, "failed", "download")
  /\ UNCHANGED <<nativeVars, uiVars, jobRef, storeVars, file>>

-------------------------------------------------------------------------------
\* startModelDownloadInternal: the coroutine cancels modelDownloadJob, whether
\* or not it has stopped, and a new job takes its place.
StartDownload(c, m) ==
  /\ progress' = TRUE
  /\ jobRef' = c
  /\ co' = [d \in Coroutines |->
       IF d = c THEN [Launched("download") EXCEPT !.model = m, !.kind = "job"]
       ELSE IF d = jobRef THEN [co[d] EXCEPT !.status = "cancelled"]
       ELSE co[d]]

-------------------------------------------------------------------------------
\* selectModel: the update and the launch up to setSelectedModel.
SelectModel(m) ==
  /\ selected' = m
  /\ loaded' = FALSE /\ downloaded' = FALSE /\ progress' = FALSE
  /\ \E c \in Coroutines :
       /\ co[c].pc = "idle"
       /\ co' = [co EXCEPT ![c] = [Launched("store") EXCEPT !.model = m]]
  /\ UNCHANGED <<nativeVars, nThreads, jobRef, storeVars, file>>

\* startModelDownload, from the Download button or from Retry, which an error
\* brings up (left out) whether or not a model is loaded.
DownloadButton ==
  /\ ~downloaded /\ ~progress
  /\ \E c \in Coroutines : co[c].pc = "idle" /\ StartDownload(c, selected)
  /\ UNCHANGED <<nativeVars, selected, loaded, downloaded, nThreads, storeVars, file>>

\* cancelModelDownload, from a dialog that may outlive the download.
CancelDownload ==
  /\ jobRef # None
  /\ jobRef' = None
  /\ co' = [c \in Coroutines |-> IF c = jobRef THEN [co[c] EXCEPT !.status = "cancelled"] ELSE co[c]]
  /\ UNCHANGED <<nativeVars, uiVars, storeVars, file>>

\* setThreads: shown at once, written later.
SetThreads(n) ==
  /\ pendingThreads = None
  /\ nThreads' = n
  /\ pendingThreads' = n
  /\ UNCHANGED <<nativeVars, selected, loaded, downloaded, progress, jobRef, co,
                 stored, threadsStored, file>>

\* The activity is finished and opened again in the same process: the scope is
\* cancelled, WhisperNative and calls that already run stay.  What they report
\* reaches the state of the view model that was cleared.
Recreate ==
  /\ \E c \in Coroutines :
       /\ co[c].pc = "idle"
       /\ co' = [d \in Coroutines |->
            IF d = c THEN Launched("prefs")
            ELSE IF co[d].pc = "idle" THEN co[d] ELSE [co[d] EXCEPT !.status = "cleared"]]
  /\ selected' \in Models /\ loaded' = FALSE /\ downloaded' = FALSE /\ progress' = FALSE
  /\ nThreads' = 4
  /\ jobRef' = None
  /\ UNCHANGED <<nativeVars, storeVars, file>>

\* transcribeFileUri calls transcribe, with whatever context there is.
TranscribeFile ==
  /\ Transcribe(File)
  /\ UNCHANGED <<contextPtr, gThreads, uiVars, jobRef, co, storeVars, file>>

\* The Manage Models screen: setDefault, deleteModel and its own downloads.
ManageModels ==
  /\ \E m \in Models :
       \/ stored' = m /\ UNCHANGED file
       \/ file' = [file EXCEPT ![m] = ~@] /\ UNCHANGED stored
  /\ UNCHANGED <<nativeVars, uiVars, jobRef, co, threadsStored, pendingThreads>>

-------------------------------------------------------------------------------
\* setSelectedModel returns and loadPreferencesAndModel is launched.
StoreSelected(c) ==
  /\ Move(c, "store", "prefs")
  /\ stored' = co[c].model
  /\ UNCHANGED <<nativeVars, uiVars, jobRef, threadsStored, pendingThreads, file>>

\* A count of 4 is taken for the default and replaced by the processor count.
ReadPreferences(c) ==
  /\ At(c, "prefs")
  /\ co' = [co EXCEPT ![c] = [@ EXCEPT !.threads = threadsStored,
                            !.pc = IF threadsStored = 4 /\ Avail > 4 THEN "fix" ELSE "apply"]]
  /\ UNCHANGED <<nativeVars, uiVars, jobRef, storeVars, file>>

FixThreads(c) ==
  /\ At(c, "fix")
  /\ co' = [co EXCEPT ![c] = [@ EXCEPT !.threads = Avail, !.pc = "apply"]]
  /\ threadsStored' = Avail
  /\ UNCHANGED <<nativeVars, uiVars, jobRef, stored, pendingThreads, file>>

ApplyPreferences(c) ==
  /\ Move(c, "apply", "read")
  /\ nThreads' = co[c].threads
  /\ UNCHANGED <<nativeVars, selected, loaded, downloaded, progress, jobRef, storeVars, file>>

ReadSelected(c) ==
  /\ At(c, "read")
  /\ co' = [co EXCEPT ![c] = [@ EXCEPT !.model = stored, !.pc = "choose"]]
  /\ UNCHANGED <<nativeVars, uiVars, jobRef, storeVars, file>>

\* Show the stored model, then load it or start its download.
ChooseModel(c) ==
  /\ At(c, "choose")
  /\ selected' = co[c].model
  /\ loaded' = FALSE
  /\ downloaded' = file[co[c].model]
  /\ \/ /\ file[co[c].model]
        /\ Initialize(c, co[c].model, nThreads)
        /\ co' = [co EXCEPT ![c].pc = "init"]
        /\ UNCHANGED <<progress, jobRef>>
     \/ /\ ~file[co[c].model]
        /\ StartDownload(c, co[c].model)
        /\ UNCHANGED call
  /\ UNCHANGED <<contextPtr, gThreads, nThreads, storeVars, file>>

\* onProgress, on the IO thread that streams: nothing stops it on cancellation.
Progress(c) ==
  /\ co[c].pc = "download" /\ co[c].status # "cleared"
  /\ progress' = TRUE
  /\ UNCHANGED <<nativeVars, selected, loaded, downloaded, nThreads, jobRef, co, storeVars, file>>

\* ModelManager.downloadModel ends, as ModelStore allows: the model is stored, or
\* the call fails and may have withdrawn an older copy.
DownloadEnds(c) ==
  /\ co[c].pc = "download"
  /\ \/ /\ file' = [file EXCEPT ![co[c].model] = TRUE]
        /\ co' = [co EXCEPT ![c].pc = "downloaded"]
     \/ /\ \E kept \in BOOLEAN : file' = [file EXCEPT ![co[c].model] = @ /\ kept]
        /\ co' = [co EXCEPT ![c].pc = "failed"]
  /\ UNCHANGED <<nativeVars, uiVars, jobRef, storeVars>>

DownloadSucceeded(c) ==
  /\ Move(c, "downloaded", "init")
  /\ downloaded' = TRUE /\ progress' = FALSE
  /\ Initialize(c, co[c].model, nThreads)
  /\ UNCHANGED <<contextPtr, gThreads, selected, loaded, nThreads, jobRef, storeVars, file>>

DownloadFailed(c) ==
  /\ At(c, "failed")
  /\ progress' = FALSE
  /\ End(c)
  /\ UNCHANGED <<nativeVars, selected, loaded, downloaded, nThreads, storeVars, file>>

\* initialize has returned to a coroutine of either kind.
InitReturns(c) ==
  /\ At(c, "init")
  /\ Reclaim(c)
  /\ loaded' = (call[c].result = "success")
  /\ End(c)
  /\ UNCHANGED <<contextPtr, gThreads, selected, downloaded, progress, nThreads, storeVars, file>>

\* A cancelled coroutine ends at its suspension point, without onSuccess or
\* onFailure, once the block it waits for has ended; a write may have been made.
CancelledEnds(c) ==
  /\ co[c].status # "active"
  /\ co[c].pc # "download"
  /\ \/ co[c].pc = "init" /\ Reclaim(c)
     \/ co[c].pc # "init" /\ UNCHANGED call
  /\ \/ UNCHANGED <<stored, threadsStored>>
     \/ co[c].pc = "store" /\ stored' = co[c].model /\ UNCHANGED threadsStored
     \/ co[c].pc = "fix" /\ threadsStored' = Avail /\ UNCHANGED stored
  /\ End(c)
  /\ UNCHANGED <<contextPtr, gThreads, uiVars, pendingThreads, file>>

StoreThreads ==
  /\ pendingThreads # None
  /\ threadsStored' = pendingThreads
  /\ pendingThreads' = None
  /\ UNCHANGED <<nativeVars, uiVars, jobRef, co, stored, file>>

\* A step of the native call c; only a file that is there can be loaded.
Native(c) ==
  /\ \E loads \in BOOLEAN :
       /\ loads => call[c].model \in Models /\ file[call[c].model]
       /\ NativeStep(c, loads)
  /\ UNCHANGED <<uiVars, jobRef, co, storeVars, file>>

FileTranscribed ==
  /\ Reclaim(File)
  /\ UNCHANGED <<contextPtr, gThreads, uiVars, jobRef, co, storeVars, file>>

CoroutineStep(c) ==
  \/ StoreSelected(c) \/ ReadPreferences(c) \/ FixThreads(c) \/ ApplyPreferences(c)
  \/ ReadSelected(c) \/ ChooseModel(c)
  \/ DownloadEnds(c) \/ DownloadSucceeded(c) \/ DownloadFailed(c)
  \/ InitReturns(c) \/ CancelledEnds(c)

System ==
  \/ \E c \in Coroutines : CoroutineStep(c) \/ Progress(c)
  \/ \E c \in Calls : Native(c)
  \/ StoreThreads
  \/ FileTranscribed

\* What the user does, but for cancelling.
User ==
  \/ \E m \in Models : SelectModel(m)
  \/ DownloadButton
  \/ \E n \in Threads : SetThreads(n)
  \/ Recreate
  \/ TranscribeFile
  \/ ManageModels

Next == System \/ User \/ CancelDownload

Spec == Init /\ [][Next]_vars

\* The dispatchers run every coroutine and every native call to its end.
Fairness ==
  /\ \A c \in Coroutines : WF_vars(CoroutineStep(c))
  /\ \A c \in Calls : WF_vars(Native(c))
  /\ WF_vars(StoreThreads) /\ WF_vars(FileTranscribed)

FairSpec == Spec /\ Fairness

\* Nothing is under way.
Quiet ==
  /\ \A c \in Coroutines : co[c].pc = "idle"
  /\ \A c \in Calls : call[c].pc = "idle"
  /\ pendingThreads = None

\* A user who waits for what is under way, except to cancel it.
PatientNext == System \/ CancelDownload \/ (Quiet /\ User)

PatientSpec == Init /\ [][PatientNext]_vars

-------------------------------------------------------------------------------
\* The badge beside "Model: <selected>" (TranscriptionScreen.kt:149-179).
Badge == IF loaded THEN "Ready" ELSE IF progress THEN "Downloading"
         ELSE IF downloaded THEN "Initializing" ELSE "Not downloaded"

\* modelDownloadJob never loses track of a download that may still act on the
\* UI: every job not yet cancelled is the one cancelModelDownload would cancel.
JobOwned ==
  \A c \in Coroutines : co[c].kind = "job" /\ co[c].status = "active" => jobRef = c

\* "Ready" is shown of the selected model only when the native context holds
\* that very model.
ReadyHonest == Badge = "Ready" => contextPtr = selected

\* The same once nothing is under way: a wrong model is not just transient.
QuietReadyHonest == Quiet => ReadyHonest

\* "Downloading" is shown only while the job that will clear it is alive, or
\* after a cancellation.
DownloadingHonest ==
  Badge = "Downloading" =>
    \/ jobRef = None
    \/ jobRef \in Coroutines /\ co[jobRef].pc \in Downloading

\* What the user sees as the thread count is what is stored, once settled.
PreferencesAgree == Quiet => nThreads = threadsStored

\* Every coroutine ends, whatever the user does meanwhile.
CoroutinesEnd == \A c \in Coroutines : co[c].pc # "idle" ~> co[c].pc = "idle"
===============================================================================
