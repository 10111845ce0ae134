-------------------------- MODULE BackgroundDownloads --------------------------
(***************************************************************************)
(* The Manage Models screen: ModelsViewModel.kt, ModelDownloadWorker.kt    *)
(* and CancelDownloadReceiver.kt, over what ModelStore promises of a       *)
(* download and what WorkManager does with unique work.  A row shows a     *)
(* model's foreground download and whatever its observer reports of the    *)
(* background one.  Free space, the network constraint and failures to     *)
(* start a worker are choices of the environment; the default model, the   *)
(* Wi-Fi switch and the error texts are left out.                          *)
(***************************************************************************)
EXTENDS Integers

CONSTANTS N,              \* the number of models: WhisperModel's ordinals are 0..N-1
          Jobs,           \* foreground coroutines that may be alive at a time
          Workers,        \* ModelDownloadWorkers that may be alive at a time
          Literal,        \* the text model_download_${model.name}
          None            \* no entry in jobs

ASSUME NAssumption == N \in Nat \ {0}
ASSUME LiteralAssumption == Literal \notin 0..(N - 1)
ASSUME NoneAssumption == None \notin Jobs

VARIABLES listed,         \* uiState.items is no longer the empty list
          downloaded,     \* isDownloaded of each row
          progress,       \* progress # null of each row
          jobs,           \* the jobs map, without those that have completed
          job,            \* progress of each foreground coroutine
          observer,       \* each row's observer: off, or has it seen the last WorkInfo
          work,           \* WorkManager's record of each unique name
          worker,         \* progress of each worker
          ongoing,        \* each model's "Downloading" is posted in the drawer
          intent,         \* the Cancel of one of these that is on its way
          file            \* file[m]: the model's file is at its final path

rowVars == <<listed, downloaded, progress>>
jobVars == <<jobs, job>>
workVars == <<observer, work, worker, ongoing, intent>>
vars == <<listed, downloaded, progress, jobs, job, observer, work, worker, ongoing, intent, file>>

Models == 0..(N - 1)

\* In the view model the dollar sign is escaped, in the receiver it is not.
UniqueWorkName(m) == Literal
ReceiverWorkName(m) == m
Names == Models \cup {Literal}

JobRecord == [pc : {"idle", "download", "stored", "failed"}, model : Models,
              status : {"active", "cancelled", "detached"}]
WorkRecord == [state : {"none", "enqueued", "running", "succeeded", "failed", "cancelled"},
               model : Models]
WorkerRecord == [pc : {"idle", "start", "download", "stored", "failed"}, model : Models,
                 name : Names, status : {"active", "stopped"}]

TypeOK ==
  /\ listed \in BOOLEAN
  /\ downloaded \in [Models -> BOOLEAN] /\ progress \in [Models -> BOOLEAN]
  /\ jobs \in [Models -> Jobs \cup {None}] /\ job \in [Jobs -> JobRecord]
  /\ observer \in [Models -> {"off", "seen", "unseen"}]
  /\ work \in [Names -> WorkRecord] /\ worker \in [Workers -> WorkerRecord]
  /\ ongoing \in [Models -> BOOLEAN] /\ intent \in Models \cup {None}
  /\ file \in [Models -> BOOLEAN]

NoJob == [pc |-> "idle", model |-> 0, status |-> "active"]
NoWork == [state |-> "none", model |-> 0]
NoWorker == [pc |-> "idle", model |-> 0, name |-> Literal, status |-> "active"]
NoRow == [m \in Models |-> FALSE]

Init ==
  /\ listed = FALSE /\ downloaded = NoRow /\ progress = NoRow
  /\ jobs = [m \in Models |-> None] /\ job = [j \in Jobs |-> NoJob]
  /\ observer = [m \in Models |-> "off"]
  /\ work = [n \in Names |-> NoWork] /\ worker = [w \in Workers |-> NoWorker]
  /\ ongoing = NoRow /\ intent = None
  /\ file \in [Models -> BOOLEAN]

-------------------------------------------------------------------------------
Under(n) == work[n].state \in {"enqueued", "running"}

\* The buttons of a row.
OffersDownload(m) == listed /\ ~progress[m] /\ ~downloaded[m]
OffersCancel(m) == listed /\ progress[m]
OffersDelete(m) == listed /\ ~progress[m] /\ downloaded[m]

\* updateItem: there is nothing to update before the list is loaded.
ShowProgress(m, shown) == progress' = [progress EXCEPT ![m] = listed /\ shown]
ShowDownloaded(m, shown) == downloaded' = [downloaded EXCEPT ![m] = listed /\ shown]

\* Whoever observes the name n is to be told.
Tell(n) ==
  observer' = [m \in Models |-> IF observer[m] = "seen" /\ UniqueWorkName(m) = n
                                THEN "unseen" ELSE observer[m]]

ActiveOf(n) == {w \in Workers : worker[w].pc # "idle" /\ worker[w].name = n
                                  /\ worker[w].status = "active"}

\* WorkManager stops the workers of n, which takes their notifications away; they
\* learn it at their next suspension point.
Stop(n) ==
  /\ worker' = [w \in Workers |-> IF w \in ActiveOf(n) THEN [worker[w] EXCEPT !.status = "stopped"]
                                  ELSE worker[w]]
  /\ ongoing' = [m \in Models |->
       ongoing[m] /\ ~\E w \in ActiveOf(n) : worker[w].model = m /\ worker[w].pc # "start"]

-------------------------------------------------------------------------------
(***************************************************************************)
(* Plausible bugs, each substituted for the action of like name.           *)
(***************************************************************************)

\* Without the test of jobs[model].
StartDownload_Unguarded(m) ==
  /\ OffersDownload(m)
  /\ \E j \in Jobs :
       /\ job[j].pc = "idle"
       /\ job' = [job EXCEPT ![j] = [pc |-> "download", model |-> m, status |-> "active"]]
       /\ jobs' = [jobs EXCEPT ![m] = j]
  /\ ShowProgress(m, TRUE)
  /\ UNCHANGED <<listed, downloaded, workVars, file>>

\* Enqueues beside the older work, which goes on.
Replace_KeepsOld(n, m) ==
  /\ work' = [work EXCEPT ![n] = [state |-> "enqueued", model |-> m]]
  /\ UNCHANGED <<worker, ongoing>>

\* Does nothing on FAILED.
Observe_IgnoresFailure(m) ==
  LET state == work[UniqueWorkName(m)].state
  IN /\ observer[m] = "unseen"
     /\ observer' = [observer EXCEPT ![m] = "seen"]
     /\ \/ state = "running" /\ ShowProgress(m, TRUE) /\ UNCHANGED downloaded
        \/ state = "succeeded" /\ ShowProgress(m, FALSE) /\ ShowDownloaded(m, TRUE)
        \/ state = "cancelled" /\ ShowProgress(m, FALSE) /\ UNCHANGED downloaded
        \/ state \in {"none", "enqueued", "failed"} /\ UNCHANGED <<progress, downloaded>>
     /\ UNCHANGED <<listed, jobVars, work, worker, ongoing, intent, file>>

\* Goes back to a state that WorkInfo does not know.
AfterFailure_Retrying == "retrying"

-------------------------------------------------------------------------------
\* refresh, when it has read the default model; the first one is init's.
Refresh ==
  /\ listed' = TRUE
  /\ downloaded' = file /\ progress' = NoRow
  /\ observer' = [m \in Models |-> IF observer[m] = "off" THEN "unseen" ELSE observer[m]]
  /\ UNCHANGED <<jobVars, work, worker, ongoing, intent, file>>

\* startDownload, from the button of a row that is neither stored nor busy.
StartDownload(m) ==
  /\ OffersDownload(m)
  /\ jobs[m] = None
  /\ \E j \in Jobs :
       /\ job[j].pc = "idle"
       /\ job' = [job EXCEPT ![j] = [pc |-> "download", model |-> m, status |-> "active"]]
       /\ jobs' = [jobs EXCEPT ![m] = j]
  /\ ShowProgress(m, TRUE)
  /\ UNCHANGED <<listed, downloaded, workVars, file>>

\* The jobs of the models in S are cancelled and forgotten.
Forget(S) ==
  /\ job' = [j \in Jobs |-> IF \E m \in S : jobs[m] = j
                            THEN [job[j] EXCEPT !.status = "cancelled"] ELSE job[j]]
  /\ jobs' = [m \in Models |-> IF m \in S THEN None ELSE jobs[m]]

\* cancelDownload, from the Cancel button of any row that shows progress.
CancelDownload(m) ==
  /\ OffersCancel(m)
  /\ Forget({m})
  /\ ShowProgress(m, FALSE)
  /\ UNCHANGED <<listed, downloaded, workVars, file>>

DeleteModel(m) ==
  /\ OffersDelete(m)
  /\ file[m]
  /\ file' = [file EXCEPT ![m] = FALSE]
  /\ ShowDownloaded(m, FALSE)
  /\ UNCHANGED <<listed, progress, jobVars, workVars>>

\* enqueueUniqueWork with REPLACE: the older work of that name is deleted.
Replace(n, m) ==
  /\ work' = [work EXCEPT ![n] = [state |-> "enqueued", model |-> m]]
  /\ Stop(n)

\* The observers of n are told, and that of every m in S is started.
TellAndObserve(n, S) ==
  observer' = [m \in Models |-> IF m \in S \/ (observer[m] # "off" /\ UniqueWorkName(m) = n)
                                THEN "unseen" ELSE observer[m]]

EnqueueBackgroundDownload(m) ==
  /\ OffersDownload(m)
  /\ Replace(UniqueWorkName(m), m)
  /\ TellAndObserve(UniqueWorkName(m), {m})
  /\ UNCHANGED <<rowVars, jobVars, intent, file>>

\* downloadAll enqueues the models not shown as stored, as far as the free space
\* goes, in the enum's order; each replaces the one before it.
DownloadAll ==
  \E space \in 1..N :
    LET wanted == {m \in 0..(space - 1) : ~downloaded[m]}
    IN /\ wanted # {}
       /\ \E last \in wanted : /\ \A k \in wanted : k <= last
                             /\ Replace(UniqueWorkName(last), last)
       /\ TellAndObserve(Literal, wanted)
       /\ UNCHANGED <<rowVars, jobVars, intent, file>>

\* cancelUniqueWork.
CancelUniqueWork(n) ==
  /\ work' = [work EXCEPT ![n].state = IF Under(n) THEN "cancelled" ELSE @]
  /\ Stop(n)
  /\ Tell(n)

\* cancelAllDownloads: one name stands for every model.
CancelAllDownloads ==
  /\ CancelUniqueWork(Literal)
  /\ Forget(Models)
  /\ progress' = NoRow
  /\ UNCHANGED <<listed, downloaded, intent, file>>

\* The Cancel action of a notification sends a broadcast.
CancelFromNotification(m) ==
  /\ ongoing[m] /\ intent = None
  /\ intent' = m
  /\ UNCHANGED <<rowVars, jobVars, observer, work, worker, ongoing, file>>

\* CancelDownloadReceiver.onReceive.
OnReceive ==
  /\ intent # None
  /\ intent' = None
  /\ CancelUniqueWork(ReceiverWorkName(intent))
  /\ UNCHANGED <<rowVars, jobVars, file>>

\* Leaving the screen clears the view model, coming back makes a new one.
Reopen ==
  /\ listed' = FALSE /\ downloaded' = NoRow /\ progress' = NoRow
  /\ jobs' = [m \in Models |-> None]
  /\ job' = [j \in Jobs |-> IF job[j].pc = "idle" THEN job[j]
                            ELSE [job[j] EXCEPT !.status = "detached"]]
  /\ observer' = [m \in Models |-> "off"]
  /\ UNCHANGED <<work, worker, ongoing, intent, file>>

-------------------------------------------------------------------------------
\* onProgress runs on the IO thread, cancelled or not, and reaches the rows of
\* the view model it was made by.
JobProgress(j) ==
  /\ job[j].pc = "download" /\ job[j].status # "detached"
  /\ ShowProgress(job[j].model, TRUE)
  /\ UNCHANGED <<listed, downloaded, jobVars, workVars, file>>

\* downloadModel, as ModelStore allows: it stores the model, or fails and may
\* have withdrawn an older copy.
Outcome(m, end) ==
  \/ end = "stored" /\ file' = [file EXCEPT ![m] = TRUE]
  \/ end = "failed" /\ \E kept \in BOOLEAN : file' = [file EXCEPT ![m] = @ /\ kept]

JobDownloads(j) ==
  /\ job[j].pc = "download"
  /\ \E end \in {"stored", "failed"} :
       /\ Outcome(job[j].model, end)
       /\ job' = [job EXCEPT ![j].pc = end]
  /\ UNCHANGED <<rowVars, jobs, workVars>>

\* onSuccess and onFailure.
ShowEnd(m, stored) ==
  /\ ShowProgress(m, FALSE)
  /\ IF stored THEN ShowDownloaded(m, TRUE) ELSE UNCHANGED downloaded

JobEnds(j) ==
  /\ job[j].pc \in {"stored", "failed"}
  /\ job' = [job EXCEPT ![j] = NoJob]
  /\ jobs' = [m \in Models |-> IF jobs[m] = j THEN None ELSE jobs[m]]
  /\ \/ job[j].status = "active" /\ ShowEnd(job[j].model, job[j].pc = "stored")
     \/ job[j].status # "active" /\ UNCHANGED <<progress, downloaded>>
  /\ UNCHANGED <<listed, workVars, file>>

\* The observer of row m takes the work of that name for the row's own.
Observe(m) ==
  LET state == work[UniqueWorkName(m)].state
  IN /\ observer[m] = "unseen"
     /\ observer' = [observer EXCEPT ![m] = "seen"]
     /\ \/ state = "running" /\ ShowProgress(m, TRUE) /\ UNCHANGED downloaded
        \/ state = "succeeded" /\ ShowProgress(m, FALSE) /\ ShowDownloaded(m, TRUE)
        \/ state \in {"failed", "cancelled"} /\ ShowProgress(m, FALSE) /\ UNCHANGED downloaded
        \/ state \in {"none", "enqueued"} /\ UNCHANGED <<progress, downloaded>>
     /\ UNCHANGED <<listed, jobVars, work, worker, ongoing, intent, file>>

-------------------------------------------------------------------------------
\* The constraints hold: a worker is made, or cannot be.
RunWork(n) ==
  /\ work[n].state = "enqueued"
  /\ \/ /\ work' = [work EXCEPT ![n].state = "running"]
        /\ \E w \in Workers :
             /\ worker[w].pc = "idle"
             /\ worker' = [worker EXCEPT ![w] = [pc |-> "start", model |-> work[n].model,
                                                 name |-> n, status |-> "active"]]
     \/ work' = [work EXCEPT ![n].state = "failed"] /\ UNCHANGED worker
  /\ Tell(n)
  /\ UNCHANGED <<rowVars, jobVars, ongoing, intent, file>>

\* The constraints no longer hold: the work waits for them again.
ConstraintsLost(n) ==
  /\ work[n].state = "running"
  /\ work' = [work EXCEPT ![n].state = "enqueued"]
  /\ Stop(n)
  /\ Tell(n)
  /\ UNCHANGED <<rowVars, jobVars, intent, file>>

\* setForeground, which may throw and so fail the work; nothing of it happens
\* once the worker is stopped.
SetForeground(w) ==
  LET r == worker[w]
  IN /\ r.pc = "start"
     /\ \/ /\ r.status = "active"
           /\ worker' = [worker EXCEPT ![w].pc = "download"]
           /\ ongoing' = [ongoing EXCEPT ![r.model] = TRUE]
           /\ UNCHANGED <<work, observer>>
        \/ /\ r.status = "active"
           /\ worker' = [worker EXCEPT ![w] = NoWorker]
           /\ work' = [work EXCEPT ![r.name].state = "failed"]
           /\ Tell(r.name)
           /\ UNCHANGED ongoing
        \/ /\ r.status = "stopped"
           /\ worker' = [worker EXCEPT ![w] = NoWorker]
           /\ UNCHANGED <<work, observer, ongoing>>
     /\ UNCHANGED <<rowVars, jobVars, intent, file>>

\* onProgress of the worker: setProgressAsync and updateNotification, on the IO
\* thread, stopped or not.
WorkerProgress(w) ==
  LET r == worker[w]
  IN /\ r.pc = "download"
     /\ ongoing' = [ongoing EXCEPT ![r.model] = TRUE]
     /\ IF r.status = "active" THEN Tell(r.name) ELSE UNCHANGED observer
     /\ UNCHANGED <<rowVars, jobVars, work, worker, intent, file>>

WorkerDownloads(w) ==
  /\ worker[w].pc = "download"
  /\ \E end \in {"stored", "failed"} :
       /\ Outcome(worker[w].model, end)
       /\ worker' = [worker EXCEPT ![w].pc = end]
  /\ UNCHANGED <<rowVars, jobVars, observer, work, ongoing, intent>>

\* Result.retry: the work is enqueued once more, however often it has failed.
AfterFailure == "enqueued"

\* showCompletion and Result.success, or showFailed and Result.retry: a passing
\* notification takes the place of the ongoing one.
WorkerEnds(w) ==
  LET r == worker[w]
  IN /\ r.pc \in {"stored", "failed"} /\ r.status = "active"
     /\ worker' = [worker EXCEPT ![w] = NoWorker]
     /\ work' = [work EXCEPT ![r.name].state = IF r.pc = "stored" THEN "succeeded" ELSE AfterFailure]
     /\ Tell(r.name)
     /\ ongoing' = [ongoing EXCEPT ![r.model] = FALSE]
     /\ UNCHANGED <<rowVars, jobVars, intent, file>>

\* A stopped worker ends unheard, but may still post how its download ended.
StoppedWorkerEnds(w) ==
  LET r == worker[w]
  IN /\ r.pc \in {"stored", "failed"} /\ r.status = "stopped"
     /\ worker' = [worker EXCEPT ![w] = NoWorker]
     /\ \/ UNCHANGED ongoing
        \/ ongoing' = [ongoing EXCEPT ![r.model] = FALSE]
     /\ UNCHANGED <<rowVars, jobVars, observer, work, intent, file>>

-------------------------------------------------------------------------------
JobStep(j) == JobDownloads(j) \/ JobEnds(j)

WorkerStep(w) == SetForeground(w) \/ WorkerDownloads(w) \/ WorkerEnds(w) \/ StoppedWorkerEnds(w)

System ==
  \/ \E j \in Jobs : JobStep(j) \/ JobProgress(j)
  \/ \E m \in Models : Observe(m)
  \/ \E w \in Workers : WorkerStep(w) \/ WorkerProgress(w)
  \/ \E n \in Names : RunWork(n)
  \/ OnReceive

\* Requests that leave a foreground download alone.
Request ==
  \/ Refresh
  \/ \E m \in Models : StartDownload(m) \/ DeleteModel(m) \/ EnqueueBackgroundDownload(m)
  \/ \E m \in Models : CancelFromNotification(m)
  \/ DownloadAll

\* Requests that cancel foreground downloads too.
Abandon ==
  \/ \E m \in Models : CancelDownload(m)
  \/ CancelAllDownloads
  \/ Reopen

Environment == \E n \in Names : ConstraintsLost(n)

Next == System \/ Request \/ Abandon \/ Environment

Spec == Init /\ [][Next]_vars

NoJobAlive == \A j \in Jobs : job[j].pc = "idle"

\* No foreground download is abandoned.
PatientNext == System \/ Request \/ (NoJobAlive /\ Abandon) \/ Environment

PatientSpec == Init /\ [][PatientNext]_vars

\* Nothing is under way, and every row has heard of it.
Quiet ==
  /\ NoJobAlive
  /\ \A w \in Workers : worker[w].pc = "idle"
  /\ \A n \in Names : ~Under(n)
  /\ \A m \in Models : observer[m] # "unseen"

-------------------------------------------------------------------------------
\* Every foreground download that may still act on a row is the one that
\* startDownload and cancelDownload of that row know of.
JobOwned ==
  \A j \in Jobs : job[j].pc # "idle" /\ job[j].status = "active" => jobs[job[j].model] = j

\* A work that is running has exactly one worker that is not stopped, and that one
\* downloads the model the name was last enqueued for; any other work has none.
\* Workers that were replaced may still be streaming beside it.
OneWorkerPerName ==
  \A n \in Names :
    /\ work[n].state = "running" <=> ActiveOf(n) # {}
    /\ \A v, w \in ActiveOf(n) : v = w /\ worker[w].model = work[n].model

\* "Downloading n%" (ModelManagementScreen.kt:97): no row shows progress when
\* nothing is under way.
QuietRows == Quiet => progress = NoRow

\* "Cancel" (ModelDownloadWorker.kt:66), beside the progress of a download in its
\* notification, stops that download once the broadcast is received.
NotificationCancels ==
  [][\A m \in Models : OnReceive /\ intent = m =>
       ~\E w \in Workers : /\ worker'[w].pc = "download" /\ worker'[w].model = m
                           /\ worker'[w].status = "active"]_vars
===============================================================================
