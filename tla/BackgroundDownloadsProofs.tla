----------------------- MODULE BackgroundDownloadsProofs -----------------------
(***************************************************************************)
(* Proofs about BackgroundDownloads, for any number of models, coroutines  *)
(* and workers and every interleaving of the screen, WorkManager and the   *)
(* downloads: its types, that the jobs map owns the downloads that may act *)
(* on a row, and that a unique name has one worker that is not stopped.    *)
(***************************************************************************)
EXTENDS BackgroundDownloads, TLAPS

(***************************************************************************)
(* The invariant has four parts, each inductive given the types: of the    *)
(* foreground downloads, of the background ones, two, and of what is shown.*)
(***************************************************************************)
JobsInv ==
  /\ jobs \in [Models -> Jobs \cup {None}] /\ job \in [Jobs -> JobRecord]
  /\ JobOwned

\* A worker that is not stopped has a running work, of its model, to itself.
Active(w) == worker[w].pc # "idle" /\ worker[w].status = "active"

Matched ==
  \A v, w \in Workers :
    /\ Active(w) => work[worker[w].name] = [state |-> "running", model |-> worker[w].model]
    /\ Active(v) /\ Active(w) /\ worker[v].name = worker[w].name => v = w

\* A running work has such a worker.
Driven == \A n \in Names : work[n].state = "running" => ActiveOf(n) # {}

WorkInv ==
  /\ work \in [Names -> WorkRecord] /\ worker \in [Workers -> WorkerRecord]
  /\ Matched

ShownInv ==
  /\ listed \in BOOLEAN
  /\ downloaded \in [Models -> BOOLEAN] /\ progress \in [Models -> BOOLEAN]
  /\ observer \in [Models -> {"off", "seen", "unseen"}]
  /\ ongoing \in [Models -> BOOLEAN] /\ intent \in Models \cup {None}
  /\ file \in [Models -> BOOLEAN]

Inv == JobsInv /\ WorkInv /\ Driven /\ ShownInv

LEMMA InvTypes == Inv => TypeOK
  BY DEF Inv, JobsInv, WorkInv, ShownInv, TypeOK

LEMMA ZeroIsModel == 0 \in Models
  BY NAssumption DEF Models

-------------------------------------------------------------------------------
\* The updates of a record keep its type.
LEMMA JobRecords ==
  /\ NoJob \in JobRecord
  /\ \A m \in Models : [pc |-> "download", model |-> m, status |-> "active"] \in JobRecord
  BY ZeroIsModel DEF NoJob, JobRecord

LEMMA JobStatus ==
  ASSUME NEW r \in JobRecord, NEW s \in {"cancelled", "detached"}
  PROVE  LET q == [r EXCEPT !.status = s]
         IN q \in JobRecord /\ q.status = s /\ q.pc = r.pc /\ q.model = r.model
  BY Zenon DEF JobRecord

LEMMA JobPlace ==
  ASSUME NEW r \in JobRecord, NEW p \in {"stored", "failed"}
  PROVE  LET q == [r EXCEPT !.pc = p]
         IN q \in JobRecord /\ q.pc = p /\ q.status = r.status /\ q.model = r.model
  BY Zenon DEF JobRecord

LEMMA WorkRecords ==
  /\ NoWork \in WorkRecord
  /\ \A m \in Models : [state |-> "enqueued", model |-> m] \in WorkRecord
  BY ZeroIsModel DEF NoWork, WorkRecord

LEMMA WorkState ==
  ASSUME NEW r \in WorkRecord,
         NEW s \in {"enqueued", "running", "succeeded", "failed", "cancelled"}
  PROVE  /\ [r EXCEPT !.state = s] = [state |-> s, model |-> r.model]
         /\ [state |-> s, model |-> r.model] \in WorkRecord
  BY DEF WorkRecord

LEMMA WorkerRecords ==
  /\ NoWorker \in WorkerRecord
  /\ \A m \in Models, n \in Names :
       [pc |-> "start", model |-> m, name |-> n, status |-> "active"] \in WorkerRecord
  BY ZeroIsModel DEF NoWorker, WorkerRecord, Names

LEMMA WorkerStop ==
  ASSUME NEW r \in WorkerRecord
  PROVE  LET q == [r EXCEPT !.status = "stopped"]
         IN q \in WorkerRecord /\ q.status = "stopped" /\ q.pc = r.pc
  BY Zenon DEF WorkerRecord

LEMMA WorkerPlace ==
  ASSUME NEW r \in WorkerRecord, NEW p \in {"download", "stored", "failed"}
  PROVE  LET q == [r EXCEPT !.pc = p]
         IN /\ q \in WorkerRecord /\ q.pc = p /\ q.status = r.status
            /\ q.model = r.model /\ q.name = r.name
  BY Zenon DEF WorkerRecord

-------------------------------------------------------------------------------
(***************************************************************************)
(* Foreground downloads.                                                   *)
(***************************************************************************)
LEMMA ForgetKeeps ==
  ASSUME JobsInv, NEW S, Forget(S)
  PROVE  JobsInv'
  <1>1. \A j \in Jobs : job'[j] = IF \E m \in S : jobs[m] = j
                                    THEN [job[j] EXCEPT !.status = "cancelled"] ELSE job[j]
    BY DEF Forget
  <1>2. ASSUME NEW j \in Jobs
        PROVE  /\ job'[j] \in JobRecord /\ job'[j].model = job[j].model
               /\ job'[j].pc = job[j].pc
               /\ job'[j].status = "active" =>
                    job[j].status = "active" /\ ~\E m \in S : jobs[m] = j
    <2> DEFINE q == [job[j] EXCEPT !.status = "cancelled"]
    <2>1. job[j] \in JobRecord BY DEF JobsInv
    <2>2. /\ q \in JobRecord /\ q.status = "cancelled"
          /\ q.pc = job[j].pc /\ q.model = job[j].model
      BY <2>1, JobStatus
    <2>3. job'[j] = IF \E m \in S : jobs[m] = j THEN q ELSE job[j] BY <1>1
    <2> HIDE DEF q
    <2>4. QED BY <2>1, <2>2, <2>3
  <1>3. job' \in [Jobs -> JobRecord] BY <1>2 DEF Forget
  <1>4. jobs' \in [Models -> Jobs \cup {None}] BY DEF Forget, JobsInv
  <1>5. \A j \in Jobs : job[j].model \in Models BY DEF JobsInv, JobRecord
  <1>6. JobOwned'
    BY <1>2, <1>5 DEF JobsInv, JobOwned, Forget
  <1>7. QED BY <1>3, <1>4, <1>6 DEF JobsInv

LEMMA StartKeeps ==
  ASSUME JobsInv, NEW m \in Models, StartDownload(m)
  PROVE  JobsInv'
  <1>1. PICK j \in Jobs :
          /\ job' = [job EXCEPT ![j] = [pc |-> "download", model |-> m, status |-> "active"]]
          /\ jobs' = [jobs EXCEPT ![m] = j]
    BY DEF StartDownload
  <1>2. jobs' \in [Models -> Jobs \cup {None}] /\ job' \in [Jobs -> JobRecord]
    BY <1>1, JobRecords DEF JobsInv
  <1>3. jobs[m] = None BY DEF StartDownload
  <1>4. JobOwned'
    <2> SUFFICES ASSUME NEW k \in Jobs, job'[k].pc # "idle", job'[k].status = "active"
                 PROVE  jobs'[job'[k].model] = k
      BY DEF JobOwned
    <2>1. CASE k = j BY <1>1, <2>1 DEF JobsInv
    <2>2. CASE k # j
      <3>1. job'[k] = job[k] BY <1>1, <2>2 DEF JobsInv
      <3>2. jobs[job[k].model] = k /\ job[k].model \in Models
        BY <3>1 DEF JobsInv, JobOwned, JobRecord
      <3>3. job[k].model # m BY <1>3, <3>2, NoneAssumption
      <3>4. QED BY <1>1, <3>1, <3>2, <3>3 DEF JobsInv
    <2>3. QED BY <2>1, <2>2
  <1>5. QED BY <1>2, <1>4 DEF JobsInv

LEMMA JobStepKeeps ==
  ASSUME JobsInv, NEW j \in Jobs, JobStep(j)
  PROVE  JobsInv'
  <1>1. CASE JobDownloads(j)
    <2>1. PICK p \in {"stored", "failed"} : job' = [job EXCEPT ![j] = [job[j] EXCEPT !.pc = p]]
      BY <1>1 DEF JobDownloads, JobsInv
    <2>2. jobs' = jobs /\ job[j].pc = "download" BY <1>1 DEF JobDownloads
    <2> DEFINE q == [job[j] EXCEPT !.pc = p]
    <2>o. job[j] \in JobRecord BY DEF JobsInv
    <2>q. q \in JobRecord /\ q.pc = p /\ q.status = job[j].status /\ q.model = job[j].model
      BY <2>o, JobPlace
    <2>r. job' = [job EXCEPT ![j] = q] BY <2>1
    <2> HIDE DEF q
    <2>3. /\ job' \in [Jobs -> JobRecord]
          /\ \A k \in Jobs : job'[k].model = job[k].model /\ job'[k].status = job[k].status
                               /\ (job'[k].pc # "idle" => job[k].pc # "idle")
      BY <2>q, <2>r, <2>2 DEF JobsInv
    <2>4. JobOwned' BY <2>2, <2>3 DEF JobsInv, JobOwned
    <2>5. QED BY <2>2, <2>3, <2>4 DEF JobsInv
  <1>2. CASE JobEnds(j)
    <2>1. /\ job' = [job EXCEPT ![j] = NoJob]
          /\ jobs' = [m \in Models |-> IF jobs[m] = j THEN None ELSE jobs[m]]
      BY <1>2 DEF JobEnds
    <2>2. jobs' \in [Models -> Jobs \cup {None}] /\ job' \in [Jobs -> JobRecord]
      BY <2>1, JobRecords DEF JobsInv
    <2>3. job'[j].pc = "idle" /\ \A k \in Jobs \ {j} : job'[k] = job[k]
      BY <2>1 DEF JobsInv, NoJob
    <2>4. \A k \in Jobs : job[k].model \in Models BY DEF JobsInv, JobRecord
    <2>5. JobOwned' BY <2>1, <2>3, <2>4 DEF JobsInv, JobOwned
    <2>6. QED BY <2>2, <2>5 DEF JobsInv
  <1>3. QED BY <1>1, <1>2 DEF JobStep

LEMMA ReopenKeeps ==
  ASSUME JobsInv, Reopen
  PROVE  JobsInv'
  <1>1. jobs' \in [Models -> Jobs \cup {None}] BY DEF Reopen
  <1>2. \A j \in Jobs : job'[j] = IF job[j].pc = "idle" THEN job[j]
                                  ELSE [job[j] EXCEPT !.status = "detached"]
    BY DEF Reopen
  <1>3. ASSUME NEW j \in Jobs
        PROVE  /\ job'[j] \in JobRecord
               /\ job'[j].pc = "idle" \/ job'[j].status = "detached"
    <2> DEFINE q == [job[j] EXCEPT !.status = "detached"]
    <2>1. job[j] \in JobRecord /\ q \in JobRecord /\ q.status = "detached"
      BY JobStatus DEF JobsInv
    <2>2. job'[j] = IF job[j].pc = "idle" THEN job[j] ELSE q BY <1>2
    <2> HIDE DEF q
    <2>3. QED BY <2>1, <2>2
  <1>4. job' \in [Jobs -> JobRecord] BY <1>3 DEF Reopen
  <1>5. JobOwned' BY <1>3 DEF JobOwned
  <1>6. QED BY <1>1, <1>4, <1>5 DEF JobsInv

LEMMA JobsInductive == JobsInv /\ [Next]_vars => JobsInv'
  <1> SUFFICES ASSUME JobsInv, [Next]_vars PROVE JobsInv'
    OBVIOUS
  <1>1. \/ UNCHANGED jobVars
        \/ \E S \in SUBSET Models : Forget(S)
        \/ \E m \in Models : StartDownload(m)
        \/ \E j \in Jobs : JobStep(j)
        \/ Reopen
    <2>1. CASE System
      BY <2>1 DEF System, JobProgress, Observe, WorkerStep, WorkerProgress, RunWork, OnReceive,
                  SetForeground, WorkerDownloads, WorkerEnds, StoppedWorkerEnds
    <2>2. CASE Request
      BY <2>2 DEF Request, Refresh, DeleteModel, EnqueueBackgroundDownload, CancelFromNotification,
                  DownloadAll
    <2>3. CASE Abandon
      BY <2>3 DEF Abandon, CancelDownload, CancelAllDownloads
    <2>4. CASE Environment
      BY <2>4 DEF Environment, ConstraintsLost
    <2>5. CASE UNCHANGED vars
      BY <2>5 DEF vars, jobVars
    <2>6. QED BY <2>1, <2>2, <2>3, <2>4, <2>5 DEF Next
  <1>2. CASE UNCHANGED jobVars
    BY <1>2 DEF jobVars, JobsInv, JobOwned
  <1>3. QED BY <1>1, <1>2, ForgetKeeps, StartKeeps, JobStepKeeps, ReopenKeeps

-------------------------------------------------------------------------------
(***************************************************************************)
(* Background downloads.                                                   *)
(***************************************************************************)
\* After Stop(n) no active worker has the name n, and no other is touched.
LEMMA Stopping ==
  ASSUME WorkInv, NEW n, Stop(n)
  PROVE  /\ worker' \in [Workers -> WorkerRecord]
         /\ \A w \in Workers : Active(w)' => worker'[w] = worker[w] /\ worker[w].name # n
  <1>1. \A w \in Workers : worker'[w] = IF w \in ActiveOf(n) THEN [worker[w] EXCEPT !.status = "stopped"]
                                        ELSE worker[w]
    BY DEF Stop
  <1>2. ASSUME NEW w \in Workers
        PROVE  /\ worker'[w] \in WorkerRecord
               /\ w \in ActiveOf(n) => worker'[w].status = "stopped"
               /\ w \notin ActiveOf(n) => worker'[w] = worker[w]
    <2> DEFINE q == [worker[w] EXCEPT !.status = "stopped"]
    <2>1. worker[w] \in WorkerRecord /\ q \in WorkerRecord /\ q.status = "stopped"
      BY WorkerStop DEF WorkInv
    <2>2. worker'[w] = IF w \in ActiveOf(n) THEN q ELSE worker[w] BY <1>1
    <2> HIDE DEF q
    <2>3. QED BY <2>1, <2>2
  <1>3. worker' \in [Workers -> WorkerRecord] BY <1>2 DEF Stop
  <1>4. \A w \in Workers : Active(w)' => worker'[w] = worker[w] /\ worker[w].name # n
    BY <1>2 DEF Active, ActiveOf
  <1>5. QED BY <1>3, <1>4

\* The work of a name may change once its active worker is stopped.
LEMMA StopKeeps ==
  ASSUME WorkInv, NEW n \in Names, NEW r \in WorkRecord, Stop(n), work' = [work EXCEPT ![n] = r]
  PROVE  WorkInv'
  <1>1. worker' \in [Workers -> WorkerRecord] BY Stopping
  <1>2. work' \in [Names -> WorkRecord] BY DEF WorkInv
  <1>3. \A w \in Workers : Active(w)' =>
          /\ worker'[w] = worker[w] /\ Active(w)
          /\ work'[worker'[w].name] = work[worker[w].name]
    BY Stopping DEF Active, WorkInv, WorkerRecord
  <1>4. Matched' BY <1>3 DEF WorkInv, Matched, Active
  <1>5. QED BY <1>1, <1>2, <1>4 DEF WorkInv

LEMMA CancelKeeps ==
  ASSUME WorkInv, NEW n \in Names, CancelUniqueWork(n)
  PROVE  WorkInv'
  <1> DEFINE r == [work[n] EXCEPT !.state = IF Under(n) THEN "cancelled" ELSE @]
  <1>1. work[n] \in WorkRecord BY DEF WorkInv
  <1>2. r \in WorkRecord BY <1>1, Zenon DEF WorkRecord
  <1>3. work' = [work EXCEPT ![n] = r] /\ Stop(n) BY DEF CancelUniqueWork, WorkInv
  <1> HIDE DEF r
  <1>4. QED BY <1>2, <1>3, StopKeeps

LEMMA RunKeeps ==
  ASSUME WorkInv, NEW n \in Names, RunWork(n)
  PROVE  WorkInv'
  <1>1. work[n] \in WorkRecord /\ work[n].state = "enqueued" /\ work[n].model \in Models
    BY DEF RunWork, WorkInv, WorkRecord
  <1>2. ASSUME NEW w \in Workers, Active(w), worker[w].name = n
        PROVE  FALSE
    <2>1. work[n] = [state |-> "running", model |-> worker[w].model]
      BY <1>2 DEF WorkInv, Matched, Active
    <2>2. QED BY <1>1, <2>1
  <1>3. CASE work' = [work EXCEPT ![n].state = "running"]
    <2>1. work' = [work EXCEPT ![n] = [state |-> "running", model |-> work[n].model]]
      BY <1>1, <1>3, WorkState
    <2>2. work' \in [Names -> WorkRecord] /\ work'[n] = [state |-> "running", model |-> work[n].model]
      BY <1>1, <2>1 DEF WorkInv, WorkRecord
    <2>3. CASE \E w \in Workers :
                 /\ worker[w].pc = "idle"
                 /\ worker' = [worker EXCEPT ![w] = [pc |-> "start", model |-> work[n].model,
                                                     name |-> n, status |-> "active"]]
      <3>1. PICK w \in Workers :
              worker' = [worker EXCEPT ![w] = [pc |-> "start", model |-> work[n].model,
                                               name |-> n, status |-> "active"]]
        BY <2>3
      <3>2. worker' \in [Workers -> WorkerRecord] BY <1>1, <3>1, WorkerRecords DEF WorkInv
      <3>3. /\ worker'[w].name = n /\ worker'[w].model = work[n].model
            /\ \A v \in Workers \ {w} : worker'[v] = worker[v]
        BY <3>1 DEF WorkInv
      <3>4. \A v \in Workers \ {w} : Active(v)' =>
              Active(v) /\ worker[v].name # n /\ work'[worker[v].name] = work[worker[v].name]
        BY <1>2, <2>1, <3>3 DEF Active, WorkInv, WorkerRecord
      <3>5. Matched'
        BY <2>2, <3>3, <3>4 DEF WorkInv, Matched, Active
      <3>6. QED BY <2>2, <3>2, <3>5 DEF WorkInv
    <2>4. CASE UNCHANGED worker
      <3>1. \A v \in Workers : Active(v) => work'[worker[v].name] = work[worker[v].name]
        BY <1>2, <2>1 DEF WorkInv, WorkerRecord
      <3>2. Matched' BY <2>4, <3>1 DEF WorkInv, Matched, Active
      <3>3. QED BY <2>2, <2>4, <3>2 DEF WorkInv
    <2>5. QED BY <1>3, <2>1, <2>3, <2>4 DEF RunWork
  <1>4. CASE work' = [work EXCEPT ![n].state = "failed"] /\ UNCHANGED worker
    <2>1. work' = [work EXCEPT ![n] = [state |-> "failed", model |-> work[n].model]]
      BY <1>1, <1>4, WorkState
    <2>2. work' \in [Names -> WorkRecord] BY <1>1, <2>1 DEF WorkInv, WorkRecord
    <2>3. \A v \in Workers : Active(v) => work'[worker[v].name] = work[worker[v].name]
      BY <1>2, <2>1 DEF WorkInv, WorkerRecord
    <2>4. Matched' BY <1>4, <2>3 DEF WorkInv, Matched, Active
    <2>5. QED BY <1>4, <2>2, <2>4 DEF WorkInv
  <1>5. QED BY <1>3, <1>4 DEF RunWork

\* A worker that goes on downloading the same model, with its work untouched.
LEMMA GoesOn ==
  ASSUME WorkInv, NEW w \in Workers, NEW p \in {"download", "stored", "failed"},
         worker[w].pc # "idle",
         worker' = [worker EXCEPT ![w] = [worker[w] EXCEPT !.pc = p]], work' = work
  PROVE  WorkInv'
  <1> DEFINE q == [worker[w] EXCEPT !.pc = p]
  <1>q. /\ worker[w] \in WorkerRecord /\ q \in WorkerRecord /\ q.pc = p
        /\ q.status = worker[w].status /\ q.model = worker[w].model /\ q.name = worker[w].name
    BY WorkerPlace DEF WorkInv
  <1>r. worker' = [worker EXCEPT ![w] = q] OBVIOUS
  <1> HIDE DEF q
  <1>1. worker' \in [Workers -> WorkerRecord] BY <1>q, <1>r DEF WorkInv
  <1>2. \A v \in Workers : /\ Active(v)' => Active(v)
                           /\ worker'[v].name = worker[v].name
                           /\ worker'[v].model = worker[v].model
    BY <1>q, <1>r DEF WorkInv, Active
  <1>3. Matched' BY <1>2 DEF WorkInv, Matched, Active
  <1>4. QED BY <1>1, <1>3 DEF WorkInv

\* A worker that ends, and with it the work of its name if it was active.
LEMMA EndsWith ==
  ASSUME WorkInv, NEW w \in Workers, worker' = [worker EXCEPT ![w] = NoWorker],
         \/ work' = work
         \/ /\ Active(w)
            /\ \E s \in {"enqueued", "succeeded", "failed"} :
                 work' = [work EXCEPT ![worker[w].name].state = s]
  PROVE  WorkInv'
  <1>1. worker' \in [Workers -> WorkerRecord] BY WorkerRecords DEF WorkInv
  <1>2. ~Active(w)' /\ \A v \in Workers \ {w} : worker'[v] = worker[v]
    BY DEF WorkInv, Active, NoWorker
  <1>3. CASE work' = work
    <2>1. Matched' BY <1>2, <1>3 DEF WorkInv, Matched, Active
    <2>2. QED BY <1>1, <1>3, <2>1 DEF WorkInv
  <1>4. ASSUME Active(w), NEW s \in {"enqueued", "succeeded", "failed"},
               work' = [work EXCEPT ![worker[w].name].state = s]
        PROVE  WorkInv'
    <2> DEFINE n == worker[w].name
    <2>1. n \in Names /\ work[n] \in WorkRecord /\ work[n].model \in Models
      BY DEF WorkInv, WorkerRecord, WorkRecord
    <2>2. work' = [work EXCEPT ![n] = [state |-> s, model |-> work[n].model]]
      BY <1>4, <2>1, WorkState
    <2>3. work' \in [Names -> WorkRecord] BY <2>1, <2>2 DEF WorkInv, WorkRecord
    <2>4. \A v \in Workers \ {w} : Active(v) => worker[v].name # n /\ worker[v].name \in Names
      BY <1>4 DEF WorkInv, Matched, Active, WorkerRecord
    <2>5. \A v \in Workers \ {w} : Active(v) => work'[worker[v].name] = work[worker[v].name]
      BY <2>1, <2>2, <2>4 DEF WorkInv
    <2> HIDE DEF n
    <2>6. Matched' BY <1>2, <2>5 DEF WorkInv, Matched, Active
    <2>7. QED BY <1>1, <2>3, <2>6 DEF WorkInv
  <1>5. QED BY <1>3, <1>4

LEMMA WorkerStepKeeps ==
  ASSUME WorkInv, NEW w \in Workers, WorkerStep(w)
  PROVE  WorkInv'
  <1>1. CASE SetForeground(w)
    <2>1. CASE worker' = [worker EXCEPT ![w].pc = "download"] /\ work' = work
      <3>1. worker' = [worker EXCEPT ![w] = [worker[w] EXCEPT !.pc = "download"]]
        BY <2>1 DEF WorkInv
      <3>2. worker[w].pc # "idle" BY <1>1 DEF SetForeground
      <3>3. QED BY <2>1, <3>1, <3>2, GoesOn
    <2>2. CASE /\ worker' = [worker EXCEPT ![w] = NoWorker]
               /\ worker[w].status = "active"
               /\ work' = [work EXCEPT ![worker[w].name].state = "failed"]
      <3>1. Active(w) BY <1>1, <2>2 DEF SetForeground, Active
      <3>2. QED BY <2>2, <3>1, EndsWith
    <2>3. CASE worker' = [worker EXCEPT ![w] = NoWorker] /\ work' = work
      BY <2>3, EndsWith
    <2>4. QED BY <1>1, <2>1, <2>2, <2>3 DEF SetForeground
  <1>2. CASE WorkerDownloads(w)
    <2>1. PICK p \in {"stored", "failed"} : worker' = [worker EXCEPT ![w].pc = p]
      BY <1>2 DEF WorkerDownloads
    <2>2. /\ worker' = [worker EXCEPT ![w] = [worker[w] EXCEPT !.pc = p]]
          /\ work' = work /\ worker[w].pc # "idle"
      BY <1>2, <2>1 DEF WorkerDownloads, WorkInv
    <2>3. QED BY <2>2, GoesOn
  <1>3. CASE WorkerEnds(w)
    <2>1. /\ Active(w) /\ worker' = [worker EXCEPT ![w] = NoWorker]
          /\ \E s \in {"enqueued", "succeeded", "failed"} :
               work' = [work EXCEPT ![worker[w].name].state = s]
      BY <1>3 DEF WorkerEnds, Active, AfterFailure
    <2>2. QED BY <2>1, EndsWith
  <1>4. CASE StoppedWorkerEnds(w)
    BY <1>4, EndsWith DEF StoppedWorkerEnds
  <1>5. QED BY <1>1, <1>2, <1>3, <1>4 DEF WorkerStep

LEMMA WorkInductive == WorkInv /\ intent \in Models \cup {None} /\ [Next]_vars => WorkInv'
  <1> SUFFICES ASSUME WorkInv, intent \in Models \cup {None}, [Next]_vars PROVE WorkInv'
    OBVIOUS
  <1>n. Literal \in Names /\ \A m \in Models : m \in Names
    BY DEF Names
  <1>0. CASE UNCHANGED <<work, worker>>
    BY <1>0 DEF WorkInv, Matched, Active
  <1>1. CASE System
    <2>1. CASE OnReceive
      BY <2>1, <1>n, CancelKeeps DEF OnReceive, ReceiverWorkName
    <2>2. QED
      BY <1>0, <1>1, <2>1, RunKeeps, WorkerStepKeeps
      DEF System, JobStep, JobProgress, JobDownloads, JobEnds, Observe, WorkerProgress, workVars
  <1>2. CASE Request
    <2>1. ASSUME NEW n \in Names, NEW m \in Models, Replace(n, m)
          PROVE  WorkInv'
      BY <2>1, WorkRecords, StopKeeps DEF Replace
    <2>2. CASE DownloadAll
      <3>1. PICK space \in 1..N :
              \E last \in {m \in 0..(space - 1) : ~downloaded[m]} : Replace(UniqueWorkName(last), last)
        BY <2>2, Zenon DEF DownloadAll
      <3>2. PICK last \in 0..(space - 1) : Replace(Literal, last)
        BY <3>1 DEF UniqueWorkName
      <3>3. last \in Models BY NAssumption DEF Models
      <3>4. QED BY <1>n, <2>1, <3>2, <3>3
    <2>3. ASSUME NEW m \in Models, EnqueueBackgroundDownload(m)
          PROVE  WorkInv'
      BY <1>n, <2>1, <2>3 DEF EnqueueBackgroundDownload, UniqueWorkName
    <2>4. QED
      BY <1>0, <1>2, <2>2, <2>3
      DEF Request, Refresh, StartDownload, DeleteModel, CancelFromNotification, workVars
  <1>3. CASE Abandon
    <2>1. CASE CancelAllDownloads BY <1>n, <2>1, CancelKeeps DEF CancelAllDownloads
    <2>2. QED BY <1>0, <1>3, <2>1 DEF Abandon, CancelDownload, Reopen, workVars
  <1>4. CASE Environment
    <2>1. PICK n \in Names : ConstraintsLost(n) BY <1>4 DEF Environment
    <2>2. /\ work' = [work EXCEPT ![n] = [state |-> "enqueued", model |-> work[n].model]]
          /\ [state |-> "enqueued", model |-> work[n].model] \in WorkRecord
          /\ Stop(n)
      BY <2>1, WorkState DEF ConstraintsLost, WorkInv
    <2>3. QED BY <2>2, StopKeeps
  <1>5. CASE UNCHANGED vars
    BY <1>0, <1>5 DEF vars
  <1>6. QED BY <1>1, <1>2, <1>3, <1>4, <1>5 DEF Next

\* Stopping the workers of n leaves every other name its own.
LEMMA StopDrives ==
  ASSUME WorkInv, Driven, NEW n \in Names, NEW r \in WorkRecord, r.state # "running",
         Stop(n), work' = [work EXCEPT ![n] = r]
  PROVE  Driven'
  <1> SUFFICES ASSUME NEW k \in Names, work'[k].state = "running" PROVE ActiveOf(k)' # {}
    BY DEF Driven
  <1>1. k # n /\ work[k].state = "running" BY DEF WorkInv
  <1>2. PICK w \in Workers : w \in ActiveOf(k) BY <1>1 DEF Driven, ActiveOf
  <1>3. w \notin ActiveOf(n) BY <1>1, <1>2 DEF ActiveOf
  <1>4. worker'[w] = worker[w] BY <1>3 DEF Stop
  <1>5. QED BY <1>2, <1>4 DEF ActiveOf

LEMMA CancelDrives ==
  ASSUME WorkInv, Driven, NEW n \in Names, CancelUniqueWork(n)
  PROVE  Driven'
  <1> DEFINE r == [work[n] EXCEPT !.state = IF Under(n) THEN "cancelled" ELSE @]
  <1>1. work[n] \in WorkRecord BY DEF WorkInv
  <1>2. r \in WorkRecord BY <1>1, Zenon DEF WorkRecord
  <1>3. r.state # "running" BY <1>1 DEF WorkRecord, Under
  <1>4. work' = [work EXCEPT ![n] = r] /\ Stop(n) BY DEF CancelUniqueWork, WorkInv
  <1> HIDE DEF r
  <1>5. QED BY <1>2, <1>3, <1>4, StopDrives

LEMMA RunDrives ==
  ASSUME WorkInv, Driven, NEW n \in Names, RunWork(n)
  PROVE  Driven'
  <1> SUFFICES ASSUME NEW k \in Names, work'[k].state = "running" PROVE ActiveOf(k)' # {}
    BY DEF Driven
  <1>1. work[n] \in WorkRecord BY DEF WorkInv
  <1>2. CASE work' = [work EXCEPT ![n].state = "failed"] /\ UNCHANGED worker
    <2>1. work' = [work EXCEPT ![n] = [state |-> "failed", model |-> work[n].model]]
      BY <1>1, <1>2, WorkState
    <2>2. work[k].state = "running" BY <2>1 DEF WorkInv
    <2>3. QED BY <1>2, <2>2 DEF Driven, ActiveOf
  <1>3. ASSUME NEW w \in Workers, worker[w].pc = "idle",
               work' = [work EXCEPT ![n].state = "running"],
               worker' = [worker EXCEPT ![w] = [pc |-> "start", model |-> work[n].model,
                                                name |-> n, status |-> "active"]]
        PROVE  ActiveOf(k)' # {}
    <2>1. CASE k = n
      <3>1. worker'[w] = [pc |-> "start", model |-> work[n].model, name |-> n, status |-> "active"]
        BY <1>3 DEF WorkInv
      <3>2. QED BY <2>1, <3>1 DEF ActiveOf
    <2>2. CASE k # n
      <3>1. work[k].state = "running" BY <1>3, <2>2 DEF WorkInv
      <3>2. PICK v \in Workers : v \in ActiveOf(k) BY <3>1 DEF Driven, ActiveOf
      <3>3. v # w BY <1>3, <3>2 DEF ActiveOf
      <3>4. worker'[v] = worker[v] BY <1>3, <3>3 DEF WorkInv
      <3>5. QED BY <3>2, <3>4 DEF ActiveOf
    <2>3. QED BY <2>1, <2>2
  <1>4. QED BY <1>2, <1>3 DEF RunWork

\* A worker that ends while its work runs is one of those stopped.
LEMMA EndDrives ==
  ASSUME WorkInv, Driven, NEW w \in Workers, worker' = [worker EXCEPT ![w] = NoWorker],
         \/ work' = work /\ ~Active(w)
         \/ \E s \in {"enqueued", "succeeded", "failed"} :
              work' = [work EXCEPT ![worker[w].name].state = s]
  PROVE  Driven'
  <1> SUFFICES ASSUME NEW k \in Names, work'[k].state = "running" PROVE ActiveOf(k)' # {}
    BY DEF Driven
  <1>1. work[k].state = "running" /\ w \notin ActiveOf(k)
    <2>1. CASE work' = work /\ ~Active(w) BY <2>1 DEF Active, ActiveOf
    <2>2. ASSUME NEW s \in {"enqueued", "succeeded", "failed"},
                 work' = [work EXCEPT ![worker[w].name].state = s]
          PROVE  work[k].state = "running" /\ w \notin ActiveOf(k)
      <3>1. worker[w].name \in Names /\ work[worker[w].name] \in WorkRecord
        BY DEF WorkInv, WorkerRecord
      <3>2. work' = [work EXCEPT ![worker[w].name] =
                       [state |-> s, model |-> work[worker[w].name].model]]
        BY <2>2, <3>1, WorkState
      <3>3. k # worker[w].name BY <3>1, <3>2 DEF WorkInv
      <3>4. QED BY <3>2, <3>3 DEF WorkInv, ActiveOf
    <2>3. QED BY <2>1, <2>2
  <1>2. PICK v \in Workers : v \in ActiveOf(k) BY <1>1 DEF Driven, ActiveOf
  <1>3. v # w BY <1>1, <1>2
  <1>4. worker'[v] = worker[v] BY <1>3 DEF WorkInv
  <1>5. QED BY <1>2, <1>4 DEF ActiveOf

LEMMA MoveDrives ==
  ASSUME WorkInv, Driven, NEW w \in Workers, NEW p \in {"download", "stored", "failed"},
         worker' = [worker EXCEPT ![w].pc = p], work' = work
  PROVE  Driven'
  <1> DEFINE q == [worker[w] EXCEPT !.pc = p]
  <1>1. /\ worker[w] \in WorkerRecord /\ q.pc = p
        /\ q.status = worker[w].status /\ q.name = worker[w].name
    BY WorkerPlace DEF WorkInv
  <1>2. worker' = [worker EXCEPT ![w] = q] OBVIOUS
  <1> HIDE DEF q
  <1>3. \A n \in Names : ActiveOf(n) \subseteq ActiveOf(n)'
    BY <1>1, <1>2 DEF WorkInv, ActiveOf
  <1>4. QED BY <1>3 DEF Driven

LEMMA DrivenInductive == WorkInv /\ Driven /\ intent \in Models \cup {None} /\ [Next]_vars => Driven'
  <1> SUFFICES ASSUME WorkInv, Driven, intent \in Models \cup {None}, [Next]_vars PROVE Driven'
    OBVIOUS
  <1>n. Literal \in Names /\ \A m \in Models : m \in Names
    BY DEF Names
  <1>0. CASE UNCHANGED <<work, worker>>
    BY <1>0 DEF Driven, ActiveOf
  <1>1. ASSUME NEW w \in Workers, WorkerStep(w) PROVE Driven'
    <2>1. CASE SetForeground(w)
      BY <2>1, MoveDrives, EndDrives DEF SetForeground, Active
    <2>2. CASE WorkerDownloads(w)
      BY <2>2, MoveDrives DEF WorkerDownloads
    <2>3. CASE WorkerEnds(w)
      BY <2>3, EndDrives DEF WorkerEnds, AfterFailure
    <2>4. CASE StoppedWorkerEnds(w)
      BY <2>4, EndDrives DEF StoppedWorkerEnds, Active
    <2>5. QED BY <1>1, <2>1, <2>2, <2>3, <2>4 DEF WorkerStep
  <1>2. CASE System
    <2>1. CASE OnReceive
      BY <2>1, <1>n, CancelDrives DEF OnReceive, ReceiverWorkName
    <2>2. QED
      BY <1>0, <1>1, <1>2, <2>1, RunDrives
      DEF System, JobStep, JobProgress, JobDownloads, JobEnds, Observe, WorkerProgress, workVars
  <1>3. CASE Request
    <2>1. ASSUME NEW n \in Names, NEW m \in Models, Replace(n, m)
          PROVE  Driven'
      <3> DEFINE r == [state |-> "enqueued", model |-> m]
      <3>1. r \in WorkRecord /\ r.state # "running" BY WorkRecords
      <3>2. work' = [work EXCEPT ![n] = r] /\ Stop(n) BY <2>1 DEF Replace
      <3> HIDE DEF r
      <3>3. QED BY <3>1, <3>2, StopDrives
    <2>2. CASE DownloadAll
      <3>1. PICK space \in 1..N :
              \E last \in {m \in 0..(space - 1) : ~downloaded[m]} : Replace(UniqueWorkName(last), last)
        BY <2>2, Zenon DEF DownloadAll
      <3>2. PICK last \in 0..(space - 1) : Replace(Literal, last)
        BY <3>1 DEF UniqueWorkName
      <3>3. last \in Models BY NAssumption DEF Models
      <3>4. QED BY <1>n, <2>1, <3>2, <3>3
    <2>3. ASSUME NEW m \in Models, EnqueueBackgroundDownload(m)
          PROVE  Driven'
      BY <1>n, <2>1, <2>3 DEF EnqueueBackgroundDownload, UniqueWorkName
    <2>4. QED
      BY <1>0, <1>3, <2>2, <2>3
      DEF Request, Refresh, StartDownload, DeleteModel, CancelFromNotification, workVars
  <1>4. CASE Abandon
    <2>1. CASE CancelAllDownloads BY <1>n, <2>1, CancelDrives DEF CancelAllDownloads
    <2>2. QED BY <1>0, <1>4, <2>1 DEF Abandon, CancelDownload, Reopen, workVars
  <1>5. CASE Environment
    <2>1. PICK n \in Names : ConstraintsLost(n) BY <1>5 DEF Environment
    <2> DEFINE r == [state |-> "enqueued", model |-> work[n].model]
    <2>2. /\ work' = [work EXCEPT ![n] = r] /\ Stop(n)
          /\ r \in WorkRecord /\ r.state # "running"
      BY <2>1, WorkState DEF ConstraintsLost, WorkInv
    <2> HIDE DEF r
    <2>3. QED BY <2>2, StopDrives
  <1>6. CASE UNCHANGED vars
    BY <1>0, <1>6 DEF vars
  <1>7. QED BY <1>2, <1>3, <1>4, <1>5, <1>6 DEF Next

-------------------------------------------------------------------------------
(***************************************************************************)
(* What is shown, and the files.                                           *)
(***************************************************************************)
LEMMA ShowTyped ==
  ASSUME ShownInv, NEW m \in Models, NEW shown \in BOOLEAN
  PROVE  /\ ShowProgress(m, shown) => progress' \in [Models -> BOOLEAN]
         /\ ShowDownloaded(m, shown) => downloaded' \in [Models -> BOOLEAN]
  BY DEF ShownInv, ShowProgress, ShowDownloaded

LEMMA TellTyped ==
  ASSUME ShownInv, NEW n, NEW S
  PROVE  /\ Tell(n) => observer' \in [Models -> {"off", "seen", "unseen"}]
         /\ TellAndObserve(n, S) => observer' \in [Models -> {"off", "seen", "unseen"}]
         /\ Stop(n) => ongoing' \in [Models -> BOOLEAN]
  <1>1. Tell(n) => observer' \in [Models -> {"off", "seen", "unseen"}]
    BY DEF ShownInv, Tell
  <1>2. TellAndObserve(n, S) => observer' \in [Models -> {"off", "seen", "unseen"}]
    BY DEF ShownInv, TellAndObserve
  <1>3. ASSUME Stop(n) PROVE ongoing' \in [Models -> BOOLEAN]
    <2>1. ongoing' = [m \in Models |->
       ongoing[m] /\ ~\E w \in ActiveOf(n) : worker[w].model = m /\ worker[w].pc # "start"]
      BY <1>3 DEF Stop
    <2> HIDE DEF ActiveOf
    <2>2. QED BY <2>1, Zenon DEF ShownInv
  <1>4. QED BY <1>1, <1>2, <1>3

LEMMA OutcomeTyped ==
  ASSUME ShownInv, NEW m \in Models, NEW end, Outcome(m, end)
  PROVE  file' \in [Models -> BOOLEAN]
  BY DEF ShownInv, Outcome

LEMMA ShownSystem ==
  ASSUME Inv, System
  PROVE  ShownInv'
  <1> DEFINE Observers == [Models -> {"off", "seen", "unseen"}]
  <1>m. /\ \A j \in Jobs : job[j].model \in Models
        /\ \A w \in Workers : worker[w].model \in Models
    BY DEF Inv, JobsInv, WorkInv, JobRecord, WorkerRecord
  <1>1. ASSUME NEW j \in Jobs, JobProgress(j) PROVE ShownInv'
    BY <1>1, <1>m, ShowTyped DEF JobProgress, Inv, ShownInv, workVars
  <1>2. ASSUME NEW j \in Jobs, JobDownloads(j) PROVE ShownInv'
    BY <1>2, <1>m, OutcomeTyped DEF JobDownloads, Inv, ShownInv, workVars, rowVars
  <1>3. ASSUME NEW j \in Jobs, JobEnds(j) PROVE ShownInv'
    <2>1. progress' \in [Models -> BOOLEAN] /\ downloaded' \in [Models -> BOOLEAN]
      BY <1>3, <1>m, ShowTyped DEF JobEnds, ShowEnd, Inv, ShownInv
    <2>2. QED BY <1>3, <2>1 DEF JobEnds, Inv, ShownInv, workVars
  <1>4. ASSUME NEW m \in Models, Observe(m) PROVE ShownInv'
    <2>1. progress' \in [Models -> BOOLEAN] /\ downloaded' \in [Models -> BOOLEAN]
      BY <1>4, ShowTyped DEF Observe, Inv, ShownInv
    <2>2. observer' \in Observers BY <1>4 DEF Observe, Inv, ShownInv
    <2>3. QED BY <1>4, <2>1, <2>2 DEF Observe, Inv, ShownInv
  <1>5. ASSUME NEW w \in Workers, WorkerStep(w) \/ WorkerProgress(w) PROVE ShownInv'
    <2>1. observer' \in Observers
      BY <1>5, TellTyped
      DEF WorkerStep, SetForeground, WorkerDownloads, WorkerEnds, StoppedWorkerEnds, WorkerProgress,
          Inv, ShownInv
    <2>2. ongoing' \in [Models -> BOOLEAN]
      BY <1>5
      DEF WorkerStep, SetForeground, WorkerDownloads, WorkerEnds, StoppedWorkerEnds, WorkerProgress,
          Inv, ShownInv
    <2>3. file' \in [Models -> BOOLEAN]
      BY <1>5, <1>m, OutcomeTyped
      DEF WorkerStep, SetForeground, WorkerDownloads, WorkerEnds, StoppedWorkerEnds, WorkerProgress,
          Inv, ShownInv
    <2>4. UNCHANGED <<listed, downloaded, progress, intent>>
      BY <1>5
      DEF WorkerStep, SetForeground, WorkerDownloads, WorkerEnds, StoppedWorkerEnds, WorkerProgress,
          rowVars
    <2>5. QED BY <2>1, <2>2, <2>3, <2>4 DEF Inv, ShownInv
  <1>6. ASSUME NEW n \in Names, RunWork(n) PROVE ShownInv'
    BY <1>6, TellTyped DEF RunWork, Inv, ShownInv, rowVars
  <1>7. CASE OnReceive
    BY <1>7, TellTyped DEF OnReceive, CancelUniqueWork, Inv, ShownInv, rowVars
  <1>8. QED BY <1>1, <1>2, <1>3, <1>4, <1>5, <1>6, <1>7 DEF System, JobStep

LEMMA ShownUser ==
  ASSUME Inv, Request \/ Abandon \/ Environment
  PROVE  ShownInv'
  <1>1. CASE Refresh
    BY <1>1 DEF Refresh, Inv, ShownInv, NoRow
  <1>2. ASSUME NEW m \in Models, StartDownload(m) PROVE ShownInv'
    BY <1>2, ShowTyped DEF StartDownload, Inv, ShownInv, workVars
  <1>3. ASSUME NEW m \in Models, DeleteModel(m) PROVE ShownInv'
    BY <1>3, ShowTyped DEF DeleteModel, Inv, ShownInv, workVars
  <1>4. ASSUME NEW m \in Models, EnqueueBackgroundDownload(m) PROVE ShownInv'
    BY <1>4, TellTyped DEF EnqueueBackgroundDownload, Replace, Inv, ShownInv, rowVars
  <1>5. ASSUME NEW m \in Models, CancelFromNotification(m) PROVE ShownInv'
    BY <1>5 DEF CancelFromNotification, Inv, ShownInv, rowVars
  <1>6. CASE DownloadAll
    <2>1. \E n, m, S : Replace(n, m) /\ TellAndObserve(Literal, S)
      BY <1>6, Zenon DEF DownloadAll
    <2>2. UNCHANGED <<rowVars, intent, file>> BY <1>6 DEF DownloadAll
    <2>3. QED BY <2>1, <2>2, TellTyped DEF Replace, Inv, ShownInv, rowVars
  <1>7. ASSUME NEW m \in Models, CancelDownload(m) PROVE ShownInv'
    BY <1>7, ShowTyped DEF CancelDownload, Inv, ShownInv, workVars
  <1>8. CASE CancelAllDownloads
    BY <1>8, TellTyped DEF CancelAllDownloads, CancelUniqueWork, Inv, ShownInv, NoRow
  <1>9. CASE Reopen
    BY <1>9 DEF Reopen, Inv, ShownInv, NoRow
  <1>10. CASE Environment
    BY <1>10, TellTyped DEF Environment, ConstraintsLost, Inv, ShownInv, rowVars
  <1>11. QED
    BY <1>1, <1>2, <1>3, <1>4, <1>5, <1>6, <1>7, <1>8, <1>9, <1>10 DEF Request, Abandon

-------------------------------------------------------------------------------
LEMMA InvInit == Init => Inv
  <1> SUFFICES ASSUME Init PROVE Inv
    OBVIOUS
  <1>1. JobsInv BY JobRecords DEF Init, JobsInv, JobOwned, NoJob
  <1>2. WorkInv BY WorkRecords, WorkerRecords DEF Init, WorkInv, Matched, Active, NoWorker
  <1>3. Driven BY DEF Init, Driven, NoWork
  <1>4. ShownInv BY DEF Init, ShownInv, NoRow
  <1>5. QED BY <1>1, <1>2, <1>3, <1>4 DEF Inv

LEMMA InvStep == Inv /\ [Next]_vars => Inv'
  <1>1. Inv /\ Next => ShownInv'
    BY ShownSystem, ShownUser DEF Next
  <1>2. Inv /\ UNCHANGED vars => ShownInv'
    BY DEF Inv, ShownInv, vars
  <1>3. QED BY <1>1, <1>2, JobsInductive, WorkInductive, DrivenInductive DEF Inv, ShownInv

LEMMA Invariance == Spec => []Inv
  BY InvInit, InvStep, PTL DEF Spec

-------------------------------------------------------------------------------
\* The rows, the jobs, the work and the notifications have their types
\* (BackgroundDownloads' TypeOK).
THEOREM TypeCorrect == Spec => []TypeOK
  BY Invariance, InvTypes, PTL

\* However downloads, cancellations and view models overlap, a coroutine that may
\* still act on a row is the one the jobs map holds for it, so that Cancel reaches it
\* and a second one is refused (ModelsViewModel.kt:104-131).
THEOREM DownloadsOwned == Spec => []JobOwned
  <1>1. Inv => JobOwned BY DEF Inv, JobsInv
  <1>2. QED BY <1>1, Invariance, PTL

\* A unique name whose work is running has exactly one worker that is not stopped,
\* for the model it was last enqueued for, also while replaced workers are still on
\* their way out (ModelsViewModel.kt:133-189).
THEOREM OneWorker == Spec => []OneWorkerPerName
  <1>1. ASSUME Inv, NEW n \in Names, NEW v \in ActiveOf(n), NEW w \in ActiveOf(n)
        PROVE  work[n].state = "running" /\ v = w /\ worker[w].model = work[n].model
    <2>1. /\ v \in Workers /\ Active(v) /\ worker[v].name = n
          /\ w \in Workers /\ Active(w) /\ worker[w].name = n
      BY DEF Active, ActiveOf
    <2>2. v = w /\ work[n] = [state |-> "running", model |-> worker[w].model]
      BY <1>1, <2>1 DEF Inv, WorkInv, Matched
    <2>3. QED BY <2>2
  <1>2. Inv => OneWorkerPerName BY <1>1 DEF Inv, Driven, OneWorkerPerName
  <1>3. QED BY <1>2, Invariance, PTL
-------------------------------------------------------------------------------
(***************************************************************************)
(* What the rows show while no foreground download is abandoned: one that  *)
(* shows progress has a foreground download that will end, or an observer  *)
(* of work that is under way or that it has not looked at yet.             *)
(***************************************************************************)
Downloading(m) == \E j \in Jobs : job[j].pc # "idle" /\ job[j].model = m

WillHear(m) ==
  /\ observer[m] # "off"
  /\ work[Literal].state # "none"
  /\ observer[m] = "unseen" \/ Under(Literal)

JobsActive == \A j \in Jobs : job[j].pc # "idle" => job[j].status = "active"

RowsInv ==
  /\ JobsActive
  /\ \A m \in Models : progress[m] => Downloading(m) \/ WillHear(m)

\* Whoever changes the work of the literal name tells its observers.
LEMMA TellKeeps ==
  ASSUME Inv, NEW n, Tell(n) \/ (\E S : TellAndObserve(n, S)),
         \/ work'[Literal] = work[Literal]
         \/ n = Literal /\ work'[Literal].state # "none"
  PROVE  \A m \in Models : WillHear(m) => WillHear(m)'
  <1>1. CASE work'[Literal] = work[Literal]
    BY <1>1 DEF Tell, TellAndObserve, WillHear, Under, Inv, ShownInv
  <1>2. CASE n = Literal /\ work'[Literal].state # "none"
    BY <1>2 DEF Tell, TellAndObserve, WillHear, Under, UniqueWorkName, Inv, ShownInv
  <1>3. QED BY <1>1, <1>2

LEMMA CancelTells ==
  ASSUME Inv, NEW n \in Names, CancelUniqueWork(n)
  PROVE  \A m \in Models : WillHear(m) => WillHear(m)'
  <1> DEFINE r == [work[n] EXCEPT !.state = IF Under(n) THEN "cancelled" ELSE @]
  <1>1. work[n] \in WorkRecord /\ work \in [Names -> WorkRecord] BY DEF Inv, WorkInv
  <1>2. r.state = IF Under(n) THEN "cancelled" ELSE work[n].state BY <1>1, Zenon DEF WorkRecord
  <1>3. work' = [work EXCEPT ![n] = r] /\ Tell(n) BY <1>1 DEF CancelUniqueWork
  <1> HIDE DEF r
  <1>4. Literal \in Names BY DEF Names
  <1>5. CASE n # Literal BY <1>1, <1>3, <1>4, <1>5, TellKeeps
  <1>6. CASE n = Literal /\ r.state # "none" BY <1>1, <1>3, <1>4, <1>6, TellKeeps
  <1>7. CASE n = Literal /\ r.state = "none"
    <2>1. work[Literal].state = "none" BY <1>2, <1>7
    <2>2. QED BY <2>1 DEF WillHear
  <1>8. QED BY <1>5, <1>6, <1>7

\* A row that keeps its progress, when the downloads go on and whoever was to hear
\* still is.
LEMMA RowsStay ==
  ASSUME RowsInv, UNCHANGED <<progress, job>>, \A m \in Models : WillHear(m) => WillHear(m)'
  PROVE  RowsInv'
  BY DEF RowsInv, JobsActive, Downloading

\* An update of one row's progress.
LEMMA ShowOne ==
  ASSUME Inv, NEW m \in Models, NEW shown \in BOOLEAN, ShowProgress(m, shown)
  PROVE  /\ \A k \in Models \ {m} : progress'[k] = progress[k]
         /\ progress'[m] => shown
  BY DEF Inv, ShownInv, ShowProgress

LEMMA RowsJobs ==
  ASSUME Inv, RowsInv, NEW j \in Jobs, JobStep(j) \/ JobProgress(j)
  PROVE  RowsInv'
  <1>m. job[j] \in JobRecord /\ job[j].model \in Models /\ job \in [Jobs -> JobRecord]
    BY DEF Inv, JobsInv, JobRecord
  <1>w. UNCHANGED <<observer, work>>
    BY DEF JobStep, JobDownloads, JobEnds, JobProgress, workVars
  <1>h. \A m \in Models : WillHear(m) => WillHear(m)'
    BY <1>w DEF WillHear, Under
  <1>1. CASE JobProgress(j)
    <2>1. UNCHANGED job /\ Downloading(job[j].model)
      BY <1>1 DEF JobProgress, jobVars, Downloading
    <2>2. \A k \in Models \ {job[j].model} : progress'[k] = progress[k]
      BY <1>1, <1>m, ShowOne DEF JobProgress
    <2>3. QED BY <1>h, <2>1, <2>2 DEF RowsInv, JobsActive, Downloading
  <1>2. CASE JobDownloads(j)
    <2>1. PICK p \in {"stored", "failed"} : job' = [job EXCEPT ![j] = [job[j] EXCEPT !.pc = p]]
      BY <1>2, <1>m DEF JobDownloads
    <2> DEFINE q == [job[j] EXCEPT !.pc = p]
    <2>2. q.pc = p /\ q.status = job[j].status /\ q.model = job[j].model
      BY <1>m, JobPlace
    <2>3. job' = [job EXCEPT ![j] = q] BY <2>1
    <2> HIDE DEF q
    <2>4. UNCHANGED progress /\ job[j].pc # "idle" BY <1>2 DEF JobDownloads, rowVars
    <2>5. \A k \in Jobs : /\ job'[k].model = job[k].model /\ job'[k].status = job[k].status
                          /\ job'[k].pc # "idle" <=> job[k].pc # "idle"
      BY <1>m, <2>2, <2>3, <2>4
    <2>6. QED BY <1>h, <2>4, <2>5 DEF RowsInv, JobsActive, Downloading
  <1>3. CASE JobEnds(j)
    <2>1. job' = [job EXCEPT ![j] = NoJob] /\ job[j].pc # "idle" BY <1>3 DEF JobEnds
    <2>2. job[j].status = "active" BY <2>1 DEF RowsInv, JobsActive
    <2>3. /\ \A k \in Models \ {job[j].model} : progress'[k] = progress[k]
          /\ ~progress'[job[j].model]
      BY <1>3, <1>m, <2>2, ShowOne DEF JobEnds, ShowEnd
    <2>4. job'[j].pc = "idle" /\ \A k \in Jobs \ {j} : job'[k] = job[k]
      BY <1>m, <2>1 DEF NoJob
    <2>5. QED BY <1>h, <2>3, <2>4 DEF RowsInv, JobsActive, Downloading
  <1>4. QED BY <1>1, <1>2, <1>3 DEF JobStep

LEMMA RowsObserve ==
  ASSUME Inv, RowsInv, NEW m \in Models, Observe(m)
  PROVE  RowsInv'
  <1>1. UNCHANGED <<job, work>> BY DEF Observe, jobVars
  <1>2. observer' = [observer EXCEPT ![m] = "seen"] /\ observer[m] = "unseen"
    BY DEF Observe
  <1>3. \A k \in Models \ {m} : WillHear(k) => WillHear(k)'
    BY <1>1, <1>2 DEF WillHear, Under, Inv, ShownInv
  <1>4. \A k \in Models \ {m} : progress'[k] = progress[k]
    BY ShowOne DEF Observe
  <1>5. progress'[m] => Downloading(m) \/ WillHear(m)'
    <2>1. work[Literal].state \in {"none", "enqueued", "running", "succeeded", "failed", "cancelled"}
      BY DEF Inv, WorkInv, Names, WorkRecord
    <2>2. CASE work[Literal].state \in {"enqueued", "running"}
      BY <1>1, <1>2, <2>2 DEF WillHear, Under, Inv, ShownInv
    <2>3. CASE work[Literal].state \in {"succeeded", "failed", "cancelled"}
      BY <2>3, ShowOne DEF Observe, UniqueWorkName
    <2>4. CASE work[Literal].state = "none"
      <3>1. progress' = progress BY <2>4 DEF Observe, UniqueWorkName
      <3>2. ~WillHear(m) BY <2>4 DEF WillHear
      <3>3. QED BY <3>1, <3>2 DEF RowsInv
    <2>5. QED BY <2>1, <2>2, <2>3, <2>4
  <1>6. QED BY <1>1, <1>3, <1>4, <1>5 DEF RowsInv, JobsActive, Downloading

\* What the workers and WorkManager do is told.
LEMMA RowsWork ==
  ASSUME Inv, RowsInv,
         \/ \E w \in Workers : WorkerStep(w) \/ WorkerProgress(w)
         \/ \E n \in Names : RunWork(n) \/ ConstraintsLost(n)
         \/ OnReceive
  PROVE  RowsInv'
  <1>1. UNCHANGED <<progress, job>>
    BY DEF WorkerStep, SetForeground, WorkerDownloads, WorkerEnds, StoppedWorkerEnds,
           WorkerProgress, RunWork, ConstraintsLost, OnReceive, rowVars, jobVars
  <1>t. /\ work \in [Names -> WorkRecord] /\ Literal \in Names
        /\ \A w \in Workers : worker[w].name \in Names
    BY DEF Inv, WorkInv, Names, WorkerRecord
  <1>s. ASSUME NEW n \in Names, NEW s \in {"enqueued", "running", "succeeded", "failed", "cancelled"},
               work' = [work EXCEPT ![n].state = s], Tell(n)
        PROVE  \A m \in Models : WillHear(m) => WillHear(m)'
    <2>1. work' = [work EXCEPT ![n] = [state |-> s, model |-> work[n].model]]
      BY <1>s, <1>t, WorkState
    <2>2. work'[n].state = s /\ (n # Literal => work'[Literal] = work[Literal])
      BY <1>t, <2>1
    <2>3. QED BY <1>s, <2>2, TellKeeps
  <1>u. ASSUME UNCHANGED work, UNCHANGED observer \/ \E n : Tell(n)
        PROVE  \A m \in Models : WillHear(m) => WillHear(m)'
    <2>1. CASE UNCHANGED observer BY <1>u, <2>1 DEF WillHear, Under
    <2>2. QED BY <1>u, <2>1, TellKeeps
  <1>2. ASSUME NEW w \in Workers, WorkerStep(w) \/ WorkerProgress(w)
        PROVE  \A m \in Models : WillHear(m) => WillHear(m)'
    <2>1. CASE SetForeground(w) BY <1>s, <1>t, <1>u, <2>1 DEF SetForeground
    <2>2. CASE WorkerEnds(w)
      <3>1. PICK s \in {"enqueued", "succeeded"} :
              work' = [work EXCEPT ![worker[w].name].state = s]
        BY <2>2 DEF WorkerEnds, AfterFailure
      <3>2. QED BY <1>s, <1>t, <2>2, <3>1 DEF WorkerEnds
    <2>3. QED
      BY <1>2, <1>u, <2>1, <2>2 DEF WorkerStep, WorkerDownloads, StoppedWorkerEnds, WorkerProgress
  <1>3. ASSUME NEW n \in Names, RunWork(n) PROVE \A m \in Models : WillHear(m) => WillHear(m)'
    BY <1>s, <1>3 DEF RunWork
  <1>4. ASSUME NEW n \in Names, ConstraintsLost(n) PROVE \A m \in Models : WillHear(m) => WillHear(m)'
    BY <1>s, <1>4 DEF ConstraintsLost
  <1>5. ASSUME OnReceive PROVE \A m \in Models : WillHear(m) => WillHear(m)'
    BY <1>5, CancelTells DEF OnReceive, ReceiverWorkName, Names, Inv, ShownInv
  <1>6. QED BY <1>1, <1>2, <1>3, <1>4, <1>5, RowsStay

LEMMA RowsRequest ==
  ASSUME Inv, RowsInv, Request
  PROVE  RowsInv'
  <1>t. work \in [Names -> WorkRecord] /\ Literal \in Names BY DEF Inv, WorkInv, Names
  <1>r. ASSUME NEW m, NEW S, Replace(Literal, m), TellAndObserve(Literal, S), UNCHANGED <<progress, job>>
        PROVE  RowsInv'
    <2>1. work'[Literal].state # "none" BY <1>r, <1>t DEF Replace
    <2>2. QED BY <1>r, <2>1, TellKeeps, RowsStay
  <1>1. CASE Refresh
    BY <1>1 DEF Refresh, NoRow, jobVars, RowsInv, JobsActive
  <1>2. ASSUME NEW m \in Models, StartDownload(m) PROVE RowsInv'
    <2>1. PICK j \in Jobs :
            /\ job[j].pc = "idle"
            /\ job' = [job EXCEPT ![j] = [pc |-> "download", model |-> m, status |-> "active"]]
      BY <1>2 DEF StartDownload
    <2>2. job \in [Jobs -> JobRecord] BY DEF Inv, JobsInv
    <2>3. /\ job'[j] = [pc |-> "download", model |-> m, status |-> "active"]
          /\ \A k \in Jobs \ {j} : job'[k] = job[k]
      BY <2>1, <2>2
    <2>4. \A k \in Models \ {m} : progress'[k] = progress[k]
      BY <1>2, ShowOne DEF StartDownload
    <2>5. \A k \in Models : (WillHear(k) => WillHear(k)') /\ (Downloading(k) => Downloading(k)')
      BY <1>2, <2>1, <2>3 DEF StartDownload, workVars, WillHear, Under, Downloading
    <2>6. Downloading(m)' BY <2>3 DEF Downloading
    <2>7. QED BY <2>3, <2>4, <2>5, <2>6 DEF RowsInv, JobsActive
  <1>3. ASSUME NEW m \in Models, EnqueueBackgroundDownload(m) PROVE RowsInv'
    BY <1>3, <1>r DEF EnqueueBackgroundDownload, UniqueWorkName, rowVars, jobVars
  <1>4. CASE DownloadAll
    <2>1. \E last, S : Replace(Literal, last) /\ TellAndObserve(Literal, S)
      BY <1>4, Zenon DEF DownloadAll, UniqueWorkName
    <2>2. UNCHANGED <<progress, job>> BY <1>4 DEF DownloadAll, rowVars, jobVars
    <2>3. QED BY <1>r, <2>1, <2>2
  <1>5. ASSUME NEW m \in Models, DeleteModel(m) \/ CancelFromNotification(m) PROVE RowsInv'
    <2>1. UNCHANGED <<progress, job, observer, work>>
      BY <1>5 DEF DeleteModel, CancelFromNotification, rowVars, jobVars, workVars
    <2>2. QED BY <2>1, RowsStay DEF WillHear, Under
  <1>6. QED BY <1>1, <1>2, <1>3, <1>4, <1>5 DEF Request

\* Abandoning when no foreground download is alive.
LEMMA RowsAbandon ==
  ASSUME Inv, RowsInv, NoJobAlive, Abandon
  PROVE  RowsInv'
  <1>i. \A j \in Jobs : job[j] \in JobRecord /\ job[j].pc = "idle" BY DEF Inv, JobsInv, NoJobAlive
  <1>f. ASSUME NEW S, Forget(S) PROVE \A j \in Jobs : job'[j].pc = "idle"
    <2> SUFFICES ASSUME NEW j \in Jobs PROVE job'[j].pc = "idle"
      OBVIOUS
    <2> DEFINE q == [job[j] EXCEPT !.status = "cancelled"]
    <2>1. q.pc = "idle" BY <1>i, JobStatus
    <2>2. job'[j] = q \/ job'[j] = job[j] BY <1>f DEF Forget
    <2> HIDE DEF q
    <2>3. QED BY <1>i, <2>1, <2>2
  <1>1. ASSUME NEW m \in Models, CancelDownload(m) PROVE RowsInv'
    <2>1. \A j \in Jobs : job'[j].pc = "idle" BY <1>1, <1>f DEF CancelDownload
    <2>2. UNCHANGED <<observer, work>> BY <1>1 DEF CancelDownload, workVars
    <2>3. \A k \in Models : progress'[k] => progress[k] BY <1>1, ShowOne DEF CancelDownload
    <2>4. \A k \in Models : ~Downloading(k) BY <1>i DEF Downloading
    <2>5. QED BY <2>1, <2>2, <2>3, <2>4 DEF RowsInv, JobsActive, WillHear, Under
  <1>2. CASE CancelAllDownloads
    <2>1. \A j \in Jobs : job'[j].pc = "idle" BY <1>2, <1>f DEF CancelAllDownloads
    <2>2. QED BY <1>2, <2>1 DEF CancelAllDownloads, NoRow, RowsInv, JobsActive
  <1>3. CASE Reopen
    <2>1. \A j \in Jobs : job'[j] = job[j] BY <1>3, <1>i DEF Reopen
    <2>2. QED BY <1>3, <2>1 DEF Reopen, NoRow, RowsInv, JobsActive
  <1>4. QED BY <1>1, <1>2, <1>3 DEF Abandon

LEMMA PatientInvariance == PatientSpec => [](Inv /\ RowsInv)
  <1>1. Init => RowsInv BY DEF Init, NoRow, NoJob, RowsInv, JobsActive
  <1>2. ASSUME Inv, RowsInv, [PatientNext]_vars PROVE RowsInv'
    <2>1. CASE UNCHANGED vars
      BY <1>2, <2>1 DEF vars, RowsInv, JobsActive, Downloading, WillHear, Under
    <2>2. CASE PatientNext
      BY <1>2, <2>2, RowsJobs, RowsObserve, RowsWork, RowsRequest, RowsAbandon
      DEF PatientNext, System, Environment
    <2>3. QED BY <1>2, <2>1, <2>2
  <1>3. [PatientNext]_vars => [Next]_vars BY DEF PatientNext, Next
  <1>4. Inv /\ [Next]_vars => Inv' BY InvStep
  <1>5. QED BY <1>1, <1>2, <1>3, <1>4, InvInit, PTL DEF PatientSpec

\* While no foreground download is abandoned, a row stops showing progress once
\* everything is over, even if the observer takes the work of another model for its
\* own (ModelsViewModel.kt:104-131, 175-205, 233-267).
THEOREM RowsQuiet == PatientSpec => []QuietRows
  <1>1. Inv /\ RowsInv => QuietRows
    <2> SUFFICES ASSUME Inv, RowsInv, Quiet PROVE progress = NoRow
      BY DEF QuietRows
    <2>1. Literal \in Names BY DEF Names
    <2>2. \A m \in Models : ~Downloading(m) /\ ~WillHear(m)
      BY <2>1 DEF Quiet, NoJobAlive, Downloading, WillHear
    <2>3. \A m \in Models : progress[m] = FALSE BY <2>2 DEF RowsInv, Inv, ShownInv
    <2>4. QED BY <2>3 DEF Inv, ShownInv, NoRow
  <1>2. QED BY <1>1, PatientInvariance, PTL
===============================================================================
