---------------------- MODULE TranscriptionViewModelProofs ----------------------
(***************************************************************************)
(* Proofs about TranscriptionViewModel for any set of models, of thread    *)
(* counts and of coroutines, under every interleaving of user, coroutines  *)
(* and native calls.                                                       *)
(***************************************************************************)
EXTENDS TranscriptionViewModel, TLAPS

\* A coroutine beyond the reads of the preferences carries the model it is for,
\* and one that has not begun is no download job.
Fits(r) ==
  /\ r.pc \in {"store", "choose", "init"} \cup Downloading => r.model \in Models
  /\ r.pc = "idle" => r.kind = "plain"

\* A native call about to set g_n_threads carries a count the user can configure.
CallCarries == \A c \in Calls : call[c].pc = "enter" => call[c].threads \in Threads

\* The coroutines, and the download job among them that modelDownloadJob names.
CosTyped == co \in [Coroutines -> Coroutine]
CoInv == CosTyped /\ (\A c \in Coroutines : Fits(co[c])) /\ JobOwned

\* The rest of the types.
UiTypeOK ==
  /\ selected \in Models /\ stored \in Models
  /\ loaded \in BOOLEAN /\ downloaded \in BOOLEAN /\ progress \in BOOLEAN
  /\ nThreads \in Threads /\ threadsStored \in Threads
  /\ pendingThreads \in Threads \cup {None}
  /\ jobRef \in Coroutines \cup {None, "completed"}
  /\ file \in [Models -> BOOLEAN]

\* The inductive invariant: the types and JobOwned, with what keeps them.
Inv == NativeTypeOK /\ CallCarries /\ UiTypeOK /\ CoInv

-------------------------------------------------------------------------------
\* The updates of a call's record keep its type.
LEMMA AdvanceRecord ==
  ASSUME NEW r \in CallRecord, NEW p \in InitStages \cup DecodeStages
  PROVE  [r EXCEPT !.pc = p] \in CallRecord /\ [r EXCEPT !.pc = p].pc = p
  BY Zenon DEF CallRecord, InitStages, DecodeStages

LEMMA CompleteRecord ==
  ASSUME NEW r \in CallRecord, NEW x \in {"success", "failure"}
  PROVE  /\ [r EXCEPT !.pc = "done", !.result = x] \in CallRecord
         /\ [r EXCEPT !.pc = "done", !.result = x].pc = "done"
  BY Zenon DEF CallRecord

LEMMA FetchRecord ==
  ASSUME NEW r \in CallRecord, NEW m \in Models \cup {NoContext}, NEW n \in Threads \cup {4, 0}
  PROVE  /\ [r EXCEPT !.pc = "decode", !.model = m, !.threads = n] \in CallRecord
         /\ [r EXCEPT !.pc = "decode", !.model = m, !.threads = n].pc = "decode"
  BY Zenon DEF CallRecord, DecodeStages

CallsTyped == call \in [Calls -> CallRecord]

LEMMA AdvanceTypes ==
  ASSUME CallsTyped, CallCarries, NEW c \in Calls, NEW from,
         NEW to \in InitStages \cup DecodeStages, to # "enter", Advance(c, from, to)
  PROVE  CallsTyped' /\ CallCarries'
  <1> DEFINE r == [call[c] EXCEPT !.pc = to]
  <1>1. r \in CallRecord /\ r.pc = to BY AdvanceRecord DEF CallsTyped
  <1>2. call' = [call EXCEPT ![c] = r] BY DEF Advance
  <1> HIDE DEF r
  <1>3. QED BY <1>1, <1>2 DEF CallsTyped, CallCarries

LEMMA CompleteTypes ==
  ASSUME CallsTyped, CallCarries, NEW c \in Calls, NEW from,
         NEW x \in {"success", "failure"}, Complete(c, from, x)
  PROVE  CallsTyped' /\ CallCarries'
  <1> DEFINE r == [call[c] EXCEPT !.pc = "done", !.result = x]
  <1>1. r \in CallRecord /\ r.pc = "done" BY CompleteRecord DEF CallsTyped
  <1>2. call' = [call EXCEPT ![c] = r] BY DEF Complete
  <1> HIDE DEF r
  <1>3. QED BY <1>1, <1>2 DEF CallsTyped, CallCarries

\* The steps of a native call keep its types, whichever coroutine waits for it.
LEMMA NativeTypes ==
  ASSUME NativeTypeOK, CallCarries, NEW c \in Calls, NEW loads \in BOOLEAN,
         NativeStep(c, loads)
  PROVE  NativeTypeOK' /\ CallCarries'
  <1> USE AvailAssumption DEF NativeTypeOK
  <1>0. CallsTyped BY DEF CallsTyped
  <1>1. CASE EnterInit(c)
    <2>1. CallsTyped' /\ CallCarries' BY <1>0, <1>1, AdvanceTypes DEF EnterInit, InitStages
    <2>2. QED BY <1>1, <2>1 DEF EnterInit, CallsTyped, CallCarries, Advance
  <1>2. CASE LoadContext(c, loads)
    <2>1. CallsTyped' /\ CallCarries' BY <1>0, <1>2, AdvanceTypes DEF LoadContext, InitStages
    <2>2. call[c].model \in Models \cup {NoContext} BY DEF CallRecord
    <2>3. QED BY <1>2, <2>1, <2>2 DEF LoadContext, CallsTyped
  <1>3. CASE CheckInit(c)
    BY <1>0, <1>3, CompleteTypes DEF CheckInit, CallsTyped
  <1>4. CASE GuardContext(c)
    BY <1>0, <1>4, CompleteTypes, AdvanceTypes DEF GuardContext, CallsTyped, DecodeStages
  <1>5. CASE FetchContext(c)
    <2> DEFINE r == [call[c] EXCEPT !.pc = "decode", !.model = contextPtr, !.threads = gThreads]
    <2>0. call[c] \in CallRecord /\ contextPtr \in Models \cup {NoContext}
            /\ gThreads \in Threads \cup {4, 0}
      OBVIOUS
    <2>1. r \in CallRecord /\ r.pc = "decode" BY <2>0, FetchRecord
    <2>2. call' = [call EXCEPT ![c] = r] BY <1>5 DEF FetchContext
    <2> HIDE DEF r
    <2>3. QED BY <1>5, <2>1, <2>2 DEF FetchContext, CallCarries
  <1>6. CASE Decode(c)
    BY <1>0, <1>6, CompleteTypes DEF Decode, CallsTyped
  <1>7. QED BY <1>1, <1>2, <1>3, <1>4, <1>5, <1>6 DEF NativeStep

LEMMA CallTypes ==
  ASSUME NativeTypeOK, CallCarries, NEW c \in Calls,
         UNCHANGED <<contextPtr, gThreads>>,
         \/ \E m \in Models, n \in Threads : Initialize(c, m, n)
         \/ Transcribe(c) \/ Reclaim(c) \/ UNCHANGED call
  PROVE  NativeTypeOK' /\ CallCarries'
  BY DEF NativeTypeOK, CallCarries, CallRecord, InitStages, DecodeStages,
         Initialize, Transcribe, Reclaim, NoCall

-------------------------------------------------------------------------------
\* What the updates of a coroutine's record leave of it.
LEMMA MoveRecord ==
  ASSUME NEW r \in Coroutine, NEW p \in Stages
  PROVE  LET s == [r EXCEPT !.pc = p]
         IN /\ s \in Coroutine /\ s.pc = p /\ s.threads = r.threads
            /\ s.model = r.model /\ s.kind = r.kind /\ s.status = r.status
  BY Zenon DEF Coroutine

LEMMA ThreadsRecord ==
  ASSUME NEW r \in Coroutine, NEW p \in Stages, NEW n \in Threads
  PROVE  LET s == [r EXCEPT !.threads = n, !.pc = p]
         IN /\ s \in Coroutine /\ s.pc = p
            /\ s.model = r.model /\ s.kind = r.kind /\ s.status = r.status
  BY Zenon DEF Coroutine

LEMMA ThreadsCarried ==
  ASSUME NEW r \in Coroutine, NEW p \in Stages, NEW n \in Threads
  PROVE  [r EXCEPT !.threads = n, !.pc = p].threads = n
  BY Zenon DEF Coroutine

LEMMA ChooseRecord ==
  ASSUME NEW r \in Coroutine, NEW m \in Models
  PROVE  LET s == [r EXCEPT !.model = m, !.pc = "choose"]
         IN /\ s \in Coroutine /\ s.pc = "choose"
            /\ s.model = m /\ s.kind = r.kind /\ s.status = r.status
  BY Zenon DEF Coroutine, Stages, Loading

LEMMA CancelRecord ==
  ASSUME NEW r \in Coroutine, NEW x \in {"cancelled", "cleared"}
  PROVE  LET s == [r EXCEPT !.status = x]
         IN /\ s \in Coroutine /\ s.pc = r.pc
            /\ s.model = r.model /\ s.kind = r.kind /\ s.status = x
  BY Zenon DEF Coroutine

LEMMA FreshRecords ==
  /\ Idle \in Coroutine /\ Fits(Idle) /\ Idle.kind = "plain"
  /\ Launched("prefs") \in Coroutine /\ Fits(Launched("prefs"))
  /\ Launched("prefs").kind = "plain"
  /\ \A m \in Models :
       LET s == [Launched("store") EXCEPT !.model = m]
           d == [Launched("download") EXCEPT !.model = m, !.kind = "job"]
       IN /\ s \in Coroutine /\ Fits(s) /\ s.kind = "plain"
          /\ d \in Coroutine /\ Fits(d)
  BY DEF Idle, Launched, Coroutine, Stages, Loading, Downloading, Fits

\* A step of one coroutine keeps CoInv if what it leaves of that coroutine
\* fits, and modelDownloadJob goes on naming whatever other job it named.
LEMMA OneCoroutine ==
  ASSUME CoInv, NEW c \in Coroutines, NEW r \in Coroutine, Fits(r),
         co' = [co EXCEPT ![c] = r],
         r.kind = "job" /\ r.status = "active" => jobRef' = c,
         \A d \in Coroutines \ {c} : jobRef = d => jobRef' = d
  PROVE  CoInv'
  <1>1. CosTyped' BY DEF CoInv, CosTyped
  <1>2. \A d \in Coroutines : Fits(co'[d]) BY DEF CoInv, CosTyped
  <1>3. JobOwned' BY DEF CoInv, CosTyped, JobOwned
  <1>4. QED BY <1>1, <1>2, <1>3 DEF CoInv, Fits

\* Coroutines that are cancelled keep everything else, and no longer need an owner.
LEMMA Cancelling ==
  ASSUME CoInv, NEW S \in SUBSET Coroutines, NEW f, f = co',
         f = [c \in Coroutines |-> IF c \in S THEN [co[c] EXCEPT !.status = "cancelled"]
                                              ELSE co[c]],
         \A c \in Coroutines \ S : jobRef = c => jobRef' = c
  PROVE  CoInv'
  <1>0. ASSUME NEW r \in Coroutine
        PROVE  LET s == [r EXCEPT !.status = "cancelled"]
               IN /\ s \in Coroutine /\ s.pc = r.pc
                  /\ s.model = r.model /\ s.kind = r.kind /\ s.status = "cancelled"
    BY CancelRecord
  <1>1. \A c \in Coroutines :
          /\ co[c] \in Coroutine
          /\ c \in S => /\ f[c] = [co[c] EXCEPT !.status = "cancelled"]
                        /\ f[c] \in Coroutine /\ f[c].status = "cancelled"
                        /\ f[c].pc = co[c].pc /\ f[c].model = co[c].model
                        /\ f[c].kind = co[c].kind
          /\ c \notin S => f[c] = co[c]
    BY <1>0 DEF CoInv, CosTyped
  <1>2. CosTyped' BY <1>1 DEF CosTyped
  <1>3. \A c \in Coroutines : Fits(co[c])' BY <1>1 DEF CoInv, Fits
  <1>4. JobOwned' BY <1>1 DEF CoInv, JobOwned
  <1>5. QED BY <1>2, <1>3, <1>4 DEF CoInv

\* A new download takes over modelDownloadJob and cancels the one it named.
LEMMA Redownloading ==
  ASSUME CoInv, NEW c \in Coroutines, NEW m \in Models, StartDownload(c, m)
  PROVE  CoInv' /\ progress' = TRUE /\ jobRef' = c
  <1> DEFINE new == [Launched("download") EXCEPT !.model = m, !.kind = "job"]
  <1>1. new \in Coroutine /\ Fits(new) BY FreshRecords
  <1>2. \A d \in Coroutines :
          /\ co[d] \in Coroutine
          /\ d = c => co'[d] = new
          /\ d # c /\ d = jobRef => /\ co'[d] = [co[d] EXCEPT !.status = "cancelled"]
                                    /\ co'[d] \in Coroutine /\ co'[d].status = "cancelled"
                                    /\ co'[d].pc = co[d].pc /\ co'[d].model = co[d].model
                                    /\ co'[d].kind = co[d].kind
          /\ d # c /\ d # jobRef => co'[d] = co[d]
    BY CancelRecord DEF CoInv, CosTyped, StartDownload
  <1> HIDE DEF new
  <1>3. CosTyped' BY <1>1, <1>2 DEF CosTyped, StartDownload
  <1>4. \A d \in Coroutines : Fits(co[d])' BY <1>1, <1>2, ZenonT(30) DEF CoInv, Fits
  <1>5. JobOwned' BY <1>2 DEF CoInv, JobOwned, StartDownload
  <1>6. QED BY <1>3, <1>4, <1>5 DEF CoInv, StartDownload

-------------------------------------------------------------------------------
LEMMA TypeInit == Init => Inv
  <1> SUFFICES ASSUME Init PROVE Inv
    OBVIOUS
  <1>1. NoCall \in CallRecord BY Zenon DEF NoCall, CallRecord
  <1>2. NativeTypeOK /\ CallCarries
    BY <1>1, AvailAssumption DEF Init, NativeInit, NativeTypeOK, CallCarries, NoCall
  <1>3. co \in [Coroutines -> {Idle, Launched("prefs")}]
    BY DEF Init
  <1>4. CoInv
    BY <1>3, FreshRecords DEF CoInv, CosTyped, JobOwned
  <1>5. QED
    BY <1>2, <1>4, AvailAssumption DEF Init, Inv, UiTypeOK

\* Steps that only move a coroutine on, with what it carries.
LEMMA MoveOn ==
  ASSUME CoInv, NEW c \in Coroutines, NEW from \in Stages \ {"idle"}, NEW to \in Stages \ {"idle"},
         Move(c, from, to),
         to \in {"store", "choose", "init"} \cup Downloading => co[c].model \in Models,
         UNCHANGED jobRef
  PROVE  CoInv'
  <1> DEFINE r == [co[c] EXCEPT !.pc = to]
  <1>1. co[c] \in Coroutine BY DEF CoInv, CosTyped
  <1>2. r \in Coroutine /\ r.pc = to /\ r.model = co[c].model /\ r.kind = co[c].kind
          /\ r.status = co[c].status
    BY <1>1, MoveRecord
  <1>3. co' = [co EXCEPT ![c] = r] BY DEF Move
  <1> HIDE DEF r
  <1>4. Fits(r) BY <1>2 DEF Fits
  <1>5. r.kind = "job" /\ r.status = "active" => jobRef' = c
    BY <1>2 DEF CoInv, JobOwned
  <1>6. QED BY <1>2, <1>3, <1>4, <1>5, OneCoroutine

\* A stage reached without regard to cancellation: downloadModel's end.
LEMMA Arriving ==
  ASSUME CoInv, NEW c \in Coroutines, NEW to \in {"downloaded", "failed"},
         co' = [co EXCEPT ![c].pc = to], co[c].model \in Models, UNCHANGED jobRef
  PROVE  CoInv'
  <1> DEFINE r == [co[c] EXCEPT !.pc = to]
  <1>1. co[c] \in Coroutine /\ to \in Stages BY DEF CoInv, CosTyped, Stages, Downloading
  <1>2. r \in Coroutine /\ r.pc = to /\ r.model = co[c].model /\ r.kind = co[c].kind
          /\ r.status = co[c].status
    BY <1>1, MoveRecord
  <1>3. co' = [co EXCEPT ![c] = r] OBVIOUS
  <1> HIDE DEF r
  <1>4. Fits(r) BY <1>2 DEF Fits
  <1>5. r.kind = "job" /\ r.status = "active" => jobRef' = c
    BY <1>2 DEF CoInv, JobOwned
  <1>6. QED BY <1>2, <1>3, <1>4, <1>5, OneCoroutine

\* A coroutine that ends is forgotten, and modelDownloadJob names it no longer.
LEMMA Ending ==
  ASSUME CoInv, NEW c \in Coroutines, End(c)
  PROVE  CoInv' /\ jobRef' \in {jobRef, "completed"}
  BY FreshRecords, OneCoroutine DEF End

\* The user's requests.
LEMMA UserStep == Inv /\ (User \/ CancelDownload) => Inv'
  <1> SUFFICES ASSUME Inv, User \/ CancelDownload PROVE Inv'
    OBVIOUS
  <1> USE DEF Inv
  <1>0. /\ UNCHANGED nativeVars => NativeTypeOK' /\ CallCarries'
        /\ UNCHANGED <<co, jobRef>> => CoInv'
    BY DEF nativeVars, NativeTypeOK, CallCarries, CoInv, CosTyped, Fits, JobOwned
  <1>1. ASSUME NEW m \in Models, SelectModel(m) PROVE Inv'
    <2>1. PICK c \in Coroutines : co' = [co EXCEPT ![c] = [Launched("store") EXCEPT !.model = m]]
      BY <1>1 DEF SelectModel
    <2>2. CoInv' BY <1>1, <2>1, FreshRecords, OneCoroutine DEF SelectModel
    <2>3. QED BY <1>0, <1>1, <2>2 DEF SelectModel, UiTypeOK, storeVars
  <1>2. CASE DownloadButton
    <2>1. PICK c \in Coroutines : StartDownload(c, selected) BY <1>2 DEF DownloadButton
    <2>2. CoInv' /\ progress' = TRUE /\ jobRef' = c BY <2>1, Redownloading DEF UiTypeOK
    <2>3. QED BY <1>0, <1>2, <2>2 DEF DownloadButton, UiTypeOK, storeVars
  <1>3. CASE CancelDownload
    <2>1. co' = [c \in Coroutines |-> IF c \in {jobRef} \cap Coroutines
                                      THEN [co[c] EXCEPT !.status = "cancelled"] ELSE co[c]]
      BY <1>3 DEF CancelDownload
    <2>2. \A c \in Coroutines \ ({jobRef} \cap Coroutines) : jobRef = c => jobRef' = c
      OBVIOUS
    <2>3. CoInv' BY <2>1, <2>2, Cancelling
    <2>4. QED BY <1>0, <1>3, <2>3 DEF CancelDownload, UiTypeOK, uiVars, storeVars
  <1>4. ASSUME NEW n \in Threads, SetThreads(n) PROVE Inv'
    BY <1>0, <1>4 DEF SetThreads, UiTypeOK
  <1>5. CASE Recreate
    <2>1. PICK c \in Coroutines :
            co' = [d \in Coroutines |->
                     IF d = c THEN Launched("prefs")
                     ELSE IF co[d].pc = "idle" THEN co[d]
                     ELSE [co[d] EXCEPT !.status = "cleared"]]
      BY <1>5 DEF Recreate
    <2>2. \A d \in Coroutines :
            /\ co[d] \in Coroutine
            /\ d = c => co'[d] = Launched("prefs")
            /\ d # c /\ co[d].pc = "idle" => co'[d] = co[d]
            /\ d # c /\ co[d].pc # "idle" =>
                 /\ co'[d] \in Coroutine /\ co'[d].status = "cleared"
                 /\ co'[d].pc = co[d].pc /\ co'[d].model = co[d].model
                 /\ co'[d].kind = co[d].kind
      BY <2>1, CancelRecord DEF CoInv, CosTyped
    <2>3. CosTyped' BY <2>1, <2>2, FreshRecords DEF CosTyped
    <2>4. \A d \in Coroutines : Fits(co[d])'
      <3>1. Fits(co[c])' BY <2>2, FreshRecords DEF Fits
      <3>2. ASSUME NEW d \in Coroutines \ {c} PROVE Fits(co[d])'
        BY <2>2, <3>2 DEF CoInv, Fits
      <3>3. QED BY <3>1, <3>2
    <2>5. JobOwned' BY <2>2, FreshRecords DEF CoInv, Fits, JobOwned
    <2>6. QED BY <1>0, <1>5, <2>3, <2>4, <2>5, AvailAssumption
          DEF Recreate, UiTypeOK, CoInv, storeVars
  <1>6. CASE TranscribeFile
    <2>1. File \in Calls BY CallsAssumption
    <2>2. Transcribe(File) /\ UNCHANGED <<contextPtr, gThreads>> BY <1>6 DEF TranscribeFile
    <2>3. NativeTypeOK' /\ CallCarries' BY <2>1, <2>2, CallTypes
    <2>4. QED BY <1>0, <1>6, <2>3 DEF TranscribeFile, UiTypeOK, uiVars, storeVars
  <1>7. CASE ManageModels
    BY <1>0, <1>7 DEF ManageModels, UiTypeOK, uiVars
  <1>8. QED BY <1>1, <1>2, <1>3, <1>4, <1>5, <1>6, <1>7 DEF User

\* The coroutines' steps.
LEMMA CoroutineStepInv ==
  ASSUME Inv, NEW c \in Coroutines, CoroutineStep(c)
  PROVE  Inv'
  <1> USE DEF Inv
  <1>0. /\ UNCHANGED nativeVars => NativeTypeOK' /\ CallCarries'
        /\ UNCHANGED call /\ UNCHANGED <<contextPtr, gThreads>> => NativeTypeOK' /\ CallCarries'
        /\ co[c] \in Coroutine /\ Fits(co[c])
        /\ c \in Calls
    BY CallsAssumption DEF nativeVars, NativeTypeOK, CallCarries, CoInv, CosTyped
  <1>1. CASE StoreSelected(c)
    <2>1. CoInv'
      BY <1>1, MoveOn DEF StoreSelected, uiVars, Stages, Loading, Downloading
    <2>2. co[c].model \in Models BY <1>0, <1>1 DEF StoreSelected, Move, At, Fits
    <2>3. QED BY <1>0, <1>1, <2>1, <2>2 DEF StoreSelected, UiTypeOK, uiVars
  <1>2. CASE ReadPreferences(c)
    <2>1. \/ co' = [co EXCEPT ![c] = [co[c] EXCEPT !.threads = threadsStored, !.pc = "fix"]]
          \/ co' = [co EXCEPT ![c] = [co[c] EXCEPT !.threads = threadsStored, !.pc = "apply"]]
      BY <1>2 DEF ReadPreferences
    <2>2. /\ "fix" \in Stages /\ "apply" \in Stages /\ threadsStored \in Threads
          /\ co[c] \in Coroutine
      BY <1>0 DEF Stages, Loading, UiTypeOK
    <2>3. CoInv'
      <3>1. CASE co' = [co EXCEPT ![c] = [co[c] EXCEPT !.threads = threadsStored, !.pc = "fix"]]
        <4> DEFINE r == [co[c] EXCEPT !.threads = threadsStored, !.pc = "fix"]
        <4>1. /\ r \in Coroutine /\ r.pc = "fix" /\ r.model = co[c].model
              /\ r.kind = co[c].kind /\ r.status = co[c].status
          BY <2>2, Zenon DEF Coroutine
        <4>2. co' = [co EXCEPT ![c] = r] BY <3>1
        <4> HIDE DEF r
        <4>3. Fits(r) BY <4>1 DEF Fits, Downloading
        <4>4. QED
          BY <1>2, <4>1, <4>2, <4>3, OneCoroutine DEF ReadPreferences, uiVars, CoInv, JobOwned
      <3>2. CASE co' = [co EXCEPT ![c] = [co[c] EXCEPT !.threads = threadsStored, !.pc = "apply"]]
        <4> DEFINE r == [co[c] EXCEPT !.threads = threadsStored, !.pc = "apply"]
        <4>1. /\ r \in Coroutine /\ r.pc = "apply" /\ r.model = co[c].model
              /\ r.kind = co[c].kind /\ r.status = co[c].status
          BY <2>2, Zenon DEF Coroutine
        <4>2. co' = [co EXCEPT ![c] = r] BY <3>2
        <4> HIDE DEF r
        <4>3. Fits(r) BY <4>1 DEF Fits, Downloading
        <4>4. QED
          BY <1>2, <4>1, <4>2, <4>3, OneCoroutine DEF ReadPreferences, uiVars, CoInv, JobOwned
      <3>3. QED BY <2>1, <3>1, <3>2
    <2>6. QED BY <1>0, <1>2, <2>3 DEF ReadPreferences, UiTypeOK, uiVars, storeVars
  <1>3. CASE FixThreads(c)
    <2> DEFINE r == [co[c] EXCEPT !.threads = Avail, !.pc = "apply"]
    <2>1. "apply" \in Stages /\ Avail \in Threads /\ co[c] \in Coroutine
      BY <1>0, AvailAssumption DEF Stages, Loading
    <2>2. co' = [co EXCEPT ![c] = r] BY <1>3 DEF FixThreads
    <2>3. /\ r \in Coroutine /\ r.pc = "apply" /\ r.model = co[c].model
          /\ r.kind = co[c].kind /\ r.status = co[c].status
      BY <2>1, ThreadsRecord, ZenonT(30)
    <2> HIDE DEF r
    <2>4. Fits(r) BY <2>3 DEF Fits, Downloading
    <2>5. CoInv'
      BY <1>3, <2>2, <2>3, <2>4, OneCoroutine DEF FixThreads, uiVars, CoInv, JobOwned
    <2>6. QED BY <1>0, <1>3, <2>1, <2>5 DEF FixThreads, UiTypeOK, uiVars
  <1>4. CASE ApplyPreferences(c)
    <2>1. CoInv'
      BY <1>4, MoveOn DEF ApplyPreferences, Stages, Loading, Downloading
    <2>2. nThreads' \in Threads
      BY <1>0, <1>4, AvailAssumption DEF ApplyPreferences, Coroutine
    <2>3. QED BY <1>0, <1>4, <2>1, <2>2 DEF ApplyPreferences, UiTypeOK, storeVars
  <1>5. CASE ReadSelected(c)
    <2> DEFINE r == [co[c] EXCEPT !.model = stored, !.pc = "choose"]
    <2>1. stored \in Models BY DEF UiTypeOK
    <2>2. co' = [co EXCEPT ![c] = r] BY <1>5 DEF ReadSelected
    <2>3. /\ r \in Coroutine /\ r.pc = "choose" /\ r.model = stored
          /\ r.kind = co[c].kind /\ r.status = co[c].status
      BY <1>0, <2>1, ChooseRecord
    <2> HIDE DEF r
    <2>4. Fits(r) BY <2>1, <2>3 DEF Fits
    <2>5. CoInv'
      BY <1>5, <2>2, <2>3, <2>4, OneCoroutine DEF ReadSelected, uiVars, CoInv, JobOwned
    <2>6. QED BY <1>0, <1>5, <2>5 DEF ReadSelected, UiTypeOK, uiVars, storeVars
  <1>6. CASE ChooseModel(c)
    <2>1. co[c].model \in Models BY <1>0, <1>6 DEF ChooseModel, At, Fits
    <2>2. CASE /\ Initialize(c, co[c].model, nThreads)
               /\ co' = [co EXCEPT ![c].pc = "init"]
               /\ UNCHANGED <<progress, jobRef>>
      <3>1. NativeTypeOK' /\ CallCarries'
        BY <1>0, <1>6, <2>1, <2>2, CallTypes DEF ChooseModel, UiTypeOK
      <3>2. Move(c, "choose", "init") BY <1>6, <2>2 DEF ChooseModel, Move
      <3>3. CoInv' BY <2>1, <2>2, <3>2, MoveOn DEF Stages, Loading, Downloading
      <3>4. QED BY <1>6, <2>1, <2>2, <3>1, <3>3 DEF ChooseModel, UiTypeOK, storeVars
    <2>3. CASE StartDownload(c, co[c].model) /\ UNCHANGED call
      <3>1. NativeTypeOK' /\ CallCarries' BY <1>0, <1>6, <2>3 DEF ChooseModel
      <3>2. CoInv' /\ progress' = TRUE /\ jobRef' = c BY <2>1, <2>3, Redownloading
      <3>3. QED BY <1>6, <2>1, <3>1, <3>2 DEF ChooseModel, UiTypeOK, storeVars
    <2>4. QED BY <1>6, <2>2, <2>3 DEF ChooseModel
  <1>7. CASE DownloadEnds(c)
    <2>1. co[c].model \in Models BY <1>0, <1>7 DEF DownloadEnds, Fits, Downloading
    <2>2. \E to \in {"downloaded", "failed"} : co' = [co EXCEPT ![c].pc = to]
      BY <1>7 DEF DownloadEnds
    <2>3. CoInv' BY <1>0, <1>7, <2>1, <2>2, Arriving DEF DownloadEnds, uiVars, Downloading
    <2>4. file' \in [Models -> BOOLEAN] BY <1>7, <2>1 DEF DownloadEnds, UiTypeOK
    <2>5. QED BY <1>0, <1>7, <2>3, <2>4 DEF DownloadEnds, UiTypeOK, uiVars, storeVars
  <1>8. CASE DownloadSucceeded(c)
    <2>1. co[c].model \in Models BY <1>0, <1>8 DEF DownloadSucceeded, Move, At, Fits, Downloading
    <2>2. NativeTypeOK' /\ CallCarries'
      BY <1>0, <1>8, <2>1, CallTypes DEF DownloadSucceeded, UiTypeOK
    <2>3. CoInv'
      BY <1>8, <2>1, MoveOn DEF DownloadSucceeded, Stages, Loading, Downloading
    <2>4. QED BY <1>8, <2>2, <2>3 DEF DownloadSucceeded, UiTypeOK, storeVars
  <1>9. CASE DownloadFailed(c)
    <2>1. CoInv' /\ jobRef' \in {jobRef, "completed"} BY <1>9, Ending DEF DownloadFailed
    <2>2. QED BY <1>0, <1>9, <2>1 DEF DownloadFailed, UiTypeOK, storeVars
  <1>10. CASE InitReturns(c)
    <2>1. CoInv' /\ jobRef' \in {jobRef, "completed"} BY <1>10, Ending DEF InitReturns
    <2>2. NativeTypeOK' /\ CallCarries' BY <1>0, <1>10, CallTypes DEF InitReturns
    <2>3. QED BY <1>10, <2>1, <2>2 DEF InitReturns, UiTypeOK, storeVars
  <1>11. CASE CancelledEnds(c)
    <2>1. CoInv' /\ jobRef' \in {jobRef, "completed"} BY <1>11, Ending DEF CancelledEnds
    <2>2. NativeTypeOK' /\ CallCarries' BY <1>0, <1>11, CallTypes DEF CancelledEnds
    <2>3. stored' \in Models /\ threadsStored' \in Threads
      BY <1>0, <1>11, AvailAssumption DEF CancelledEnds, UiTypeOK, Fits
    <2>4. QED BY <1>11, <2>1, <2>2, <2>3 DEF CancelledEnds, UiTypeOK, uiVars
  <1>12. QED
    BY <1>1, <1>2, <1>3, <1>4, <1>5, <1>6, <1>7, <1>8, <1>9, <1>10, <1>11 DEF CoroutineStep

\* Every other step of the system, and none.
LEMMA SystemStepInv == Inv /\ (System \/ UNCHANGED vars) => Inv'
  <1> SUFFICES ASSUME Inv, System \/ UNCHANGED vars PROVE Inv'
    OBVIOUS
  <1> USE DEF Inv
  <1>0. /\ UNCHANGED nativeVars => NativeTypeOK' /\ CallCarries'
        /\ UNCHANGED <<co, jobRef>> => CoInv'
    BY DEF nativeVars, NativeTypeOK, CallCarries, CoInv, CosTyped, Fits, JobOwned
  <1>1. ASSUME NEW c \in Coroutines, CoroutineStep(c) PROVE Inv'
    BY <1>1, CoroutineStepInv
  <1>2. ASSUME NEW c \in Coroutines, Progress(c) PROVE Inv'
    BY <1>0, <1>2 DEF Progress, UiTypeOK, storeVars
  <1>3. ASSUME NEW c \in Calls, Native(c) PROVE Inv'
    <2>1. NativeTypeOK' /\ CallCarries' BY <1>3, NativeTypes DEF Native
    <2>2. QED BY <1>0, <1>3, <2>1 DEF Native, UiTypeOK, uiVars, storeVars
  <1>4. CASE StoreThreads
    BY <1>0, <1>4 DEF StoreThreads, UiTypeOK, uiVars
  <1>5. CASE FileTranscribed
    <2>1. NativeTypeOK' /\ CallCarries' BY <1>5, CallTypes, CallsAssumption DEF FileTranscribed
    <2>2. QED BY <1>0, <1>5, <2>1 DEF FileTranscribed, UiTypeOK, uiVars, storeVars
  <1>6. CASE UNCHANGED vars
    BY <1>0, <1>6 DEF vars, nativeVars, UiTypeOK
  <1>7. QED BY <1>1, <1>2, <1>3, <1>4, <1>5, <1>6 DEF System

LEMMA Invariance == Spec => []Inv
  <1>1. Inv /\ [Next]_vars => Inv' BY UserStep, SystemStepInv DEF Next
  <1>2. QED BY TypeInit, <1>1, PTL DEF Spec

-------------------------------------------------------------------------------
\* The state is always one the code could hold: in particular no coroutine is
\* in a stage without the model that stage is about.
THEOREM TypeCorrect == Spec => []TypeOK
  <1>1. Inv => TypeOK BY DEF Inv, UiTypeOK, CoInv, CosTyped, TypeOK
  <1>2. QED BY Invariance, <1>1, PTL

\* However often the user selects, retries, cancels and leaves, a download that
\* has not been cancelled is the one modelDownloadJob names.
THEOREM DownloadsOwned == Spec => []JobOwned
  <1>1. Inv => JobOwned BY DEF Inv, CoInv
  <1>2. QED BY Invariance, <1>1, PTL

-------------------------------------------------------------------------------
(***************************************************************************)
(* A user who waits.  One thing is under way at a time, so that whatever   *)
(* it finds when it ends is what it left when it began.                    *)
(***************************************************************************)

Busy(c) == co[c].pc # "idle"

OneAtATime ==
  /\ \A c, d \in Coroutines : Busy(c) /\ Busy(d) => c = d
  /\ \A c \in Coroutines : Busy(c) => call[File].pc = "idle" /\ pendingThreads = None
  /\ pendingThreads # None => call[File].pc = "idle"

\* The load a coroutine waits for is of its model, which is the one selected, and
\* "Ready" is not shown meanwhile.
LoadShown(c) ==
  /\ call[c].pc \in {"idle", "done"} \cup InitStages
  /\ call[c].pc # "idle" <=> co[c].pc = "init"
  /\ call[c].pc # "idle" => call[c].model = co[c].model
  /\ call[c].pc = "check" => contextPtr \in {NoContext, call[c].model}
  /\ call[c].pc = "done" /\ call[c].result = "success" => contextPtr = call[c].model
  /\ co[c].pc \in Downloading \cup {"init"} => co[c].model = selected
  /\ co[c].pc = "init" => downloaded
  /\ Busy(c) => ~loaded

\* modelDownloadJob names a download that is not cancelled, and none if one is.
JobShown(c) ==
  /\ co[c].kind = "job" => co[c].pc \in Downloading \cup {"init"}
  /\ co[c].pc \in Downloading => co[c].kind = "job"
  /\ co[c].status # "active" =>
       co[c].kind = "job" /\ jobRef = None /\ co[c].status = "cancelled"
  /\ jobRef = c => co[c].kind = "job" /\ co[c].status = "active"

\* "Ready" is only shown of a model whose file was shown as stored, so that no
\* download is asked for beside it.
StoredShown == loaded => downloaded

ProgressShown ==
  progress => \/ jobRef = None
              \/ \E c \in Coroutines : jobRef = c /\ co[c].pc \in Downloading

\* The preferences have been shown, or a coroutine has yet to show them.
Unsettled(c) == co[c].pc \in {"store", "prefs", "fix", "apply"}

ThreadsShown ==
  /\ pendingThreads # None => nThreads = pendingThreads
  /\ pendingThreads = None => \/ nThreads = threadsStored
                              \/ \E c \in Coroutines : Unsettled(c)
  /\ \A c \in Coroutines : co[c].pc = "apply" => co[c].threads = threadsStored

\* The call of a file transcription loads nothing.
FileInv == call[File].pc \in {"idle", "done"} \cup DecodeStages

PatientInv ==
  /\ OneAtATime
  /\ \A c \in Coroutines : LoadShown(c) /\ JobShown(c)
  /\ ReadyHonest /\ StoredShown /\ ProgressShown /\ ThreadsShown /\ FileInv

-------------------------------------------------------------------------------
LEMMA PatientInit == Init => PatientInv
  <1> SUFFICES ASSUME Init PROVE PatientInv
    OBVIOUS
  <1>1. \A c \in Coroutines :
          /\ co[c].pc \in {"idle", "prefs"} /\ co[c].kind = "plain"
          /\ co[c].status = "active"
    BY DEF Init, Idle, Launched
  <1>2. PICK b \in Coroutines : co[b].pc = "prefs" /\ \A d \in Coroutines \ {b} : co[d].pc = "idle"
    BY DEF Init, Idle, Launched
  <1>3. /\ \A c \in Calls : call[c].pc = "idle"
        /\ Coroutines \subseteq Calls /\ File \in Calls
    BY CallsAssumption DEF Init, NativeInit, NoCall
  <1>4. jobRef = None /\ pendingThreads = None /\ loaded = FALSE /\ progress = FALSE
    BY DEF Init
  <1>5. OneAtATime BY <1>2, <1>3, <1>4 DEF OneAtATime, Busy
  <1>6. \A c \in Coroutines : LoadShown(c) /\ JobShown(c)
    BY <1>1, <1>3, <1>4, NoneAssumption DEF LoadShown, JobShown, Busy, Downloading
  <1>7. ReadyHonest /\ StoredShown /\ ProgressShown /\ FileInv
    BY <1>3, <1>4 DEF ReadyHonest, Badge, StoredShown, ProgressShown, FileInv
  <1>8. ThreadsShown BY <1>1, <1>2, <1>4 DEF ThreadsShown, Unsettled
  <1>9. QED BY <1>5, <1>6, <1>7, <1>8 DEF PatientInv

\* What a step of a native call leaves of its record.
LEMMA Advanced ==
  ASSUME CallsTyped, NEW c \in Calls, NEW from, NEW to \in InitStages \cup DecodeStages,
         Advance(c, from, to)
  PROVE  /\ call[c].pc = from /\ call'[c].pc = to
         /\ call'[c].model = call[c].model /\ call'[c].result = call[c].result
         /\ \A d \in Calls \ {c} : call'[d] = call[d]
  <1>1. ASSUME NEW r \in CallRecord
        PROVE  LET s == [r EXCEPT !.pc = to]
               IN s.pc = to /\ s.model = r.model /\ s.result = r.result
    BY Zenon DEF CallRecord
  <1>2. call' = [call EXCEPT ![c] = [call[c] EXCEPT !.pc = to]] BY DEF Advance
  <1>3. QED BY <1>1, <1>2 DEF CallsTyped, Advance

LEMMA Completed ==
  ASSUME CallsTyped, NEW c \in Calls, NEW from, NEW x, Complete(c, from, x)
  PROVE  /\ call[c].pc = from /\ call'[c].pc = "done"
         /\ call'[c].model = call[c].model /\ call'[c].result = x
         /\ \A d \in Calls \ {c} : call'[d] = call[d]
  <1>1. ASSUME NEW r \in CallRecord
        PROVE  LET s == [r EXCEPT !.pc = "done", !.result = x]
               IN s.pc = "done" /\ s.model = r.model /\ s.result = x
    BY Zenon DEF CallRecord
  <1>2. call' = [call EXCEPT ![c] = [call[c] EXCEPT !.pc = "done", !.result = x]]
    BY DEF Complete
  <1>3. QED BY <1>1, <1>2 DEF CallsTyped, Complete

\* A load sees no other step between its own, and a transcription no load.
LEMMA PatientNative ==
  ASSUME Inv, PatientInv, NEW c \in Calls, Native(c)
  PROVE  PatientInv'
  <1>0. CallsTyped /\ Coroutines \subseteq Calls /\ File \in Calls /\ File \notin Coroutines
          /\ (c # File => c \in Coroutines)
    BY CallsAssumption DEF Inv, NativeTypeOK, CallsTyped
  <1>1. PICK loads \in BOOLEAN :
          /\ loads => call[c].model \in Models
          /\ NativeStep(c, loads)
    BY DEF Native
  <1>2. UNCHANGED <<selected, loaded, downloaded, progress, nThreads, jobRef, co,
                    stored, threadsStored, pendingThreads, file>>
    BY DEF Native, uiVars, storeVars
  <1>3. ProgressShown' /\ ThreadsShown'
    BY <1>2 DEF PatientInv, ProgressShown, ThreadsShown, Unsettled
  <1>4. \A d \in Coroutines : JobShown(d)'
    BY <1>2 DEF PatientInv, JobShown
  <1>5. ASSUME call[c].pc \in InitStages, call'[c].pc \in InitStages \cup {"done"},
               \A d \in Calls \ {c} : call'[d] = call[d],
               call'[c].model = call[c].model,
               call'[c].pc = "check" => contextPtr' \in {NoContext, call[c].model},
               call'[c].pc = "done" /\ call'[c].result = "success" => contextPtr' = call[c].model
        PROVE  PatientInv'
    <2>1. c \in Coroutines /\ Busy(c) /\ call[File].pc = "idle" /\ ~loaded
      BY <1>0, <1>5 DEF PatientInv, FileInv, InitStages, DecodeStages, LoadShown, Busy, OneAtATime
    <2>2. call'[File] = call[File] BY <1>0, <1>5, <2>1
    <2>3. OneAtATime' BY <1>2, <2>2 DEF PatientInv, OneAtATime, Busy
    <2>4. FileInv' BY <2>1, <2>2 DEF FileInv
    <2>5. ReadyHonest' /\ StoredShown' BY <1>2, <2>1 DEF ReadyHonest, Badge, StoredShown
    <2>6. LoadShown(c)'
      BY <1>2, <1>5, <2>1 DEF PatientInv, LoadShown, Busy, InitStages
    <2>7. ASSUME NEW d \in Coroutines \ {c} PROVE LoadShown(d)'
      <3>1. co[d].pc = "idle" BY <2>1 DEF PatientInv, OneAtATime, Busy
      <3>2. call'[d] = call[d] /\ call[d].pc = "idle"
        BY <1>0, <1>5, <3>1 DEF PatientInv, LoadShown
      <3>3. QED BY <1>2, <3>1, <3>2 DEF LoadShown, Busy, Downloading
    <2>8. QED BY <1>3, <1>4, <2>3, <2>4, <2>5, <2>6, <2>7 DEF PatientInv
  <1>6. ASSUME call[c].pc \in DecodeStages, call'[c].pc \in DecodeStages \cup {"done"},
               \A d \in Calls \ {c} : call'[d] = call[d], UNCHANGED contextPtr
        PROVE  PatientInv'
    <2>1. c = File
      BY <1>0, <1>6 DEF PatientInv, LoadShown, InitStages, DecodeStages
    <2>2. OneAtATime'
      BY <1>2, <1>6, <2>1 DEF PatientInv, OneAtATime, Busy, DecodeStages
    <2>3. FileInv' BY <1>6, <2>1 DEF FileInv, DecodeStages
    <2>4. ReadyHonest' /\ StoredShown' BY <1>2, <1>6 DEF PatientInv, ReadyHonest, Badge, StoredShown
    <2>5. \A d \in Coroutines : call'[d] = call[d] BY <1>0, <1>6, <2>1
    <2>6. \A d \in Coroutines : LoadShown(d)'
      BY <1>2, <1>6, <2>5 DEF PatientInv, LoadShown, Busy
    <2>7. QED BY <1>3, <1>4, <2>2, <2>3, <2>4, <2>6 DEF PatientInv
  <1>7. CASE EnterInit(c)
    BY <1>0, <1>5, <1>7, Advanced DEF EnterInit, InitStages
  <1>8. CASE LoadContext(c, loads)
    <2>1. /\ call[c].pc = "load" /\ call'[c].pc = "check" /\ call'[c].model = call[c].model
          /\ \A d \in Calls \ {c} : call'[d] = call[d]
      BY <1>0, <1>8, Advanced DEF LoadContext, InitStages
    <2>2. contextPtr' \in {NoContext, call[c].model} BY <1>8 DEF LoadContext
    <2>3. QED BY <1>5, <2>1, <2>2 DEF InitStages
  <1>9. CASE CheckInit(c)
    <2>1. /\ call[c].pc = "check" /\ call'[c].pc = "done" /\ call'[c].model = call[c].model
          /\ call'[c].result = IF contextPtr # NoContext THEN "success" ELSE "failure"
          /\ \A d \in Calls \ {c} : call'[d] = call[d]
      BY <1>0, <1>9, Completed DEF CheckInit
    <2>2. contextPtr \in {NoContext, call[c].model} /\ contextPtr' = contextPtr
      BY <1>0, <1>9, <2>1 DEF PatientInv, FileInv, LoadShown, DecodeStages, CheckInit
    <2>3. QED BY <1>5, <2>1, <2>2 DEF InitStages
  <1>10. CASE GuardContext(c)
    <2>1. CASE contextPtr = NoContext /\ Complete(c, "guard", "failure")
      BY <1>0, <1>6, <1>10, <2>1, Completed DEF GuardContext, DecodeStages
    <2>2. CASE contextPtr # NoContext /\ Advance(c, "guard", "fetch")
      BY <1>0, <1>6, <1>10, <2>2, Advanced DEF GuardContext, DecodeStages
    <2>3. QED BY <1>10, <2>1, <2>2 DEF GuardContext
  <1>11. CASE FetchContext(c)
    <2> DEFINE r == [call[c] EXCEPT !.pc = "decode", !.model = contextPtr, !.threads = gThreads]
    <2>1. call[c] \in CallRecord /\ contextPtr \in Models \cup {NoContext}
            /\ gThreads \in Threads \cup {4, 0}
      BY DEF Inv, NativeTypeOK
    <2>2. r.pc = "decode" BY <2>1, Zenon DEF CallRecord
    <2>3. call' = [call EXCEPT ![c] = r] BY <1>11 DEF FetchContext
    <2> HIDE DEF r
    <2>4. call'[c] = r /\ \A d \in Calls \ {c} : call'[d] = call[d]
      BY <1>0, <2>3 DEF CallsTyped
    <2>5. QED BY <1>6, <1>11, <2>2, <2>4 DEF FetchContext, DecodeStages
  <1>12. CASE Decode(c)
    BY <1>0, <1>6, <1>12, Completed DEF Decode, DecodeStages
  <1>13. QED BY <1>1, <1>7, <1>8, <1>9, <1>10, <1>11, <1>12 DEF NativeStep


LEMMA ReadyIs == ReadyHonest <=> (loaded => contextPtr = selected)
  BY DEF ReadyHonest, Badge

\* A step of the coroutine that is under way need only be looked at for itself.
LEMMA OwnStep ==
  ASSUME Inv, PatientInv, NEW c \in Coroutines, Busy(c),
         \A d \in Coroutines \ {c} : co'[d] = co[d],
         \A d \in Calls \ {c} : call'[d] = call[d],
         jobRef' \in {jobRef, c, "completed"}, UNCHANGED <<contextPtr, pendingThreads>>,
         LoadShown(c)', JobShown(c)', ReadyHonest', StoredShown', ProgressShown', ThreadsShown'
  PROVE  PatientInv'
  <1>1. \A d \in Coroutines \ {c} : co[d].pc = "idle"
    BY DEF PatientInv, OneAtATime, Busy
  <1>2. /\ Coroutines \subseteq Calls /\ File \in Calls /\ File \notin Coroutines
        /\ call'[File] = call[File] /\ call[File].pc = "idle" /\ pendingThreads = None
    BY CallsAssumption DEF PatientInv, OneAtATime
  <1>3. OneAtATime' BY <1>1, <1>2 DEF OneAtATime, Busy
  <1>4. FileInv' BY <1>2 DEF FileInv
  <1>5. ASSUME NEW d \in Coroutines \ {c} PROVE LoadShown(d)' /\ JobShown(d)'
    <2>1. co'[d] = co[d] /\ co[d].pc = "idle" BY <1>1
    <2>2. call'[d] = call[d] /\ call[d].pc = "idle"
      BY <1>2, <2>1 DEF PatientInv, LoadShown
    <2>3. co[d].kind # "job" /\ co[d].status = "active" /\ jobRef # d
      BY <2>1 DEF PatientInv, JobShown, Downloading
    <2>4. jobRef' # d BY <2>3, NoneAssumption
    <2>5. LoadShown(d)' BY <2>1, <2>2 DEF LoadShown, Busy, Downloading
    <2>6. JobShown(d)' BY <2>1, <2>3, <2>4 DEF JobShown, Downloading
    <2>7. QED BY <2>5, <2>6
  <1>6. QED BY <1>3, <1>4, <1>5 DEF PatientInv

\* What Move and End leave of the coroutines.
LEMMA Moved ==
  ASSUME CosTyped, NEW c \in Coroutines, NEW to \in Stages, co' = [co EXCEPT ![c].pc = to]
  PROVE  /\ co'[c].pc = to /\ co'[c].threads = co[c].threads
         /\ co'[c].model = co[c].model /\ co'[c].kind = co[c].kind
         /\ co'[c].status = co[c].status
         /\ \A d \in Coroutines \ {c} : co'[d] = co[d]
  <1> DEFINE r == [co[c] EXCEPT !.pc = to]
  <1>1. /\ r.pc = to /\ r.threads = co[c].threads /\ r.model = co[c].model
        /\ r.kind = co[c].kind /\ r.status = co[c].status
    BY MoveRecord DEF CosTyped
  <1>2. co' = [co EXCEPT ![c] = r] OBVIOUS
  <1> HIDE DEF r
  <1>3. QED BY <1>1, <1>2 DEF CosTyped

LEMMA Ended ==
  ASSUME CosTyped, NEW c \in Coroutines, End(c)
  PROVE  /\ co'[c].pc = "idle" /\ co'[c].kind = "plain" /\ co'[c].status = "active"
         /\ \A d \in Coroutines \ {c} : co'[d] = co[d]
         /\ jobRef' = IF jobRef = c THEN "completed" ELSE jobRef
  BY DEF CosTyped, End, Idle

LEMMA PatientCoroutine ==
  ASSUME Inv, PatientInv, NEW c \in Coroutines, CoroutineStep(c) \/ Progress(c)
  PROVE  PatientInv'
  <1>0. /\ CosTyped /\ co[c] \in Coroutine /\ c \in Calls /\ c # File
        /\ call \in [Calls -> CallRecord]
        /\ LoadShown(c) /\ JobShown(c)
        /\ co[c].status \in {"active", "cancelled", "cleared"} /\ co[c].kind \in {"plain", "job"}
        /\ loaded \in BOOLEAN /\ progress \in BOOLEAN
    BY CallsAssumption DEF Inv, CoInv, CosTyped, PatientInv, Coroutine, NativeTypeOK, UiTypeOK
  <1>1. Busy(c) /\ ~loaded /\ pendingThreads = None
    <2>1. Busy(c)
      BY <1>0 DEF CoroutineStep, StoreSelected, ReadPreferences, FixThreads, ApplyPreferences,
         ReadSelected, ChooseModel, DownloadEnds, DownloadSucceeded, DownloadFailed,
         InitReturns, CancelledEnds, Progress, Move, At, Busy, JobShown, Downloading
    <2>2. QED BY <1>0, <2>1 DEF LoadShown, PatientInv, OneAtATime
  <1>2. CASE StoreSelected(c)
    <2>1. /\ co[c].pc = "store" /\ co[c].status = "active" /\ co'[c].pc = "prefs"
          /\ co'[c].kind = co[c].kind /\ co'[c].status = co[c].status
          /\ \A d \in Coroutines \ {c} : co'[d] = co[d]
      BY <1>0, <1>2, Moved DEF StoreSelected, Move, At, Stages, Loading
    <2>2. UNCHANGED <<call, contextPtr, jobRef, pendingThreads, loaded, progress>>
      BY <1>2 DEF StoreSelected, nativeVars, uiVars
    <2>3. LoadShown(c)' BY <1>0, <1>1, <2>1, <2>2 DEF LoadShown, Downloading
    <2>4. JobShown(c)' BY <1>0, <2>1, <2>2 DEF JobShown, Downloading
    <2>5. ProgressShown' BY <1>1, <2>1, <2>2 DEF PatientInv, ProgressShown, Downloading
    <2>6. ThreadsShown' BY <1>1, <2>1, <2>2 DEF PatientInv, OneAtATime, Busy, ThreadsShown, Unsettled
    <2>7. ReadyHonest' /\ StoredShown' BY <1>1, <2>2 DEF ReadyHonest, Badge, StoredShown
    <2>8. QED BY <1>0, <1>1, <2>1, <2>2, <2>3, <2>4, <2>5, <2>6, <2>7, OwnStep
  <1>3. CASE ReadPreferences(c)
    <2>1. PICK to \in {"fix", "apply"} :
            co' = [co EXCEPT ![c] = [co[c] EXCEPT !.threads = threadsStored, !.pc = to]]
      BY <1>3 DEF ReadPreferences
    <2> DEFINE r == [co[c] EXCEPT !.threads = threadsStored, !.pc = to]
    <2>2. /\ r.pc = to /\ r.threads = threadsStored /\ r.kind = co[c].kind
          /\ r.status = co[c].status
      <3>1. co[c] \in Coroutine /\ to \in Stages /\ threadsStored \in Threads
        BY <1>0 DEF Stages, Loading, Inv, UiTypeOK
      <3>2. r.threads = threadsStored BY <3>1, ThreadsCarried
      <3>3. r.pc = to /\ r.kind = co[c].kind /\ r.status = co[c].status
        BY <3>1, ThreadsRecord, ZenonT(30)
      <3>4. QED BY <3>2, <3>3
    <2>3. co' = [co EXCEPT ![c] = r] BY <2>1
    <2> HIDE DEF r
    <2>4. /\ co[c].pc = "prefs" /\ co[c].status = "active" /\ co'[c].pc \in {"fix", "apply"}
          /\ co'[c].kind = co[c].kind /\ co'[c].status = co[c].status
          /\ co'[c].threads = threadsStored
          /\ \A d \in Coroutines \ {c} : co'[d] = co[d]
      BY <1>0, <1>3, <2>2, <2>3 DEF ReadPreferences, At, CosTyped
    <2>5. UNCHANGED <<call, contextPtr, jobRef, pendingThreads, threadsStored, nThreads,
                      loaded, progress>>
      BY <1>3 DEF ReadPreferences, nativeVars, uiVars, storeVars
    <2>6. LoadShown(c)' BY <1>0, <1>1, <2>4, <2>5 DEF LoadShown, Downloading
    <2>7. JobShown(c)' BY <1>0, <2>4, <2>5 DEF JobShown, Downloading
    <2>8. ProgressShown' BY <1>1, <2>4, <2>5 DEF PatientInv, ProgressShown, Downloading
    <2>9. ThreadsShown'
      BY <1>1, <2>4, <2>5 DEF PatientInv, OneAtATime, Busy, ThreadsShown, Unsettled
    <2>10. ReadyHonest' /\ StoredShown' BY <1>1, <2>5, ReadyIs DEF ReadyHonest, Badge, StoredShown
    <2>11. QED BY <1>0, <1>1, <2>4, <2>5, <2>6, <2>7, <2>8, <2>9, <2>10, OwnStep
  <1>4. CASE FixThreads(c)
    <2> DEFINE r == [co[c] EXCEPT !.threads = Avail, !.pc = "apply"]
    <2>1. /\ r.pc = "apply" /\ r.threads = Avail /\ r.kind = co[c].kind
          /\ r.status = co[c].status
      <3>1. co[c] \in Coroutine /\ "apply" \in Stages /\ Avail \in Threads
        BY <1>0, AvailAssumption DEF Stages, Loading
      <3>2. r.threads = Avail BY <3>1, ThreadsCarried
      <3>3. r.pc = "apply" /\ r.kind = co[c].kind /\ r.status = co[c].status
        BY <3>1, ThreadsRecord
      <3>4. QED BY <3>2, <3>3
    <2>2. co' = [co EXCEPT ![c] = r] BY <1>4 DEF FixThreads
    <2> HIDE DEF r
    <2>3. /\ co[c].pc = "fix" /\ co[c].status = "active" /\ co'[c].pc = "apply"
          /\ co'[c].kind = co[c].kind /\ co'[c].status = co[c].status
          /\ co'[c].threads = threadsStored'
          /\ \A d \in Coroutines \ {c} : co'[d] = co[d]
      BY <1>0, <1>4, <2>1, <2>2 DEF FixThreads, At, CosTyped
    <2>4. UNCHANGED <<call, contextPtr, jobRef, pendingThreads, nThreads, loaded, progress>>
      BY <1>4 DEF FixThreads, nativeVars, uiVars
    <2>5. LoadShown(c)' BY <1>0, <1>1, <2>3, <2>4 DEF LoadShown, Downloading
    <2>6. JobShown(c)' BY <1>0, <2>3, <2>4 DEF JobShown, Downloading
    <2>7. ProgressShown' BY <1>1, <2>3, <2>4 DEF PatientInv, ProgressShown, Downloading
    <2>8. ThreadsShown'
      BY <1>1, <2>3, <2>4 DEF PatientInv, OneAtATime, Busy, ThreadsShown, Unsettled
    <2>9. ReadyHonest' /\ StoredShown' BY <1>1, <2>4 DEF ReadyHonest, Badge, StoredShown
    <2>10. QED BY <1>0, <1>1, <2>3, <2>4, <2>5, <2>6, <2>7, <2>8, <2>9, OwnStep
  <1>5. CASE ApplyPreferences(c)
    <2>1. /\ co[c].pc = "apply" /\ co[c].status = "active" /\ co'[c].pc = "read"
          /\ co'[c].kind = co[c].kind /\ co'[c].status = co[c].status
          /\ \A d \in Coroutines \ {c} : co'[d] = co[d]
      BY <1>0, <1>5, Moved DEF ApplyPreferences, Move, At, Stages, Loading
    <2>2. UNCHANGED <<call, contextPtr, jobRef, pendingThreads, threadsStored, loaded, progress>>
      BY <1>5 DEF ApplyPreferences, nativeVars, storeVars
    <2>3. nThreads' = threadsStored
      BY <1>5, <2>1 DEF ApplyPreferences, PatientInv, ThreadsShown
    <2>4. LoadShown(c)' BY <1>0, <1>1, <2>1, <2>2 DEF LoadShown, Downloading
    <2>5. JobShown(c)' BY <1>0, <2>1, <2>2 DEF JobShown, Downloading
    <2>6. ProgressShown' BY <1>1, <2>1, <2>2 DEF PatientInv, ProgressShown, Downloading
    <2>7. ThreadsShown'
      BY <1>1, <2>1, <2>2, <2>3 DEF PatientInv, OneAtATime, Busy, ThreadsShown
    <2>8. ReadyHonest' /\ StoredShown' BY <1>1, <2>2 DEF ReadyHonest, Badge, StoredShown
    <2>9. QED BY <1>0, <1>1, <2>1, <2>2, <2>4, <2>5, <2>6, <2>7, <2>8, OwnStep
  <1>6. CASE ReadSelected(c)
    <2> DEFINE r == [co[c] EXCEPT !.model = stored, !.pc = "choose"]
    <2>1. r.pc = "choose" /\ r.kind = co[c].kind /\ r.status = co[c].status
      BY <1>0, ChooseRecord, ZenonT(30) DEF Inv, UiTypeOK
    <2>2. co' = [co EXCEPT ![c] = r] BY <1>6 DEF ReadSelected
    <2> HIDE DEF r
    <2>3. /\ co[c].pc = "read" /\ co[c].status = "active" /\ co'[c].pc = "choose"
          /\ co'[c].kind = co[c].kind /\ co'[c].status = co[c].status
          /\ \A d \in Coroutines \ {c} : co'[d] = co[d]
      BY <1>0, <1>6, <2>1, <2>2 DEF ReadSelected, At, CosTyped
    <2>4. UNCHANGED <<call, contextPtr, jobRef, pendingThreads, threadsStored, nThreads,
                      loaded, progress>>
      BY <1>6 DEF ReadSelected, nativeVars, uiVars, storeVars
    <2>5. LoadShown(c)' BY <1>0, <1>1, <2>3, <2>4 DEF LoadShown, Downloading
    <2>6. JobShown(c)' BY <1>0, <2>3, <2>4 DEF JobShown, Downloading
    <2>7. ProgressShown' BY <1>1, <2>3, <2>4 DEF PatientInv, ProgressShown, Downloading
    <2>8. ThreadsShown'
      BY <1>1, <2>3, <2>4 DEF PatientInv, OneAtATime, Busy, ThreadsShown, Unsettled
    <2>9. ReadyHonest' /\ StoredShown' BY <1>1, <2>4 DEF ReadyHonest, Badge, StoredShown
    <2>10. QED BY <1>0, <1>1, <2>3, <2>4, <2>5, <2>6, <2>7, <2>8, <2>9, OwnStep
  <1>7. CASE ChooseModel(c)
    <2>1. /\ co[c].pc = "choose" /\ co[c].status = "active" /\ co[c].kind # "job"
          /\ jobRef # c /\ jobRef \notin Coroutines
      BY <1>0, <1>1, <1>7
         DEF ChooseModel, At, JobShown, Downloading, PatientInv, OneAtATime, Busy
    <2>2. /\ selected' = co[c].model /\ loaded' = FALSE /\ downloaded' = file[co[c].model]
          /\ UNCHANGED <<contextPtr, nThreads, threadsStored, pendingThreads>>
      BY <1>7 DEF ChooseModel, storeVars
    <2>3. ReadyHonest' /\ StoredShown' BY <2>2 DEF ReadyHonest, Badge, StoredShown
    <2>4. CASE /\ file[co[c].model]
               /\ Initialize(c, co[c].model, nThreads)
               /\ co' = [co EXCEPT ![c].pc = "init"]
               /\ UNCHANGED <<progress, jobRef>>
      <3>1. /\ co'[c].pc = "init" /\ co'[c].model = co[c].model
            /\ co'[c].kind = co[c].kind /\ co'[c].status = co[c].status
            /\ \A d \in Coroutines \ {c} : co'[d] = co[d]
        BY <1>0, <2>4, Moved DEF Stages
      <3>2. /\ call'[c].pc = "enter" /\ call'[c].model = co[c].model
            /\ \A d \in Calls \ {c} : call'[d] = call[d]
        BY <1>0, <2>4 DEF Initialize
      <3>3. LoadShown(c)' BY <2>2, <2>4, <3>1, <3>2 DEF LoadShown, InitStages
      <3>4. JobShown(c)' BY <2>1, <2>4, <3>1 DEF JobShown, Downloading
      <3>5. ProgressShown' BY <2>1, <2>4 DEF PatientInv, ProgressShown
      <3>6. ThreadsShown'
        BY <1>1, <2>1, <2>2, <3>1 DEF PatientInv, OneAtATime, Busy, ThreadsShown, Unsettled
      <3>7. QED BY <1>0, <1>1, <2>2, <2>3, <2>4, <3>1, <3>2, <3>3, <3>4, <3>5, <3>6, OwnStep
    <2>5. CASE StartDownload(c, co[c].model) /\ UNCHANGED call
      <3> DEFINE new == [Launched("download") EXCEPT !.model = co[c].model, !.kind = "job"]
      <3>1. /\ new.pc = "download" /\ new.model = co[c].model /\ new.kind = "job"
            /\ new.status = "active"
        BY DEF Launched, Idle
      <3>2. /\ co'[c] = new /\ progress' = TRUE /\ jobRef' = c
            /\ \A d \in Coroutines \ {c} : co'[d] = co[d]
        BY <2>1, <2>5 DEF StartDownload
      <3> HIDE DEF new
      <3>3. LoadShown(c)'
        BY <1>0, <2>1, <2>2, <2>5, <3>1, <3>2 DEF LoadShown, Downloading
      <3>4. JobShown(c)' BY <3>1, <3>2 DEF JobShown, Downloading
      <3>5. ProgressShown' BY <3>1, <3>2 DEF ProgressShown, Downloading
      <3>6. ThreadsShown'
        BY <1>1, <2>1, <2>2, <3>1, <3>2
           DEF PatientInv, OneAtATime, Busy, ThreadsShown, Unsettled
      <3>7. QED BY <1>0, <1>1, <2>2, <2>3, <2>5, <3>2, <3>3, <3>4, <3>5, <3>6, OwnStep
    <2>6. QED BY <1>7, <2>4, <2>5 DEF ChooseModel
  <1>8. CASE DownloadEnds(c)
    <2>1. PICK to \in {"downloaded", "failed"} : co' = [co EXCEPT ![c].pc = to]
      BY <1>8 DEF DownloadEnds
    <2>2. /\ co[c].pc = "download" /\ co'[c].pc = to
          /\ co'[c].kind = co[c].kind /\ co'[c].status = co[c].status
          /\ co'[c].model = co[c].model
          /\ \A d \in Coroutines \ {c} : co'[d] = co[d]
      BY <1>0, <1>8, <2>1, Moved DEF DownloadEnds, Stages, Downloading
    <2>3. UNCHANGED <<call, contextPtr, selected, jobRef, pendingThreads, threadsStored,
                      nThreads, loaded, progress>>
      BY <1>8 DEF DownloadEnds, nativeVars, uiVars, storeVars
    <2>4. LoadShown(c)' BY <1>0, <1>1, <2>2, <2>3 DEF LoadShown, Downloading
    <2>5. JobShown(c)' BY <1>0, <2>2, <2>3 DEF JobShown, Downloading
    <2>6. ProgressShown' BY <1>1, <2>2, <2>3 DEF PatientInv, ProgressShown, Downloading
    <2>7. ThreadsShown'
      BY <1>1, <2>2, <2>3 DEF PatientInv, OneAtATime, Busy, ThreadsShown, Unsettled
    <2>8. ReadyHonest' /\ StoredShown' BY <1>1, <2>3 DEF ReadyHonest, Badge, StoredShown
    <2>9. QED BY <1>0, <1>1, <2>2, <2>3, <2>4, <2>5, <2>6, <2>7, <2>8, OwnStep
  <1>9. CASE DownloadSucceeded(c)
    <2>1. /\ co[c].pc = "downloaded" /\ co[c].status = "active" /\ co'[c].pc = "init"
          /\ co'[c].kind = co[c].kind /\ co'[c].status = co[c].status
          /\ co'[c].model = co[c].model
          /\ \A d \in Coroutines \ {c} : co'[d] = co[d]
      BY <1>0, <1>9, Moved DEF DownloadSucceeded, Move, At, Stages
    <2>2. /\ call'[c].pc = "enter" /\ call'[c].model = co[c].model
          /\ \A d \in Calls \ {c} : call'[d] = call[d]
      BY <1>0, <1>9 DEF DownloadSucceeded, Initialize
    <2>3. /\ progress' = FALSE /\ downloaded' = TRUE
          /\ UNCHANGED <<contextPtr, selected, jobRef, pendingThreads, threadsStored,
                         nThreads, loaded>>
      BY <1>9 DEF DownloadSucceeded, storeVars
    <2>4. LoadShown(c)'
      BY <1>0, <1>1, <2>1, <2>2, <2>3 DEF LoadShown, InitStages, Downloading
    <2>5. JobShown(c)' BY <1>0, <2>1, <2>3 DEF JobShown, Downloading
    <2>6. ProgressShown' BY <2>3 DEF ProgressShown
    <2>7. ThreadsShown'
      BY <1>1, <2>1, <2>3 DEF PatientInv, OneAtATime, Busy, ThreadsShown, Unsettled
    <2>8. ReadyHonest' /\ StoredShown' BY <1>1, <2>3 DEF ReadyHonest, Badge, StoredShown
    <2>9. QED BY <1>0, <1>1, <2>1, <2>2, <2>3, <2>4, <2>5, <2>6, <2>7, <2>8, OwnStep
  <1>10. CASE DownloadFailed(c)
    <2>1. /\ co[c].pc = "failed" /\ End(c)
          /\ co'[c].pc = "idle" /\ co'[c].kind = "plain" /\ co'[c].status = "active"
          /\ \A d \in Coroutines \ {c} : co'[d] = co[d]
          /\ jobRef' = IF jobRef = c THEN "completed" ELSE jobRef
      BY <1>0, <1>10, Ended DEF DownloadFailed, At
    <2>2. /\ progress' = FALSE
          /\ UNCHANGED <<call, contextPtr, pendingThreads, threadsStored, nThreads, loaded>>
      BY <1>10 DEF DownloadFailed, nativeVars, storeVars
    <2>3. LoadShown(c)' BY <1>0, <2>1, <2>2 DEF LoadShown, Busy, Downloading
    <2>4. JobShown(c)' BY <2>1, NoneAssumption DEF JobShown, Downloading
    <2>5. ProgressShown' BY <2>2 DEF ProgressShown
    <2>6. ThreadsShown'
      BY <1>1, <2>1, <2>2 DEF PatientInv, OneAtATime, Busy, ThreadsShown, Unsettled
    <2>7. ReadyHonest' /\ StoredShown' BY <1>1, <2>2 DEF ReadyHonest, Badge, StoredShown
    <2>8. jobRef' \in {jobRef, c, "completed"} BY <2>1
    <2>9. QED BY <1>0, <1>1, <2>1, <2>2, <2>3, <2>4, <2>5, <2>6, <2>7, <2>8, OwnStep
  <1>11. CASE InitReturns(c)
    <2>1. /\ co[c].pc = "init" /\ co[c].status = "active"
          /\ co'[c].pc = "idle" /\ co'[c].kind = "plain" /\ co'[c].status = "active"
          /\ \A d \in Coroutines \ {c} : co'[d] = co[d]
          /\ jobRef' = IF jobRef = c THEN "completed" ELSE jobRef
      BY <1>0, <1>11, Ended DEF InitReturns, At
    <2>2. /\ call[c].pc = "done" /\ call'[c].pc = "idle"
          /\ \A d \in Calls \ {c} : call'[d] = call[d]
      BY <1>0, <1>11 DEF InitReturns, Reclaim, NoCall
    <2>3. /\ loaded' = (call[c].result = "success")
          /\ UNCHANGED <<contextPtr, selected, downloaded, pendingThreads, threadsStored, nThreads,
                         progress>>
      BY <1>11 DEF InitReturns, storeVars
    <2>4. LoadShown(c)' BY <2>1, <2>2 DEF LoadShown, Busy, Downloading
    <2>5. JobShown(c)' BY <2>1, NoneAssumption DEF JobShown, Downloading
    <2>6. ProgressShown'
      BY <2>1, <2>3, NoneAssumption DEF PatientInv, ProgressShown, Downloading
    <2>7. ThreadsShown'
      BY <1>1, <2>1, <2>3 DEF PatientInv, OneAtATime, Busy, ThreadsShown, Unsettled
    <2>8. ReadyHonest' /\ StoredShown'
      <3>1. loaded' => contextPtr = selected /\ downloaded
        BY <1>0, <2>1, <2>2, <2>3 DEF LoadShown
      <3>2. QED BY <2>3, <3>1 DEF ReadyHonest, Badge, StoredShown
    <2>9. jobRef' \in {jobRef, c, "completed"} BY <2>1
    <2>10. QED BY <1>0, <1>1, <2>1, <2>2, <2>3, <2>4, <2>5, <2>6, <2>7, <2>8, <2>9, OwnStep
  <1>12. CASE CancelledEnds(c)
    <2>1. /\ co[c].status # "active" /\ co[c].pc \notin {"download", "store", "fix"}
          /\ co[c].pc \in Downloading \cup {"init"} /\ jobRef = None
          /\ co'[c].pc = "idle" /\ co'[c].kind = "plain" /\ co'[c].status = "active"
          /\ \A d \in Coroutines \ {c} : co'[d] = co[d]
          /\ jobRef' = None
      BY <1>0, <1>12, Ended, NoneAssumption DEF CancelledEnds, JobShown, Downloading
    <2>2. /\ call'[c].pc = "idle" /\ \A d \in Calls \ {c} : call'[d] = call[d]
      BY <1>0, <1>12 DEF CancelledEnds, Reclaim, NoCall, LoadShown
    <2>3. UNCHANGED <<contextPtr, pendingThreads, threadsStored, nThreads, loaded, progress>>
      BY <1>12, <2>1 DEF CancelledEnds, uiVars
    <2>4. LoadShown(c)' BY <2>1, <2>2 DEF LoadShown, Busy, Downloading
    <2>5. JobShown(c)' BY <2>1, NoneAssumption DEF JobShown, Downloading
    <2>6. ProgressShown' BY <2>1 DEF ProgressShown
    <2>7. ThreadsShown'
      BY <1>1, <2>1, <2>3 DEF PatientInv, OneAtATime, Busy, ThreadsShown, Unsettled, Downloading
    <2>8. ReadyHonest' /\ StoredShown' BY <1>1, <2>3 DEF ReadyHonest, Badge, StoredShown
    <2>9. QED BY <1>0, <1>1, <2>1, <2>2, <2>3, <2>4, <2>5, <2>6, <2>7, <2>8, OwnStep
  <1>13. CASE Progress(c)
    <2>1. /\ co[c].pc = "download" /\ progress' = TRUE
          /\ UNCHANGED <<call, contextPtr, selected, loaded, nThreads, jobRef, co,
                         threadsStored, pendingThreads>>
      BY <1>13 DEF Progress, nativeVars, storeVars
    <2>2. jobRef = c \/ jobRef = None
      BY <1>0, <2>1 DEF JobShown, Downloading, Inv, CoInv, JobOwned
    <2>3. ProgressShown' BY <2>1, <2>2 DEF ProgressShown, Downloading
    <2>4. LoadShown(c)' /\ JobShown(c)' BY <1>0, <2>1 DEF LoadShown, JobShown, Busy
    <2>5. ThreadsShown' BY <2>1 DEF PatientInv, ThreadsShown, Unsettled
    <2>6. ReadyHonest' /\ StoredShown' BY <1>1, <2>1 DEF ReadyHonest, Badge, StoredShown
    <2>7. QED BY <1>0, <1>1, <2>1, <2>3, <2>4, <2>5, <2>6, OwnStep
  <1>14. QED
    BY <1>2, <1>3, <1>4, <1>5, <1>6, <1>7, <1>8, <1>9, <1>10, <1>11, <1>12, <1>13
       DEF CoroutineStep

\* Nothing is under way, so no download job is alive and nothing is shown of one.
LEMMA QuietFacts ==
  ASSUME Inv, PatientInv, Quiet
  PROVE  /\ \A c \in Coroutines : co[c].pc = "idle" /\ co[c].kind = "plain"
                                  /\ co[c].status = "active" /\ jobRef # c
         /\ call[File].pc = "idle" /\ nThreads = threadsStored
         /\ progress => jobRef = None
  <1>1. \A c \in Coroutines : co[c].pc = "idle" /\ co[c] \in Coroutine
    BY DEF Quiet, Inv, CoInv, CosTyped
  <1>2. \A c \in Coroutines : co[c].kind # "job" /\ co[c].status = "active" /\ jobRef # c
    BY <1>1 DEF PatientInv, JobShown, Downloading
  <1>3. \A c \in Coroutines : co[c].kind = "plain" /\ co[c].status = "active"
    BY <1>1, <1>2 DEF Coroutine
  <1>4. nThreads = threadsStored
    BY <1>1 DEF Quiet, PatientInv, ThreadsShown, Unsettled
  <1>5. QED
    BY <1>1, <1>2, <1>3, <1>4, CallsAssumption DEF Quiet, PatientInv, ProgressShown

\* A request that starts coroutine c when nothing else is under way.
LEMMA Launching ==
  ASSUME Inv, PatientInv, Quiet, NEW c \in Coroutines, UNCHANGED <<call, contextPtr, pendingThreads>>,
         \A d \in Coroutines \ {c} : co'[d] = co[d], co'[c].pc # "init",
         co'[c].pc \in Downloading => co'[c].model = selected' /\ co'[c].kind = "job",
         co'[c].kind = "job" => co'[c].pc \in Downloading,
         co'[c].status = "active", jobRef' = c => co'[c].kind = "job",
         co'[c].pc # "apply", jobRef' \in {jobRef, c, None}, loaded' = FALSE, ProgressShown',
         (nThreads' = nThreads /\ threadsStored' = threadsStored) \/ Unsettled(c)'
  PROVE  PatientInv'
  <1>1. /\ \A d \in Coroutines : co[d].pc = "idle" /\ co[d].kind = "plain"
                                 /\ co[d].status = "active" /\ jobRef # d
        /\ call[File].pc = "idle" /\ nThreads = threadsStored /\ pendingThreads = None
    BY QuietFacts DEF Quiet
  <1>2. Coroutines \subseteq Calls /\ \A d \in Coroutines : call[d].pc = "idle"
    BY CallsAssumption DEF Quiet
  <1>3. OneAtATime' BY <1>1 DEF OneAtATime, Busy
  <1>4. FileInv' /\ ReadyHonest' /\ StoredShown' BY <1>1 DEF FileInv, ReadyHonest, Badge, StoredShown
  <1>5. ThreadsShown' BY <1>1 DEF ThreadsShown
  <1>6. \A d \in Coroutines : LoadShown(d)'
    BY <1>1, <1>2 DEF LoadShown, Downloading
  <1>7. \A d \in Coroutines : JobShown(d)'
    BY <1>1, NoneAssumption DEF JobShown, Downloading
  <1>8. QED BY <1>3, <1>4, <1>5, <1>6, <1>7 DEF PatientInv

LEMMA PatientUser ==
  ASSUME Inv, PatientInv, Quiet, User
  PROVE  PatientInv'
  <1>0. /\ \A c \in Coroutines : co[c].pc = "idle" /\ co[c].kind = "plain"
                                 /\ co[c].status = "active" /\ jobRef # c
        /\ call[File].pc = "idle" /\ nThreads = threadsStored /\ pendingThreads = None
        /\ progress => jobRef = None
        /\ File \in Calls /\ File \notin Coroutines /\ CosTyped
        /\ call \in [Calls -> CallRecord]
    BY QuietFacts, CallsAssumption DEF Quiet, Inv, CoInv, NativeTypeOK
  <1>1. ASSUME NEW m \in Models, SelectModel(m) PROVE PatientInv'
    <2>1. PICK c \in Coroutines : co' = [co EXCEPT ![c] = [Launched("store") EXCEPT !.model = m]]
      BY <1>1 DEF SelectModel
    <2> DEFINE r == [Launched("store") EXCEPT !.model = m]
    <2>2. r.pc = "store" /\ r.kind = "plain" /\ r.status = "active" BY DEF Launched, Idle
    <2>3. co'[c] = r /\ \A d \in Coroutines \ {c} : co'[d] = co[d]
      BY <1>0, <2>1 DEF CosTyped
    <2> HIDE DEF r
    <2>4. /\ loaded' = FALSE /\ progress' = FALSE
          /\ UNCHANGED <<call, contextPtr, pendingThreads, nThreads, threadsStored, jobRef>>
      BY <1>1 DEF SelectModel, nativeVars, storeVars
    <2>5. QED BY <1>0, <2>2, <2>3, <2>4, Launching DEF Downloading, ProgressShown
  <1>2. CASE DownloadButton
    <2>1. PICK c \in Coroutines : StartDownload(c, selected) BY <1>2 DEF DownloadButton
    <2> DEFINE r == [Launched("download") EXCEPT !.model = selected, !.kind = "job"]
    <2>2. /\ r.pc = "download" /\ r.kind = "job" /\ r.status = "active"
          /\ r.model = selected
      BY DEF Launched, Idle
    <2>3. /\ co'[c] = r /\ progress' = TRUE /\ jobRef' = c
          /\ \A d \in Coroutines \ {c} : co'[d] = co[d]
      BY <1>0, <2>1 DEF StartDownload
    <2> HIDE DEF r
    <2>4. /\ loaded' = FALSE
          /\ UNCHANGED <<call, contextPtr, pendingThreads, nThreads, threadsStored, selected>>
      BY <1>2 DEF DownloadButton, nativeVars, storeVars, Inv, UiTypeOK, PatientInv, StoredShown
    <2>5. ProgressShown' BY <2>2, <2>3 DEF ProgressShown, Downloading
    <2>6. QED BY <2>2, <2>3, <2>4, <2>5, Launching DEF Downloading
  <1>3. ASSUME NEW n \in Threads, SetThreads(n) PROVE PatientInv'
    <2>1. /\ nThreads' = n /\ pendingThreads' = n /\ n # None
          /\ UNCHANGED <<call, contextPtr, selected, loaded, downloaded, progress, jobRef, co,
                         threadsStored>>
      BY <1>3, NoneAssumption DEF SetThreads, nativeVars
    <2>2. OneAtATime' BY <1>0, <2>1 DEF OneAtATime, Busy
    <2>3. ThreadsShown' BY <1>0, <2>1 DEF ThreadsShown
    <2>4. \A c \in Coroutines : LoadShown(c)' /\ JobShown(c)'
      BY <2>1 DEF PatientInv, LoadShown, JobShown, Busy
    <2>5. ReadyHonest' /\ StoredShown' /\ ProgressShown' /\ FileInv'
      BY <2>1 DEF PatientInv, ReadyHonest, Badge, StoredShown, ProgressShown, FileInv
    <2>6. QED BY <2>2, <2>3, <2>4, <2>5 DEF PatientInv
  <1>4. CASE Recreate
    <2>1. PICK c \in Coroutines :
            co' = [d \in Coroutines |->
                     IF d = c THEN Launched("prefs")
                     ELSE IF co[d].pc = "idle" THEN co[d]
                     ELSE [co[d] EXCEPT !.status = "cleared"]]
      BY <1>4 DEF Recreate
    <2>2. /\ co'[c].pc = "prefs" /\ co'[c].kind = "plain" /\ co'[c].status = "active"
          /\ \A d \in Coroutines \ {c} : co'[d] = co[d]
      BY <1>0, <2>1 DEF Launched, Idle
    <2>3. /\ loaded' = FALSE /\ progress' = FALSE /\ jobRef' = None
          /\ UNCHANGED <<call, contextPtr, pendingThreads>>
      BY <1>4 DEF Recreate, nativeVars, storeVars
    <2>4. ProgressShown' /\ Unsettled(c)' /\ jobRef' # c
      BY <2>2, <2>3, NoneAssumption DEF ProgressShown, Unsettled
    <2>5. QED BY <2>2, <2>3, <2>4, Launching DEF Downloading
  <1>5. CASE TranscribeFile
    <2>1. /\ UNCHANGED <<contextPtr, selected, loaded, downloaded, progress, nThreads, jobRef, co,
                         threadsStored, pendingThreads>>
          /\ call' = [call EXCEPT ![File].pc = "guard"]
      BY <1>5 DEF TranscribeFile, Transcribe, uiVars, storeVars
    <2>2. call'[File].pc = "guard" /\ \A c \in Coroutines : call'[c] = call[c]
      BY <1>0, <2>1, CallsAssumption DEF CallRecord
    <2>3. OneAtATime' BY <1>0, <2>1 DEF OneAtATime, Busy
    <2>4. FileInv' BY <2>2 DEF FileInv, DecodeStages
    <2>5. ASSUME NEW c \in Coroutines PROVE LoadShown(c)' /\ JobShown(c)'
      <3>1. LoadShown(c) /\ JobShown(c) /\ call'[c] = call[c] BY <2>2 DEF PatientInv
      <3>2. UNCHANGED <<contextPtr, selected, loaded, downloaded, co>> BY <2>1
      <3>3. LoadShown(c)' BY <3>1, <3>2 DEF LoadShown, Busy
      <3>4. JobShown(c)' BY <2>1, <3>1 DEF JobShown
      <3>5. QED BY <3>3, <3>4
    <2>6. ReadyHonest' /\ StoredShown' /\ ProgressShown' /\ ThreadsShown'
      BY <2>1 DEF PatientInv, ReadyHonest, Badge, StoredShown, ProgressShown, ThreadsShown, Unsettled
    <2>7. QED BY <2>3, <2>4, <2>5, <2>6 DEF PatientInv
  <1>6. CASE ManageModels
    <2>1. UNCHANGED <<call, contextPtr, selected, loaded, downloaded, progress, nThreads, jobRef, co,
                      threadsStored, pendingThreads>>
      BY <1>6 DEF ManageModels, nativeVars, uiVars
    <2>2. \A c \in Coroutines : LoadShown(c)' /\ JobShown(c)'
      BY <2>1 DEF PatientInv, LoadShown, JobShown, Busy
    <2>3. OneAtATime' /\ FileInv'
      BY <2>1 DEF PatientInv, OneAtATime, Busy, FileInv
    <2>4. ReadyHonest' /\ StoredShown' /\ ProgressShown' /\ ThreadsShown'
      BY <2>1 DEF PatientInv, ReadyHonest, Badge, StoredShown, ProgressShown, ThreadsShown, Unsettled
    <2>5. QED BY <2>2, <2>3, <2>4 DEF PatientInv
  <1>7. QED BY <1>1, <1>2, <1>3, <1>4, <1>5, <1>6 DEF User

\* The steps that neither begin nor end anything but what the user waits for.
LEMMA PatientOther ==
  ASSUME Inv, PatientInv, CancelDownload \/ StoreThreads \/ FileTranscribed \/ UNCHANGED vars
  PROVE  PatientInv'
  <1>0. CosTyped /\ File \in Calls /\ File \notin Coroutines /\ Coroutines \subseteq Calls
          /\ call \in [Calls -> CallRecord]
    BY CallsAssumption DEF Inv, CoInv, NativeTypeOK
  <1>1. CASE CancelDownload
    <2>1. /\ jobRef # None /\ jobRef' = None
          /\ UNCHANGED <<call, contextPtr, selected, loaded, downloaded, progress, nThreads,
                         threadsStored, pendingThreads>>
      BY <1>1 DEF CancelDownload, nativeVars, uiVars, storeVars
    <2>2. \A c \in Coroutines :
            /\ co'[c].pc = co[c].pc /\ co'[c].model = co[c].model /\ co'[c].kind = co[c].kind
            /\ co'[c].threads = co[c].threads
            /\ co'[c].status = IF c = jobRef THEN "cancelled" ELSE co[c].status
      <3>1. ASSUME NEW r \in Coroutine
            PROVE  LET s == [r EXCEPT !.status = "cancelled"]
                   IN s.pc = r.pc /\ s.model = r.model /\ s.kind = r.kind
                      /\ s.threads = r.threads /\ s.status = "cancelled"
        BY Zenon DEF Coroutine
      <3>2. ASSUME NEW c \in Coroutines
            PROVE  /\ co[c] \in Coroutine
                   /\ co'[c] = IF c = jobRef THEN [co[c] EXCEPT !.status = "cancelled"] ELSE co[c]
        BY <1>0, <1>1 DEF CancelDownload, CosTyped
      <3>3. QED BY <3>1, <3>2, ZenonT(30)
    <2>3. ASSUME NEW c \in Coroutines PROVE LoadShown(c)' /\ JobShown(c)'
      <3>1. LoadShown(c)' BY <2>1, <2>2 DEF PatientInv, LoadShown, Busy
      <3>2. JobShown(c)' BY <2>1, <2>2, NoneAssumption DEF PatientInv, JobShown
      <3>3. QED BY <3>1, <3>2
    <2>4. OneAtATime' /\ FileInv'
      BY <2>1, <2>2 DEF PatientInv, OneAtATime, Busy, FileInv
    <2>5. ReadyHonest' /\ StoredShown' BY <2>1 DEF PatientInv, ReadyHonest, Badge, StoredShown
    <2>6. ProgressShown' BY <2>1 DEF ProgressShown
    <2>7. ThreadsShown' BY <2>1, <2>2 DEF PatientInv, ThreadsShown, Unsettled
    <2>8. QED BY <2>3, <2>4, <2>5, <2>6, <2>7 DEF PatientInv
  <1>2. CASE StoreThreads
    <2>1. /\ pendingThreads # None /\ pendingThreads' = None
          /\ threadsStored' = nThreads
          /\ UNCHANGED <<call, contextPtr, selected, loaded, downloaded, progress, nThreads, jobRef, co>>
      BY <1>2 DEF StoreThreads, nativeVars, uiVars, PatientInv, ThreadsShown
    <2>2. \A c \in Coroutines : co[c].pc = "idle"
      BY <2>1 DEF PatientInv, OneAtATime, Busy
    <2>3. \A c \in Coroutines : LoadShown(c)' /\ JobShown(c)'
      BY <2>1 DEF PatientInv, LoadShown, JobShown, Busy
    <2>4. OneAtATime' /\ FileInv' /\ ThreadsShown'
      BY <2>1, <2>2 DEF PatientInv, OneAtATime, Busy, FileInv, ThreadsShown
    <2>5. ReadyHonest' /\ StoredShown' /\ ProgressShown'
      BY <2>1 DEF PatientInv, ReadyHonest, Badge, StoredShown, ProgressShown
    <2>6. QED BY <2>3, <2>4, <2>5 DEF PatientInv
  <1>3. CASE FileTranscribed
    <2>1. /\ UNCHANGED <<contextPtr, selected, loaded, downloaded, progress, nThreads, jobRef, co,
                         threadsStored, pendingThreads>>
          /\ call[File].pc = "done" /\ call' = [call EXCEPT ![File] = NoCall]
      BY <1>3 DEF FileTranscribed, Reclaim, uiVars, storeVars
    <2>2. call'[File].pc = "idle" /\ \A c \in Coroutines : call'[c] = call[c]
      BY <1>0, <2>1 DEF NoCall
    <2>3. OneAtATime' BY <2>1, <2>2 DEF PatientInv, OneAtATime, Busy
    <2>4. FileInv' BY <2>2 DEF FileInv
    <2>5. \A c \in Coroutines : LoadShown(c)' /\ JobShown(c)'
      BY <2>1, <2>2 DEF PatientInv, LoadShown, JobShown, Busy
    <2>6. ReadyHonest' /\ StoredShown' /\ ProgressShown' /\ ThreadsShown'
      BY <2>1 DEF PatientInv, ReadyHonest, Badge, StoredShown, ProgressShown, ThreadsShown, Unsettled
    <2>7. QED BY <2>3, <2>4, <2>5, <2>6 DEF PatientInv
  <1>4. CASE UNCHANGED vars
    <2>1. \A c \in Coroutines : LoadShown(c)' /\ JobShown(c)'
      BY <1>4 DEF vars, PatientInv, LoadShown, JobShown, Busy
    <2>2. OneAtATime' /\ FileInv' /\ ReadyHonest' /\ StoredShown'
      BY <1>4 DEF vars, PatientInv, OneAtATime, Busy, FileInv, ReadyHonest, Badge, StoredShown
    <2>3. ProgressShown' /\ ThreadsShown'
      BY <1>4 DEF vars, PatientInv, ProgressShown, ThreadsShown, Unsettled
    <2>4. QED BY <2>1, <2>2, <2>3 DEF PatientInv
  <1>5. QED BY <1>1, <1>2, <1>3, <1>4

\* While the user waits, both invariants hold.
THEOREM PatientInvariance == PatientSpec => [](Inv /\ PatientInv)
  <1>1. Inv /\ [PatientNext]_vars => Inv'
    BY UserStep, SystemStepInv DEF PatientNext
  <1>2. Inv /\ PatientInv /\ [PatientNext]_vars => PatientInv'
    BY PatientNative, PatientCoroutine, PatientUser, PatientOther DEF PatientNext, System
  <1>3. QED BY TypeInit, PatientInit, <1>1, <1>2, PTL DEF PatientSpec

\* "Ready" is shown of the model whose weights are loaded, for any number of
\* models, as long as the user waits for what is under way.
THEOREM PatientReady == PatientSpec => []ReadyHonest
  <1>1. PatientInv => ReadyHonest BY DEF PatientInv
  <1>2. QED BY PatientInvariance, <1>1, PTL

\* "Downloading" is shown while the job is alive that will clear it, or after a
\* cancellation.
THEOREM PatientDownloading == PatientSpec => []DownloadingHonest
  <1>1. PatientInv => DownloadingHonest
    BY DEF PatientInv, ProgressShown, DownloadingHonest, Badge
  <1>2. QED BY PatientInvariance, <1>1, PTL

\* The thread count shown is the one stored once nothing is under way.
THEOREM PatientPreferences == PatientSpec => []PreferencesAgree
  <1>1. Inv /\ PatientInv => PreferencesAgree BY QuietFacts DEF PreferencesAgree
  <1>2. QED BY PatientInvariance, <1>1, PTL
===============================================================================
