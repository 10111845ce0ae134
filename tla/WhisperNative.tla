---------------------------- MODULE WhisperNative -----------------------------
(***************************************************************************)
(* The native context shared by every caller of WhisperNative.initialize   *)
(* and WhisperNative.transcribe (WhisperNative.kt, whisper_jni.cpp).  Both *)
(* run on the IO dispatcher without a lock: the field contextPtr and the   *)
(* C++ global g_n_threads are read and written by any number of calls.     *)
(* A context is known by the model it was loaded from.                     *)
(***************************************************************************)
EXTENDS Integers

CONSTANTS Calls,          \* calls that may be in progress at a time
          Models,         \* the models of enum WhisperModel
          Threads,        \* thread counts the user can configure
          NoContext       \* the null pointer

ASSUME NoContextAssumption == NoContext \notin Models
ASSUME ThreadsAssumption == Threads \subseteq Nat \ {0}

VARIABLES contextPtr,     \* WhisperNative.contextPtr
          gThreads,       \* whisper_jni.cpp's g_n_threads
          call            \* progress of each call into the native layer

nativeVars == <<contextPtr, gThreads, call>>

InitStages == {"enter", "load", "check"}
DecodeStages == {"guard", "fetch", "decode"}

CallRecord == [pc : {"idle", "done"} \cup InitStages \cup DecodeStages,
               model : Models \cup {NoContext},    \* file to load, context decoded with
               threads : Threads \cup {4, 0},      \* thread count asked for, or used
               result : {"none", "success", "failure"}]

NativeTypeOK ==
  /\ contextPtr \in Models \cup {NoContext}
  /\ gThreads \in Threads \cup {4}
  /\ call \in [Calls -> CallRecord]

NoCall == [pc |-> "idle", model |-> NoContext, threads |-> 0, result |-> "none"]

NativeInit ==
  /\ contextPtr = NoContext
  /\ gThreads = 4
  /\ call = [c \in Calls |-> NoCall]

\* initialize(path of m, n) and transcribe(...), called by c.
Initialize(c, m, n) ==
  /\ call[c].pc = "idle"
  /\ call' = [call EXCEPT ![c] = [pc |-> "enter", model |-> m, threads |-> n, result |-> "none"]]

Transcribe(c) ==
  /\ call[c].pc = "idle"
  /\ call' = [call EXCEPT ![c].pc = "guard"]

Advance(c, from, to) ==
  /\ call[c].pc = from
  /\ call' = [call EXCEPT ![c].pc = to]

Complete(c, from, result) ==
  /\ call[c].pc = from
  /\ call' = [call EXCEPT ![c] = [@ EXCEPT !.pc = "done", !.result = result]]

\* initContext sets the thread count of every context before it opens the file.
EnterInit(c) ==
  /\ Advance(c, "enter", "load")
  /\ gThreads' = call[c].threads
  /\ UNCHANGED contextPtr

\* The new pointer replaces the old one, null if the file could not be loaded;
\* the old context is not released.
LoadContext(c, loads) ==
  /\ Advance(c, "load", "check")
  /\ contextPtr' = IF loads THEN call[c].model ELSE NoContext
  /\ UNCHANGED gThreads

\* The result is decided by reading the shared field again.
CheckInit(c) ==
  /\ Complete(c, "check", IF contextPtr # NoContext THEN "success" ELSE "failure")
  /\ UNCHANGED <<contextPtr, gThreads>>

\* transcribe tests the field, and reads it once more to pass it on: it may have
\* become null, or another model's, since.
GuardContext(c) ==
  /\ \/ contextPtr = NoContext /\ Complete(c, "guard", "failure")
     \/ contextPtr # NoContext /\ Advance(c, "guard", "fetch")
  /\ UNCHANGED <<contextPtr, gThreads>>

FetchContext(c) ==
  /\ call[c].pc = "fetch"
  /\ call' = [call EXCEPT ![c] = [@ EXCEPT !.pc = "decode", !.model = contextPtr,
                                           !.threads = gThreads]]
  /\ UNCHANGED <<contextPtr, gThreads>>

\* A failing whisper_full is reported as the empty text: always a success.
Decode(c) ==
  /\ Complete(c, "decode", "success")
  /\ UNCHANGED <<contextPtr, gThreads>>

NativeStep(c, loads) ==
  \/ EnterInit(c) \/ LoadContext(c, loads) \/ CheckInit(c)
  \/ GuardContext(c) \/ FetchContext(c) \/ Decode(c)

Reclaim(c) ==
  /\ call[c].pc = "done"
  /\ call' = [call EXCEPT ![c] = NoCall]
===============================================================================
