----------------------------- MODULE ModelManager -----------------------------
(***************************************************************************)
(* The download of one model file (ModelManager.kt) on the file system it  *)
(* shares with every other caller of downloadModel for the same model.     *)
(*                                                                         *)
(* The file system is modelled by inodes: tmp and out are the inodes the   *)
(* paths "<fileName>.part" and "<fileName>" name, and blocks[i] is the set *)
(* of body chunks written to inode i.  An open sink keeps writing to its   *)
(* inode whatever happens to the path it was opened by.                    *)
(***************************************************************************)
EXTENDS Integers, FiniteSets

CONSTANTS Downloaders,    \* callers of downloadModel for this model
          Inodes,         \* inodes the file system may hand out
          Size,           \* number of chunks in the response body
          None            \* no inode

ASSUME SizeAssumption == Size \in Nat \ {0}
ASSUME NoneAssumption == None \notin Inodes

VARIABLES tmp,            \* inode named by the .part path, or None
          out,            \* inode named by the final path, or None
          blocks,         \* blocks[i]: chunks on disk in inode i
          pc,             \* where each downloader is in downloadModel
          fd,             \* inode each downloader's sink writes to, or None
          got,            \* chunks each downloader has read from the body
          cancelled,      \* whether the calling coroutine's job was cancelled
          result          \* pending, and once idle returned, result of the call

files == <<tmp, out, blocks>>
locals == <<pc, fd, got, cancelled, result>>
vars == <<tmp, out, blocks, pc, fd, got, cancelled, result>>

Chunks == 1..Size
Streaming == {"check", "read", "close", "unwind"}      \* the sink is open
Stages == {"idle", "request", "clean", "open"} \cup Streaming
            \cup {"replace", "rename", "cleanup", "return"}
Results == {"none", "success", "failure", "cancelled"}

TypeOK ==
  /\ tmp \in Inodes \cup {None}
  /\ out \in Inodes \cup {None}
  /\ blocks \in [Inodes -> SUBSET Chunks]
  /\ pc \in [Downloaders -> Stages]
  /\ fd \in [Downloaders -> Inodes \cup {None}]
  /\ \A d \in Downloaders : pc[d] \in Streaming => fd[d] \in Inodes
  /\ got \in [Downloaders -> 0..Size]
  /\ cancelled \in [Downloaders -> BOOLEAN]
  /\ result \in [Downloaders -> Results]

Init ==
  /\ tmp = None
  /\ out = None
  /\ blocks = [i \in Inodes |-> {}]
  /\ pc = [d \in Downloaders |-> "idle"]
  /\ fd = [d \in Downloaders |-> None]
  /\ got = [d \in Downloaders |-> 0]
  /\ cancelled = [d \in Downloaders |-> FALSE]
  /\ result = [d \in Downloaders |-> "none"]

-------------------------------------------------------------------------------
Goto(d, from, to) ==
  /\ pc[d] = from
  /\ pc' = [pc EXCEPT ![d] = to]

\* The call ends with result r, still to be delivered to the caller.
Finish(d, from, r) ==
  /\ Goto(d, from, "return")
  /\ result' = [result EXCEPT ![d] = r]

InUse == {tmp, out} \cup {fd[d] : d \in Downloaders}

\* The chunk read last is still in the sink's buffer: it reaches the file
\* when the next one is written or the sink is closed.
Flush(d) == blocks' = [blocks EXCEPT ![fd[d]] = @ \cup ({got[d]} \cap Chunks)]

-------------------------------------------------------------------------------
(***************************************************************************)
(* Plausible bugs, each substituted for the action of like name to show    *)
(* that the properties below depend on what the code does.                 *)
(***************************************************************************)

\* Reads on at end of stream instead of breaking out of the loop.
ReadEof_NoBreak(d) ==
  /\ got[d] = Size
  /\ Goto(d, "read", "check")
  /\ UNCHANGED <<tmp, out, blocks, fd, got, cancelled, result>>

\* Counts a chunk the body no longer had.
ReadChunk_PastEof(d) ==
  /\ Goto(d, "read", "check")
  /\ Flush(d)
  /\ got' = [got EXCEPT ![d] = @ + 1]
  /\ UNCHANGED <<tmp, out, fd, cancelled, result>>

\* Leaves the loop on cancellation as if the stream had ended.
CheckActive_Break(d) ==
  /\ Goto(d, "check", IF cancelled[d] THEN "close" ELSE "read")
  /\ UNCHANGED <<tmp, out, blocks, fd, got, cancelled, result>>

\* Streams straight into the final path when a model is already there.
OpenSink_Final(d) ==
  /\ Goto(d, "open", "check")
  /\ \E i \in IF out = None THEN Inodes \ InUse ELSE {out} :
       /\ out' = out
       /\ tmp' = i
       /\ fd' = [fd EXCEPT ![d] = i]
       /\ blocks' = [blocks EXCEPT ![i] = {}]
  /\ got' = [got EXCEPT ![d] = 0]
  /\ UNCHANGED <<cancelled, result>>

\* Never closes the sink, so what is in its buffer does not reach the file.
CloseSink_Missing(d) ==
  /\ \/ Goto(d, "close", "replace") /\ UNCHANGED <<blocks, fd, got>>
     \/ Goto(d, "unwind", "cleanup") /\ UNCHANGED <<blocks, fd, got>>
  /\ UNCHANGED <<tmp, out, cancelled, result>>

\* Publishes by a hard link and leaves the .part name behind.
RenameTmp_Link(d) ==
  /\ tmp # None
  /\ Finish(d, "rename", "success")
  /\ out' = tmp
  /\ UNCHANGED <<tmp, blocks, fd, got, cancelled>>

\* Ignores the result of renameTo.
RenameRefused_Ignored(d) ==
  /\ Finish(d, "rename", "success")
  /\ UNCHANGED <<tmp, out, blocks, fd, got, cancelled>>

-------------------------------------------------------------------------------
\* A caller starts downloadModel.
Begin(d) ==
  /\ Goto(d, "idle", "request")
  /\ result' = [result EXCEPT ![d] = "none"]
  /\ UNCHANGED <<tmp, out, blocks, fd, got, cancelled>>

\* withContext does not run its block when the job is cancelled before the
\* dispatcher picks it up.
NeverDispatched(d) ==
  /\ cancelled[d]
  /\ Finish(d, "request", "failure")
  /\ UNCHANGED <<tmp, out, blocks, fd, got, cancelled>>

\* HTTP error or empty body: return at once, without touching any file.
RequestRefused(d) ==
  /\ Finish(d, "request", "failure")
  /\ UNCHANGED <<tmp, out, blocks, fd, got, cancelled>>

RequestThrows(d) ==
  /\ Goto(d, "request", "cleanup")
  /\ UNCHANGED <<tmp, out, blocks, fd, got, cancelled, result>>

RequestAnswered(d) ==
  /\ Goto(d, "request", "clean")
  /\ UNCHANGED <<tmp, out, blocks, fd, got, cancelled, result>>

CleanTmp(d) ==
  /\ Goto(d, "clean", "open")
  /\ tmp' = None
  /\ UNCHANGED <<out, blocks, fd, got, cancelled, result>>

\* tmpFile.sink(): create the file, or truncate the one another caller made.
OpenSink(d) ==
  /\ Goto(d, "open", "check")
  /\ \E i \in IF tmp = None THEN Inodes \ InUse ELSE {tmp} :
       /\ tmp' = i
       /\ fd' = [fd EXCEPT ![d] = i]
       /\ blocks' = [blocks EXCEPT ![i] = {}]
  /\ got' = [got EXCEPT ![d] = 0]
  /\ UNCHANGED <<out, cancelled, result>>

OpenThrows(d) ==
  /\ Goto(d, "open", "cleanup")
  /\ UNCHANGED <<tmp, out, blocks, fd, got, cancelled, result>>

\* coroutineContext.isActive, tested before each read only.
CheckActive(d) ==
  /\ Goto(d, "check", IF cancelled[d] THEN "unwind" ELSE "read")
  /\ UNCHANGED <<tmp, out, blocks, fd, got, cancelled, result>>

ReadChunk(d) ==
  /\ got[d] < Size
  /\ Goto(d, "read", "check")
  /\ Flush(d)
  /\ got' = [got EXCEPT ![d] = @ + 1]
  /\ UNCHANGED <<tmp, out, fd, cancelled, result>>

ReadEof(d) ==
  /\ got[d] = Size
  /\ Goto(d, "read", "close")
  /\ UNCHANGED <<tmp, out, blocks, fd, got, cancelled, result>>

ReadThrows(d) ==
  /\ Goto(d, "read", "unwind")
  /\ UNCHANGED <<tmp, out, blocks, fd, got, cancelled, result>>

\* The finally block, after end of stream and after an exception.
CloseSink(d) ==
  /\ \/ Goto(d, "close", "replace")
     \/ Goto(d, "unwind", "cleanup")
  /\ Flush(d)
  /\ fd' = [fd EXCEPT ![d] = None]
  /\ got' = [got EXCEPT ![d] = 0]
  /\ UNCHANGED <<tmp, out, cancelled, result>>

CloseThrows(d) ==
  /\ \/ Goto(d, "close", "cleanup")
     \/ Goto(d, "unwind", "cleanup")
  /\ fd' = [fd EXCEPT ![d] = None]
  /\ got' = [got EXCEPT ![d] = 0]
  /\ UNCHANGED <<tmp, out, blocks, cancelled, result>>

DeleteOut(d) ==
  /\ Goto(d, "replace", "rename")
  /\ out' = None
  /\ UNCHANGED <<tmp, blocks, fd, got, cancelled, result>>

RenameTmp(d) ==
  /\ tmp # None
  /\ Finish(d, "rename", "success")
  /\ out' = tmp
  /\ tmp' = None
  /\ UNCHANGED <<blocks, fd, got, cancelled>>

\* The .part path is gone, or the file system refuses: the .part file stays.
RenameRefused(d) ==
  /\ Finish(d, "rename", "failure")
  /\ UNCHANGED <<tmp, out, blocks, fd, got, cancelled>>

\* Both catch blocks.
CatchDelete(d) ==
  /\ Finish(d, "cleanup", "failure")
  /\ tmp' = None
  /\ UNCHANGED <<out, blocks, fd, got, cancelled>>

\* withContext throws CancellationException in place of the block's result
\* when the job has been cancelled meanwhile.
Return(d) ==
  /\ Goto(d, "return", "idle")
  /\ result' = [result EXCEPT ![d] = IF cancelled[d] THEN "cancelled" ELSE @]
  /\ cancelled' = [cancelled EXCEPT ![d] = FALSE]
  /\ UNCHANGED <<tmp, out, blocks, fd, got>>

Step(d) ==
  \/ NeverDispatched(d) \/ RequestRefused(d) \/ RequestThrows(d) \/ RequestAnswered(d)
  \/ CleanTmp(d) \/ OpenSink(d) \/ OpenThrows(d)
  \/ CheckActive(d) \/ ReadChunk(d) \/ ReadEof(d) \/ ReadThrows(d)
  \/ CloseSink(d) \/ CloseThrows(d)
  \/ DeleteOut(d) \/ RenameTmp(d) \/ RenameRefused(d) \/ CatchDelete(d)
  \/ Return(d)

\* The caller's job is cancelled: by the user, by a newer download, by
\* WorkManager, or because the view model is cleared.
Cancel(d) ==
  /\ pc[d] # "idle" /\ ~cancelled[d]
  /\ cancelled' = [cancelled EXCEPT ![d] = TRUE]
  /\ UNCHANGED <<tmp, out, blocks, pc, fd, got, result>>

DeleteModel ==
  /\ out # None
  /\ out' = None
  /\ UNCHANGED <<tmp, blocks, pc, fd, got, cancelled, result>>

\* The process dies: the buffers of open sinks are lost, the files remain.
Crash ==
  /\ \E d \in Downloaders : pc[d] # "idle"
  /\ pc' = [d \in Downloaders |-> "idle"]
  /\ fd' = [d \in Downloaders |-> None]
  /\ got' = [d \in Downloaders |-> 0]
  /\ cancelled' = [d \in Downloaders |-> FALSE]
  /\ result' = [d \in Downloaders |-> "none"]
  /\ UNCHANGED <<tmp, out, blocks>>

Next ==
  \/ \E d \in Downloaders : Begin(d) \/ Step(d) \/ Cancel(d)
  \/ DeleteModel
  \/ Crash

Spec == Init /\ [][Next]_vars

\* Every blocking call of downloadModel ends: OkHttp's calls have timeouts.
Fairness == \A d \in Downloaders : WF_vars(Step(d))

FairSpec == Spec /\ Fairness

-------------------------------------------------------------------------------
\* The callers' obligation: one download of the model at a time.
Serial == \A d, e \in Downloaders : pc[d] # "idle" /\ pc[e] # "idle" => d = e

SerialSpec == Init /\ [][Next /\ Serial']_vars

-------------------------------------------------------------------------------
\* isModelDownloaded answers by existence alone, so a file at the final path
\* must hold the whole body (ModelManager.kt:37-39, 76-78).
FinalComplete == out # None => blocks[out] = Chunks

\* The .part path and the final path never name the same file, however many
\* callers race: rename moves, and a new .part file is a new inode.
NoAlias == tmp = None \/ tmp # out

\* No caller truncates a published file, even one whose sink was opened on it
\* while it still was the .part file (ModelManager.kt:56, 78).
PublishedNeverTruncated ==
  [][out # None => blocks[out] \subseteq blocks'[out]]_vars

\* With one caller at a time a published file is never written again: whoever
\* opened it reads the bytes that were published (ModelManager.kt:71-78).
PublishedImmutable == [][out # None => blocks'[out] = blocks[out]]_vars

\* Every call of downloadModel ends, and so does every call that is cancelled,
\* however the other callers interleave (ModelManager.kt:63-70).
CallsReturn == \A d \in Downloaders : pc[d] # "idle" ~> pc[d] = "idle"

-------------------------------------------------------------------------------
(***************************************************************************)
(* The inductive invariant of SerialSpec: the one active call owns the     *)
(* .part file from open to rename, and has written to it exactly what it   *)
(* has read, less the chunk in its buffer.                                 *)
(***************************************************************************)
OwnsTmp(d) ==
  /\ pc[d] \in Streaming =>
       /\ tmp # None /\ fd[d] = tmp
       /\ blocks[tmp] = 1..(got[d] - 1)
  /\ pc[d] = "close" => got[d] = Size
  /\ pc[d] \in {"replace", "rename"} => tmp # None /\ blocks[tmp] = Chunks

\* A call about to return has a result to deliver.
Answered == \A d \in Downloaders : pc[d] = "return" => result[d] \in {"success", "failure"}

SerialInv ==
  /\ TypeOK
  /\ Serial
  /\ NoAlias
  /\ Answered
  /\ FinalComplete
  /\ \A d \in Downloaders : OwnsTmp(d)

-------------------------------------------------------------------------------
\* What the callers see of a downloader, and of the file at the final path.
CallPhase(d) ==
  CASE pc[d] = "idle" -> "idle"
    [] pc[d] = "rename" -> "replacing"
    [] pc[d] = "return" -> IF result[d] = "success" THEN "published" ELSE "failed"
    [] OTHER -> "working"

StoredState ==
  IF out = None THEN "absent" ELSE IF blocks[out] = Chunks THEN "complete" ELSE "partial"

Store == INSTANCE ModelStore WITH
  stored <- StoredState,
  call <- [d \in Downloaders |-> CallPhase(d)],
  told <- [d \in Downloaders |-> IF pc[d] = "idle" THEN result[d] ELSE "none"]

\* Used by one caller at a time, ModelManager keeps the promise of ModelStore:
\* no partial model, and success only from a call that stored one.
StoreRefined == Store!Spec
===============================================================================
