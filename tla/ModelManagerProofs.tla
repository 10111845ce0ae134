-------------------------- MODULE ModelManagerProofs --------------------------
(***************************************************************************)
(* Proofs about ModelManager for any set of callers, any set of inodes and *)
(* any size of the model file, and behind them about ModelLoading, for     *)
(* models of any number of tensors.  What is proved of ModelManager cites  *)
(* nothing of ModelLoading, TensorsAssumption neither.                     *)
(***************************************************************************)
EXTENDS ModelLoading, TLAPS

-------------------------------------------------------------------------------
\* Every state of ModelManager is well typed, however many callers race.
LEMMA TypeInit == Init => TypeOK
  BY SizeAssumption DEF Init, TypeOK, Stages, Results, Chunks, Streaming

LEMMA TypeNext == TypeOK /\ [Next]_vars => TypeOK'
  <1> SUFFICES ASSUME TypeOK, [Next]_vars PROVE TypeOK'
    OBVIOUS
  <1> USE SizeAssumption, NoneAssumption
      DEF TypeOK, Stages, Results, Chunks, Streaming, Goto, Finish, Flush
  <1>1. ASSUME NEW d \in Downloaders, Begin(d) PROVE TypeOK'
    BY <1>1 DEF Begin
  <1>2. ASSUME NEW d \in Downloaders, Step(d) PROVE TypeOK'
    <2>1. CASE NeverDispatched(d) BY <2>1 DEF NeverDispatched
    <2>2. CASE RequestRefused(d) BY <2>2 DEF RequestRefused
    <2>3. CASE RequestThrows(d) BY <2>3 DEF RequestThrows
    <2>4. CASE RequestAnswered(d) BY <2>4 DEF RequestAnswered
    <2>5. CASE CleanTmp(d) BY <2>5 DEF CleanTmp
    <2>6. CASE OpenSink(d) BY <2>6 DEF OpenSink
    <2>7. CASE OpenThrows(d) BY <2>7 DEF OpenThrows
    <2>8. CASE CheckActive(d) BY <2>8 DEF CheckActive
    <2>9. CASE ReadChunk(d) BY <2>9 DEF ReadChunk
    <2>10. CASE ReadEof(d) BY <2>10 DEF ReadEof
    <2>11. CASE ReadThrows(d) BY <2>11 DEF ReadThrows
    <2>12. CASE CloseSink(d) BY <2>12 DEF CloseSink
    <2>13. CASE CloseThrows(d) BY <2>13 DEF CloseThrows
    <2>14. CASE DeleteOut(d) BY <2>14 DEF DeleteOut
    <2>15. CASE RenameTmp(d) BY <2>15 DEF RenameTmp
    <2>16. CASE RenameRefused(d) BY <2>16 DEF RenameRefused
    <2>17. CASE CatchDelete(d) BY <2>17 DEF CatchDelete
    <2>18. CASE Return(d) BY <2>18 DEF Return
    <2>19. QED
      BY <1>2, <2>1, <2>2, <2>3, <2>4, <2>5, <2>6, <2>7, <2>8, <2>9, <2>10, <2>11,
         <2>12, <2>13, <2>14, <2>15, <2>16, <2>17, <2>18 DEF Step
  <1>3. ASSUME NEW d \in Downloaders, Cancel(d) PROVE TypeOK'
    BY <1>3 DEF Cancel
  <1>4. CASE DeleteModel BY <1>4 DEF DeleteModel
  <1>5. CASE Crash BY <1>5 DEF Crash
  <1>6. CASE UNCHANGED vars BY <1>6 DEF vars
  <1>7. QED BY <1>1, <1>2, <1>3, <1>4, <1>5, <1>6 DEF Next

\* The state of ModelManager is well typed under any interleaving of callers.
THEOREM TypeCorrect == Spec => []TypeOK
  BY TypeInit, TypeNext, PTL DEF Spec

-------------------------------------------------------------------------------
\* What each kind of step does to the two paths and to the bytes of the
\* published file; the facts every other safety proof about racing callers uses.
LEMMA StepFiles ==
  ASSUME TypeOK, NoAlias, NEW d \in Downloaders, Step(d)
  PROVE  /\ NoAlias'
         /\ out # None => blocks[out] \subseteq blocks'[out]
  <1> USE NoneAssumption DEF TypeOK, NoAlias, Goto, Finish, Flush, Streaming
  <1>1. CASE CleanTmp(d) BY <1>1 DEF CleanTmp
  <1>2. CASE OpenSink(d) BY <1>2 DEF OpenSink, InUse
  <1>3. CASE ReadChunk(d) BY <1>3 DEF ReadChunk
  <1>4. CASE CloseSink(d) BY <1>4 DEF CloseSink
  <1>5. CASE RenameTmp(d) BY <1>5 DEF RenameTmp
  <1>6. CASE CatchDelete(d) BY <1>6 DEF CatchDelete
  <1>7. CASE DeleteOut(d) BY <1>7 DEF DeleteOut
  <1>8. CASE UNCHANGED files BY <1>8 DEF files
  <1>9. QED
    BY <1>1, <1>2, <1>3, <1>4, <1>5, <1>6, <1>7, <1>8
    DEF Step, files, NeverDispatched, RequestRefused, RequestThrows, RequestAnswered,
        OpenThrows, CheckActive, ReadEof, ReadThrows, CloseThrows, RenameRefused, Return

LEMMA NextFiles ==
  ASSUME TypeOK, NoAlias, [Next]_vars
  PROVE  /\ NoAlias'
         /\ out # None => blocks[out] \subseteq blocks'[out]
  <1>1. ASSUME NEW d \in Downloaders, Step(d)
        PROVE  NoAlias' /\ (out # None => blocks[out] \subseteq blocks'[out])
    BY <1>1, StepFiles
  <1>2. CASE \/ \E d \in Downloaders : Begin(d) \/ Cancel(d)
             \/ DeleteModel \/ Crash \/ UNCHANGED vars
    BY <1>2 DEF NoAlias, Begin, Cancel, DeleteModel, Crash, vars
  <1>3. QED BY <1>1, <1>2 DEF Next

\* The .part path and the final path never name one file, for any callers.
THEOREM AliasFree == Spec => []NoAlias
  <1>1. Init => NoAlias BY DEF Init, NoAlias
  <1>2. TypeOK /\ NoAlias /\ [Next]_vars => NoAlias' BY NextFiles
  <1>3. QED BY <1>1, <1>2, TypeCorrect, PTL DEF Spec

\* No caller ever truncates the published file, for any number of callers.
THEOREM NeverTruncated == Spec => PublishedNeverTruncated
  <1>1. TypeOK /\ NoAlias /\ [Next]_vars
          => [out # None => blocks[out] \subseteq blocks'[out]]_vars
    BY NextFiles
  <1>2. QED
    BY <1>1, TypeCorrect, AliasFree, PTL DEF Spec, PublishedNeverTruncated

-------------------------------------------------------------------------------
\* With one caller at a time, the chunk a flush writes extends the prefix the
\* .part file already holds: what is on disk never has a hole.
LEMMA PrefixGrows ==
  ASSUME NEW g \in 0..Size
  PROVE  1..(g - 1) \cup ({g} \cap Chunks) = 1..g
  BY SizeAssumption DEF Chunks

LEMMA AnsweredNext ==
  ASSUME TypeOK, Answered, [Next]_vars
  PROVE  Answered'
  <1> USE DEF TypeOK, Answered, Goto, Finish
  <1>1. ASSUME NEW d \in Downloaders, Step(d) PROVE Answered'
    <2>1. CASE NeverDispatched(d) \/ RequestRefused(d) \/ RenameRefused(d)
                 \/ CatchDelete(d) \/ RenameTmp(d)
      BY <2>1 DEF NeverDispatched, RequestRefused, RenameRefused, CatchDelete, RenameTmp
    <2>2. CASE Return(d) BY <2>2 DEF Return
    <2>3. CASE UNCHANGED result /\ \A e \in Downloaders : pc'[e] = "return" => pc[e] = "return"
      BY <2>3
    <2>4. QED
      BY <1>1, <2>1, <2>2, <2>3
      DEF Step, RequestThrows, RequestAnswered, CleanTmp, OpenSink, OpenThrows, CheckActive,
          ReadChunk, ReadEof, ReadThrows, CloseSink, CloseThrows, DeleteOut
  <1>2. CASE \/ \E d \in Downloaders : Begin(d) \/ Cancel(d)
             \/ DeleteModel \/ Crash \/ UNCHANGED vars
    BY <1>2 DEF Begin, Cancel, DeleteModel, Crash, vars
  <1>3. QED BY <1>1, <1>2 DEF Next

LEMMA SerialInit == Init => SerialInv
  BY TypeInit DEF Init, SerialInv, Answered, Serial, NoAlias, FinalComplete, OwnsTmp, Streaming

\* The steps of the one active caller keep its hold on the .part file.
LEMMA SerialStep ==
  ASSUME SerialInv, NEW d \in Downloaders, Step(d), TypeOK'
  PROVE  FinalComplete' /\ \A e \in Downloaders : OwnsTmp(e)'
  <1> USE SizeAssumption, NoneAssumption DEF Goto, Finish
  <1> DEFINE Goal == FinalComplete' /\ OwnsTmp(d)'
  <1>1. \A e \in Downloaders \ {d} : pc[e] = "idle" /\ pc'[e] = "idle"
    <2>1. pc[d] # "idle" /\ \A e \in Downloaders \ {d} : pc'[e] = pc[e]
      BY DEF SerialInv, TypeOK, Step, NeverDispatched, RequestRefused, RequestThrows,
             RequestAnswered, CleanTmp, OpenSink, OpenThrows, CheckActive, ReadChunk,
             ReadEof, ReadThrows, CloseSink, CloseThrows, DeleteOut, RenameTmp,
             RenameRefused, CatchDelete, Return
    <2>2. QED BY <2>1 DEF SerialInv, Serial
  <1>2. \A e \in Downloaders \ {d} : OwnsTmp(e)'
    BY <1>1 DEF OwnsTmp, Streaming
  <1>3. CASE CleanTmp(d)
    BY <1>2, <1>3 DEF CleanTmp, SerialInv, TypeOK, FinalComplete, OwnsTmp, Streaming
  <1>4. CASE OpenSink(d)
    <2>1. PICK i \in Inodes : /\ i # out
                             /\ tmp' = i
                             /\ fd' = [fd EXCEPT ![d] = i]
                             /\ blocks' = [blocks EXCEPT ![i] = {}]
      BY <1>4 DEF OpenSink, InUse, SerialInv, TypeOK, NoAlias
    <2>2. pc'[d] = "check" /\ fd'[d] = tmp' /\ tmp' # None /\ got'[d] = 0
      BY <1>4, <2>1 DEF OpenSink, SerialInv, TypeOK
    <2>3. blocks'[tmp'] = 1..(got'[d] - 1)
      BY <2>1, <2>2 DEF SerialInv, TypeOK
    <2>4. FinalComplete'
      BY <1>4, <2>1 DEF OpenSink, SerialInv, TypeOK, FinalComplete, Chunks
    <2>5. QED BY <1>2, <2>2, <2>3, <2>4 DEF OwnsTmp
  <1>5. CASE ReadChunk(d)
    <2>1. fd[d] = tmp /\ tmp \in Inodes /\ tmp # out /\ blocks[tmp] = 1..(got[d] - 1)
      BY <1>5 DEF ReadChunk, SerialInv, TypeOK, NoAlias, OwnsTmp, Streaming
    <2>2. got[d] \in 0..Size /\ got'[d] = got[d] + 1 /\ got'[d] - 1 = got[d]
      BY <1>5 DEF ReadChunk, SerialInv, TypeOK
    <2>3. blocks'[tmp] = 1..got[d]
      BY <1>5, <2>1, <2>2, PrefixGrows DEF ReadChunk, Flush, SerialInv, TypeOK
    <2>4. FinalComplete'
      BY <1>5, <2>1 DEF ReadChunk, Flush, SerialInv, TypeOK, FinalComplete
    <2>5. QED
      BY <1>2, <1>5, <2>1, <2>2, <2>3, <2>4 DEF ReadChunk, OwnsTmp, SerialInv, TypeOK
  <1>6. CASE CloseSink(d)
    <2>1. fd[d] = tmp /\ tmp \in Inodes /\ tmp # out /\ blocks[tmp] = 1..(got[d] - 1)
      BY <1>6 DEF CloseSink, SerialInv, TypeOK, NoAlias, OwnsTmp, Streaming
    <2>2. got[d] \in 0..Size BY DEF SerialInv, TypeOK
    <2>3. blocks'[tmp] = 1..got[d]
      BY <1>6, <2>1, <2>2, PrefixGrows DEF CloseSink, Flush, SerialInv, TypeOK
    <2>4. FinalComplete'
      BY <1>6, <2>1 DEF CloseSink, Flush, SerialInv, TypeOK, FinalComplete
    <2>5. CASE pc[d] = "close"
      <3>1. got[d] = Size /\ pc'[d] = "replace" /\ tmp' = tmp
        BY <1>6, <2>5 DEF CloseSink, SerialInv, TypeOK, OwnsTmp
      <3>2. QED
        BY <1>2, <2>1, <2>3, <2>4, <3>1 DEF OwnsTmp, Chunks, Streaming
    <2>6. CASE pc[d] = "unwind"
      <3>1. pc'[d] = "cleanup" BY <1>6, <2>6 DEF CloseSink, SerialInv, TypeOK
      <3>2. QED BY <1>2, <2>4, <3>1 DEF OwnsTmp, Streaming
    <2>7. QED BY <1>6, <2>5, <2>6 DEF CloseSink
  <1>7. CASE DeleteOut(d)
    BY <1>2, <1>7 DEF DeleteOut, SerialInv, TypeOK, FinalComplete, OwnsTmp, Streaming
  <1>8. CASE RenameTmp(d)
    BY <1>2, <1>8 DEF RenameTmp, SerialInv, TypeOK, FinalComplete, OwnsTmp, Streaming
  <1>9. CASE CatchDelete(d)
    BY <1>2, <1>9 DEF CatchDelete, SerialInv, TypeOK, FinalComplete, OwnsTmp, Streaming
  <1>10. CASE CheckActive(d) \/ ReadEof(d) \/ ReadThrows(d)
    BY <1>2, <1>10 DEF CheckActive, ReadEof, ReadThrows, SerialInv, TypeOK,
                       FinalComplete, OwnsTmp, Streaming
  <1>11. CASE /\ UNCHANGED files
              /\ pc'[d] \in {"request", "clean", "cleanup", "return", "idle"}
    BY <1>2, <1>11 DEF files, SerialInv, FinalComplete, OwnsTmp, Streaming
  <1>12. QED
    BY <1>2, <1>3, <1>4, <1>5, <1>6, <1>7, <1>8, <1>9, <1>10, <1>11
    DEF Step, files, SerialInv, TypeOK, NeverDispatched, RequestRefused, RequestThrows,
        RequestAnswered, OpenThrows, CloseThrows, RenameRefused, Return

LEMMA SerialNext == SerialInv /\ [Next /\ Serial']_vars => SerialInv'
  <1> SUFFICES ASSUME SerialInv, [Next /\ Serial']_vars PROVE SerialInv'
    OBVIOUS
  <1>1. TypeOK' BY TypeNext DEF SerialInv
  <1>2. NoAlias' BY NextFiles DEF SerialInv
  <1>3. Serial' BY DEF SerialInv, Serial, vars
  <1>4. FinalComplete' /\ \A e \in Downloaders : OwnsTmp(e)'
    <2>1. ASSUME NEW d \in Downloaders, Step(d)
          PROVE  FinalComplete' /\ \A e \in Downloaders : OwnsTmp(e)'
      BY <1>1, <2>1, SerialStep
    <2>2. ASSUME NEW d \in Downloaders, Begin(d) \/ Cancel(d)
          PROVE  FinalComplete' /\ \A e \in Downloaders : OwnsTmp(e)'
      BY <2>2 DEF Begin, Cancel, Goto, SerialInv, TypeOK, FinalComplete, OwnsTmp, Streaming
    <2>3. CASE DeleteModel
      BY <2>3 DEF DeleteModel, SerialInv, FinalComplete, OwnsTmp
    <2>4. CASE Crash
      BY <2>4 DEF Crash, SerialInv, FinalComplete, OwnsTmp, Streaming
    <2>5. CASE UNCHANGED vars
      BY <2>5 DEF vars, SerialInv, FinalComplete, OwnsTmp
    <2>6. QED BY <2>1, <2>2, <2>3, <2>4, <2>5 DEF Next
  <1>5. Answered' BY AnsweredNext DEF SerialInv
  <1>6. QED BY <1>1, <1>2, <1>3, <1>4, <1>5 DEF SerialInv

\* With one caller at a time, the active call owns the .part file throughout.
THEOREM SerialInvariant == SerialSpec => []SerialInv
  BY SerialInit, SerialNext, PTL DEF SerialSpec

\* With one caller at a time, a file at the final path holds the whole model,
\* through cancellations, I/O errors, deletions and crashes.
THEOREM SerialComplete == SerialSpec => []FinalComplete
  <1>1. SerialInv => FinalComplete BY DEF SerialInv
  <1>2. QED BY <1>1, SerialInvariant, PTL

\* With one caller at a time, a published file is never written again.
THEOREM SerialImmutable == SerialSpec => PublishedImmutable
  <1>1. ASSUME SerialInv, [Next /\ Serial']_vars, out # None
        PROVE  blocks'[out] = blocks[out]
    <2>1. ASSUME NEW d \in Downloaders, Step(d)
          PROVE  blocks'[out] = blocks[out]
      <3>1. CASE OpenSink(d)
        BY <1>1, <3>1 DEF OpenSink, InUse, SerialInv, TypeOK, NoAlias
      <3>2. CASE ReadChunk(d)
        BY <1>1, <3>2 DEF ReadChunk, Goto, Flush, SerialInv, TypeOK, NoAlias, OwnsTmp, Streaming
      <3>3. CASE CloseSink(d)
        BY <1>1, <3>3 DEF CloseSink, Goto, Flush, SerialInv, TypeOK, NoAlias, OwnsTmp, Streaming
      <3>4. CASE UNCHANGED blocks BY <3>4
      <3>5. QED
        BY <2>1, <3>1, <3>2, <3>3, <3>4
        DEF Step, NeverDispatched, RequestRefused, RequestThrows, RequestAnswered,
            CleanTmp, OpenThrows, CheckActive, ReadEof, ReadThrows, CloseThrows, DeleteOut,
            RenameTmp, RenameRefused, CatchDelete, Return
    <2>2. QED
      BY <1>1, <2>1 DEF Next, Begin, Cancel, DeleteModel, Crash, vars
  <1>2. SerialInv /\ [Next /\ Serial']_vars => [out # None => blocks'[out] = blocks[out]]_vars
    BY <1>1
  <1>3. QED
    BY <1>2, SerialInvariant, PTL DEF SerialSpec, PublishedImmutable

-------------------------------------------------------------------------------
\* What a caller is told, as ModelStore sees it.
Told == [d \in Downloaders |-> IF pc[d] = "idle" THEN result[d] ELSE "none"]
Calls == [d \in Downloaders |-> CallPhase(d)]

LEMMA StoredWhole ==
  FinalComplete => StoredState = IF out = None THEN "absent" ELSE "complete"
  BY DEF FinalComplete, StoredState

LEMMA StoreInit == Init => Store!Init
  BY DEF Init, Store!Init, StoredState, CallPhase

\* A step that moves one caller moves that caller's abstract phase and answer only.
LEMMA OneCallMoves ==
  ASSUME TypeOK, NEW d \in Downloaders,
         \A e \in Downloaders \ {d} : pc'[e] = pc[e] /\ result'[e] = result[e]
  PROVE  /\ Calls' = [Calls EXCEPT ![d] = CallPhase(d)']
         /\ Told' = [Told EXCEPT ![d] = IF pc'[d] = "idle" THEN result'[d] ELSE "none"]
  <1>1. \A e \in Downloaders \ {d} : CallPhase(e)' = CallPhase(e) BY DEF CallPhase
  <1>2. QED BY <1>1 DEF Calls, Told

\* Every step of a call is one of its ModelStore steps, or invisible there.
LEMMA StepRefines ==
  ASSUME SerialInv, SerialInv', NEW d \in Downloaders, Step(d)
  PROVE  Store!Next \/ UNCHANGED <<StoredState, Calls, Told>>
  <1> USE DEF Goto, Finish
  <1> DEFINE Stored == IF out = None THEN "absent" ELSE "complete"
  <1>1. StoredState = Stored /\ StoredState' = Stored'
    BY StoredWhole, StoredWhole DEF SerialInv, StoredState, FinalComplete
  <1>2. /\ \A e \in Downloaders \ {d} : pc'[e] = pc[e] /\ result'[e] = result[e]
        /\ pc'[d] # "idle" => pc[d] # "idle"
    BY DEF SerialInv, TypeOK, Step, NeverDispatched, RequestRefused, RequestThrows,
           RequestAnswered, CleanTmp, OpenSink, OpenThrows, CheckActive, ReadChunk,
           ReadEof, ReadThrows, CloseSink, CloseThrows, DeleteOut, RenameTmp,
           RenameRefused, CatchDelete, Return
  <1>3. /\ Calls' = [Calls EXCEPT ![d] = CallPhase(d)']
        /\ Told' = [Told EXCEPT ![d] = IF pc'[d] = "idle" THEN result'[d] ELSE "none"]
    BY <1>2, OneCallMoves DEF SerialInv
  <1>4. Calls[d] = CallPhase(d) /\ (pc[d] # "idle" => Told[d] = "none")
    BY DEF Calls, Told
  <1>5. CASE DeleteOut(d)
    <2>1. CallPhase(d) = "working" /\ CallPhase(d)' = "replacing" /\ out' = None
          /\ pc[d] # "idle" /\ pc'[d] # "idle"
      BY <1>5 DEF DeleteOut, CallPhase, SerialInv, TypeOK
    <2>2. Told' = Told BY <1>3, <1>4, <2>1 DEF Told
    <2>3. Store!Withdraw(d)
      BY <1>1, <1>3, <1>4, <2>1, <2>2 DEF Store!Withdraw, Store!Phase, Calls, Told
    <2>4. QED BY <2>3 DEF Store!Next
  <1>6. CASE RenameTmp(d)
    <2>1. CallPhase(d) = "replacing" /\ CallPhase(d)' = "published" /\ out' # None
          /\ pc[d] # "idle" /\ pc'[d] # "idle"
      BY <1>6, NoneAssumption DEF RenameTmp, CallPhase, SerialInv, TypeOK
    <2>2. Told' = Told BY <1>3, <1>4, <2>1 DEF Told
    <2>3. Store!Publish(d)
      BY <1>1, <1>3, <1>4, <2>1, <2>2 DEF Store!Publish, Store!Phase, Calls, Told
    <2>4. QED BY <2>3 DEF Store!Next
  <1>7. CASE NeverDispatched(d) \/ RequestRefused(d) \/ RenameRefused(d) \/ CatchDelete(d)
    <2>1. CallPhase(d) \in {"working", "replacing"} /\ CallPhase(d)' = "failed" /\ out' = out
          /\ pc[d] # "idle" /\ pc'[d] # "idle"
      BY <1>7 DEF NeverDispatched, RequestRefused, RenameRefused, CatchDelete, CallPhase,
                  SerialInv, TypeOK
    <2>2. Told' = Told BY <1>3, <1>4, <2>1 DEF Told
    <2>3. Store!Fail(d)
      BY <1>1, <1>3, <1>4, <2>1, <2>2 DEF Store!Fail, Store!Phase, Calls, Told
    <2>4. QED BY <2>3 DEF Store!Next
  <1>8. CASE Return(d)
    <2>1. /\ CallPhase(d) = IF result[d] = "success" THEN "published" ELSE "failed"
          /\ CallPhase(d)' = "idle" /\ out' = out /\ pc'[d] = "idle"
          /\ result'[d] \in {result[d], "cancelled"}
      BY <1>8 DEF Return, CallPhase, SerialInv, TypeOK
    <2>2. result[d] \in {"success", "failure"}
      BY <1>8 DEF Return, SerialInv, Answered
    <2>3. Store!Phase(d, {"published", "failed"}, "idle")
      BY <1>3, <1>4, <2>1 DEF Store!Phase, Calls
    <2>4. Told' = [Told EXCEPT ![d] = result'[d]] BY <1>3, <2>1
    <2>5. /\ result'[d] \in {"success", "failure", "cancelled"}
          /\ Calls[d] = "published" => result'[d] \in {"success", "cancelled"}
          /\ Calls[d] = "failed" => result'[d] \in {"failure", "cancelled"}
      BY <1>4, <2>1, <2>2
    <2>6. PICK r \in {"success", "failure", "cancelled"} : r = result'[d] BY <2>5
    <2>7. Store!Answer(d, r) BY <2>4, <2>5, <2>6 DEF Store!Answer, Calls, Told
    <2>8. StoredState' = StoredState BY <1>1, <2>1
    <2>9. Store!Return(d) BY <2>3, <2>7, <2>8 DEF Store!Return
    <2>10. QED BY <2>9 DEF Store!Next
  <1>9. CASE /\ pc[d] \in Stages \ {"idle", "rename", "return"}
             /\ pc'[d] \in Stages \ {"idle", "rename", "return"}
             /\ out' = out
    <2>1. CallPhase(d) = "working" /\ CallPhase(d)' = "working" BY <1>9 DEF CallPhase
    <2>2. Calls' = Calls BY <1>3, <1>4, <2>1 DEF Calls
    <2>3. pc[d] # "idle" /\ pc'[d] # "idle" BY <1>9
    <2>4. Told' = Told BY <1>3, <1>4, <2>3 DEF Told
    <2>5. QED BY <1>1, <1>9, <2>2, <2>4
  <1>10. QED
    BY <1>5, <1>6, <1>7, <1>8, <1>9
    DEF Step, Stages, Streaming, SerialInv, TypeOK, RequestThrows, RequestAnswered, CleanTmp,
        OpenSink, OpenThrows, CheckActive, ReadChunk, ReadEof, ReadThrows, CloseSink,
        CloseThrows

LEMMA NextRefines ==
  SerialInv /\ SerialInv' /\ [Next /\ Serial']_vars => [Store!Next]_(Store!storeVars)
  <1> SUFFICES ASSUME SerialInv, SerialInv', [Next /\ Serial']_vars
               PROVE  Store!Next \/ UNCHANGED <<StoredState, Calls, Told>>
    BY DEF Store!storeVars, Calls, Told
  <1> USE DEF Goto
  <1> DEFINE Stored == IF out = None THEN "absent" ELSE "complete"
  <1>1. StoredState = Stored /\ StoredState' = Stored'
    BY DEF SerialInv, StoredState, FinalComplete
  <1>2. ASSUME NEW d \in Downloaders, Step(d)
        PROVE  Store!Next \/ UNCHANGED <<StoredState, Calls, Told>>
    BY <1>2, StepRefines
  <1>3. ASSUME NEW d \in Downloaders, Begin(d) PROVE Store!Next
    <2>1. /\ \A e \in Downloaders \ {d} : pc'[e] = pc[e] /\ result'[e] = result[e]
          /\ CallPhase(d) = "idle" /\ CallPhase(d)' = "working"
          /\ pc'[d] # "idle" /\ out' = out
      BY <1>3 DEF Begin, CallPhase, SerialInv, TypeOK
    <2>2. /\ Calls' = [Calls EXCEPT ![d] = CallPhase(d)']
          /\ Told' = [Told EXCEPT ![d] = IF pc'[d] = "idle" THEN result'[d] ELSE "none"]
      BY <2>1, OneCallMoves DEF SerialInv
    <2>3. Store!Begin(d)
      BY <1>1, <2>1, <2>2 DEF Store!Begin, Store!Phase, Calls, Told
    <2>4. QED BY <2>3 DEF Store!Next
  <1>4. ASSUME NEW d \in Downloaders, Cancel(d)
        PROVE  UNCHANGED <<StoredState, Calls, Told>>
    BY <1>1, <1>4 DEF Cancel, Calls, Told, CallPhase
  <1>5. CASE DeleteModel
    <2>1. Calls' = Calls /\ Told' = Told /\ out' = None
      BY <1>5 DEF DeleteModel, Calls, Told, CallPhase
    <2>2. Store!Remove BY <1>1, <2>1 DEF Store!Remove, Calls, Told
    <2>3. QED BY <2>2 DEF Store!Next
  <1>6. CASE Crash
    <2>1. /\ Calls' = [d \in Downloaders |-> "idle"]
          /\ Told' = [d \in Downloaders |-> "none"]
          /\ out' = out
      BY <1>6 DEF Crash, Calls, Told, CallPhase
    <2>2. Store!Crash BY <1>1, <2>1 DEF Store!Crash, Calls, Told
    <2>3. QED BY <2>2 DEF Store!Next
  <1>7. CASE UNCHANGED vars
    BY <1>1, <1>7 DEF vars, Calls, Told, CallPhase
  <1>8. QED BY <1>2, <1>3, <1>4, <1>5, <1>6, <1>7 DEF Next

\* Used by one caller at a time, ModelManager implements ModelStore.
THEOREM SerialRefinesStore == SerialSpec => StoreRefined
  BY StoreInit, NextRefines, SerialInvariant, PTL DEF SerialSpec, StoreRefined, Store!Spec

-------------------------------------------------------------------------------
(***************************************************************************)
(* A loader changes nothing of ModelManager, and nothing that is proved of *)
(* ModelManager is lost beside a loader.                                   *)
(***************************************************************************)
LEMMA LoadStepIsManager == [LoadNext /\ Serial']_loadVars => [Next /\ Serial']_vars
  BY DEF LoadNext, Die, Next, loadVars

\* ModelLoading implements ModelManager: downloads beside a load are those of
\* ModelManager alone (ModelManager.kt:41-88).
THEOREM LoadingRefinesManager == SerialLoadSpec => SerialSpec
  <1>1. LoadInit => Init BY DEF LoadInit
  <1>2. QED BY <1>1, LoadStepIsManager, PTL DEF SerialLoadSpec, SerialSpec

-------------------------------------------------------------------------------
(***************************************************************************)
(* The inductive invariant: the file that is read is a published one, no   *)
(* call writes to it any more, and so far all of it was there.             *)
(***************************************************************************)
Intact == fin # None => fin \in Inodes /\ blocks[fin] = Chunks /\ fin # tmp

Reading ==
  /\ stage \in LoadStages /\ nLoaded \in Nat /\ nLoaded <= NTensors
  /\ ~short
  /\ IF stage = "count" THEN eof ELSE ~eof
  /\ stage # "idle" => fin # None
  /\ stage \in {"idle", "magic", "vocab"} => nLoaded = 0
  /\ stage = "data" => nLoaded < NTensors
  /\ stage = "count" => nLoaded = NTensors

LoadInv == Intact /\ Reading /\ LoadedWhole

\* A model has a part for its magic, one for its vocabulary, and two for each tensor.
LEMMA Parts == NTensors \in Nat \ {0} /\ Size = 2 * NTensors + 2
  BY SizeAssumption, TensorsAssumption DEF NTensors

\* In an intact file, the parts up to the last are there, and nothing is behind it.
LEMMA PartsThere ==
  ASSUME Intact, fin # None, ~eof, NEW part \in 1..Size
  PROVE  There(part) /\ ~Past(part)
  <1>1. part \in blocks[fin] /\ ~(part < part) BY SizeAssumption DEF Intact, Chunks
  <1>2. QED BY <1>1 DEF There, Past

LEMMA NothingBehind ==
  ASSUME Intact, fin # None
  PROVE  Past(Size + 1)
  BY SizeAssumption DEF Intact, Past, Chunks

-------------------------------------------------------------------------------
\* No step of a call writes to the file that is read.
LEMMA StepIntact ==
  ASSUME SerialInv, Intact, NEW d \in Downloaders, Step(d), Held, UNCHANGED fin
  PROVE  Intact'
  <1> SUFFICES ASSUME fin # None PROVE blocks'[fin] = blocks[fin] /\ tmp' # fin
    BY DEF Intact
  <1> USE DEF Intact, SerialInv, TypeOK, Goto, Finish
  <1>1. CASE OpenSink(d) BY <1>1 DEF OpenSink, Held
  <1>2. CASE ReadChunk(d) BY <1>2 DEF ReadChunk, Flush, OwnsTmp, Streaming
  <1>3. CASE CloseSink(d) BY <1>3 DEF CloseSink, Flush, OwnsTmp, Streaming
  <1>4. CASE CleanTmp(d) \/ RenameTmp(d) \/ CatchDelete(d)
    BY <1>4, NoneAssumption DEF CleanTmp, RenameTmp, CatchDelete
  <1>5. CASE UNCHANGED <<tmp, blocks>> BY <1>5
  <1>6. QED
    BY <1>1, <1>2, <1>3, <1>4, <1>5
    DEF Step, NeverDispatched, RequestRefused, RequestThrows, RequestAnswered, OpenThrows,
        CheckActive, ReadEof, ReadThrows, CloseThrows, DeleteOut, RenameRefused, Return

\* A part that is there leaves the loader's account of what it reads as it was.
LEMMA ReadsWell ==
  ASSUME Intact, fin # None, ~eof, ~short, NEW part \in 1..Size, Read(part)
  PROVE  ~eof' /\ ~short'
  <1>1. There(part) /\ ~Past(part) BY PartsThere
  <1>2. QED BY <1>1, Zenon DEF Read

\* Every step of a load reads what is there.
LEMMA LoadKeeps ==
  ASSUME SerialInv, LoadInv, Load, UNCHANGED vars
  PROVE  LoadInv'
  <1>1. UNCHANGED <<tmp, out, blocks>> BY DEF vars
  <1>2. NTensors' = NTensors /\ NTensors \in Nat \ {0} /\ Size = 2 * NTensors + 2 /\ 1 \in 1..Size /\ 2 \in 1..Size
    BY Parts DEF NTensors
  <1>3. Intact /\ Reading /\ LoadedWhole BY DEF LoadInv
  <1>4. CASE OpenModel
    <2>1. CASE out = None
      BY <1>1, <1>2, <1>3, <1>4, <2>1 DEF OpenModel, LoadInv, Intact, Reading, LoadedWhole
    <2>2. CASE out # None
      <3>1. out \in Inodes /\ blocks[out] = Chunks /\ out # tmp
        BY <2>2 DEF SerialInv, TypeOK, FinalComplete, NoAlias
      <3>2. /\ stage = "idle" /\ stage' = "magic" /\ fin' = out
            /\ UNCHANGED <<eof, nLoaded, short, context>>
        BY <1>4, <2>2 DEF OpenModel
      <3>3. /\ ~eof /\ ~short /\ nLoaded' = nLoaded /\ eof' = eof /\ short' = short
            /\ nLoaded \in Nat /\ nLoaded <= NTensors
        BY <1>3, <3>2 DEF Reading
      <3>4. nLoaded' = 0 /\ fin' # None
        BY <1>3, <3>1, <3>2, NoneAssumption DEF Reading
      <3>5. Reading' BY <1>2, <3>2, <3>3, <3>4 DEF Reading, LoadStages
      <3>6. QED BY <1>1, <1>3, <3>1, <3>2, <3>5 DEF LoadInv, Intact, LoadedWhole
    <2>3. QED BY <2>1, <2>2
  <1>5. CASE ReadMagic
    <2>1. stage = "magic" /\ stage' = "vocab" /\ Read(1) /\ UNCHANGED <<fin, nLoaded, context>>
      BY <1>5 DEF ReadMagic
    <2>2. ~eof' /\ ~short' BY <1>2, <1>3, <2>1, ReadsWell DEF Reading
    <2>3. QED
      BY <1>1, <1>2, <1>3, <2>1, <2>2 DEF LoadInv, Intact, Reading, LoadedWhole, LoadStages
  <1>6. CASE ReadVocab
    <2>1. stage = "vocab" /\ stage' = "header" /\ Read(2) /\ UNCHANGED <<fin, nLoaded, context>>
      BY <1>6 DEF ReadVocab
    <2>2. ~eof' /\ ~short' BY <1>2, <1>3, <2>1, ReadsWell DEF Reading
    <2>3. QED
      BY <1>1, <1>2, <1>3, <2>1, <2>2 DEF LoadInv, Intact, Reading, LoadedWhole, LoadStages
  <1>7. CASE ReadHeader
    <2>1. /\ stage = "header" /\ stage' = (IF eof' THEN "count" ELSE "data")
          /\ eof' = Past(2 * nLoaded + 3) /\ UNCHANGED <<fin, nLoaded, short, context>>
      BY <1>7 DEF ReadHeader
    <2>2. CASE nLoaded < NTensors
      <3>1. 2 * nLoaded + 3 \in 1..Size BY <1>2, <1>3, <2>2 DEF Reading
      <3>2. ~Past(2 * nLoaded + 3) BY <1>3, <2>1, <3>1, PartsThere DEF Reading
      <3>3. ~eof' BY <2>1, <3>2, Zenon
      <3>4. stage' = "data" BY <2>1, <3>3, Zenon
      <3>5. QED
        BY <1>1, <1>2, <1>3, <2>1, <2>2, <3>3, <3>4
        DEF LoadInv, Intact, Reading, LoadedWhole, LoadStages
    <2>3. CASE nLoaded = NTensors
      <3>1. 2 * nLoaded + 3 = Size + 1 BY <1>2, <2>3
      <3>2. Past(2 * nLoaded + 3) BY <1>3, <2>1, <3>1, NothingBehind DEF Reading
      <3>3. eof' BY <2>1, <3>2, Zenon
      <3>4. stage' = "count" BY <2>1, <3>3, Zenon
      <3>5. QED
        BY <1>1, <1>2, <1>3, <2>1, <2>3, <3>3, <3>4
        DEF LoadInv, Intact, Reading, LoadedWhole, LoadStages
    <2>4. QED BY <1>2, <1>3, <2>2, <2>3 DEF Reading
  <1>8. CASE ReadData
    <2>1. /\ stage = "data" /\ stage' = "header" /\ Read(2 * nLoaded + 4)
          /\ nLoaded' = nLoaded + 1 /\ UNCHANGED <<fin, context>>
      BY <1>8 DEF ReadData
    <2>2. 2 * nLoaded + 4 \in 1..Size BY <1>2, <1>3, <2>1 DEF Reading
    <2>3. ~eof' /\ ~short' BY <1>3, <2>1, <2>2, ReadsWell DEF Reading
    <2>4. QED
      BY <1>1, <1>2, <1>3, <2>1, <2>3 DEF LoadInv, Intact, Reading, LoadedWhole, LoadStages
  <1>9. ASSUME NEW c \in {"none", "whole"}, Close(c) PROVE LoadInv'
    BY <1>2, <1>9 DEF Close, LoadInv, Intact, Reading, LoadedWhole, LoadStages
  <1>10. CASE Loaded
    <2>1. nLoaded = NTensors /\ ~short BY <1>3, <1>10 DEF Loaded, Reading
    <2>2. Close("whole") BY <1>2, <1>10, <2>1 DEF Loaded
    <2>3. QED BY <1>9, <2>2
  <1>11. CASE Refuse BY <1>9, <1>11 DEF Refuse
  <1>12. QED BY <1>4, <1>5, <1>6, <1>7, <1>8, <1>10, <1>11 DEF Load

LEMMA LoadInvNext ==
  ASSUME SerialInv, LoadInv, [LoadNext /\ Serial']_loadVars
  PROVE  LoadInv'
  <1>1. CASE Load /\ UNCHANGED vars BY <1>1, LoadKeeps
  <1>2. ASSUME NEW d \in Downloaders, Begin(d) \/ Step(d) \/ Cancel(d), Held, UNCHANGED loader
        PROVE  LoadInv'
    <2>1. Intact'
      <3>1. CASE Step(d) BY <1>2, <3>1, StepIntact DEF LoadInv, loader
      <3>2. CASE Begin(d) \/ Cancel(d)
        BY <1>2, <3>2 DEF Begin, Cancel, LoadInv, Intact, loader
      <3>3. QED BY <1>2, <3>1, <3>2
    <2>2. QED BY <1>2, <2>1 DEF LoadInv, Reading, LoadedWhole, loader
  <1>3. CASE DeleteModel /\ UNCHANGED loader
    BY <1>3 DEF DeleteModel, LoadInv, Intact, Reading, LoadedWhole, loader
  <1>4. CASE Die
    <2>1. NTensors \in Nat /\ NTensors' = NTensors BY Parts DEF NTensors
    <2>2. /\ stage' = "idle" /\ fin' = None /\ ~eof' /\ nLoaded' = 0 /\ ~short'
          /\ context' = "none"
      BY <1>4 DEF Die
    <2>3. QED BY <2>1, <2>2 DEF LoadInv, Intact, Reading, LoadedWhole, LoadStages
  <1>5. CASE UNCHANGED loadVars
    BY <1>5 DEF loadVars, vars, loader, LoadInv, Intact, Reading, LoadedWhole
  <1>6. QED BY <1>1, <1>2, <1>3, <1>4, <1>5 DEF LoadNext

\* With one download at a time, whisper_init reads a whole model or returns NULL,
\* though the model is deleted, replaced or downloaded again meanwhile
\* (ModelManager.kt:76-78, whisper.cpp:1510-1978).
THEOREM WholeModelLoaded == SerialLoadSpec => []LoadedWhole
  <1>1. LoadInit => LoadInv
    <2>1. NTensors \in Nat BY Parts
    <2>2. QED BY <2>1 DEF LoadInit, LoadInv, Intact, Reading, LoadedWhole, LoadStages
  <1>2. SerialInv /\ LoadInv /\ [LoadNext /\ Serial']_loadVars => LoadInv' BY LoadInvNext
  <1>3. LoadInv => LoadedWhole BY DEF LoadInv
  <1>4. SerialLoadSpec => []SerialInv BY LoadingRefinesManager, SerialInvariant, PTL
  <1>5. QED BY <1>1, <1>2, <1>3, <1>4, PTL DEF SerialLoadSpec
===============================================================================
