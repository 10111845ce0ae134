--------------------------- MODULE GgmlComputeProofs ---------------------------
(***************************************************************************)
(* Proofs about the pool of any number of threads and the graphs it        *)
(* computes, and about the schedulers whose graphs they are: the buffer a  *)
(* scheduler's tensors share is read, while a graph is computed, as if     *)
(* each had its own.                                                       *)
(***************************************************************************)
EXTENDS GgmlCompute, GgmlAllocProofs, FiniteSetTheorems, TLAPS

\* Those counted by n_barrier: they came since the barrier opened last.
Arrived == {t \in Team : gate[t] \in {"waiting", "last"} /\ seen[t] = nBarrierPassed}

\* Where a thread can be, and what it knows there.
Placed(t) ==
  /\ gate[t] = "out" => trips[t] = nBarrierPassed
  /\ gate[t] \in {"loaded", "last", "reset"} => seen[t] = nBarrierPassed
  /\ gate[t] # "out" => trips[t] = seen[t]
  /\ gate[t] = "waiting" => seen[t] \in {nBarrierPassed, nBarrierPassed - 1}

\* The last one finds all the others waiting for it.
Alone(t) ==
  gate[t] \in {"last", "reset"} =>
    \A u \in Team \ {t} : gate[u] = "waiting" /\ seen[u] = nBarrierPassed

Counted ==
  nBarrier = IF \E t \in Team : gate[t] = "reset" THEN 0 ELSE Cardinality(Arrived)

\* What a team of more than one keeps.
Orderly == (\A t \in Team : Placed(t) /\ Alone(t)) /\ Counted

BarrierTyped ==
  /\ nThreadsCur \in 1..MaxThreads
  /\ nBarrier \in Nat
  /\ nBarrierPassed \in Nat
  /\ gate \in [Threads -> Gates]
  /\ seen \in [Threads -> Nat]
  /\ trips \in [Threads -> Nat]

\* Only threads of the team ever reach a barrier.
Outside ==
  /\ pc \in [Threads -> PCs]
  /\ \A t \in Threads \ Team : pc[t] = "exited"

BarrierInv == BarrierTyped /\ Outside /\ (nThreadsCur # 1 => Orderly)

-------------------------------------------------------------------------------
LEMMA TeamFinite ==
  ASSUME BarrierTyped
  PROVE  /\ Team \subseteq Threads
         /\ IsFiniteSet(Team) /\ Cardinality(Team) = nThreadsCur
         /\ IsFiniteSet(Arrived)
<1>. USE MaxThreadsAssumption
<1>1. nThreadsCur \in Nat /\ nThreadsCur \in 1..MaxThreads
  BY SMT DEF BarrierTyped
<1>2. Team \subseteq Threads
  BY <1>1, SMT DEF Team, Threads
<1>3. IsFiniteSet(Team) /\ Cardinality(Team) = nThreadsCur
  <2>1. /\ IsFiniteSet(0..(nThreadsCur - 1))
        /\ Cardinality(0..(nThreadsCur - 1)) =
             IF 0 > nThreadsCur - 1 THEN 0 ELSE (nThreadsCur - 1) - 0 + 1
    BY <1>1, FS_Interval
  <2>. QED  BY <2>1, <1>1 DEF Team
<1>4. IsFiniteSet(Arrived)
  BY <1>3, FS_Subset DEF Arrived
<1>. QED  BY <1>2, <1>3, <1>4

\* If the count says all but one have come, all others have.
LEMMA AllOthersArrived ==
  ASSUME BarrierTyped, NEW t \in Team, t \notin Arrived,
         Cardinality(Arrived) = nThreadsCur - 1
  PROVE  Arrived = Team \ {t}
<1>1. IsFiniteSet(Team \ {t}) /\ Cardinality(Team \ {t}) = nThreadsCur - 1
  BY TeamFinite, FS_RemoveElement
<1>2. Arrived \subseteq Team \ {t}
  BY DEF Arrived
<1>. QED  BY <1>1, <1>2, FS_Subset

-------------------------------------------------------------------------------
LEMMA LoadPassedKeeps ==
  ASSUME BarrierTyped, nThreadsCur # 1, Orderly, NEW t \in Team, LoadPassed(t)
  PROVE  BarrierTyped' /\ Orderly'
<1>1. t \in Threads  BY TeamFinite
<1>2. BarrierTyped'
  BY <1>1 DEF BarrierTyped, LoadPassed, Gates
<1>3. Team' = Team  BY DEF Team, LoadPassed
<1>4. \A u \in Team : gate[u] \notin {"last", "reset"}
  BY DEF Orderly, Alone, LoadPassed
<1>5. \A u \in Team : Placed(u)'
  BY <1>1, TeamFinite DEF Orderly, Placed, LoadPassed, BarrierTyped
<1>6. \A u \in Team : gate'[u] \notin {"last", "reset"}
  BY <1>1, <1>4, TeamFinite DEF LoadPassed, BarrierTyped
<1>7. Arrived' = Arrived
  BY <1>1, <1>3, TeamFinite DEF Arrived, LoadPassed, BarrierTyped
<1>8. Counted'
  BY <1>3, <1>4, <1>6, <1>7 DEF Counted, Orderly, LoadPassed
<1>. QED  BY <1>2, <1>3, <1>5, <1>6, <1>8 DEF Orderly, Alone

LEMMA ArriveKeeps ==
  ASSUME BarrierTyped, nThreadsCur # 1, Orderly, NEW t \in Team, Arrive(t)
  PROVE  BarrierTyped' /\ Orderly'
<1>1. t \in Threads  BY TeamFinite
<1>2. BarrierTyped'
  BY <1>1 DEF BarrierTyped, Arrive, Gates
<1>3. Team' = Team  BY DEF Team, Arrive
<1>4. \A u \in Team : gate[u] \notin {"last", "reset"}
  BY DEF Orderly, Alone, Arrive
<1>5. t \notin Arrived /\ seen[t] = nBarrierPassed
  BY DEF Arrived, Arrive, Orderly, Placed
<1>6. \A u \in Team : Placed(u)'
  BY <1>1, TeamFinite DEF Orderly, Placed, Arrive, BarrierTyped
<1>7. Arrived' = Arrived \cup {t}
  BY <1>1, <1>3, <1>5, TeamFinite DEF Arrived, Arrive, BarrierTyped
<1>8. nBarrier = Cardinality(Arrived)
  BY <1>4 DEF Orderly, Counted
<1>9. Cardinality(Arrived') = nBarrier + 1
  BY <1>5, <1>7, <1>8, TeamFinite, FS_AddElement
<1>10. \A u \in Team : gate'[u] # "reset"
  BY <1>1, <1>4, TeamFinite DEF Arrive, BarrierTyped
<1>11. Counted'
  BY <1>3, <1>9, <1>10 DEF Counted, Arrive
<1>12. \A u \in Team : Alone(u)'
  <2>. SUFFICES ASSUME NEW u \in Team, gate'[u] \in {"last", "reset"}
                PROVE  \A w \in Team \ {u} : gate'[w] = "waiting" /\ seen'[w] = nBarrierPassed'
    BY <1>3 DEF Alone
  <2>1. u = t /\ IsLast
    BY <1>1, <1>4, TeamFinite DEF Arrive, BarrierTyped
  <2>2. Arrived = Team \ {t}
    BY <1>5, <1>8, <2>1, AllOthersArrived DEF IsLast
  <2>. QED  BY <1>1, <1>4, <2>1, <2>2, TeamFinite DEF Arrived, Arrive, BarrierTyped
<1>. QED  BY <1>2, <1>3, <1>6, <1>11, <1>12 DEF Orderly

LEMMA ResetCountKeeps ==
  ASSUME BarrierTyped, nThreadsCur # 1, Orderly, NEW t \in Team, ResetCount(t)
  PROVE  BarrierTyped' /\ Orderly'
<1>1. t \in Threads  BY TeamFinite
<1>2. BarrierTyped'
  BY <1>1 DEF BarrierTyped, ResetCount, Gates
<1>3. Team' = Team  BY DEF Team, ResetCount
<1>4. \A u \in Team \ {t} : gate[u] = "waiting" /\ seen[u] = nBarrierPassed
  BY DEF Orderly, Alone, ResetCount
<1>5. \A u \in Team : Placed(u)' /\ Alone(u)'
  BY <1>1, <1>3, <1>4, TeamFinite DEF Orderly, Placed, Alone, ResetCount, BarrierTyped
<1>6. Counted'
  BY <1>1, <1>3 DEF Counted, ResetCount, BarrierTyped
<1>. QED  BY <1>2, <1>3, <1>5, <1>6 DEF Orderly

LEMMA OpenBarrierKeeps ==
  ASSUME BarrierTyped, nThreadsCur # 1, Orderly, NEW t \in Team, OpenBarrier(t)
  PROVE  BarrierTyped' /\ Orderly'
<1>1. t \in Threads  BY TeamFinite
<1>2. BarrierTyped'
  BY <1>1 DEF BarrierTyped, OpenBarrier, Through, Gates
<1>3. Team' = Team  BY DEF Team, OpenBarrier
<1>4. \A u \in Team \ {t} : gate[u] = "waiting" /\ seen[u] = nBarrierPassed
  BY DEF Orderly, Alone, OpenBarrier
<1>5. \A u \in Team : gate'[u] = IF u = t THEN "out" ELSE "waiting"
  BY <1>1, <1>4, TeamFinite DEF OpenBarrier, Through, BarrierTyped
<1>6. \A u \in Team : Placed(u)' /\ Alone(u)'
  BY <1>1, <1>3, <1>4, <1>5, TeamFinite
     DEF Orderly, Placed, Alone, OpenBarrier, Through, BarrierTyped
<1>7. Arrived' = {}
  BY <1>1, <1>3, <1>4, <1>5, TeamFinite DEF Arrived, OpenBarrier, BarrierTyped
<1>8. nBarrier = 0
  BY DEF Orderly, Counted, OpenBarrier
<1>9. Counted'
  BY <1>3, <1>5, <1>7, <1>8, FS_EmptySet DEF Counted, OpenBarrier
<1>. QED  BY <1>2, <1>3, <1>6, <1>9 DEF Orderly

LEMMA SeeItOpenKeeps ==
  ASSUME BarrierTyped, nThreadsCur # 1, Orderly, NEW t \in Team, SeeItOpen(t)
  PROVE  BarrierTyped' /\ Orderly'
<1>1. t \in Threads  BY TeamFinite
<1>2. BarrierTyped'
  BY <1>1 DEF BarrierTyped, SeeItOpen, Through, Gates
<1>3. Team' = Team  BY DEF Team, SeeItOpen
<1>4. \A u \in Team : gate[u] \notin {"last", "reset"}
  BY DEF Orderly, Alone, SeeItOpen
<1>5. seen[t] = nBarrierPassed - 1 /\ trips[t] = seen[t]
  BY DEF Orderly, Placed, SeeItOpen
<1>6. \A u \in Team : Placed(u)'
  BY <1>1, <1>5, TeamFinite DEF Orderly, Placed, SeeItOpen, Through, BarrierTyped
<1>7. \A u \in Team : gate'[u] \notin {"last", "reset"}
  BY <1>1, <1>4, TeamFinite DEF SeeItOpen, Through, BarrierTyped
<1>8. Arrived' = Arrived
  BY <1>1, <1>3, <1>5, TeamFinite DEF Arrived, SeeItOpen, Through, BarrierTyped
<1>9. Counted'
  BY <1>3, <1>4, <1>7, <1>8 DEF Counted, Orderly, SeeItOpen
<1>. QED  BY <1>2, <1>3, <1>6, <1>7, <1>9 DEF Orderly, Alone

LEMMA SkipKeeps ==
  ASSUME BarrierTyped, NEW t \in Team, Skip(t)
  PROVE  BarrierTyped' /\ nThreadsCur' = 1
BY TeamFinite DEF BarrierTyped, Skip, Gates

\* Every step at the barrier keeps the invariant of the barrier.
LEMMA BarrierStepKeeps ==
  ASSUME BarrierTyped, nThreadsCur # 1 => Orderly, NEW t \in Team,
         Inside(t) \/ Return(t)
  PROVE  BarrierTyped' /\ (nThreadsCur' # 1 => Orderly') /\ nThreadsCur' = nThreadsCur
<1>1. CASE nThreadsCur = 1
  <2>1. CASE Skip(t)
    BY <1>1, <2>1, SkipKeeps DEF Skip
  <2>2. CASE Inside(t) \/ OpenBarrier(t) \/ SeeItOpen(t)
    BY <1>1, <2>2, TeamFinite
       DEF Inside, LoadPassed, Arrive, ResetCount, OpenBarrier, SeeItOpen, Through,
           BarrierTyped, Gates
  <2>. QED  BY <2>1, <2>2 DEF Inside, Return
<1>2. CASE nThreadsCur # 1
  <2>1. BarrierTyped' /\ Orderly'
    BY <1>2, LoadPassedKeeps, ArriveKeeps, ResetCountKeeps, OpenBarrierKeeps, SeeItOpenKeeps
       DEF Inside, Return, Skip
  <2>. QED  BY <1>2, <2>1
       DEF Inside, Return, Skip, LoadPassed, Arrive, ResetCount, OpenBarrier, SeeItOpen
<1>. QED  BY <1>1, <1>2

-------------------------------------------------------------------------------
LEMMA InitInv == Init => BarrierInv
<1>. SUFFICES ASSUME Init PROVE BarrierInv
  OBVIOUS
<1>1. BarrierTyped /\ nThreadsCur = 1
  BY MaxThreadsAssumption DEF Init, BarrierInit, BarrierTyped, Gates
<1>2. Outside
  BY <1>1 DEF Init, Outside, PCs, Barriers, Team, Threads
<1>. QED  BY <1>1, <1>2 DEF BarrierInv

LEMMA BeginKeeps ==
  ASSUME BarrierInv, NEW gr \in Graphs, NEW n \in 1..MaxThreads, Begin(gr, n)
  PROVE  BarrierInv'
<1>1. BarrierTyped'
  BY MaxThreadsAssumption DEF Begin, NewBarrier, BarrierTyped, Gates
<1>2. Outside'
  <2>1. Team' = 0..(n - 1) /\ Threads = 0..(MaxThreads - 1)
    BY DEF Begin, NewBarrier, Team, Threads
  <2>2. pc' = [t \in Threads |-> IF t = 0 THEN "kick" ELSE IF t < n THEN "poll" ELSE "exited"]
    BY DEF Begin
  <2>3. \A t \in Threads \ Team' : t # 0 /\ ~(t < n)
    BY <2>1, MaxThreadsAssumption
  <2>. QED  BY <2>2, <2>3 DEF Outside, PCs, Barriers
<1>3. Orderly'
  <2>1. \A t \in Team' : t \in Threads
    <3>1. Team' = 0..(n - 1)
      BY DEF Begin, NewBarrier, Team
    <3>. QED  BY <3>1, MaxThreadsAssumption DEF Threads
  <2>2. \A t \in Team' : gate'[t] = "out" /\ trips'[t] = 0
    BY <2>1 DEF Begin, NewBarrier
  <2>3. nBarrier' = 0 /\ nBarrierPassed' = 0
    BY DEF Begin, NewBarrier
  <2>4. Arrived' = {}
    BY <2>2 DEF Arrived
  <2>5. Counted'
    BY <2>3, <2>4, FS_EmptySet DEF Counted
  <2>. QED  BY <2>2, <2>3, <2>5 DEF Orderly, Placed, Alone
<1>. QED  BY <1>1, <1>2, <1>3 DEF BarrierInv

\* Where the barrier is left alone, only Outside can be at stake.
LEMMA ElsewhereKeeps ==
  ASSUME BarrierInv, UNCHANGED barrierVars, Outside'
  PROVE  BarrierInv'
<1>1. BarrierTyped' /\ Team' = Team
  BY DEF BarrierInv, BarrierTyped, barrierVars, Team
<1>2. (nThreadsCur # 1 => Orderly)'
  BY <1>1 DEF BarrierInv, Orderly, Placed, Alone, Counted, Arrived, barrierVars, Team
<1>. QED  BY <1>1, <1>2 DEF BarrierInv

\* The steps of one thread move nothing but its own place.
LEMMA OwnPlaceKeepsOutside ==
  ASSUME Outside, BarrierTyped, NEW t \in Threads, pc[t] # "exited", Team' = Team,
         NEW p \in PCs, pc' = [pc EXCEPT ![t] = p]
  PROVE  Outside'
BY DEF Outside

LEMMA BroadcastKeepsOutside ==
  ASSUME Outside, BarrierTyped, pc[0] # "exited", Team' = Team,
         NEW p \in PCs, pc' = [Broadcast EXCEPT ![0] = p]
  PROVE  Outside'
BY DEF Outside, Broadcast, PCs, Barriers

LEMMA CallerKeeps == ASSUME BarrierInv, Caller PROVE BarrierInv'
<1>1. UNCHANGED barrierVars
  BY DEF Caller, Kickoff, Stop, Join
<1>2. Team' = Team
  BY <1>1 DEF barrierVars, Team
<1>3. CASE Kickoff
  BY <1>1, <1>2, <1>3, BroadcastKeepsOutside, ElsewhereKeeps
     DEF Kickoff, BarrierInv, PCs
<1>4. CASE Stop
  BY <1>1, <1>2, <1>4, BroadcastKeepsOutside, ElsewhereKeeps
     DEF Stop, BarrierInv, PCs
<1>5. CASE Join
  <2>1. 0 \in Threads
    BY MaxThreadsAssumption DEF Threads
  <2>. QED
    BY <1>1, <1>2, <1>5, <2>1, OwnPlaceKeepsOutside, ElsewhereKeeps
       DEF Join, Goto, BarrierInv, PCs
<1>. QED  BY <1>3, <1>4, <1>5 DEF Caller

LEMMA WaitKeeps ==
  ASSUME BarrierInv, NEW t \in Workers, Wait(t) \/ SpuriousWake(t) PROVE BarrierInv'
<1>1. UNCHANGED barrierVars /\ t \in Threads /\ pc[t] # "exited"
  BY DEF Wait, FindWork, GiveUpPolling, Sleep, SpuriousWake, Workers
<1>2. Team' = Team
  BY <1>1 DEF barrierVars, Team
<1>3. \E p \in {"exited", "node", "lock", "wait"} : pc' = [pc EXCEPT ![t] = p]
  BY DEF Wait, FindWork, GiveUpPolling, Sleep, SpuriousWake, Goto
<1>4. Outside'
  BY <1>1, <1>2, <1>3, OwnPlaceKeepsOutside DEF BarrierInv, PCs
<1>. QED  BY <1>1, <1>4, ElsewhereKeeps

\* The steps of ggml_graph_compute_thread outside the barriers.
Work(t) ==
  \/ NextNode(t) \/ GoOn(t) \/ WriteRows(t) \/ WriteSolo(t)
  \/ ConvertSlice(t) \/ WriteChunk(t) \/ NoChunkLeft(t) \/ (t = 0 /\ Abort)

LEMMA WorkKeeps ==
  ASSUME BarrierInv, NEW t \in Threads, Work(t) PROVE BarrierInv'
<1>1. UNCHANGED barrierVars /\ pc[t] # "exited"
  BY DEF Work, NextNode, GoOn, WriteRows, WriteSolo, ConvertSlice, WriteChunk,
         NoChunkLeft, Abort
<1>2. Team' = Team
  BY <1>1 DEF barrierVars, Team
<1>3. \E p \in PCs : pc' = [pc EXCEPT ![t] = p]
  <2>1. CASE NextNode(t)
    <3>1. Enter(This(t)) \in PCs
      BY DEF Enter, PCs
    <3>. QED  BY <2>1, <3>1 DEF NextNode, Goto, PCs, Barriers
  <2>2. CASE WriteChunk(t)
    BY <2>2 DEF WriteChunk, Goto, PCs, BarrierInv, Outside
  <2>. QED
    BY <2>1, <2>2 DEF Work, GoOn, WriteRows, WriteSolo, ConvertSlice, NoChunkLeft,
                      Abort, Onward, Goto, PCs, Barriers
<1>4. Outside'
  BY <1>1, <1>2, <1>3, OwnPlaceKeepsOutside DEF BarrierInv
<1>. QED  BY <1>1, <1>4, ElsewhereKeeps

LEMMA AtBarrierKeeps ==
  ASSUME BarrierInv, NEW t \in Threads, InBarrier(t) \/ LeaveBarrier(t)
  PROVE  BarrierInv'
<1>1. pc[t] \in Barriers /\ (Inside(t) \/ Return(t))
  BY DEF InBarrier, LeaveBarrier
<1>2. t \in Team
  BY <1>1 DEF BarrierInv, Outside, Barriers
<1>3. BarrierTyped' /\ (nThreadsCur' # 1 => Orderly') /\ nThreadsCur' = nThreadsCur
  BY <1>1, <1>2, BarrierStepKeeps DEF BarrierInv
<1>4. Team' = Team
  BY <1>3 DEF Team
<1>5. Outside'
  <2>1. CASE InBarrier(t)
    BY <1>4, <2>1 DEF InBarrier, tpVars, BarrierInv, Outside
  <2>2. CASE LeaveBarrier(t)
    <3>1. \E p \in {"chunk", "node", "collect", "poll"} : pc' = [pc EXCEPT ![t] = p]
      BY <2>2 DEF LeaveBarrier, Goto
    <3>. QED  BY <1>1, <1>4, <3>1, OwnPlaceKeepsOutside DEF BarrierInv, PCs, Barriers
  <2>. QED  BY <2>1, <2>2
<1>. QED  BY <1>3, <1>5 DEF BarrierInv

LEMMA NextInv == BarrierInv /\ [Next]_vars => BarrierInv'
<1>. SUFFICES ASSUME BarrierInv, [Next]_vars PROVE BarrierInv'
  OBVIOUS
<1>1. CASE UNCHANGED vars
  BY <1>1, ElsewhereKeeps DEF vars, tpVars, BarrierInv, Outside, barrierVars, Team
<1>2. CASE \E gr \in Graphs, n \in 1..MaxThreads : Begin(gr, n)
  BY <1>2, BeginKeeps
<1>3. CASE Caller
  BY <1>3, CallerKeeps
<1>4. CASE Abort
  BY <1>4, WorkKeeps, MaxThreadsAssumption DEF Work, Threads
<1>5. CASE \E t \in Workers : Wait(t) \/ SpuriousWake(t)
  BY <1>5, WaitKeeps
<1>6. CASE \E t \in Threads : Compute(t)
  BY <1>6, WorkKeeps, AtBarrierKeeps DEF Compute, Work
<1>. QED  BY <1>1, <1>2, <1>3, <1>4, <1>5, <1>6 DEF Next

LEMMA InvSafe == BarrierInv => BarrierSafe
<1>. SUFFICES ASSUME BarrierInv, NEW t \in Team, NEW u \in Team
              PROVE  trips[t] <= Arrivals(u)
  BY DEF BarrierSafe
<1>1. t \in Threads /\ u \in Threads
  BY TeamFinite DEF BarrierInv
<1>2. CASE nThreadsCur = 1
  <2>1. t = u
    BY <1>2 DEF Team
  <2>. QED  BY <1>1, <2>1 DEF Arrivals, BarrierInv, BarrierTyped
<1>3. CASE nThreadsCur # 1
  <2>1. Placed(t) /\ Placed(u)
    BY <1>3 DEF BarrierInv, Orderly
  <2>2. gate[t] \in Gates /\ gate[u] \in Gates /\ nBarrierPassed \in Nat
        /\ trips[t] \in Nat /\ trips[u] \in Nat /\ seen[t] \in Nat /\ seen[u] \in Nat
    BY <1>1 DEF BarrierInv, BarrierTyped
  <2>3. trips[t] <= nBarrierPassed
    BY <2>1, <2>2 DEF Placed, Gates
  <2>4. nBarrierPassed <= Arrivals(u)
    BY <2>1, <2>2 DEF Placed, Gates, Arrivals
  <2>. QED  BY <2>2, <2>3, <2>4 DEF Arrivals
<1>. QED  BY <1>2, <1>3

\* No thread passes a barrier of a graph that another thread of the pool has yet
\* to reach, whatever the graphs and the number of threads (ggml_barrier,
\* ggml-cpu.c:529-565).
THEOREM BarrierIsSafe == Spec => []BarrierSafe
BY InitInv, NextInv, InvSafe, PTL DEF Spec

-------------------------------------------------------------------------------
(***************************************************************************)
(* Where the threads of a team are.  The barriers divide a graph: node k   *)
(* is computed before a barrier, or, if it is a multiplication, in two     *)
(* halves with a barrier between.  A thread that has yet to see that its   *)
(* barrier is open counts as being past it, so that all are always in the  *)
(* same half of the same node; half 3 is after the graph.                  *)
(***************************************************************************)
Late(t) == gate[t] = "waiting" /\ seen[t] # nBarrierPassed

Starting(t) == pc[t] \in {"kick", "poll", "lock", "wait"} /\ lastGraph[t] = 0

Over(t) ==
  \/ pc[t] \in {"poll", "lock", "wait"} /\ lastGraph[t] # 0
  \/ pc[t] \in {"collect", "join", "exited"}
  \/ pc[t] = "final" /\ Late(t)

\* The node before which the team stops.
EndNode == IF abort \in 1..Len(graph) THEN abort ELSE Len(graph) + 1

LastHalf(k) == IF graph[k].op = "mulmat" THEN 2 ELSE 1

NodeAt(t) ==
  IF Over(t) THEN EndNode
  ELSE IF pc[t] = "nodebar" /\ Late(t) THEN node[t] + 1
  ELSE IF node[t] > Len(graph) THEN Len(graph)
  ELSE node[t]

HalfAt(t) ==
  IF Over(t) THEN 3
  ELSE IF pc[t] = "chunk" \/ (pc[t] = "mulbar" /\ Late(t)) THEN 2
  ELSE IF pc[t] = "after" \/ (pc[t] = "nodebar" /\ ~Late(t)) THEN LastHalf(node[t])
  ELSE IF node[t] > Len(graph) THEN LastHalf(Len(graph))
  ELSE 1

\* The thread's share of its node is computed.
Finished(t) == ~Late(t) /\ (pc[t] \in {"after", "nodebar"} \/ node[t] > Len(graph))

\* The thread is about to compute chunk p.
Held(t, p) ==
  \/ pc[t] = "chunk" /\ chunk[t] = p
  \/ pc[t] = "mulbar" /\ Late(t) /\ t = p

Wrote(k, p) == \E t \in Threads : <<k, p, t>> \in written

-------------------------------------------------------------------------------
(***************************************************************************)
(* Control: what each thread knows where it is, and that they keep         *)
(* together.  While a call is under way the caller is in the graph.        *)
(***************************************************************************)
Walking == {"node", "rows", "solo", "convert", "chunk", "after"} \cup Barriers

Running == pc[0] # "idle"

PoolTyped ==
  /\ pc \in [Threads -> PCs]
  /\ node \in [Threads -> Nat \ {0}]
  /\ chunk \in [Threads -> Nat]
  /\ nGraph \in 0..1 /\ lastGraph \in [Threads -> 0..1] /\ stop \in BOOLEAN
  /\ abort \in Nat /\ ec \in {"success", "aborted"} /\ currentChunk \in Nat
  /\ scratch \in [Threads -> Nat]
  /\ outcome \in {"none", "success", "aborted"}

CallInv ==
  /\ graph # NoGraph => graph \in Graphs
  /\ Running <=> graph # NoGraph
  /\ ~Running => \A t \in Workers : pc[t] = "exited"
  /\ pc[0] \notin {"poll", "lock", "wait", "exited"}
  /\ \A t \in Workers : pc[t] \notin {"idle", "kick", "collect", "join"}
  /\ lastGraph[0] = 0
  /\ Running => (nGraph = 0 <=> pc[0] = "kick")
  /\ Running /\ stop => pc[0] = "join"
  /\ pc[0] = "join" => outcome = ec
  /\ ec = "success" <=> abort = 0
  /\ abort # 1

\* What thread t knows.
Knows(t) ==
  /\ pc[t] \in Walking => nGraph = 1 /\ (t # 0 => lastGraph[t] = 1)
  /\ lastGraph[t] # 0 => nGraph = 1
  /\ Starting(t) => node[t] = 1
  /\ pc[t] \notin Barriers => gate[t] = "out"
  /\ nThreadsCur = 1 => gate[t] = "out"
  /\ pc[t] \in {"rows", "solo", "convert", "mulbar", "chunk", "after", "nodebar"} =>
       node[t] \in 1..Len(graph) /\ abort # node[t]
  /\ pc[t] = "rows" => This(t).op = "rows"
  /\ pc[t] = "solo" => This(t).op = "solo"
  /\ pc[t] \in {"convert", "mulbar", "chunk"} => This(t).op = "mulmat"
  /\ pc[t] = "nodebar" => node[t] # Len(graph)
  /\ pc[t] \in {"node", "final"} => node[t] \in 1..(Len(graph) + 1)
  /\ pc[t] = "final" => node[t] > Len(graph) \/ abort = node[t]
  /\ pc[t] \in {"node", "final"} /\ node[t] > Len(graph) => abort # Len(graph)

Together == \A t \in Team : NodeAt(t) = NodeAt(0) /\ HalfAt(t) = HalfAt(0)

\* If the graph is aborted, it is where the team is or at the next node.
AbortInv ==
  HalfAt(0) # 3 => NodeAt(0) \in 1..Len(graph) /\ abort \in {0, NodeAt(0), NodeAt(0) + 1}

PlacesInv == (\A t \in Team : Knows(t)) /\ Together /\ AbortInv

ControlInv ==
  /\ BarrierInv /\ PoolTyped /\ CallInv
  /\ nThreadsCur = 1 => nBarrier = 0
  /\ Running => PlacesInv

-------------------------------------------------------------------------------
(***************************************************************************)
(* What has been computed, by where the team is.                           *)
(***************************************************************************)
NodeComplete(k) == \A p \in 0..(Parts(graph[k]) - 1) : Wrote(k, p)
NothingOf(k) == \A p \in Nat : ~Wrote(k, p)

\* The chunks of a multiplication: each number below the counter was computed or is
\* held by one thread.
ChunksInv(k) ==
  /\ currentChunk >= nThreadsCur
  /\ \A t \in Team, p \in Nat : Held(t, p) =>
       /\ p < currentChunk /\ ~Wrote(k, p)
       /\ \A u \in Team : Held(u, p) => u = t
  /\ \A p \in Nat : Wrote(k, p) => p < currentChunk
  /\ \A p \in Nat : p < currentChunk /\ p < Chunks(graph[k].size) =>
       Wrote(k, p) \/ \E t \in Team : Held(t, p)
  /\ \A t \in Team : Finished(t) => currentChunk >= Chunks(graph[k].size)

PartsInv(k, h) ==
  /\ graph[k].op = "rows" => \A p \in Nat : Wrote(k, p) <=> p \in Team /\ Finished(p)
  /\ graph[k].op = "solo" => \A p \in Nat : Wrote(k, p) <=> p = 0 /\ Finished(0)
  /\ graph[k].op = "view" => NothingOf(k)
  /\ graph[k].op = "mulmat" /\ h = 1 =>
       NothingOf(k) /\ (pc[0] = "mulbar" => currentChunk = nThreadsCur)
  /\ graph[k].op = "mulmat" /\ h = 2 => ChunksInv(k)

WrittenAt(k, h) ==
  /\ \A m \in 1..Len(graph) : m < k => NodeComplete(m)
  /\ \A m \in 1..Len(graph) : m > k => NothingOf(m)
  /\ h = 3 /\ k \in 1..Len(graph) => NothingOf(k)
  /\ h # 3 => PartsInv(k, h)

WrittenInv == WrittenAt(NodeAt(0), HalfAt(0))

-------------------------------------------------------------------------------
LEMMA TeamHasZero ==
  ASSUME BarrierTyped
  PROVE  0 \in Team /\ Team \subseteq Threads /\ 0 \in Threads /\ Workers \subseteq Threads
BY TeamFinite, MaxThreadsAssumption DEF BarrierTyped, Team, Threads, Workers

LEMMA GraphShape ==
  ASSUME NEW gr \in Graphs
  PROVE  /\ Len(gr) \in Nat \ {0} /\ DOMAIN gr = 1..Len(gr) /\ gr # NoGraph
         /\ \A k \in 1..Len(gr) :
              gr[k].op \in {"rows", "solo", "mulmat", "view"} /\ gr[k].size \in Nat
<1>1. gr \in Seq(Node) /\ gr # << >>
  BY GraphsAssumption
<1>2. \A k \in 1..Len(gr) : gr[k] \in Node
  BY <1>1
<1>. QED  BY <1>1, <1>2 DEF NoGraph, Node

LEMMA TypedKeeps ==
  ASSUME PoolTyped, CallInv, BarrierInv, Next PROVE PoolTyped'
<1>z. 0 \in Threads /\ Workers \subseteq Threads /\ nThreadsCur \in Nat
  BY TeamHasZero, MaxThreadsAssumption DEF BarrierInv, BarrierTyped
<1>o. pc' \in [Threads -> PCs]
  BY NextInv DEF BarrierInv, Outside
<1>1. ASSUME NEW gr \in Graphs, NEW n \in 1..MaxThreads, Begin(gr, n)
      PROVE  PoolTyped'
  <2>1. stop' \in BOOLEAN
    BY <1>1, Zenon DEF Begin
  <2>. QED  BY <1>o, <1>1, <2>1 DEF Begin, PoolTyped
<1>2. CASE Kickoff
  BY <1>o, <1>2 DEF Kickoff, PoolTyped, CallInv, Running, workVars
<1>3. CASE Stop \/ Join
  BY <1>o, <1>3 DEF Stop, Join, PoolTyped, poolVars, workVars
<1>4. CASE Abort
  BY <1>z, <1>o, <1>4 DEF Abort, Onward, PoolTyped, poolVars
<1>5. ASSUME NEW t \in Workers, Wait(t) \/ SpuriousWake(t)
      PROVE  PoolTyped'
  BY <1>z, <1>o, <1>5
     DEF Wait, FindWork, GiveUpPolling, Sleep, SpuriousWake, PoolTyped, poolVars, workVars
<1>6. ASSUME NEW t \in Threads, Compute(t)
      PROVE  PoolTyped'
  <2>1. CASE NextNode(t) \/ WriteRows(t) \/ WriteSolo(t) \/ NoChunkLeft(t) \/ InBarrier(t)
    BY <1>o, <2>1
       DEF NextNode, WriteRows, WriteSolo, NoChunkLeft, InBarrier, tpVars, PoolTyped,
           poolVars, workVars
  <2>2. CASE GoOn(t)
    <3>1. node' = node \/ node' = [node EXCEPT ![t] = node[t] + 1]
      BY <2>2 DEF GoOn, Onward
    <3>2. node' \in [Threads -> Nat \ {0}]
      BY <3>1 DEF PoolTyped
    <3>. QED  BY <1>o, <2>2, <3>2 DEF GoOn, PoolTyped, poolVars, workVars
  <2>3. CASE ConvertSlice(t)
    BY <1>z, <1>o, <2>3 DEF ConvertSlice, PoolTyped, poolVars
  <2>4. CASE WriteChunk(t)
    BY <1>z, <1>o, <2>4 DEF WriteChunk, PoolTyped, poolVars
  <2>5. CASE LeaveBarrier(t)
    BY <1>z, <1>o, <2>5 DEF LeaveBarrier, PoolTyped, poolVars, workVars, Threads
  <2>. QED  BY <1>6, <2>1, <2>2, <2>3, <2>4, <2>5 DEF Compute
<1>. QED  BY <1>1, <1>2, <1>3, <1>4, <1>5, <1>6 DEF Next, Caller

\* The places of the caller and those of the workers.
LEMMA CallKeeps ==
  ASSUME PoolTyped, CallInv, BarrierInv, Next PROVE CallInv'
<1>z. 0 \in Threads /\ Workers \subseteq Threads /\ 0 \notin Workers
  BY TeamHasZero DEF BarrierInv, Workers
<1>1. ASSUME NEW gr \in Graphs, NEW n \in 1..MaxThreads, Begin(gr, n)
      PROVE  CallInv'
  BY <1>z, <1>1, GraphShape DEF Begin, CallInv, Running
<1>2. CASE Kickoff
  BY <1>z, <1>2 DEF Kickoff, Broadcast, CallInv, Running, PoolTyped, workVars, PCs
<1>3. CASE Stop
  BY <1>z, <1>3 DEF Stop, Broadcast, CallInv, Running, PoolTyped, workVars, PCs
<1>4. CASE Join
  BY <1>z, <1>4 DEF Join, Goto, CallInv, Running, PoolTyped, poolVars, workVars
<1>5. CASE Abort
  BY <1>z, <1>5 DEF Abort, Onward, Goto, CallInv, Running, PoolTyped, poolVars
<1>6. ASSUME NEW t \in Workers, Wait(t) \/ SpuriousWake(t)
      PROVE  CallInv'
  BY <1>z, <1>6
     DEF Wait, FindWork, GiveUpPolling, Sleep, SpuriousWake, Goto, CallInv, Running, PoolTyped,
         poolVars, workVars
<1>7. ASSUME NEW t \in Threads, Compute(t)
      PROVE  CallInv'
  <2>1. UNCHANGED <<graph, nGraph, lastGraph, stop, abort, ec, outcome>>
    BY <1>7
       DEF Compute, NextNode, GoOn, WriteRows, WriteSolo, ConvertSlice, WriteChunk, NoChunkLeft,
           InBarrier, LeaveBarrier, tpVars, poolVars, workVars
  <2>2. pc[t] \in Walking
    BY <1>7
       DEF Compute, NextNode, GoOn, WriteRows, WriteSolo, ConvertSlice, WriteChunk, NoChunkLeft,
           InBarrier, LeaveBarrier, Walking
  <2>3. \E p \in PCs : /\ pc' = [pc EXCEPT ![t] = p]
                       /\ p \in Walking \cup (IF t = 0 THEN {"collect"} ELSE {"poll"})
    <3>1. CASE NextNode(t)
      <4>1. Enter(This(t)) \in PCs \cap Walking
        BY DEF Enter, PCs, Walking
      <4>. QED  BY <3>1, <4>1 DEF NextNode, Goto, PCs, Barriers, Walking
    <3>2. CASE WriteChunk(t)
      BY <3>2 DEF WriteChunk, Goto, PCs, Walking, PoolTyped
    <3>3. CASE InBarrier(t)
      BY <3>3 DEF InBarrier, tpVars, PoolTyped, PCs, Barriers, Walking
    <3>. QED
      BY <1>7, <3>1, <3>2, <3>3
         DEF Compute, GoOn, WriteRows, WriteSolo, ConvertSlice, NoChunkLeft, LeaveBarrier,
             Onward, Goto, PCs, Barriers, Walking
  <2>. QED  BY <1>z, <2>1, <2>2, <2>3 DEF CallInv, Running, PoolTyped, Walking, Barriers, Workers
<1>. QED  BY <1>1, <1>2, <1>3, <1>4, <1>5, <1>6, <1>7 DEF Next, Caller

\* What is at hand about a thread of the team while a call is under way.
LEMMA Context ==
  ASSUME ControlInv, Running, NEW t \in Team
  PROVE  /\ t \in Threads /\ 0 \in Team /\ pc[t] \in PCs /\ node[t] \in Nat \ {0}
         /\ gate[t] \in Gates /\ chunk[t] \in Nat /\ lastGraph[t] \in 0..1
         /\ abort \in Nat /\ nThreadsCur \in Nat \ {0} /\ currentChunk \in Nat
         /\ graph \in Graphs /\ Len(graph) \in Nat \ {0}
         /\ \A k \in 1..Len(graph) :
              graph[k].op \in {"rows", "solo", "mulmat", "view"} /\ graph[k].size \in Nat
         /\ Knows(t) /\ NodeAt(t) = NodeAt(0) /\ HalfAt(t) = HalfAt(0)
<1>1. t \in Threads /\ 0 \in Team
  BY TeamHasZero DEF ControlInv, BarrierInv
<1>2. pc[t] \in PCs /\ node[t] \in Nat \ {0} /\ gate[t] \in Gates /\ chunk[t] \in Nat
      /\ lastGraph[t] \in 0..1 /\ abort \in Nat /\ currentChunk \in Nat
  BY <1>1 DEF ControlInv, PoolTyped, BarrierInv, BarrierTyped
<1>3. nThreadsCur \in Nat \ {0}
  BY MaxThreadsAssumption DEF ControlInv, BarrierInv, BarrierTyped
<1>4. graph \in Graphs
  BY DEF ControlInv, CallInv, Running
<1>5. Knows(t) /\ NodeAt(t) = NodeAt(0) /\ HalfAt(t) = HalfAt(0)
  BY DEF ControlInv, PlacesInv, Together
<1>. QED  BY <1>1, <1>2, <1>3, <1>4, <1>5, GraphShape

Control == <<graph, abort, nGraph, nBarrierPassed, nThreadsCur>>

Same(u) ==
  /\ pc'[u] = pc[u] /\ node'[u] = node[u] /\ chunk'[u] = chunk[u]
  /\ lastGraph'[u] = lastGraph[u] /\ gate'[u] = gate[u] /\ seen'[u] = seen[u]

\* A thread that does not move while the others move on their own.
LEMMA Stays ==
  ASSUME NEW u, UNCHANGED Control, Same(u)
  PROVE  /\ NodeAt(u)' = NodeAt(u) /\ HalfAt(u)' = HalfAt(u)
         /\ Knows(u) => Knows(u)'
         /\ Finished(u)' <=> Finished(u)
         /\ \A p : Held(u, p)' <=> Held(u, p)
<1>1. Late(u)' <=> Late(u)
  BY DEF Late, Control, Same
<1>2. Over(u)' <=> Over(u)
  BY <1>1 DEF Over, Control, Same
<1>3. NodeAt(u)' = NodeAt(u)
  BY <1>1, <1>2 DEF NodeAt, EndNode, Control, Same
<1>4. HalfAt(u)' = HalfAt(u)
  BY <1>1, <1>2 DEF HalfAt, LastHalf, Control, Same
<1>5. Knows(u) => Knows(u)'
  BY DEF Knows, Starting, This, Control, Same
<1>6. Finished(u)' <=> Finished(u)
  BY <1>1 DEF Finished, Control, Same
<1>7. \A p : Held(u, p)' <=> Held(u, p)
  BY <1>1 DEF Held, Same
<1>. QED  BY <1>3, <1>4, <1>5, <1>6, <1>7

\* A thread that moves within its half of its node keeps the team together.
Within(t) == Knows(t)' /\ NodeAt(t)' = NodeAt(t) /\ HalfAt(t)' = HalfAt(t)

KeepsPlace == PlacesInv' /\ NodeAt(0)' = NodeAt(0) /\ HalfAt(0)' = HalfAt(0)

LEMMA WithinKeeps ==
  ASSUME ControlInv, Running, NEW t \in Team, UNCHANGED Control,
         \A u \in Team \ {t} : Same(u), Within(t)
  PROVE  KeepsPlace
<1>1. Team' = Team /\ 0 \in Team
  BY Context DEF Team, Control
<1>2. \A u \in Team : Knows(u)' /\ NodeAt(u)' = NodeAt(u) /\ HalfAt(u)' = HalfAt(u)
  BY Stays DEF Within, ControlInv, PlacesInv
<1>3. Together'
  BY <1>1, <1>2 DEF Together, ControlInv, PlacesInv
<1>4. AbortInv'
  BY <1>1, <1>2 DEF AbortInv, Control, ControlInv, PlacesInv
<1>. QED  BY <1>1, <1>2, <1>3, <1>4 DEF PlacesInv, KeepsPlace

LEMMA NextNodeWithin ==
  ASSUME ControlInv, Running, NEW t \in Team, NextNode(t)
  PROVE  Within(t)
<1>c. /\ t \in Threads /\ node[t] \in Nat \ {0} /\ Len(graph) \in Nat \ {0}
      /\ \A k \in 1..Len(graph) : graph[k].op \in {"rows", "solo", "mulmat", "view"}
      /\ Knows(t) /\ pc \in [Threads -> PCs]
  BY Context DEF ControlInv, PoolTyped
<1>u. UNCHANGED <<node, chunk, lastGraph, gate, seen, graph, abort, nGraph, nBarrierPassed, nThreadsCur>>
  BY DEF NextNode, barrierVars, poolVars, workVars
<1>g. pc[t] = "node" /\ gate[t] = "out" /\ gate'[t] = "out" /\ ~Late(t) /\ ~Late(t)' /\ ~Over(t)
  BY <1>c, <1>u DEF NextNode, Knows, Late, Over, Barriers
<1>1. CASE node[t] <= Len(graph) /\ abort # node[t]
  <2>1. pc'[t] = Enter(graph[node[t]]) /\ graph[node[t]].op \in {"rows", "solo", "mulmat", "view"}
    BY <1>1, <1>c DEF NextNode, Goto, This
  <2>2. /\ graph[node[t]].op = "rows" => pc'[t] = "rows"
        /\ graph[node[t]].op = "solo" => pc'[t] = "solo"
        /\ graph[node[t]].op = "mulmat" => pc'[t] = "convert"
        /\ graph[node[t]].op = "view" => pc'[t] = "after"
    BY <2>1 DEF Enter
  <2>3. pc'[t] \in {"rows", "solo", "convert", "after"} /\ ~Over(t)'
    BY <2>1, <2>2 DEF Over
  <2>4. Knows(t)'
    BY <1>c, <1>u, <1>g, <1>1, <2>1, <2>2, <2>3 DEF Knows, This, Barriers, Walking, Starting
  <2>5. NodeAt(t)' = NodeAt(t)
    BY <1>u, <1>g, <2>3 DEF NodeAt
  <2>6. HalfAt(t)' = HalfAt(t)
    BY <1>c, <1>u, <1>g, <1>1, <2>1, <2>2, <2>3 DEF HalfAt, LastHalf
  <2>. QED  BY <2>4, <2>5, <2>6 DEF Within
<1>2. CASE ~(node[t] <= Len(graph) /\ abort # node[t])
  <2>1. pc'[t] = "final" /\ ~Over(t)'
    BY <1>2, <1>c, <1>g DEF NextNode, Goto, Over
  <2>2. Knows(t)'
    BY <1>c, <1>u, <1>g, <1>2, <2>1 DEF Knows, This, Barriers, Walking, Starting
  <2>3. NodeAt(t)' = NodeAt(t) /\ HalfAt(t)' = HalfAt(t)
    BY <1>u, <1>g, <2>1 DEF NodeAt, HalfAt, LastHalf
  <2>. QED  BY <2>2, <2>3 DEF Within
<1>. QED  BY <1>1, <1>2

LEMMA WorkWithin ==
  ASSUME ControlInv, Running, NEW t \in Team,
         \/ WriteRows(t) \/ WriteSolo(t) \/ ConvertSlice(t) \/ WriteChunk(t) \/ NoChunkLeft(t)
  PROVE  Within(t)
<1>c. /\ t \in Threads /\ node[t] \in Nat \ {0} /\ Len(graph) \in Nat \ {0}
      /\ Knows(t) /\ pc \in [Threads -> PCs]
  BY Context DEF ControlInv, PoolTyped
<1>u. UNCHANGED <<node, lastGraph, gate, seen, graph, abort, nGraph, nBarrierPassed, nThreadsCur>>
  BY DEF WriteRows, WriteSolo, ConvertSlice, WriteChunk, NoChunkLeft, barrierVars, poolVars, workVars
<1>p. \/ pc[t] \in {"rows", "solo"} /\ pc'[t] = "after"
      \/ pc[t] = "convert" /\ pc'[t] = "mulbar"
      \/ pc[t] = "chunk" /\ pc'[t] \in {"chunk", "after"}
  BY <1>c DEF WriteRows, WriteSolo, ConvertSlice, WriteChunk, NoChunkLeft, Goto
<1>g. /\ node[t] \in 1..Len(graph) /\ abort # node[t]
      /\ gate[t] = "out" /\ gate'[t] = "out" /\ ~Late(t) /\ ~Late(t)' /\ ~Over(t) /\ ~Over(t)'
  BY <1>c, <1>u, <1>p DEF Knows, Late, Over, Barriers
<1>k. \/ graph[node[t]].op \in {"rows", "solo"} /\ pc[t] \in {"rows", "solo"}
      \/ graph[node[t]].op = "mulmat" /\ pc[t] \in {"convert", "chunk"}
  <2>1. CASE pc[t] \in {"rows", "solo"}
    BY <1>c, <2>1 DEF Knows, This
  <2>2. CASE pc[t] \in {"convert", "chunk"}
    BY <1>c, <2>2 DEF Knows, This
  <2>. QED  BY <1>p, <2>1, <2>2
<1>1. Knows(t)'
  BY <1>c, <1>u, <1>p, <1>g, <1>k DEF Knows, This, Barriers, Walking, Starting
<1>2. NodeAt(t)' = NodeAt(t)
  BY <1>u, <1>p, <1>g DEF NodeAt
<1>3. HalfAt(t)' = HalfAt(t)
  BY <1>c, <1>u, <1>p, <1>g, <1>k DEF HalfAt, LastHalf
<1>. QED  BY <1>1, <1>2, <1>3 DEF Within

LEMMA GoOnWithin ==
  ASSUME ControlInv, Running, NEW t \in Team, GoOn(t)
  PROVE  Within(t)
<1>c. /\ t \in Threads /\ node[t] \in Nat \ {0} /\ Len(graph) \in Nat \ {0}
      /\ Knows(t) /\ pc \in [Threads -> PCs] /\ node \in [Threads -> Nat \ {0}]
  BY Context DEF ControlInv, PoolTyped
<1>u. UNCHANGED <<lastGraph, gate, seen, graph, abort, nGraph, nBarrierPassed, nThreadsCur>>
  BY DEF GoOn, barrierVars, poolVars, workVars
<1>p. /\ pc[t] = "after"
      /\ \/ node[t] < Len(graph) /\ pc'[t] = "nodebar" /\ node'[t] = node[t]
         \/ ~(node[t] < Len(graph)) /\ pc'[t] = "node" /\ node'[t] = node[t] + 1
  BY <1>c DEF GoOn, Onward, Goto
<1>g. /\ node[t] \in 1..Len(graph) /\ abort # node[t]
      /\ gate[t] = "out" /\ gate'[t] = "out" /\ ~Late(t) /\ ~Late(t)' /\ ~Over(t) /\ ~Over(t)'
  BY <1>c, <1>u, <1>p DEF Knows, Late, Over, Barriers
<1>1. Knows(t)'
  BY <1>c, <1>u, <1>p, <1>g DEF Knows, This, Barriers, Walking, Starting
<1>2. NodeAt(t)' = NodeAt(t)
  BY <1>c, <1>u, <1>p, <1>g DEF NodeAt
<1>3. HalfAt(t)' = HalfAt(t)
  BY <1>c, <1>u, <1>p, <1>g DEF HalfAt, LastHalf
<1>. QED  BY <1>1, <1>2, <1>3 DEF Within

\* Inside the barrier a thread is not yet past it.
LEMMA InBarrierWithin ==
  ASSUME ControlInv, Running, NEW t \in Team, InBarrier(t)
  PROVE  Within(t) /\ UNCHANGED Control /\ ~Late(t) /\ ~Late(t)'
<1>c. t \in Threads /\ Knows(t) /\ pc[t] \in Barriers /\ gate \in [Threads -> Gates]
      /\ seen \in [Threads -> Nat]
  BY Context DEF InBarrier, ControlInv, BarrierInv, BarrierTyped
<1>u. UNCHANGED <<node, chunk, pc, lastGraph, graph, abort, nGraph, nBarrierPassed, nThreadsCur>>
  BY DEF InBarrier, Inside, LoadPassed, Arrive, ResetCount, tpVars, poolVars, workVars
<1>g. ~Late(t) /\ ~Late(t)' /\ nThreadsCur # 1
  <2>1. CASE LoadPassed(t)
    BY <1>c, <2>1 DEF LoadPassed, Late
  <2>2. CASE Arrive(t)
    <3>1. nThreadsCur # 1
      BY <1>c, <2>2 DEF Arrive, Knows
    <3>2. seen[t] = nBarrierPassed
      BY <2>2, <3>1 DEF Arrive, ControlInv, BarrierInv, Orderly, Placed
    <3>. QED  BY <1>c, <2>2, <3>1, <3>2 DEF Arrive, Late
  <2>3. CASE ResetCount(t)
    BY <1>c, <2>3 DEF ResetCount, Late, Knows
  <2>. QED  BY <2>1, <2>2, <2>3 DEF InBarrier, Inside
<1>1. Over(t)' <=> Over(t)
  BY <1>u, <1>g DEF Over
<1>2. NodeAt(t)' = NodeAt(t) /\ HalfAt(t)' = HalfAt(t)
  BY <1>u, <1>g, <1>1 DEF NodeAt, HalfAt, EndNode, LastHalf
<1>3. Knows(t)'
  BY <1>c, <1>u, <1>g DEF Knows, This, Starting
<1>. QED  BY <1>u, <1>g, <1>2, <1>3 DEF Within, Control

-------------------------------------------------------------------------------
(***************************************************************************)
(* Leaving a barrier.                                                      *)
(***************************************************************************)

\* Where the thread's barrier leads.
NodePast(t) ==
  IF pc[t] = "mulbar" THEN node[t] ELSE IF pc[t] = "nodebar" THEN node[t] + 1 ELSE EndNode
HalfPast(t) == IF pc[t] = "mulbar" THEN 2 ELSE IF pc[t] = "nodebar" THEN 1 ELSE 3

LEMMA LateIsPast ==
  ASSUME NEW t, Late(t), pc[t] \in Barriers, pc[t] = "final" \/ ~(node[t] > Len(graph))
  PROVE  NodeAt(t) = NodePast(t) /\ HalfAt(t) = HalfPast(t)
<1>1. CASE pc[t] = "final"
  BY <1>1 DEF NodeAt, HalfAt, NodePast, HalfPast, Over
<1>2. CASE pc[t] = "mulbar"
  BY <1>2 DEF NodeAt, HalfAt, NodePast, HalfPast, Over
<1>3. CASE pc[t] = "nodebar"
  BY <1>3 DEF NodeAt, HalfAt, NodePast, HalfPast, Over
<1>. QED  BY <1>1, <1>2, <1>3 DEF Barriers

\* What awaits a thread that has yet to pass its barrier.
LEMMA BeforeBarrier ==
  ASSUME ControlInv, Running, NEW t \in Team, pc[t] \in Barriers, ~Late(t)
  PROVE  /\ pc[t] = "mulbar" => /\ NodeAt(t) = node[t] /\ HalfAt(t) = 1 /\ node[t] \in 1..Len(graph)
                                /\ graph[node[t]].op = "mulmat" /\ abort # node[t]
         /\ pc[t] = "nodebar" => /\ NodeAt(t) = node[t] /\ HalfAt(t) = LastHalf(node[t])
                                 /\ node[t] \in 1..(Len(graph) - 1) /\ abort # node[t]
         /\ pc[t] = "final" =>
              \/ /\ NodeAt(t) = Len(graph) /\ HalfAt(t) = LastHalf(Len(graph))
                 /\ node[t] = Len(graph) + 1 /\ abort # Len(graph)
              \/ /\ NodeAt(t) = node[t] /\ HalfAt(t) = 1
                 /\ node[t] \in 1..Len(graph) /\ abort = node[t]
<1>c. node[t] \in Nat \ {0} /\ Len(graph) \in Nat \ {0} /\ Knows(t)
  BY Context
<1>1. CASE pc[t] = "mulbar"
  BY <1>c, <1>1 DEF Knows, This, NodeAt, HalfAt, Over
<1>2. CASE pc[t] = "nodebar"
  BY <1>c, <1>2 DEF Knows, NodeAt, HalfAt, Over
<1>3. CASE pc[t] = "final"
  BY <1>c, <1>3 DEF Knows, NodeAt, HalfAt, Over
<1>. QED  BY <1>1, <1>2, <1>3 DEF Barriers

\* All who have yet to pass a barrier meet at the same one.
LEMMA SameBarrier ==
  ASSUME ControlInv, Running, NEW t \in Team, NEW u \in Team,
         pc[t] \in Barriers, pc[u] \in Barriers, ~Late(t), ~Late(u)
  PROVE  pc[t] = pc[u] /\ node[t] = node[u]
<1>c. /\ node[t] \in Nat \ {0} /\ node[u] \in Nat \ {0} /\ Len(graph) \in Nat \ {0}
      /\ NodeAt(t) = NodeAt(u) /\ HalfAt(t) = HalfAt(u)
  BY Context
<1>1. CASE pc[t] = "mulbar"
  BY <1>1, <1>c, BeforeBarrier DEF Barriers, LastHalf
<1>2. CASE pc[t] = "nodebar"
  BY <1>2, <1>c, BeforeBarrier DEF Barriers, LastHalf
<1>3. CASE pc[t] = "final"
  BY <1>3, <1>c, BeforeBarrier DEF Barriers, LastHalf
<1>. QED  BY <1>1, <1>2, <1>3 DEF Barriers

\* Past the barrier, too, the team is before the node the graph is aborted at.
LEMMA PastAborts ==
  ASSUME ControlInv, Running, NEW t \in Team, pc[t] \in Barriers, ~Late(t)
  PROVE  HalfPast(t) # 3 =>
           NodePast(t) \in 1..Len(graph) /\ abort \in {0, NodePast(t), NodePast(t) + 1}
<1>c. /\ node[t] \in Nat \ {0} /\ Len(graph) \in Nat \ {0}
      /\ NodeAt(t) = NodeAt(0) /\ HalfAt(t) = HalfAt(0)
  BY Context
<1>a. AbortInv
  BY DEF ControlInv, PlacesInv
<1>1. CASE pc[t] = "mulbar"
  BY <1>1, <1>c, <1>a, BeforeBarrier DEF NodePast, HalfPast, AbortInv
<1>2. CASE pc[t] = "nodebar"
  <2>1. /\ NodeAt(t) = node[t] /\ HalfAt(t) # 3 /\ node[t] \in 1..(Len(graph) - 1)
        /\ abort # node[t]
    BY <1>2, BeforeBarrier DEF LastHalf
  <2>. QED  BY <1>2, <1>c, <1>a, <2>1 DEF NodePast, HalfPast, AbortInv
<1>3. CASE pc[t] = "final"
  BY <1>3 DEF HalfPast
<1>. QED  BY <1>1, <1>2, <1>3 DEF Barriers

LEMMA LeavesToPast ==
  ASSUME ControlInv, Running, NEW t \in Team, LeaveBarrier(t)
  PROVE  Knows(t)' /\ NodeAt(t)' = NodePast(t) /\ HalfAt(t)' = HalfPast(t)
<1>c. /\ t \in Threads /\ node[t] \in Nat \ {0} /\ Len(graph) \in Nat \ {0}
      /\ Knows(t) /\ pc \in [Threads -> PCs] /\ node \in [Threads -> Nat \ {0}]
      /\ gate \in [Threads -> Gates] /\ pc[t] \in Barriers
  BY Context DEF ControlInv, PoolTyped, BarrierInv, BarrierTyped, LeaveBarrier
<1>u. UNCHANGED <<lastGraph, graph, abort, nGraph, nThreadsCur>>
  BY DEF LeaveBarrier, Return, Skip, OpenBarrier, SeeItOpen, poolVars, workVars
<1>g. gate'[t] = "out" /\ ~Late(t)'
  BY <1>c DEF LeaveBarrier, Return, Skip, OpenBarrier, SeeItOpen, Through, Knows, Late
<1>l. lastGraph[t] # 0 \/ t = 0
  BY <1>c DEF Knows, Walking
<1>1. CASE pc[t] = "mulbar"
  <2>1. pc'[t] = "chunk" /\ node'[t] = node[t] /\ node[t] \in 1..Len(graph)
    BY <1>1, <1>c DEF LeaveBarrier, Goto, Knows
  <2>2. Knows(t)'
    BY <1>1, <1>c, <1>u, <1>g, <2>1 DEF Knows, This, Barriers, Walking, Starting
  <2>. QED  BY <1>1, <1>g, <1>c, <1>u, <2>1, <2>2 DEF NodeAt, HalfAt, Over, NodePast, HalfPast
<1>2. CASE pc[t] = "nodebar"
  <2>1. /\ pc'[t] = "node" /\ node'[t] = node[t] + 1 /\ node[t] \in 1..Len(graph)
        /\ node[t] # Len(graph)
    BY <1>2, <1>c DEF LeaveBarrier, Goto, Knows
  <2>2. Knows(t)'
    BY <1>2, <1>c, <1>u, <1>g, <2>1 DEF Knows, This, Barriers, Walking, Starting
  <2>. QED  BY <1>2, <1>g, <1>c, <1>u, <2>1, <2>2 DEF NodeAt, HalfAt, Over, NodePast, HalfPast
<1>3. CASE pc[t] = "final"
  <2>1. pc'[t] = (IF t = 0 THEN "collect" ELSE "poll") /\ node'[t] = node[t]
    BY <1>3, <1>c DEF LeaveBarrier, Goto
  <2>2. Knows(t)'
    BY <1>3, <1>c, <1>u, <1>g, <1>l, <2>1 DEF Knows, This, Barriers, Walking, Starting
  <2>3. Over(t)'
    BY <1>u, <1>l, <2>1 DEF Over
  <2>. QED
    BY <1>3, <1>u, <2>2, <2>3 DEF NodeAt, HalfAt, EndNode, NodePast, HalfPast
<1>. QED  BY <1>1, <1>2, <1>3, <1>c DEF Barriers

\* When a barrier opens, or the team is of one, all others of the team are waiting at
\* it, and then late.
LEMMA AllAtBarrier ==
  ASSUME ControlInv, Running, NEW t \in Team, LeaveBarrier(t), Skip(t) \/ OpenBarrier(t)
  PROVE  /\ pc[t] \in Barriers /\ ~Late(t)
         /\ \A u \in Team \ {t} :
              /\ pc[u] = pc[t] /\ node[u] = node[t] /\ ~Late(u)
              /\ Same(u) /\ Late(u)'
<1>c. /\ t \in Threads /\ pc[t] \in Barriers /\ Knows(t)
      /\ pc \in [Threads -> PCs] /\ node \in [Threads -> Nat \ {0}] /\ chunk \in [Threads -> Nat]
      /\ gate \in [Threads -> Gates] /\ Team \subseteq Threads
  BY Context, TeamFinite DEF ControlInv, PoolTyped, BarrierInv, BarrierTyped, LeaveBarrier
<1>1. ~Late(t)
  BY <1>c DEF Skip, OpenBarrier, Late, Knows
<1>2. ASSUME NEW u \in Team \ {t}
      PROVE  /\ pc[u] = pc[t] /\ node[u] = node[t] /\ ~Late(u)
             /\ Same(u) /\ Late(u)'
  <2>1. ~Skip(t)
    BY <1>2, <1>c DEF Skip, Team
  <2>2. nThreadsCur # 1
    BY <1>c, <2>1 DEF OpenBarrier, Knows
  <2>3. gate[u] = "waiting" /\ seen[u] = nBarrierPassed /\ nBarrierPassed \in Nat
    BY <2>1, <2>2, <1>2
       DEF OpenBarrier, ControlInv, BarrierInv, BarrierTyped, Orderly, Alone
  <2>4. Knows(u) /\ pc[u] \in Barriers /\ ~Late(u)
    BY <1>2, <2>3, Context DEF Knows, Late
  <2>5. pc[u] = pc[t] /\ node[u] = node[t]
    BY <1>c, <1>1, <1>2, <2>4, SameBarrier
  <2>6. Same(u)
    BY <1>c, <1>2 DEF Same, LeaveBarrier, Goto, Skip, OpenBarrier, Through, poolVars
  <2>7. Late(u)'
    BY <2>1, <2>3, <2>6 DEF OpenBarrier, Late, Same
  <2>. QED  BY <2>4, <2>5, <2>6, <2>7
<1>. QED  BY <1>c, <1>1, <1>2

\* Seeing that the barrier is open makes no difference: the thread counted as past it.
LEMMA SeeItOpenWithin ==
  ASSUME ControlInv, Running, NEW t \in Team, LeaveBarrier(t), SeeItOpen(t)
  PROVE  Within(t) /\ KeepsPlace
<1>c. /\ t \in Threads /\ pc[t] \in Barriers /\ Knows(t)
      /\ pc \in [Threads -> PCs] /\ node \in [Threads -> Nat \ {0}] /\ chunk \in [Threads -> Nat]
      /\ gate \in [Threads -> Gates] /\ Team \subseteq Threads
  BY Context, TeamFinite DEF ControlInv, PoolTyped, BarrierInv, BarrierTyped, LeaveBarrier
<1>1. Late(t) /\ UNCHANGED Control
  BY DEF SeeItOpen, Late, Control, LeaveBarrier, poolVars, workVars
<1>2. pc[t] = "final" \/ ~(node[t] > Len(graph))
  BY <1>c, Context DEF Knows, Barriers
<1>3. Within(t)
  BY <1>c, <1>1, <1>2, LeavesToPast, LateIsPast DEF Within
<1>4. \A u \in Team \ {t} : Same(u)
  BY <1>c DEF Same, LeaveBarrier, Goto, SeeItOpen, Through, poolVars
<1>. QED  BY <1>1, <1>3, <1>4, WithinKeeps

LEMMA OpenPlaces ==
  ASSUME ControlInv, Running, NEW t \in Team, LeaveBarrier(t), Skip(t) \/ OpenBarrier(t)
  PROVE  PlacesInv' /\ NodeAt(0)' = NodePast(t) /\ HalfAt(0)' = HalfPast(t)
<1>c. 0 \in Team /\ pc[t] \in Barriers /\ ~Late(t)
  BY Context, AllAtBarrier
<1>u. UNCHANGED <<lastGraph, graph, abort, nGraph, nThreadsCur>> /\ Team' = Team
  BY DEF LeaveBarrier, Skip, OpenBarrier, poolVars, workVars, Team
<1>t. Knows(t)' /\ NodeAt(t)' = NodePast(t) /\ HalfAt(t)' = HalfPast(t)
  BY LeavesToPast
<1>1. ASSUME NEW u \in Team \ {t}
      PROVE  Knows(u)' /\ NodeAt(u)' = NodePast(t) /\ HalfAt(u)' = HalfPast(t)
  <2>1. pc[u] = pc[t] /\ node[u] = node[t] /\ Same(u) /\ Late(u)' /\ Knows(u)
    BY <1>1, AllAtBarrier, Context
  <2>2. pc'[u] \in Barriers /\ (pc'[u] = "final" \/ ~(node'[u] > Len(graph')))
    BY <1>1, <2>1, <1>c, <1>u, Context DEF Knows, Barriers, Same
  <2>3. NodeAt(u)' = NodePast(u)' /\ HalfAt(u)' = HalfPast(u)'
    <3>1. CASE pc'[u] = "final"
      BY <2>1, <3>1 DEF NodeAt, HalfAt, NodePast, HalfPast, Over
    <3>2. CASE pc'[u] = "mulbar"
      BY <2>1, <2>2, <3>2 DEF NodeAt, HalfAt, NodePast, HalfPast, Over
    <3>3. CASE pc'[u] = "nodebar"
      BY <2>1, <2>2, <3>3 DEF NodeAt, HalfAt, NodePast, HalfPast, Over
    <3>. QED  BY <2>2, <3>1, <3>2, <3>3 DEF Barriers
  <2>4. NodePast(u)' = NodePast(t) /\ HalfPast(u)' = HalfPast(t)
    BY <2>1, <1>u DEF NodePast, HalfPast, EndNode, Same
  <2>5. Knows(u)'
    BY <2>1, <1>u DEF Knows, Starting, This, Same
  <2>. QED  BY <2>3, <2>4, <2>5
<1>2. \A u \in Team : Knows(u)' /\ NodeAt(u)' = NodePast(t) /\ HalfAt(u)' = HalfPast(t)
  BY <1>t, <1>1
<1>3. Together'
  BY <1>u, <1>c, <1>2 DEF Together
<1>4. AbortInv'
  BY <1>u, <1>c, <1>2, PastAborts DEF AbortInv
<1>. QED  BY <1>u, <1>c, <1>2, <1>3, <1>4 DEF PlacesInv

LEMMA LeaveKeeps ==
  ASSUME ControlInv, Running, NEW t \in Team, LeaveBarrier(t)
  PROVE  PlacesInv'
BY SeeItOpenWithin, OpenPlaces DEF LeaveBarrier, Return, KeepsPlace

-------------------------------------------------------------------------------
(***************************************************************************)
(* The steps of the caller, and of the workers outside the graph.          *)
(***************************************************************************)
LEMMA BeginPlaces ==
  ASSUME NEW gr \in Graphs, NEW n \in 1..MaxThreads, Begin(gr, n)
  PROVE  /\ PlacesInv' /\ 0 \in Team' /\ NodeAt(0)' = 1 /\ HalfAt(0)' = 1
         /\ \A u \in Team' : ~Finished(u)' /\ pc'[u] # "mulbar"
<1>1. Len(gr) \in Nat \ {0} /\ Team' = 0..(n - 1) /\ graph' = gr
  BY GraphShape DEF Begin, NewBarrier, Team
<1>2. 0 \in Team' /\ Team' \subseteq Threads /\ 0 \in Threads
  BY <1>1, MaxThreadsAssumption DEF Threads
<1>3. ASSUME NEW t \in Team'
      PROVE  /\ pc'[t] \in {"kick", "poll"} /\ lastGraph'[t] = 0 /\ node'[t] = 1
             /\ gate'[t] = "out"
  BY <1>1, <1>2, <1>3 DEF Begin, NewBarrier
<1>4. \A t \in Team' : Knows(t)'
  BY <1>3 DEF Knows, Walking, Barriers, Starting
<1>5. ASSUME NEW t \in Team'
      PROVE  NodeAt(t)' = 1 /\ HalfAt(t)' = 1
  <2>1. ~Over(t)' /\ ~Late(t)'
    BY <1>3 DEF Over, Late
  <2>. QED  BY <1>1, <1>3, <2>1 DEF NodeAt, HalfAt
<1>6. abort' = 0
  BY DEF Begin
<1>7. \A u \in Team' : ~Finished(u)' /\ pc'[u] # "mulbar"
  BY <1>1, <1>3 DEF Finished
<1>. QED  BY <1>1, <1>2, <1>4, <1>5, <1>6, <1>7 DEF PlacesInv, Together, AbortInv

LEMMA KickoffPlaces ==
  ASSUME ControlInv, Running, Kickoff
  PROVE  KeepsPlace
<1>u. /\ UNCHANGED <<node, lastGraph, gate, seen, graph, abort, nBarrierPassed, nThreadsCur>>
      /\ pc[0] = "kick" /\ nGraph = 0 /\ nGraph' = 1 /\ Team' = Team
  BY DEF Kickoff, barrierVars, workVars, ControlInv, CallInv, Running, Team
<1>z. 0 \in Team /\ Len(graph) \in Nat \ {0} /\ lastGraph[0] = 0
  <2>1. 0 \in Team /\ lastGraph[0] = 0
    BY TeamHasZero DEF ControlInv, BarrierInv, CallInv
  <2>. QED  BY <2>1, Context
<1>1. ASSUME NEW t \in Team
      PROVE  Knows(t)' /\ NodeAt(t)' = NodeAt(t) /\ HalfAt(t)' = HalfAt(t)
  <2>1. /\ t \in Threads /\ Knows(t) /\ pc \in [Threads -> PCs]
        /\ t # 0 => t \in Workers
    BY Context DEF ControlInv, PoolTyped, Workers
  <2>2. CASE t = 0
    <3>1. pc'[0] = "node" /\ node[0] = 1 /\ gate[0] = "out"
      BY <1>u, <1>z, <2>1, <2>2 DEF Kickoff, Broadcast, Knows, Starting, Barriers
    <3>2. ~Late(0) /\ ~Late(0)' /\ ~Over(0) /\ ~Over(0)'
      BY <1>u, <3>1 DEF Late, Over
    <3>3. Knows(0)'
      BY <1>u, <1>z, <3>1 DEF Knows, Walking, Barriers, Starting
    <3>. QED  BY <1>u, <1>z, <2>2, <3>1, <3>2, <3>3 DEF NodeAt, HalfAt
  <2>3. CASE t # 0
    <3>1. pc[t] \notin Walking /\ lastGraph[t] = 0 /\ gate[t] = "out"
      BY <1>u, <2>1 DEF Knows, Walking
    <3>2. pc[t] # "exited" => pc[t] \in {"poll", "lock", "wait"}
      BY <2>1, <2>3, <3>1 DEF ControlInv, CallInv, PCs, Walking
    <3>3. pc'[t] = pc[t] \/ (pc[t] = "wait" /\ pc'[t] = "lock")
      BY <2>1, <2>3 DEF Kickoff, Broadcast
    <3>4. ~Late(t) /\ ~Late(t)' /\ (Over(t)' <=> Over(t)) /\ (Starting(t) <=> Starting(t)')
      BY <1>u, <3>1, <3>2, <3>3 DEF Late, Over, Starting
    <3>5. Knows(t)'
      BY <1>u, <2>1, <3>1, <3>2, <3>3, <3>4 DEF Knows, Walking, Barriers
    <3>6. NodeAt(t)' = NodeAt(t) /\ HalfAt(t)' = HalfAt(t)
      <4>1. pc[t] \notin Walking /\ pc'[t] \notin Walking
        BY <3>1, <3>2, <3>3 DEF Walking, Barriers
      <4>. QED
        BY <1>u, <3>4, <4>1 DEF NodeAt, HalfAt, EndNode, LastHalf, Walking, Barriers
    <3>. QED  BY <3>5, <3>6
  <2>. QED  BY <2>2, <2>3
<1>2. Together' /\ AbortInv'
  BY <1>u, <1>z, <1>1 DEF Together, AbortInv, ControlInv, PlacesInv
<1>. QED  BY <1>u, <1>z, <1>1, <1>2 DEF PlacesInv, KeepsPlace

\* The caller stops the pool when the graph is over for all.
LEMMA StopPlaces ==
  ASSUME ControlInv, Running, Stop
  PROVE  KeepsPlace
<1>u. /\ UNCHANGED <<node, lastGraph, gate, seen, graph, abort, nGraph, nBarrierPassed, nThreadsCur>>
      /\ pc[0] = "collect" /\ Team' = Team
  BY DEF Stop, barrierVars, workVars, Team
<1>z. 0 \in Team
  BY TeamHasZero DEF ControlInv, BarrierInv
<1>h. \A t \in Team : HalfAt(t) = 3
  BY <1>u, Context DEF HalfAt, Over
<1>1. ASSUME NEW t \in Team
      PROVE  Knows(t)' /\ NodeAt(t)' = NodeAt(t) /\ HalfAt(t)' = HalfAt(t)
  <2>1. t \in Threads /\ Knows(t) /\ pc \in [Threads -> PCs]
    BY Context DEF ControlInv, PoolTyped
  <2>2. Over(t)
    BY <1>h DEF HalfAt, LastHalf
  <2>3. \/ pc'[t] = pc[t] \/ (pc[t] = "wait" /\ pc'[t] = "lock")
        \/ pc[t] = "collect" /\ pc'[t] = "join"
    BY <1>u, <2>1 DEF Stop, Broadcast
  <2>4. (Late(t) <=> Late(t)') /\ Over(t)'
    BY <1>u, <2>2, <2>3 DEF Late, Over
  <2>5. NodeAt(t)' = NodeAt(t) /\ HalfAt(t)' = HalfAt(t)
    BY <1>u, <2>2, <2>4 DEF NodeAt, HalfAt, EndNode
  <2>6. Knows(t)'
    BY <1>u, <2>1, <2>3 DEF Knows, Walking, Barriers, Starting, This
  <2>. QED  BY <2>5, <2>6
<1>2. Together' /\ AbortInv'
  BY <1>u, <1>z, <1>1 DEF Together, AbortInv, ControlInv, PlacesInv
<1>. QED  BY <1>u, <1>z, <1>1, <1>2 DEF PlacesInv, KeepsPlace

\* A worker finds the graph before it is over, and the end of the pool after it.
LEMMA WaitPlaces ==
  ASSUME ControlInv, Running, NEW t \in Workers, t \in Team, Wait(t) \/ SpuriousWake(t)
  PROVE  KeepsPlace
<1>u. /\ UNCHANGED <<node, chunk, gate, seen, graph, abort, nGraph, nBarrierPassed, nThreadsCur>>
      /\ pc[t] \in {"poll", "lock", "wait"} /\ t # 0
  BY DEF Wait, FindWork, GiveUpPolling, Sleep, SpuriousWake, barrierVars, poolVars, workVars, Workers
<1>c. /\ t \in Threads /\ pc \in [Threads -> PCs] /\ lastGraph \in [Threads -> 0..1]
      /\ nGraph \in 0..1 /\ Knows(t) /\ HalfAt(t) = HalfAt(0) /\ Len(graph) \in Nat \ {0}
      /\ Team \subseteq Threads /\ 0 \in Team
  BY Context, TeamFinite DEF ControlInv, PoolTyped, BarrierInv
<1>s. \A u \in Team \ {t} : Same(u)
  BY <1>u, <1>c DEF Same, Wait, FindWork, GiveUpPolling, Sleep, SpuriousWake, Goto, poolVars
<1>g. gate[t] = "out" /\ ~Late(t) /\ ~Late(t)'
  BY <1>u, <1>c DEF Knows, Late, Barriers
<1>1. CASE pc'[t] \in {"lock", "wait"} /\ lastGraph'[t] = lastGraph[t]
  <2>1. (Over(t)' <=> Over(t)) /\ (Starting(t)' <=> Starting(t))
    BY <1>u, <1>1 DEF Over, Starting
  <2>2. Knows(t)'
    BY <1>u, <1>c, <1>1, <2>1 DEF Knows, Walking, Barriers
  <2>3. NodeAt(t)' = NodeAt(t) /\ HalfAt(t)' = HalfAt(t)
    BY <1>u, <1>1, <2>1 DEF NodeAt, HalfAt, EndNode, LastHalf
  <2>. QED  BY <1>u, <1>c, <1>s, <2>2, <2>3, WithinKeeps DEF Within, Control
<1>2. CASE FindWork(t) /\ stop
  <2>1. pc'[t] = "exited" /\ lastGraph'[t] = lastGraph[t]
    BY <1>2, <1>c DEF FindWork, Goto
  <2>2. pc[0] = "join"
    BY <1>2 DEF ControlInv, CallInv
  <2>3. HalfAt(t) = 3
    BY <1>c, <2>2 DEF HalfAt, Over
  <2>4. Over(t) /\ Over(t)'
    BY <2>1, <2>3 DEF HalfAt, LastHalf, Over
  <2>5. Knows(t)'
    BY <1>u, <1>c, <2>1 DEF Knows, Walking, Barriers, Starting
  <2>6. NodeAt(t)' = NodeAt(t) /\ HalfAt(t)' = HalfAt(t)
    BY <1>u, <2>4 DEF NodeAt, HalfAt, EndNode
  <2>. QED  BY <1>u, <1>c, <1>s, <2>5, <2>6, WithinKeeps DEF Within, Control
<1>3. CASE FindWork(t) /\ ~stop
  <2>1. pc'[t] = "node" /\ lastGraph'[t] = nGraph /\ nGraph # lastGraph[t]
    BY <1>3, <1>c DEF FindWork, Goto, Ready
  <2>2. nGraph = 1 /\ lastGraph[t] = 0
    BY <1>c, <2>1 DEF Knows
  <2>3. Starting(t) /\ node[t] = 1 /\ ~Over(t) /\ ~Over(t)'
    BY <1>u, <1>c, <2>1, <2>2 DEF Starting, Knows, Over
  <2>4. Knows(t)'
    BY <1>u, <1>c, <1>g, <2>1, <2>2, <2>3 DEF Knows, Walking, Barriers, Starting
  <2>5. NodeAt(t)' = NodeAt(t) /\ HalfAt(t)' = HalfAt(t)
    BY <1>u, <1>c, <2>1, <2>3 DEF NodeAt, HalfAt
  <2>. QED  BY <1>u, <1>c, <1>s, <2>4, <2>5, WithinKeeps DEF Within, Control
<1>4. \/ pc'[t] \in {"lock", "wait"} /\ lastGraph'[t] = lastGraph[t]
      \/ FindWork(t)
  BY <1>c DEF Wait, GiveUpPolling, Sleep, SpuriousWake, Goto, poolVars
<1>. QED  BY <1>1, <1>2, <1>3, <1>4

\* The graph is aborted before the next node, which no thread has come to.
LEMMA AbortPlaces ==
  ASSUME ControlInv, Running, Abort
  PROVE  KeepsPlace
<1>u. /\ UNCHANGED <<chunk, lastGraph, gate, seen, graph, nGraph, nBarrierPassed, nThreadsCur>>
      /\ pc[0] = "after" /\ abort' = node[0] + 1 /\ Team' = Team
  BY DEF Abort, barrierVars, poolVars, Team
<1>c. /\ 0 \in Team /\ 0 \in Threads /\ Team \subseteq Threads /\ Knows(0)
      /\ node[0] \in 1..Len(graph) /\ Len(graph) \in Nat \ {0} /\ gate[0] = "out"
      /\ pc \in [Threads -> PCs] /\ node \in [Threads -> Nat \ {0}]
  BY <1>u, Context, TeamHasZero
     DEF ControlInv, PoolTyped, BarrierInv, Knows, Barriers
<1>k. NodeAt(0) = node[0] /\ HalfAt(0) # 3 /\ ~Over(0) /\ ~Late(0)
  BY <1>u, <1>c DEF NodeAt, HalfAt, LastHalf, Over, Late
<1>p. \/ node[0] < Len(graph) /\ pc'[0] = "nodebar" /\ node'[0] = node[0]
      \/ ~(node[0] < Len(graph)) /\ pc'[0] = "node" /\ node'[0] = node[0] + 1
  BY <1>c DEF Abort, Onward, Goto
<1>1. ASSUME NEW t \in Team, t # 0
      PROVE  Knows(t)' /\ NodeAt(t)' = NodeAt(t) /\ HalfAt(t)' = HalfAt(t)
  <2>1. pc'[t] = pc[t] /\ node'[t] = node[t]
    BY <1>1, <1>c DEF Abort, Onward, Goto
  <2>2. NodeAt(t) = node[0] /\ HalfAt(t) # 3 /\ Knows(t) /\ node[t] \in Nat \ {0}
    BY <1>1, <1>k, Context
  <2>3. ~Over(t) /\ ~Over(t)' /\ (Late(t)' <=> Late(t))
    <3>1. Late(t)' <=> Late(t)
      BY <1>u DEF Late
    <3>2. ~Over(t)
      BY <2>2 DEF HalfAt
    <3>. QED  BY <1>u, <2>1, <3>1, <3>2 DEF Over
  <2>4. NodeAt(t)' = NodeAt(t) /\ HalfAt(t)' = HalfAt(t)
    BY <1>u, <2>1, <2>3 DEF NodeAt, HalfAt, LastHalf
  <2>5. node[t] # node[0] + 1 \/ node[t] > Len(graph)
    BY <1>c, <2>2, <2>3 DEF NodeAt
  <2>6. pc[t] = "final" => node[t] > Len(graph)
    <3>. SUFFICES ASSUME pc[t] = "final", ~(node[t] > Len(graph)) PROVE FALSE
      OBVIOUS
    <3>1. abort = node[t] /\ node[t] = node[0]
      BY <2>2, <2>3 DEF Knows, NodeAt
    <3>. QED  BY <1>u, <1>c, <3>1 DEF Knows
  <2>7. node[t] > Len(graph) /\ pc[t] \in {"node", "final"} => abort' # Len(graph)
    BY <1>u, <1>c, <2>2, <2>3 DEF NodeAt
  <2>8. Knows(t)'
    BY <1>u, <1>c, <2>1, <2>2, <2>5, <2>6, <2>7 DEF Knows, Walking, Barriers, Starting, This
  <2>. QED  BY <2>4, <2>8
<1>2. Knows(0)' /\ NodeAt(0)' = NodeAt(0) /\ HalfAt(0)' = HalfAt(0)
  <2>1. ~Late(0)' /\ ~Over(0)'
    BY <1>u, <1>c, <1>p DEF Late, Over
  <2>2. Knows(0)'
    BY <1>u, <1>c, <1>p, <2>1 DEF Knows, Walking, Barriers, Starting, This
  <2>3. NodeAt(0)' = NodeAt(0) /\ HalfAt(0)' = HalfAt(0)
    BY <1>u, <1>c, <1>p, <1>k, <2>1 DEF NodeAt, HalfAt, LastHalf
  <2>. QED  BY <2>2, <2>3
<1>3. Together'
  BY <1>u, <1>c, <1>1, <1>2 DEF Together, ControlInv, PlacesInv
<1>4. AbortInv'
  BY <1>u, <1>c, <1>k, <1>2 DEF AbortInv
<1>. QED  BY <1>u, <1>1, <1>2, <1>3, <1>4 DEF PlacesInv, KeepsPlace

-------------------------------------------------------------------------------
\* A thread that computes is one of the team of a call under way.
LEMMA WhoSteps ==
  ASSUME ControlInv, NEW t \in Threads, pc[t] \in Walking \/ (t \in Workers /\ pc[t] # "exited")
  PROVE  t \in Team /\ Running
<1>1. pc[t] # "exited" /\ (t = 0 => pc[t] # "idle")
  BY DEF Walking, Barriers, Workers
<1>2. t \in Team
  BY <1>1 DEF ControlInv, BarrierInv, Outside
<1>3. Running
  BY <1>1 DEF ControlInv, CallInv, Running, Workers
<1>. QED  BY <1>2, <1>3

LEMMA ComputeWithin ==
  ASSUME ControlInv, NEW t \in Threads,
         \/ NextNode(t) \/ GoOn(t) \/ WriteRows(t) \/ WriteSolo(t)
         \/ ConvertSlice(t) \/ WriteChunk(t) \/ NoChunkLeft(t) \/ InBarrier(t)
  PROVE  /\ t \in Team /\ Running /\ Within(t) /\ UNCHANGED Control
         /\ \A u \in Team \ {t} : Same(u)
         /\ KeepsPlace
<1>1. pc[t] \in Walking
  BY DEF NextNode, GoOn, WriteRows, WriteSolo, ConvertSlice, WriteChunk, NoChunkLeft,
         InBarrier, Walking
<1>2. t \in Team /\ Running
  BY <1>1, WhoSteps
<1>3. Within(t) /\ UNCHANGED Control
  <2>1. CASE NextNode(t)
    BY <1>2, <2>1, NextNodeWithin DEF NextNode, Control, barrierVars, poolVars, workVars
  <2>2. CASE GoOn(t)
    BY <1>2, <2>2, GoOnWithin DEF GoOn, Control, barrierVars, poolVars, workVars
  <2>3. CASE InBarrier(t)
    BY <1>2, <2>3, InBarrierWithin
  <2>4. CASE WriteRows(t) \/ WriteSolo(t) \/ ConvertSlice(t) \/ WriteChunk(t) \/ NoChunkLeft(t)
    BY <1>2, <2>4, WorkWithin
       DEF WriteRows, WriteSolo, ConvertSlice, WriteChunk, NoChunkLeft, Control, barrierVars,
           poolVars, workVars
  <2>. QED  BY <2>1, <2>2, <2>3, <2>4
<1>4. /\ pc \in [Threads -> PCs] /\ node \in [Threads -> Nat \ {0}] /\ chunk \in [Threads -> Nat]
      /\ gate \in [Threads -> Gates] /\ seen \in [Threads -> Nat] /\ Team \subseteq Threads
  BY TeamFinite DEF ControlInv, PoolTyped, BarrierInv, BarrierTyped
<1>5. \A u \in Team \ {t} : Same(u)
  <2>1. CASE InBarrier(t)
    BY <1>4, <2>1 DEF InBarrier, Inside, LoadPassed, Arrive, ResetCount, tpVars, poolVars, Same
  <2>2. CASE NextNode(t) \/ GoOn(t)
    BY <1>4, <2>2 DEF NextNode, GoOn, Onward, Goto, barrierVars, poolVars, Same
  <2>3. CASE WriteRows(t) \/ WriteSolo(t) \/ ConvertSlice(t) \/ WriteChunk(t) \/ NoChunkLeft(t)
    BY <1>4, <2>3
       DEF WriteRows, WriteSolo, ConvertSlice, WriteChunk, NoChunkLeft, Goto, barrierVars,
           poolVars, Same
  <2>. QED  BY <2>1, <2>2, <2>3
<1>. QED  BY <1>2, <1>3, <1>5, WithinKeeps

LEMMA ComputePlaces ==
  ASSUME ControlInv, NEW t \in Threads, Compute(t)
  PROVE  t \in Team /\ Running /\ PlacesInv'
<1>1. CASE LeaveBarrier(t)
  <2>1. t \in Team /\ Running
    BY <1>1, WhoSteps DEF LeaveBarrier, Walking
  <2>. QED  BY <1>1, <2>1, LeaveKeeps
<1>2. CASE ~LeaveBarrier(t)
  BY <1>2, ComputeWithin DEF Compute, KeepsPlace
<1>. QED  BY <1>1, <1>2

LEMMA ControlPlaces == ASSUME ControlInv, Next, Running' PROVE PlacesInv'
<1>1. CASE \E gr \in Graphs, n \in 1..MaxThreads : Begin(gr, n)
  BY <1>1, BeginPlaces
<1>2. CASE Kickoff
  BY <1>2, KickoffPlaces DEF Kickoff, Running, KeepsPlace
<1>3. CASE Stop
  BY <1>3, StopPlaces DEF Stop, Running, KeepsPlace
<1>4. CASE Join
  <2>1. pc'[0] = "idle"
    BY <1>4, TeamHasZero DEF Join, Goto, ControlInv, PoolTyped, BarrierInv
  <2>. QED  BY <2>1 DEF Running
<1>5. CASE Abort
  BY <1>5, AbortPlaces DEF Abort, Running, KeepsPlace
<1>6. ASSUME NEW t \in Workers, Wait(t) \/ SpuriousWake(t)
      PROVE  PlacesInv'
  <2>1. pc[t] # "exited" /\ t \in Threads
    BY <1>6 DEF Wait, FindWork, GiveUpPolling, Sleep, SpuriousWake, Workers
  <2>. QED  BY <1>6, <2>1, WhoSteps, WaitPlaces DEF KeepsPlace
<1>7. CASE \E t \in Threads : Compute(t)
  BY <1>7, ComputePlaces
<1>. QED  BY <1>1, <1>2, <1>3, <1>4, <1>5, <1>6, <1>7 DEF Next, Caller

\* A team of one leaves n_barrier at 0.
LEMMA ControlLone == ASSUME ControlInv, Next, nThreadsCur' = 1 PROVE nBarrier' = 0
<1>1. CASE \E gr \in Graphs, n \in 1..MaxThreads : Begin(gr, n)
  BY <1>1 DEF Begin, NewBarrier
<1>2. ASSUME NEW t \in Threads, InBarrier(t) \/ LeaveBarrier(t)
      PROVE  nBarrier' = 0
  <2>1. pc[t] \in Walking
    BY <1>2 DEF InBarrier, LeaveBarrier, Walking
  <2>2. Knows(t) /\ nThreadsCur = 1
    BY <1>2, <2>1, WhoSteps, Context
       DEF InBarrier, LeaveBarrier, Inside, Return, LoadPassed, Arrive, ResetCount, Skip,
           OpenBarrier, SeeItOpen
  <2>. QED
    BY <1>2, <2>2
       DEF InBarrier, LeaveBarrier, Inside, Return, LoadPassed, Arrive, ResetCount, Skip,
           OpenBarrier, SeeItOpen, Knows, ControlInv
<1>3. CASE UNCHANGED barrierVars
  BY <1>3 DEF barrierVars, ControlInv
<1>. QED
  BY <1>1, <1>2, <1>3
     DEF Next, Caller, Kickoff, Stop, Join, Abort, Wait, FindWork, GiveUpPolling, Sleep,
         SpuriousWake, Compute, NextNode, GoOn, WriteRows, WriteSolo, ConvertSlice, WriteChunk,
         NoChunkLeft

LEMMA ControlInit == Init => ControlInv
<1>. SUFFICES ASSUME Init PROVE ControlInv
  OBVIOUS
<1>1. BarrierInv /\ 0 \in Threads
  BY InitInv, TeamHasZero DEF BarrierInv
<1>2. PoolTyped
  <2>1. stop \in BOOLEAN
    BY Zenon DEF Init
  <2>. QED  BY <1>1, <2>1 DEF Init, PoolTyped, PCs, Barriers
<1>3. CallInv /\ ~Running
  BY <1>1 DEF Init, CallInv, Running, Workers
<1>4. nBarrier = 0
  BY DEF Init, BarrierInit
<1>. QED  BY <1>1, <1>2, <1>3, <1>4 DEF ControlInv

LEMMA ControlStep == ControlInv /\ [Next]_vars => ControlInv'
<1>1. ASSUME ControlInv, Next PROVE ControlInv'
  BY <1>1, TypedKeeps, CallKeeps, NextInv, ControlPlaces, ControlLone DEF ControlInv
<1>2. ASSUME ControlInv, UNCHANGED vars PROVE ControlInv'
  <2>1. BarrierInv'
    BY <1>2, NextInv DEF ControlInv
  <2>2. PoolTyped' /\ CallInv' /\ (Running' <=> Running) /\ (nThreadsCur' = 1 => nBarrier' = 0)
    BY <1>2 DEF ControlInv, PoolTyped, CallInv, Running, vars, tpVars, barrierVars, poolVars, workVars
  <2>3. Running => PlacesInv'
    <3>1. ASSUME Running PROVE \A u \in Team : Same(u)
      BY <1>2 DEF Same, vars, tpVars, barrierVars, poolVars
    <3>2. UNCHANGED Control /\ Team' = Team
      BY <1>2 DEF Control, vars, tpVars, barrierVars, poolVars, workVars, Team
    <3>3. 0 \in Team
      BY <1>2, TeamHasZero DEF ControlInv, BarrierInv
    <3>4. ASSUME Running PROVE Within(0)
      BY <1>2, <3>1, <3>2, <3>3, <3>4, Stays DEF Within, ControlInv, PlacesInv
    <3>. QED  BY <1>2, <3>1, <3>2, <3>3, <3>4, WithinKeeps DEF KeepsPlace
  <2>. QED  BY <2>1, <2>2, <2>3 DEF ControlInv
<1>. QED  BY <1>1, <1>2

LEMMA ControlInvariance == Spec => []ControlInv
BY ControlInit, ControlStep, PTL DEF Spec

\* The pool's state has its types: n_barrier never counts more threads than there
\* are, and a graph is there exactly while a call is under way (GgmlThreadpool's
\* TypeOK).
THEOREM PoolTypeCorrect == Spec => []TypeOK
<1>1. ControlInv => TypeOK
  <2>. SUFFICES ASSUME ControlInv PROVE TypeOK
    OBVIOUS
  <2>1. nBarrier \in 0..MaxThreads
    <3>1. nThreadsCur \in 1..MaxThreads /\ nBarrier \in Nat
      BY DEF ControlInv, BarrierInv, BarrierTyped
    <3>2. CASE nThreadsCur = 1
      BY <3>2, MaxThreadsAssumption DEF ControlInv
    <3>3. CASE nThreadsCur # 1
      <4>1. nBarrier = 0 \/ nBarrier = Cardinality(Arrived)
        BY <3>3 DEF ControlInv, BarrierInv, Orderly, Counted
      <4>2. IsFiniteSet(Team) /\ Cardinality(Team) = nThreadsCur /\ Arrived \subseteq Team
        BY TeamFinite DEF ControlInv, BarrierInv, Arrived
      <4>3. Cardinality(Arrived) <= nThreadsCur
        BY <4>2, FS_Subset
      <4>. QED  BY <3>1, <4>1, <4>3, MaxThreadsAssumption
    <3>. QED  BY <3>2, <3>3
  <2>2. BarrierTypeOK
    BY <2>1 DEF BarrierTypeOK, ControlInv, BarrierInv, BarrierTyped
  <2>3. (graph = NoGraph) <=> (pc[0] = "idle")
    BY DEF ControlInv, CallInv, Running
  <2>. QED  BY <2>2, <2>3 DEF ControlInv, PoolTyped, TypeOK
<1>. QED  BY <1>1, ControlInvariance, PTL

-------------------------------------------------------------------------------
(***************************************************************************)
(* What has been computed.                                                 *)
(***************************************************************************)
LEMMA PartsStay ==
  ASSUME UNCHANGED <<graph, nThreadsCur>>
  PROVE  \A k : /\ Chunks(graph[k].size)' = Chunks(graph[k].size)
                /\ Parts(graph[k])' = Parts(graph[k])
BY DEF Chunks, Parts

LEMMA PartsOf ==
  ASSUME ControlInv, Running, NEW k \in 1..Len(graph)
  PROVE  /\ Chunks(graph[k].size) \in Nat /\ Parts(graph[k]) \in Nat
         /\ graph[k].op = "rows" => Parts(graph[k]) = nThreadsCur
         /\ graph[k].op = "solo" => Parts(graph[k]) = 1
         /\ graph[k].op = "view" => Parts(graph[k]) = 0
         /\ graph[k].op = "mulmat" => Parts(graph[k]) = Chunks(graph[k].size)
<1>1. nThreadsCur \in Nat /\ graph[k].size \in Nat
      /\ graph[k].op \in {"rows", "solo", "mulmat", "view"}
  BY Context, TeamHasZero DEF ControlInv, BarrierInv
<1>2. Chunks(graph[k].size) \in Nat
  BY <1>1 DEF Chunks
<1>. QED  BY <1>1, <1>2 DEF Parts

LEMMA WroteStays ==
  ASSUME written' = written
  PROVE  \A m, p : Wrote(m, p)' <=> Wrote(m, p)
BY DEF Wrote

LEMMA WroteOne ==
  ASSUME NEW a, NEW b, NEW t \in Threads, written' = written \cup {<<a, b, t>>}
  PROVE  \A m, p : Wrote(m, p)' <=> Wrote(m, p) \/ (m = a /\ p = b)
BY DEF Wrote

\* Only the parts of the team's node are computed.
LEMMA Advance ==
  ASSUME UNCHANGED <<graph, nThreadsCur>>, NEW k \in Nat, NEW h,
         WrittenAt(k, h), h # 3, PartsInv(k, h)',
         \A m, p : m # k => (Wrote(m, p)' <=> Wrote(m, p))
  PROVE  WrittenAt(k, h)'
<1>1. \A m : Parts(graph[m])' = Parts(graph[m])
  BY PartsStay
<1>2. \A m \in 1..Len(graph) : m < k => NodeComplete(m)'
  BY <1>1 DEF WrittenAt, NodeComplete
<1>3. \A m \in 1..Len(graph) : m > k => NothingOf(m)'
  BY DEF WrittenAt, NothingOf
<1>. QED  BY <1>2, <1>3 DEF WrittenAt

LEMMA AtPlace ==
  ASSUME NEW k, NEW h, NodeAt(0)' = k, HalfAt(0)' = h, WrittenAt(k, h)'
  PROVE  WrittenInv'
BY DEF WrittenInv

LEMMA FromPlace ==
  ASSUME ControlInv, Running, WrittenInv
  PROVE  \E k \in Nat, h \in 1..3 :
           /\ k = NodeAt(0) /\ h = HalfAt(0) /\ WrittenAt(k, h)
           /\ h # 3 => k \in 1..Len(graph)
<1>1. NodeAt(0) \in Nat /\ HalfAt(0) \in 1..3
  BY Context, TeamHasZero DEF NodeAt, HalfAt, EndNode, LastHalf, ControlInv, BarrierInv
<1>. QED  BY <1>1 DEF WrittenInv, ControlInv, PlacesInv, AbortInv

\* A step that computes nothing.
LEMMA Unwritten ==
  ASSUME ControlInv, Running, WrittenInv, KeepsPlace,
         UNCHANGED <<written, currentChunk, graph, nThreadsCur>>,
         HalfAt(0) # 3 =>
           /\ \A u \in Team : graph[NodeAt(0)].op # "view" => (Finished(u)' <=> Finished(u))
           /\ \A u \in Team, p \in Nat : Held(u, p)' <=> Held(u, p)
           /\ pc'[0] = "mulbar" => pc[0] = "mulbar"
  PROVE  WrittenInv'
<1>0. PICK k \in Nat, h \in 1..3 :
        /\ k = NodeAt(0) /\ h = HalfAt(0) /\ WrittenAt(k, h)
        /\ h # 3 => k \in 1..Len(graph)
  BY FromPlace
<1>1. 0 \in Team /\ Team' = Team
  BY TeamHasZero DEF ControlInv, BarrierInv, Team
<1>2. \A m, p : Wrote(m, p)' <=> Wrote(m, p)
  BY WroteStays
<1>3. \A m : Parts(graph[m])' = Parts(graph[m]) /\ Chunks(graph[m].size)' = Chunks(graph[m].size)
  BY PartsStay
<1>4. \A m : (NodeComplete(m)' <=> NodeComplete(m)) /\ (NothingOf(m)' <=> NothingOf(m))
  BY <1>2, <1>3 DEF NodeComplete, NothingOf
<1>5. h # 3 => PartsInv(k, h)'
  <2>. SUFFICES ASSUME h # 3 PROVE PartsInv(k, h)'
    OBVIOUS
  <2>1. PartsInv(k, h) /\ graph'[k].op = graph[k].op
    BY <1>0 DEF WrittenAt
  <2>2. \A u \in Team : graph[k].op # "view" => (Finished(u)' <=> Finished(u))
    BY <1>0
  <2>3. \A u \in Team, p \in Nat : Held(u, p)' <=> Held(u, p)
    BY <1>0
  <2>4. pc'[0] = "mulbar" => pc[0] = "mulbar"
    BY <1>0
  <2>5. graph[k].op = "mulmat" => (ChunksInv(k)' <=> ChunksInv(k))
    BY <1>1, <1>2, <1>3, <2>2, <2>3 DEF ChunksInv
  <2>. QED  BY <1>1, <1>2, <1>4, <2>1, <2>2, <2>4, <2>5 DEF PartsInv
<1>6. WrittenAt(k, h)'
  BY <1>0, <1>4, <1>5 DEF WrittenAt
<1>. QED  BY <1>0, <1>6, AtPlace DEF KeepsPlace

\* The steps of a thread that compute nothing.
LEMMA QuietWork ==
  ASSUME ControlInv, Running, WrittenInv, NEW t \in Threads, NextNode(t) \/ GoOn(t) \/ InBarrier(t)
  PROVE  WrittenInv'
<1>1. t \in Team /\ KeepsPlace /\ UNCHANGED Control /\ \A u \in Team \ {t} : Same(u)
  BY ComputeWithin
<1>2. UNCHANGED <<written, currentChunk, graph, nThreadsCur>>
  BY <1>1 DEF NextNode, GoOn, InBarrier, tpVars, workVars, Control
<1>3. \A u \in Team \ {t} : (Finished(u)' <=> Finished(u)) /\ \A p : Held(u, p)' <=> Held(u, p)
  BY <1>1, Stays
<1>c. /\ node[t] \in Nat \ {0} /\ Len(graph) \in Nat \ {0} /\ Knows(t)
      /\ pc \in [Threads -> PCs] /\ node \in [Threads -> Nat \ {0}]
      /\ graph[NodeAt(0)].op # "view" => graph[NodeAt(t)].op # "view"
      /\ \A k \in 1..Len(graph) : graph[k].op \in {"rows", "solo", "mulmat", "view"}
  BY <1>1, Context DEF ControlInv, PoolTyped
<1>4. /\ graph[NodeAt(0)].op # "view" => (Finished(t)' <=> Finished(t))
      /\ \A p : Held(t, p)' <=> Held(t, p)
      /\ pc'[t] = "mulbar" => pc[t] = "mulbar"
  <2>1. CASE InBarrier(t)
    <3>1. UNCHANGED <<pc, node, chunk, graph>> /\ ~Late(t) /\ ~Late(t)'
      BY <2>1, <1>1, InBarrierWithin DEF InBarrier, tpVars
    <3>. QED  BY <3>1 DEF Finished, Held
  <2>2. CASE GoOn(t)
    <3>1. /\ pc[t] = "after" /\ node[t] \in 1..Len(graph) /\ ~Late(t) /\ ~Late(t)'
          /\ \/ pc'[t] = "nodebar"
             \/ pc'[t] = "node" /\ node'[t] > Len(graph)'
      BY <2>2, <1>c DEF GoOn, Onward, Goto, Late, Knows, Barriers, barrierVars
    <3>. QED  BY <3>1 DEF Finished, Held
  <2>3. CASE NextNode(t)
    <3>1. pc[t] = "node" /\ UNCHANGED <<node, graph, chunk>> /\ ~Late(t) /\ ~Late(t)' /\ ~Over(t)
      BY <2>3, <1>c DEF NextNode, Late, Over, Knows, Barriers, barrierVars
    <3>2. CASE pc'[t] = "final"
      BY <3>1, <3>2 DEF Finished, Held
    <3>3. CASE pc'[t] # "final"
      <4>1. node[t] \in 1..Len(graph) /\ pc'[t] = Enter(graph[node[t]]) /\ NodeAt(t) = node[t]
        BY <1>c, <2>3, <3>1, <3>3 DEF NextNode, Goto, This, NodeAt
      <4>2. /\ pc'[t] \in {"rows", "solo", "convert", "after"}
            /\ pc'[t] = "after" => graph[node[t]].op = "view"
        BY <1>c, <4>1 DEF Enter
      <4>. QED  BY <1>c, <3>1, <4>1, <4>2 DEF Finished, Held
    <3>. QED  BY <3>2, <3>3
  <2>. QED  BY <2>1, <2>2, <2>3
<1>5. pc'[0] = "mulbar" => pc[0] = "mulbar"
  BY <1>1, <1>4, Context DEF Same
<1>. QED  BY <1>1, <1>2, <1>3, <1>4, <1>5, Unwritten

\* Seeing that the barrier is open makes no difference to what is finished and held.
LEMMA QuietSeeing ==
  ASSUME ControlInv, Running, WrittenInv, NEW t \in Team, LeaveBarrier(t), SeeItOpen(t)
  PROVE  WrittenInv'
<1>c. /\ t \in Threads /\ pc[t] \in Barriers /\ Knows(t) /\ node[t] \in Nat \ {0}
      /\ pc \in [Threads -> PCs] /\ node \in [Threads -> Nat \ {0}] /\ chunk \in [Threads -> Nat]
      /\ gate \in [Threads -> Gates] /\ Team \subseteq Threads /\ 0 \in Team
      /\ HalfAt(t) = HalfAt(0) /\ Len(graph) \in Nat
  BY Context, TeamFinite DEF ControlInv, PoolTyped, BarrierInv, BarrierTyped, LeaveBarrier
<1>1. Late(t) /\ UNCHANGED Control /\ UNCHANGED <<written, currentChunk, graph, nThreadsCur>>
  BY DEF SeeItOpen, Late, Control, LeaveBarrier, poolVars, workVars
<1>2. \A u \in Team \ {t} : Same(u)
  BY <1>c DEF Same, LeaveBarrier, Goto, SeeItOpen, Through, poolVars
<1>3. \A u \in Team \ {t} : (Finished(u)' <=> Finished(u)) /\ \A p : Held(u, p)' <=> Held(u, p)
  BY <1>1, <1>2, Stays
<1>4. ~Late(t)' /\ pc'[t] \notin {"after", "mulbar", "nodebar"} /\ ~Finished(t)
  BY <1>c, <1>1 DEF SeeItOpen, Through, LeaveBarrier, Goto, Late, Finished
<1>5. pc'[0] = "mulbar" => pc[0] = "mulbar"
  BY <1>c, <1>2, <1>4 DEF Same
<1>6. HalfAt(0) # 3 => ~Finished(t)' /\ \A p : Held(t, p)' <=> Held(t, p)
  <2>. SUFFICES ASSUME HalfAt(0) # 3 PROVE ~Finished(t)' /\ \A p : Held(t, p)' <=> Held(t, p)
    OBVIOUS
  <2>1. pc[t] # "final"
    BY <1>c, <1>1 DEF HalfAt, Over
  <2>2. CASE pc[t] = "mulbar"
    <3>1. pc'[t] = "chunk" /\ chunk'[t] = t /\ node' = node /\ node[t] \in 1..Len(graph)
      BY <1>c, <2>2 DEF LeaveBarrier, Goto, Knows
    <3>. QED  BY <1>c, <1>1, <1>4, <2>2, <3>1 DEF Finished, Held
  <2>3. CASE pc[t] = "nodebar"
    <3>1. pc'[t] = "node" /\ node'[t] = node[t] + 1 /\ node[t] \in 1..Len(graph)
          /\ node[t] # Len(graph)
      BY <1>c, <2>3 DEF LeaveBarrier, Goto, Knows
    <3>. QED  BY <1>c, <1>1, <1>4, <2>3, <3>1 DEF Finished, Held
  <2>. QED  BY <1>c, <2>1, <2>2, <2>3 DEF Barriers
<1>7. KeepsPlace
  BY SeeItOpenWithin
<1>. QED  BY <1>1, <1>3, <1>4, <1>5, <1>6, <1>7, Unwritten

\* The steps of the caller, and of the workers outside the graph.
LEMMA QuietCaller ==
  ASSUME ControlInv, Running, WrittenInv, Kickoff \/ Stop
  PROVE  WrittenInv'
<1>u. /\ UNCHANGED <<node, chunk, gate, seen, graph, nBarrierPassed, nThreadsCur, written, currentChunk>>
      /\ pc[0] \in {"kick", "collect"}
  BY DEF Kickoff, Stop, barrierVars, workVars
<1>z. 0 \in Team /\ 0 \in Threads /\ Team \subseteq Threads /\ pc \in [Threads -> PCs]
  BY TeamHasZero DEF ControlInv, BarrierInv, PoolTyped
<1>1. KeepsPlace
  BY KickoffPlaces, StopPlaces
<1>2. ASSUME NEW u \in Team
      PROVE  (Finished(u)' <=> Finished(u)) /\ \A p : Held(u, p)' <=> Held(u, p)
  <2>1. Late(u)' <=> Late(u)
    BY <1>u DEF Late
  <2>2. \/ pc'[u] = pc[u]
        \/ /\ pc[u] \notin {"after", "nodebar", "chunk", "mulbar"}
           /\ pc'[u] \notin {"after", "nodebar", "chunk", "mulbar"}
    BY <1>u, <1>z DEF Kickoff, Stop, Broadcast
  <2>. QED  BY <1>u, <2>1, <2>2 DEF Finished, Held
<1>3. pc'[0] # "mulbar"
  BY <1>z DEF Kickoff, Stop, Broadcast
<1>. QED  BY <1>u, <1>1, <1>2, <1>3, Unwritten

LEMMA QuietWait ==
  ASSUME ControlInv, Running, WrittenInv, NEW t \in Workers, t \in Team, Wait(t) \/ SpuriousWake(t)
  PROVE  WrittenInv'
<1>u. /\ UNCHANGED <<node, chunk, gate, seen, graph, abort, nBarrierPassed, nThreadsCur, written,
                     currentChunk>>
      /\ pc[t] \in {"poll", "lock", "wait"} /\ t # 0
  BY DEF Wait, FindWork, GiveUpPolling, Sleep, SpuriousWake, barrierVars, poolVars, workVars, Workers
<1>c. t \in Threads /\ Team \subseteq Threads /\ pc \in [Threads -> PCs] /\ 0 \in Team
  BY TeamHasZero DEF ControlInv, BarrierInv, PoolTyped
<1>1. pc'[t] \in {"lock", "wait", "node", "exited"} /\ \A u \in Team \ {t} : pc'[u] = pc[u]
  BY <1>u, <1>c DEF Wait, FindWork, GiveUpPolling, Sleep, SpuriousWake, Goto
<1>2. ASSUME NEW u \in Team
      PROVE  (Finished(u)' <=> Finished(u)) /\ \A p : Held(u, p)' <=> Held(u, p)
  <2>1. Late(u)' <=> Late(u)
    BY <1>u DEF Late
  <2>. QED  BY <1>u, <1>1, <2>1 DEF Finished, Held
<1>3. KeepsPlace
  BY WaitPlaces
<1>. QED  BY <1>u, <1>c, <1>1, <1>2, <1>3, Unwritten

LEMMA QuietAbort ==
  ASSUME ControlInv, Running, WrittenInv, Abort
  PROVE  WrittenInv'
<1>u. /\ UNCHANGED <<chunk, gate, seen, graph, nBarrierPassed, nThreadsCur, written, currentChunk>>
      /\ pc[0] = "after"
  BY DEF Abort, barrierVars, poolVars
<1>c. /\ 0 \in Team /\ 0 \in Threads /\ Team \subseteq Threads /\ Knows(0)
      /\ node[0] \in 1..Len(graph) /\ Len(graph) \in Nat \ {0} /\ gate[0] = "out"
      /\ pc \in [Threads -> PCs] /\ node \in [Threads -> Nat \ {0}]
  BY <1>u, Context, TeamHasZero DEF ControlInv, PoolTyped, BarrierInv, Knows, Barriers
<1>1. ASSUME NEW t \in Team
      PROVE  (Finished(t)' <=> Finished(t)) /\ \A p : Held(t, p)' <=> Held(t, p)
  <2>1. Late(t)' <=> Late(t)
    BY <1>u DEF Late
  <2>2. CASE t = 0
    <3>1. \/ pc'[0] = "nodebar"
          \/ pc'[0] = "node" /\ node'[0] > Len(graph)
      BY <1>c DEF Abort, Onward, Goto
    <3>2. ~Late(0)
      BY <1>c DEF Late
    <3>. QED  BY <1>u, <2>1, <2>2, <3>1, <3>2 DEF Finished, Held
  <2>3. CASE t # 0
    <3>1. pc'[t] = pc[t] /\ node'[t] = node[t]
      BY <1>c, <2>3 DEF Abort, Onward, Goto
    <3>. QED  BY <1>u, <2>1, <3>1 DEF Finished, Held
  <2>. QED  BY <2>2, <2>3
<1>2. pc'[0] # "mulbar"
  BY <1>c DEF Abort, Onward, Goto
<1>3. KeepsPlace
  BY AbortPlaces
<1>. QED  BY <1>u, <1>1, <1>2, <1>3, Unwritten

\* The steps that compute a part, or prepare for it.
LEMMA WorkingPlace ==
  ASSUME ControlInv, Running, WrittenInv, NEW t \in Team,
         \/ WriteRows(t) \/ WriteSolo(t) \/ ConvertSlice(t) \/ WriteChunk(t) \/ NoChunkLeft(t)
  PROVE  \E h \in 1..2 :
           /\ node[t] \in 1..Len(graph) /\ NodeAt(0) = node[t] /\ HalfAt(0) = h
           /\ WrittenAt(node[t], h) /\ PartsInv(node[t], h)
           /\ pc[t] = "convert" => h = 1
           /\ pc[t] = "chunk" => h = 2
           /\ pc[t] = "rows" => graph[node[t]].op = "rows"
           /\ pc[t] = "solo" => graph[node[t]].op = "solo"
           /\ pc[t] \in {"convert", "chunk"} => graph[node[t]].op = "mulmat"
           /\ ~Late(t) /\ ~Late(t)'
           /\ NodeAt(0)' = node[t] /\ HalfAt(0)' = h
           /\ UNCHANGED <<graph, nThreadsCur, node>> /\ Team' = Team
           /\ \A u \in Team \ {t} :
                Same(u) /\ (Finished(u)' <=> Finished(u)) /\ \A p : Held(u, p)' <=> Held(u, p)
           /\ \A u \in Team \ {t} : pc'[u] = pc[u]
<1>0. PICK k \in Nat, h \in 1..3 :
        /\ k = NodeAt(0) /\ h = HalfAt(0) /\ WrittenAt(k, h)
        /\ h # 3 => k \in 1..Len(graph)
  BY FromPlace
<1>c. /\ t \in Threads /\ Knows(t) /\ NodeAt(t) = k /\ HalfAt(t) = h
      /\ node[t] \in Nat \ {0} /\ Len(graph) \in Nat \ {0}
  BY <1>0, Context
<1>p. pc[t] \in {"rows", "solo", "convert", "chunk"}
  BY DEF WriteRows, WriteSolo, ConvertSlice, WriteChunk, NoChunkLeft
<1>1. KeepsPlace /\ UNCHANGED Control /\ \A u \in Team \ {t} : Same(u)
  BY <1>c, ComputeWithin
<1>2. node[t] \in 1..Len(graph) /\ gate[t] = "out" /\ ~Over(t) /\ ~Late(t)
  BY <1>c, <1>p DEF Knows, Barriers, Over, Late
<1>3. k = node[t] /\ h \in 1..2
  BY <1>c, <1>p, <1>2, <1>0 DEF NodeAt, HalfAt, LastHalf
<1>4. (pc[t] = "convert" => h = 1) /\ (pc[t] = "chunk" => h = 2)
  BY <1>c, <1>p, <1>2 DEF HalfAt
<1>5. /\ pc[t] = "rows" => graph[node[t]].op = "rows"
      /\ pc[t] = "solo" => graph[node[t]].op = "solo"
      /\ pc[t] \in {"convert", "chunk"} => graph[node[t]].op = "mulmat"
  BY <1>c DEF Knows, This
<1>6. UNCHANGED <<graph, nThreadsCur, node>> /\ Team' = Team /\ ~Late(t)'
  BY <1>1, <1>2
     DEF Control, Team, Late, WriteRows, WriteSolo, ConvertSlice, WriteChunk, NoChunkLeft,
         barrierVars
<1>7. \A u \in Team \ {t} :
        Same(u) /\ (Finished(u)' <=> Finished(u)) /\ (\A p : Held(u, p)' <=> Held(u, p))
        /\ pc'[u] = pc[u]
  BY <1>1, Stays DEF Same
<1>8. PartsInv(node[t], h) /\ NodeAt(0)' = node[t] /\ HalfAt(0)' = h
  BY <1>0, <1>1, <1>3 DEF WrittenAt, KeepsPlace
<1>. QED  BY <1>0, <1>2, <1>3, <1>4, <1>5, <1>6, <1>7, <1>8

LEMMA WrittenRows ==
  ASSUME ControlInv, Running, WrittenInv, NEW t \in Team, WriteRows(t) \/ WriteSolo(t)
  PROVE  WrittenInv'
<1>0. PICK k \in Nat, h \in 1..2 :
           /\ k = node[t] /\ node[t] \in 1..Len(graph) /\ HalfAt(0) = h
           /\ WrittenAt(k, h) /\ PartsInv(k, h)
           /\ pc[t] = "rows" => graph[k].op = "rows"
           /\ pc[t] = "solo" => graph[k].op = "solo"
           /\ ~Late(t) /\ ~Late(t)'
           /\ NodeAt(0)' = k /\ HalfAt(0)' = h
           /\ UNCHANGED <<graph, nThreadsCur, node>> /\ Team' = Team
           /\ \A u \in Team \ {t} : Finished(u)' <=> Finished(u)
  <2>1. node[t] \in Nat
    BY Context
  <2>. QED  BY <2>1, WorkingPlace
<1>c. t \in Threads /\ pc \in [Threads -> PCs] /\ Len(graph) \in Nat /\ node[t] \in Nat /\ 0 \in Team
      /\ Team \subseteq Threads
  BY Context, TeamHasZero DEF ControlInv, PoolTyped, BarrierInv
<1>1. /\ pc[t] \in {"rows", "solo"} /\ pc'[t] = "after" /\ ~Finished(t) /\ Finished(t)'
  BY <1>0, <1>c DEF WriteRows, WriteSolo, Goto, Finished
<1>2. CASE WriteRows(t)
  <2>1. \A m, p : Wrote(m, p)' <=> Wrote(m, p) \/ (m = k /\ p = t)
    BY <1>0, <1>2, <1>c, WroteOne DEF WriteRows
  <2>2. \A p \in Nat : Wrote(k, p) <=> p \in Team /\ Finished(p)
    BY <1>0, <1>2 DEF WriteRows, PartsInv
  <2>3. \A p \in Nat : Wrote(k, p)' <=> p \in Team /\ Finished(p)'
    BY <1>0, <1>1, <2>1, <2>2
  <2>4. PartsInv(k, h)'
    BY <1>0, <1>2, <2>3 DEF PartsInv, WriteRows
  <2>5. \A m, p : m # k => (Wrote(m, p)' <=> Wrote(m, p))
    BY <2>1
  <2>. QED  BY <1>0, <2>4, <2>5, Advance, AtPlace
<1>3. CASE WriteSolo(t)
  <2>1. \A m, p : Wrote(m, p)' <=> Wrote(m, p) \/ (t = 0 /\ m = k /\ p = 0)
    <3>1. CASE t = 0
      BY <1>0, <1>3, <1>c, <3>1, WroteOne DEF WriteSolo
    <3>2. CASE t # 0
      BY <1>3, <3>2, WroteStays DEF WriteSolo
    <3>. QED  BY <3>1, <3>2
  <2>2. \A p \in Nat : Wrote(k, p) <=> p = 0 /\ Finished(0)
    BY <1>0, <1>3 DEF WriteSolo, PartsInv
  <2>3. \A p \in Nat : Wrote(k, p)' <=> p = 0 /\ Finished(0)'
    BY <1>0, <1>1, <1>c, <2>1, <2>2
  <2>4. PartsInv(k, h)'
    BY <1>0, <1>3, <2>3 DEF PartsInv, WriteSolo
  <2>5. \A m, p : m # k => (Wrote(m, p)' <=> Wrote(m, p))
    BY <2>1
  <2>. QED  BY <1>0, <2>4, <2>5, Advance, AtPlace
<1>. QED  BY <1>2, <1>3

LEMMA WrittenConvert ==
  ASSUME ControlInv, Running, WrittenInv, NEW t \in Team, ConvertSlice(t)
  PROVE  WrittenInv'
<1>0. PICK k \in Nat :
           /\ k = node[t] /\ node[t] \in 1..Len(graph) /\ graph[k].op = "mulmat"
           /\ WrittenAt(k, 1) /\ PartsInv(k, 1)
           /\ NodeAt(0)' = k /\ HalfAt(0)' = 1
           /\ UNCHANGED <<graph, nThreadsCur, node>> /\ Team' = Team
           /\ \A u \in Team \ {t} : pc'[u] = pc[u]
  <2>1. node[t] \in Nat /\ pc[t] = "convert"
    BY Context DEF ConvertSlice
  <2>. QED  BY <2>1, WorkingPlace
<1>c. t \in Threads /\ 0 \in Team
  BY Context, TeamHasZero DEF ControlInv, PoolTyped, BarrierInv
<1>1. NothingOf(k) /\ (pc[0] = "mulbar" => currentChunk = nThreadsCur)
  BY <1>0 DEF PartsInv
<1>2. \A m, p : Wrote(m, p)' <=> Wrote(m, p)
  BY WroteStays DEF ConvertSlice
<1>3. NothingOf(k)'
  BY <1>1, <1>2 DEF NothingOf
<1>4. pc'[0] = "mulbar" => currentChunk' = nThreadsCur'
  BY <1>0, <1>1, <1>c DEF ConvertSlice
<1>5. PartsInv(k, 1)'
  BY <1>0, <1>3, <1>4 DEF PartsInv
<1>. QED  BY <1>0, <1>2, <1>5, Advance, AtPlace

LEMMA WrittenChunk ==
  ASSUME ControlInv, Running, WrittenInv, NEW t \in Team, WriteChunk(t) \/ NoChunkLeft(t)
  PROVE  WrittenInv'
<1>0. PICK k \in Nat :
           /\ k = node[t] /\ node[t] \in 1..Len(graph) /\ graph[k].op = "mulmat"
           /\ WrittenAt(k, 2) /\ PartsInv(k, 2)
           /\ ~Late(t) /\ ~Late(t)'
           /\ NodeAt(0)' = k /\ HalfAt(0)' = 2
           /\ UNCHANGED <<graph, nThreadsCur, node>> /\ Team' = Team
           /\ \A u \in Team \ {t} :
                (Finished(u)' <=> Finished(u)) /\ \A p : Held(u, p)' <=> Held(u, p)
  <2>1. node[t] \in Nat /\ pc[t] = "chunk"
    BY Context DEF WriteChunk, NoChunkLeft
  <2>. QED  BY <2>1, WorkingPlace
<1>. DEFINE last == Chunks(graph[k].size)
            p0 == chunk[t]
<1>c. /\ t \in Threads /\ pc \in [Threads -> PCs] /\ chunk \in [Threads -> Nat]
      /\ currentChunk \in Nat /\ nThreadsCur \in Nat /\ chunk[t] \in Nat /\ Len(graph) \in Nat
  BY Context DEF ControlInv, PoolTyped
<1>s. last' = last /\ last \in Nat
  BY <1>0, PartsStay, PartsOf
<1>1. ChunksInv(k)
  BY <1>0 DEF PartsInv
<1>2. pc[t] = "chunk" /\ \A p : Held(t, p) <=> p = p0
  BY <1>0 DEF WriteChunk, NoChunkLeft, Held
<1>3. p0 < currentChunk /\ ~Wrote(k, p0) /\ \A u \in Team : Held(u, p0) => u = t
  BY <1>1, <1>2, <1>c DEF ChunksInv
<1>4. ChunksInv(k)'
  <2>1. CASE NoChunkLeft(t)
    <3>1. pc'[t] = "after" /\ UNCHANGED <<currentChunk, written, nThreadsCur>> /\ p0 >= last
      BY <1>0, <1>c, <2>1 DEF NoChunkLeft, Goto, This, workVars
    <3>2. \A p : ~Held(t, p)'
      BY <3>1 DEF Held
    <3>3. \A m, p : Wrote(m, p)' <=> Wrote(m, p)
      BY <3>1, WroteStays
    <3>4. currentChunk >= last
      BY <1>3, <1>c, <1>s, <3>1
    <3>5. ASSUME NEW p \in Nat, p < currentChunk, p < last
          PROVE  Wrote(k, p)' \/ \E u \in Team : Held(u, p)'
      <4>1. p # p0
        BY <3>1, <3>5, <1>s, <1>c
      <4>. QED  BY <1>0, <1>1, <1>2, <3>3, <3>5, <4>1 DEF ChunksInv
    <3>. QED  BY <1>0, <1>1, <1>s, <3>1, <3>2, <3>3, <3>4, <3>5 DEF ChunksInv
  <2>2. CASE WriteChunk(t) /\ nThreadsCur >= last
    <3>1. pc'[t] = "after" /\ UNCHANGED <<currentChunk, nThreadsCur>>
          /\ written' = written \cup {<<k, p0, t>>}
      BY <1>0, <1>c, <2>2 DEF WriteChunk, Goto, This
    <3>2. \A p : ~Held(t, p)'
      BY <3>1 DEF Held
    <3>3. \A p : Wrote(k, p)' <=> Wrote(k, p) \/ p = p0
      BY <3>1, <1>c, WroteOne
    <3>4. currentChunk >= last
      BY <1>1, <1>c, <1>s, <2>2 DEF ChunksInv
    <3>5. ASSUME NEW p \in Nat, p < currentChunk, p < last
          PROVE  Wrote(k, p)' \/ \E u \in Team : Held(u, p)'
      BY <1>0, <1>1, <1>2, <3>3, <3>5 DEF ChunksInv
    <3>6. ASSUME NEW u \in Team, NEW p \in Nat, Held(u, p)'
          PROVE  /\ p < currentChunk /\ ~Wrote(k, p)'
                 /\ \A w \in Team : Held(w, p)' => w = u
      <4>1. u # t /\ Held(u, p)
        BY <1>0, <3>2, <3>6
      <4>. QED  BY <1>0, <1>1, <1>3, <3>2, <3>3, <4>1 DEF ChunksInv
    <3>. QED  BY <1>0, <1>1, <1>3, <1>s, <3>1, <3>3, <3>4, <3>5, <3>6 DEF ChunksInv
  <2>3. CASE WriteChunk(t) /\ ~(nThreadsCur >= last)
    <3>1. /\ pc' = pc /\ chunk'[t] = currentChunk /\ currentChunk' = currentChunk + 1
          /\ written' = written \cup {<<k, p0, t>>} /\ UNCHANGED nThreadsCur
      BY <1>0, <1>c, <2>3 DEF WriteChunk, This
    <3>2. (\A p : Held(t, p)' <=> p = currentChunk) /\ ~Finished(t)'
      BY <1>0, <1>2, <1>c, <3>1 DEF Held, Finished
    <3>3. \A p : Wrote(k, p)' <=> Wrote(k, p) \/ p = p0
      BY <3>1, <1>c, WroteOne
    <3>4. \A p : p = currentChunk => ~Wrote(k, p)' /\ \A u \in Team : ~Held(u, p)
      <4>1. ~(currentChunk < currentChunk) /\ currentChunk # p0
        BY <1>3, <1>c
      <4>2. ~Wrote(k, currentChunk) /\ \A u \in Team : ~Held(u, currentChunk)
        BY <1>1, <1>c, <4>1 DEF ChunksInv
      <4>. QED  BY <3>3, <4>1, <4>2
    <3>5. ASSUME NEW p \in Nat, p < currentChunk + 1, p < last
          PROVE  Wrote(k, p)' \/ \E u \in Team : Held(u, p)'
      <4>1. CASE p = currentChunk
        BY <3>2, <4>1
      <4>2. CASE p # currentChunk
        <5>1. p < currentChunk
          BY <4>2, <3>5, <1>c
        <5>. QED  BY <1>0, <1>1, <1>2, <3>3, <3>5, <5>1 DEF ChunksInv
      <4>. QED  BY <4>1, <4>2
    <3>6. ASSUME NEW u \in Team, NEW p \in Nat, Held(u, p)'
          PROVE  /\ p < currentChunk + 1 /\ ~Wrote(k, p)'
                 /\ \A w \in Team : Held(w, p)' => w = u
      <4>1. CASE u = t
        <5>1. p = currentChunk /\ currentChunk < currentChunk + 1
          BY <1>c, <3>2, <3>6, <4>1
        <5>2. \A w \in Team : Held(w, p)' => w = t
          BY <1>0, <3>4, <5>1
        <5>. QED  BY <3>4, <4>1, <5>1, <5>2
      <4>2. CASE u # t
        <5>1. Held(u, p) /\ p # currentChunk /\ p # p0
          BY <1>0, <1>3, <3>4, <3>6, <4>2
        <5>2. p < currentChunk /\ ~Wrote(k, p) /\ \A w \in Team : Held(w, p) => w = u
          BY <1>1, <5>1 DEF ChunksInv
        <5>. QED  BY <1>0, <1>c, <3>2, <3>3, <5>1, <5>2
      <4>. QED  BY <4>1, <4>2
    <3>7. \A p \in Nat : Wrote(k, p)' => p < currentChunk + 1
      BY <1>1, <1>3, <1>c, <3>3 DEF ChunksInv
    <3>8. \A u \in Team : Finished(u)' => currentChunk + 1 >= last
      BY <1>0, <1>1, <1>c, <1>s, <3>2 DEF ChunksInv
    <3>9. currentChunk + 1 >= nThreadsCur
      BY <1>1, <1>c DEF ChunksInv
    <3>. QED  BY <1>0, <1>s, <3>1, <3>5, <3>6, <3>7, <3>8, <3>9 DEF ChunksInv
  <2>. QED  BY <1>0, <2>1, <2>2, <2>3
<1>5. PartsInv(k, 2)'
  BY <1>0, <1>4 DEF PartsInv
<1>6. \A m, p : m # k => (Wrote(m, p)' <=> Wrote(m, p))
  <2>1. CASE NoChunkLeft(t)
    BY <2>1, WroteStays DEF NoChunkLeft, workVars
  <2>2. CASE WriteChunk(t)
    <3>1. written' = written \cup {<<k, p0, t>>}
      BY <1>0, <2>2 DEF WriteChunk
    <3>. QED  BY <1>c, <3>1, WroteOne
  <2>. QED  BY <2>1, <2>2
<1>. QED  BY <1>0, <1>5, <1>6, Advance, AtPlace

\* When all have finished their shares of a node, it is complete.
LEMMA NodeDone ==
  ASSUME ControlInv, Running, NEW k \in 1..Len(graph), NEW h, h = LastHalf(k), PartsInv(k, h),
         \A u \in Team : Finished(u) /\ \A p : ~Held(u, p)
  PROVE  NodeComplete(k)
<1>c. /\ graph[k].op \in {"rows", "solo", "mulmat", "view"} /\ 0 \in Team /\ nThreadsCur \in Nat
      /\ currentChunk \in Nat
  BY Context, TeamHasZero DEF ControlInv, BarrierInv, PoolTyped
<1>1. CASE graph[k].op = "rows"
  <2>1. Parts(graph[k]) = nThreadsCur /\ \A p \in Team : p \in Nat /\ Wrote(k, p)
    BY <1>1, <1>c, PartsOf DEF PartsInv, Team
  <2>. QED  BY <2>1 DEF NodeComplete, Team
<1>2. CASE graph[k].op = "solo"
  <2>1. Parts(graph[k]) = 1 /\ Wrote(k, 0)
    BY <1>2, <1>c, PartsOf DEF PartsInv
  <2>. QED  BY <2>1 DEF NodeComplete
<1>3. CASE graph[k].op = "view"
  <2>1. Parts(graph[k]) = 0
    BY <1>3, PartsOf
  <2>. QED  BY <2>1 DEF NodeComplete
<1>4. CASE graph[k].op = "mulmat"
  <2>1. Parts(graph[k]) = Chunks(graph[k].size) /\ Chunks(graph[k].size) \in Nat /\ ChunksInv(k)
    BY <1>4, PartsOf DEF PartsInv, LastHalf
  <2>2. currentChunk >= Chunks(graph[k].size)
    BY <1>c, <2>1 DEF ChunksInv
  <2>3. ASSUME NEW p \in 0..(Parts(graph[k]) - 1) PROVE Wrote(k, p)
    <3>1. p \in Nat /\ p < currentChunk /\ p < Chunks(graph[k].size)
      BY <1>c, <2>1, <2>2
    <3>. QED  BY <2>1, <3>1 DEF ChunksInv
  <2>. QED  BY <2>3 DEF NodeComplete
<1>. QED  BY <1>c, <1>1, <1>2, <1>3, <1>4

\* No thread has computed a part in the first half of a node it has not finished.
LEMMA NodeUntouched ==
  ASSUME ControlInv, Running, NEW k \in 1..Len(graph), PartsInv(k, 1),
         \A u \in Team : ~Finished(u)
  PROVE  NothingOf(k)
<1>c. graph[k].op \in {"rows", "solo", "mulmat", "view"} /\ 0 \in Team
  BY Context, TeamHasZero DEF ControlInv, BarrierInv
<1>. QED  BY <1>c DEF PartsInv, NothingOf

\* What the team finds past its barrier.
LEMMA OpenWritten ==
  ASSUME ControlInv, Running, WrittenInv, NEW t \in Team, LeaveBarrier(t), Skip(t) \/ OpenBarrier(t)
  PROVE  WrittenInv'
<1>0. PICK k \in Nat, h \in 1..3 :
        /\ k = NodeAt(0) /\ h = HalfAt(0) /\ WrittenAt(k, h)
        /\ h # 3 => k \in 1..Len(graph)
  BY FromPlace
<1>c. /\ t \in Threads /\ 0 \in Team /\ Knows(t) /\ node[t] \in Nat \ {0}
      /\ NodeAt(t) = k /\ HalfAt(t) = h
      /\ Len(graph) \in Nat \ {0} /\ nThreadsCur \in Nat \ {0} /\ abort \in Nat
      /\ pc \in [Threads -> PCs] /\ node \in [Threads -> Nat \ {0}] /\ chunk \in [Threads -> Nat]
      /\ gate \in [Threads -> Gates]
  BY <1>0, Context, TeamHasZero DEF ControlInv, PoolTyped, BarrierInv, BarrierTyped
<1>u. UNCHANGED <<graph, nThreadsCur, written, currentChunk, abort>> /\ Team' = Team
  BY DEF LeaveBarrier, Skip, OpenBarrier, workVars, Team
<1>a. /\ pc[t] \in Barriers /\ ~Late(t)
      /\ \A u \in Team : pc[u] = pc[t] /\ node[u] = node[t] /\ ~Late(u)
      /\ \A u \in Team \ {t} : Same(u) /\ Late(u)'
  BY AllAtBarrier
<1>t. ~Late(t)'
  BY <1>c, <1>a DEF Skip, OpenBarrier, Through, Late, Knows
<1>w. \A m, p : Wrote(m, p)' <=> Wrote(m, p)
  BY <1>u, WroteStays
<1>p. \A m : Parts(graph[m])' = Parts(graph[m]) /\ Chunks(graph[m].size)' = Chunks(graph[m].size)
  BY <1>u, PartsStay
<1>n. \A m : (NodeComplete(m)' <=> NodeComplete(m)) /\ (NothingOf(m)' <=> NothingOf(m))
  BY <1>w, <1>p DEF NodeComplete, NothingOf
<1>l. \A u \in Team \ {t} : ~Finished(u)'
  BY <1>a DEF Finished
<1>1. CASE pc[t] = "mulbar"
  <2>1. /\ k = node[t] /\ h = 1 /\ k \in 1..Len(graph) /\ graph[k].op = "mulmat"
    BY <1>c, <1>a, <1>1, BeforeBarrier
  <2>2. NodeAt(0)' = k /\ HalfAt(0)' = 2
    BY <1>1, <2>1, OpenPlaces DEF NodePast, HalfPast
  <2>3. NothingOf(k) /\ currentChunk = nThreadsCur
    BY <1>0, <1>c, <1>a, <1>1, <2>1 DEF WrittenAt, PartsInv
  <2>4. pc'[t] = "chunk" /\ chunk'[t] = t /\ node' = node
    BY <1>c, <1>1 DEF LeaveBarrier, Goto
  <2>5. ~Finished(t)' /\ \A p : Held(t, p)' <=> p = t
    BY <1>c, <1>u, <1>t, <2>1, <2>4 DEF Finished, Held
  <2>6. \A u \in Team \ {t} : \A p : Held(u, p)' <=> p = u
    BY <1>a, <1>1 DEF Held, Same
  <2>7. \A u \in Team, p \in Nat : Held(u, p)' <=> p = u
    BY <2>5, <2>6
  <2>8. ChunksInv(k)'
    <3>1. \A p \in Nat : ~Wrote(k, p)'
      BY <1>w, <2>3 DEF NothingOf
    <3>2. \A p : p \in Nat /\ p < currentChunk <=> p \in Team
      BY <1>c, <2>3 DEF Team
    <3>3. \A u \in Team : ~Finished(u)'
      BY <1>l, <2>5
    <3>4. currentChunk' >= nThreadsCur'
      BY <1>c, <1>u, <2>3
    <3>. QED  BY <1>u, <2>7, <3>1, <3>2, <3>3, <3>4 DEF ChunksInv
  <2>9. PartsInv(k, 2)'
    BY <1>u, <2>1, <2>8 DEF PartsInv
  <2>10. WrittenAt(k, 2)'
    BY <1>0, <1>u, <1>n, <2>1, <2>9 DEF WrittenAt
  <2>. QED  BY <2>2, <2>10, AtPlace
<1>2. CASE pc[t] = "nodebar"
  <2>1. k = node[t] /\ h = LastHalf(k) /\ k \in 1..(Len(graph) - 1)
    BY <1>c, <1>a, <1>2, BeforeBarrier
  <2>2. NodeAt(0)' = k + 1 /\ HalfAt(0)' = 1
    BY <1>2, <2>1, OpenPlaces DEF NodePast, HalfPast
  <2>3. \A u \in Team : Finished(u) /\ \A p : ~Held(u, p)
    BY <1>a, <1>2 DEF Finished, Held
  <2>4. h # 3 /\ k \in 1..Len(graph) /\ k + 1 \in 1..Len(graph)
    BY <1>c, <2>1 DEF LastHalf
  <2>5. NodeComplete(k)
    BY <1>0, <2>1, <2>3, <2>4, NodeDone DEF WrittenAt
  <2>6. pc'[t] = "node" /\ node'[t] = k + 1
    BY <1>c, <1>2, <2>1 DEF LeaveBarrier, Goto
  <2>7. ~Finished(t)'
    BY <1>c, <1>u, <2>4, <2>6 DEF Finished
  <2>8. \A u \in Team : ~Finished(u)' /\ pc'[u] # "mulbar"
    BY <1>l, <1>a, <1>2, <2>6, <2>7 DEF Same
  <2>9. NothingOf(k + 1)'
    BY <1>0, <1>c, <1>n, <2>4 DEF WrittenAt
  <2>10. PartsInv(k + 1, 1)'
    <3>1. k + 1 \in Nat /\ \A p \in Nat : ~Wrote(k + 1, p)'
      BY <2>9 DEF NothingOf
    <3>. QED  BY <1>c, <1>u, <2>8, <2>9, <3>1 DEF PartsInv
  <2>11. \A m \in 1..Len(graph) : m < k + 1 => NodeComplete(m)'
    <3>. SUFFICES ASSUME NEW m \in 1..Len(graph), m < k + 1 PROVE NodeComplete(m)'
      BY <1>u
    <3>1. m < k \/ m = k
      BY <1>c
    <3>. QED  BY <1>0, <1>n, <2>5, <3>1 DEF WrittenAt
  <2>12. \A m \in 1..Len(graph) : m > k + 1 => NothingOf(m)'
    <3>. SUFFICES ASSUME NEW m \in 1..Len(graph), m > k + 1 PROVE NothingOf(m)'
      BY <1>u
    <3>1. m > k
      BY <1>c
    <3>. QED  BY <1>0, <1>n, <3>1 DEF WrittenAt
  <2>13. WrittenAt(k + 1, 1)'
    BY <1>u, <2>10, <2>11, <2>12 DEF WrittenAt
  <2>. QED  BY <2>2, <2>13, AtPlace
<1>3. CASE pc[t] = "final"
  <2>1. NodeAt(0)' = EndNode /\ HalfAt(0)' = 3
    BY <1>3, OpenPlaces DEF NodePast, HalfPast
  <2>2. \/ /\ k = Len(graph) /\ h = LastHalf(k) /\ node[t] = k + 1 /\ abort # k
        \/ k = node[t] /\ h = 1 /\ k \in 1..Len(graph) /\ abort = k
    BY <1>c, <1>a, <1>3, BeforeBarrier
  <2>3. h # 3 /\ k \in 1..Len(graph) /\ PartsInv(k, h)
    BY <1>0, <1>c, <2>2 DEF LastHalf, WrittenAt
  <2>4. CASE k = node[t] /\ h = 1 /\ k \in 1..Len(graph) /\ abort = k
    <3>1. EndNode = k
      BY <2>4 DEF EndNode
    <3>2. \A u \in Team : ~Finished(u)
      BY <1>c, <1>a, <1>3, <2>4 DEF Finished
    <3>3. NothingOf(k)
      BY <2>3, <2>4, <3>2, NodeUntouched
    <3>4. WrittenAt(k, 3)'
      BY <1>0, <1>u, <1>n, <3>3 DEF WrittenAt
    <3>. QED  BY <2>1, <3>1, <3>4, AtPlace
  <2>5. CASE k = Len(graph) /\ h = LastHalf(k) /\ node[t] = k + 1 /\ abort # k
    <3>1. \A u \in Team : Finished(u) /\ \A p : ~Held(u, p)
      BY <1>c, <1>a, <1>3, <2>5 DEF Finished, Held
    <3>2. NodeComplete(k)
      BY <2>3, <2>5, <3>1, NodeDone
    <3>3. abort \in {0, k, k + 1}
      BY <1>0, <2>3 DEF ControlInv, PlacesInv, AbortInv
    <3>4. EndNode = k + 1
      BY <1>c, <2>5, <3>3 DEF EndNode
    <3>5. \A m \in 1..Len(graph) : m < k + 1 => NodeComplete(m)'
      <4>. SUFFICES ASSUME NEW m \in 1..Len(graph) PROVE NodeComplete(m)'
        BY <1>u
      <4>1. m < k \/ m = k
        BY <1>c, <2>5
      <4>. QED  BY <1>0, <1>n, <3>2, <4>1 DEF WrittenAt
    <3>6. \A m \in 1..Len(graph) : ~(m > k + 1) /\ m # k + 1
      BY <1>c, <2>5
    <3>7. WrittenAt(k + 1, 3)'
      BY <1>u, <3>5, <3>6 DEF WrittenAt
    <3>. QED  BY <2>1, <3>4, <3>7, AtPlace
  <2>. QED  BY <2>2, <2>4, <2>5
<1>. QED  BY <1>a, <1>1, <1>2, <1>3 DEF Barriers

-------------------------------------------------------------------------------
\* Where the threads are, and what they have computed.
PoolInv == ControlInv /\ (Running => WrittenInv)

LEMMA PoolStep == PoolInv /\ [Next]_vars => PoolInv'
<1>. SUFFICES ASSUME PoolInv, [Next]_vars, Running' PROVE WrittenInv'
  BY ControlStep DEF PoolInv
<1>i. ControlInv /\ (Running => WrittenInv)
  BY DEF PoolInv
<1>1. ASSUME NEW gr \in Graphs, NEW n \in 1..MaxThreads, Begin(gr, n)
      PROVE  WrittenInv'
  <2>1. /\ graph' = gr /\ written' = {} /\ Len(gr) \in Nat \ {0}
        /\ \A k \in 1..Len(gr) : gr[k].op \in {"rows", "solo", "mulmat", "view"}
    BY <1>1, GraphShape DEF Begin
  <2>2. /\ 0 \in Team' /\ NodeAt(0)' = 1 /\ HalfAt(0)' = 1
        /\ \A u \in Team' : ~Finished(u)' /\ pc'[u] # "mulbar"
    BY <1>1, BeginPlaces
  <2>3. \A m, p : ~Wrote(m, p)'
    BY <2>1 DEF Wrote
  <2>4. PartsInv(1, 1)'
    BY <2>1, <2>2, <2>3 DEF PartsInv, NothingOf
  <2>5. \A m \in 1..Len(gr) : ~(m < 1)
    BY <2>1
  <2>6. WrittenAt(1, 1)'
    BY <2>1, <2>3, <2>4, <2>5 DEF WrittenAt, NothingOf
  <2>. QED  BY <2>2, <2>6, AtPlace
<1>2. CASE Kickoff \/ Stop
  BY <1>i, <1>2, QuietCaller DEF Kickoff, Stop, Running
<1>3. CASE Join
  <2>1. pc'[0] = "idle"
    BY <1>i, <1>3, TeamHasZero DEF Join, Goto, ControlInv, PoolTyped, BarrierInv
  <2>. QED  BY <2>1 DEF Running
<1>4. CASE Abort
  BY <1>i, <1>4, QuietAbort DEF Abort, Running
<1>5. ASSUME NEW t \in Workers, Wait(t) \/ SpuriousWake(t)
      PROVE  WrittenInv'
  <2>1. pc[t] # "exited" /\ t \in Threads
    BY <1>5 DEF Wait, FindWork, GiveUpPolling, Sleep, SpuriousWake, Workers
  <2>. QED  BY <1>i, <1>5, <2>1, WhoSteps, QuietWait
<1>6. ASSUME NEW t \in Threads, Compute(t)
      PROVE  WrittenInv'
  <2>1. t \in Team /\ Running /\ WrittenInv
    BY <1>i, <1>6, ComputePlaces
  <2>2. CASE NextNode(t) \/ GoOn(t) \/ InBarrier(t)
    BY <1>i, <2>1, <2>2, QuietWork
  <2>3. CASE LeaveBarrier(t)
    BY <1>i, <2>1, <2>3, QuietSeeing, OpenWritten DEF LeaveBarrier, Return
  <2>4. CASE WriteRows(t) \/ WriteSolo(t)
    BY <1>i, <2>1, <2>4, WrittenRows
  <2>5. CASE ConvertSlice(t)
    BY <1>i, <2>1, <2>5, WrittenConvert
  <2>6. CASE WriteChunk(t) \/ NoChunkLeft(t)
    BY <1>i, <2>1, <2>6, WrittenChunk
  <2>. QED  BY <1>6, <2>2, <2>3, <2>4, <2>5, <2>6 DEF Compute
<1>7. CASE UNCHANGED vars
  <2>1. Running /\ WrittenInv /\ 0 \in Team
    BY <1>i, <1>7, TeamHasZero DEF vars, tpVars, Running, ControlInv, BarrierInv
  <2>2. /\ UNCHANGED Control /\ UNCHANGED <<written, currentChunk, graph, nThreadsCur>>
        /\ pc' = pc /\ \A u \in Team : Same(u)
    BY <1>7 DEF Control, Same, vars, tpVars, barrierVars, poolVars, workVars
  <2>3. Within(0)
    BY <1>i, <2>1, <2>2, Stays DEF Within, ControlInv, PlacesInv
  <2>4. KeepsPlace
    BY <1>i, <2>1, <2>2, <2>3, WithinKeeps
  <2>. QED  BY <1>i, <2>1, <2>2, <2>4, Stays, Unwritten
<1>. QED  BY <1>1, <1>2, <1>3, <1>4, <1>5, <1>6, <1>7 DEF Next, Caller

LEMMA PoolInvariance == Spec => []PoolInv
<1>1. Init => PoolInv
  BY ControlInit, TeamHasZero DEF PoolInv, Init, Running, ControlInv, BarrierInv
<1>. QED  BY <1>1, PoolStep, PTL DEF Spec

-------------------------------------------------------------------------------
(***************************************************************************)
(* The pool computes a graph node by node (GgmlGraph).                     *)
(***************************************************************************)
PartsOfGraph == [k \in DOMAIN graph |-> Parts(graph[k])]
ResultOfCall == IF pc[0] = "idle" THEN outcome ELSE "none"

\* A step that computes a part: of a node all before which are complete, and a part
\* no thread has computed.
LEMMA PartIsNew ==
  ASSUME PoolInv, NEW t \in Threads, WriteRows(t) \/ WriteSolo(t) \/ WriteChunk(t)
  PROVE  \/ written' = written
         \/ \E k \in 1..Len(graph) : \E p \in 0..(Parts(graph[k]) - 1) :
              /\ \A m \in 1..(k - 1) : NodeComplete(m)
              /\ ~Wrote(k, p)
              /\ written' = written \cup {<<k, p, t>>}
<1>1. t \in Team /\ Running /\ WrittenInv /\ ControlInv
  BY ComputePlaces DEF PoolInv, Compute
<1>2. PICK k \in Nat, h \in 1..2 :
           /\ k = node[t] /\ k \in 1..Len(graph)
           /\ WrittenAt(k, h) /\ PartsInv(k, h)
           /\ pc[t] = "chunk" => h = 2
           /\ pc[t] = "rows" => graph[k].op = "rows"
           /\ pc[t] = "solo" => graph[k].op = "solo"
           /\ pc[t] = "chunk" => graph[k].op = "mulmat"
           /\ ~Late(t)
  <2>1. node[t] \in Nat
    BY <1>1, Context
  <2>. QED  BY <1>1, <2>1, WorkingPlace
<1>c. /\ Len(graph) \in Nat /\ chunk[t] \in Nat /\ nThreadsCur \in Nat
      /\ 0 \in Team /\ Parts(graph[k]) \in Nat
  BY <1>1, <1>2, Context, PartsOf, TeamHasZero DEF ControlInv, BarrierInv
<1>3. \A m \in 1..(k - 1) : NodeComplete(m)
  <2>. SUFFICES ASSUME NEW m \in 1..(k - 1) PROVE NodeComplete(m)
    OBVIOUS
  <2>1. m \in 1..Len(graph) /\ m < k
    BY <1>2, <1>c
  <2>. QED  BY <1>2, <2>1 DEF WrittenAt
<1>4. CASE WriteRows(t)
  <2>1. pc[t] = "rows" /\ graph[k].op = "rows" /\ ~(k > Len(graph))
    BY <1>2, <1>4, <1>c DEF WriteRows
  <2>2. t \in Nat /\ t \in 0..(Parts(graph[k]) - 1)
    BY <1>1, <1>2, <1>c, <2>1, PartsOf DEF Team
  <2>3. ~Finished(t)
    BY <1>2, <2>1 DEF Finished
  <2>4. ~Wrote(k, t)
    BY <1>2, <2>1, <2>2, <2>3 DEF PartsInv
  <2>. QED  BY <1>2, <1>3, <1>4, <2>2, <2>4 DEF WriteRows
<1>5. CASE WriteSolo(t)
  <2>1. CASE t = 0
    <3>1. pc[0] = "solo" /\ graph[k].op = "solo" /\ ~(k > Len(graph))
      BY <1>2, <1>5, <1>c, <2>1 DEF WriteSolo
    <3>2. 0 \in Nat /\ 0 \in 0..(Parts(graph[k]) - 1)
      BY <1>1, <1>2, <3>1, PartsOf
    <3>3. ~Finished(0)
      BY <1>2, <2>1, <3>1 DEF Finished
    <3>4. ~Wrote(k, 0)
      BY <1>2, <3>1, <3>2, <3>3 DEF PartsInv
    <3>. QED  BY <1>2, <1>3, <1>5, <2>1, <3>2, <3>4 DEF WriteSolo
  <2>2. CASE t # 0
    BY <1>5, <2>2 DEF WriteSolo
  <2>. QED  BY <2>1, <2>2
<1>6. CASE WriteChunk(t)
  <2>1. ChunksInv(k) /\ Held(t, chunk[t]) /\ chunk[t] < Chunks(graph[k].size)
    BY <1>2, <1>6 DEF WriteChunk, PartsInv, Held, This
  <2>2. ~Wrote(k, chunk[t])
    BY <1>1, <1>c, <2>1 DEF ChunksInv
  <2>3. chunk[t] \in 0..(Parts(graph[k]) - 1)
    BY <1>1, <1>2, <1>6, <1>c, <2>1, PartsOf DEF WriteChunk
  <2>. QED  BY <1>2, <1>3, <1>6, <2>2, <2>3 DEF WriteChunk
<1>. QED  BY <1>4, <1>5, <1>6

\* When the threads are to be joined, the nodes before EndNode are complete and nothing of
\* the others was computed; a call that succeeds leaves none out.
LEMMA JoinEnds ==
  ASSUME PoolInv, pc[0] = "join"
  PROVE  /\ EndNode \in 2..(Len(graph) + 1)
         /\ \A m \in 1..(EndNode - 1) : NodeComplete(m)
         /\ \A m \in EndNode..Len(graph) : NothingOf(m)
         /\ outcome \in {"success", "aborted"}
         /\ outcome = "success" => EndNode = Len(graph) + 1
<1>1. Running /\ WrittenInv /\ ControlInv /\ pc[0] = "join"
  BY DEF PoolInv, Running
<1>2. NodeAt(0) = EndNode /\ HalfAt(0) = 3
  BY <1>1 DEF NodeAt, HalfAt, Over
<1>3. Len(graph) \in Nat \ {0} /\ abort \in Nat
  BY <1>1, Context, TeamHasZero DEF ControlInv, BarrierInv
<1>4. /\ outcome = ec /\ ec \in {"success", "aborted"} /\ (ec = "success" <=> abort = 0)
      /\ abort # 1
  BY <1>1 DEF ControlInv, CallInv, PoolTyped
<1>5. EndNode \in 2..(Len(graph) + 1)
  BY <1>3, <1>4 DEF EndNode
<1>6. abort = 0 => EndNode = Len(graph) + 1
  BY <1>3 DEF EndNode
<1>7. WrittenAt(EndNode, 3)
  BY <1>1, <1>2 DEF WrittenInv
<1>8. ASSUME NEW m \in 1..(EndNode - 1) PROVE NodeComplete(m)
  <2>1. m \in 1..Len(graph) /\ m < EndNode
    BY <1>3, <1>5
  <2>. QED  BY <1>7, <2>1 DEF WrittenAt
<1>9. ASSUME NEW m \in EndNode..Len(graph) PROVE NothingOf(m)
  <2>1. m \in 1..Len(graph) /\ (m > EndNode \/ m = EndNode)
    BY <1>3, <1>5
  <2>. QED  BY <1>7, <2>1 DEF WrittenAt
<1>. QED  BY <1>4, <1>5, <1>6, <1>8, <1>9

PartsShape ==
  /\ graph = NoGraph => PartsOfGraph = << >>
  /\ graph # NoGraph => /\ PartsOfGraph \in Seq(Nat) \ {<< >>}
                        /\ Len(PartsOfGraph) = Len(graph)
                        /\ \A k \in 1..Len(graph) : PartsOfGraph[k] = Parts(graph[k])

LEMMA PartsAreASeq == PoolInv => PartsShape
<1>. SUFFICES ASSUME PoolInv PROVE PartsShape
  OBVIOUS
<1>1. ASSUME graph = NoGraph PROVE PartsOfGraph = << >>
  <2>1. DOMAIN graph = {}
    BY <1>1 DEF NoGraph
  <2>. QED  BY <2>1 DEF PartsOfGraph
<1>2. ASSUME graph # NoGraph
      PROVE  /\ PartsOfGraph \in Seq(Nat) \ {<< >>} /\ Len(PartsOfGraph) = Len(graph)
             /\ \A k \in 1..Len(graph) : PartsOfGraph[k] = Parts(graph[k])
  <2>1. Running /\ ControlInv
    BY <1>2 DEF PoolInv, ControlInv, CallInv
  <2>2. graph \in Graphs
    BY <1>2, <2>1 DEF ControlInv, CallInv
  <2>3. DOMAIN graph = 1..Len(graph) /\ Len(graph) \in Nat \ {0}
    BY <2>2, GraphShape
  <2>4. \A k \in 1..Len(graph) : Parts(graph[k]) \in Nat
    BY <2>1, PartsOf
  <2>5. PartsOfGraph \in [1..Len(graph) -> Nat]
    BY <2>3, <2>4 DEF PartsOfGraph
  <2>6. PartsOfGraph \in Seq(Nat) /\ Len(PartsOfGraph) = Len(graph)
    BY <2>3, <2>5
  <2>. QED  BY <2>3, <2>6 DEF PartsOfGraph
<1>. QED  BY <1>1, <1>2 DEF PartsShape

LEMMA ComputedInit == Init => Computed!Init
<1>. SUFFICES ASSUME Init PROVE Computed!Init
  OBVIOUS
<1>1. PoolInv
  BY ControlInit, TeamHasZero DEF PoolInv, Init, Running, ControlInv, BarrierInv
<1>2. pc[0] = "idle"
  BY <1>1, TeamHasZero DEF Init, PoolInv, ControlInv, BarrierInv
<1>3. PartsOfGraph = << >>
  BY <1>1, PartsAreASeq DEF Init, PartsShape
<1>. QED  BY <1>2, <1>3 DEF Init, Computed!Init, Computed!None, PartsOfGraph

LEMMA ComputedStep ==
  PoolInv /\ PoolInv' /\ [Next]_vars => [Computed!Next]_(Computed!graphVars)
<1>. SUFFICES ASSUME PoolInv, PoolInv', [Next]_vars
              PROVE  [Computed!Next]_(Computed!graphVars)
  OBVIOUS
<1>z. 0 \in Threads /\ Workers \subseteq Threads /\ pc \in [Threads -> PCs]
  BY TeamHasZero DEF PoolInv, ControlInv, BarrierInv, PoolTyped
<1>s. PartsShape /\ PartsShape'
  <2>1. PoolInv' => PartsShape'
    BY PartsAreASeq, PTL
  <2>. QED  BY <2>1, PartsAreASeq
<1>r. (graph # NoGraph <=> Running) /\ (graph' # NoGraph <=> Running')
  BY DEF PoolInv, ControlInv, CallInv
<1>d. /\ \A k, p : Computed!Done(k, p) <=> Wrote(k, p)
      /\ graph # NoGraph => \A k \in 1..Len(graph) : NodeComplete(k) => Computed!Complete(k)
  <2>1. \A k, p : Computed!Done(k, p) <=> Wrote(k, p)
    BY DEF Computed!Done, Wrote
  <2>2. ASSUME graph # NoGraph, NEW k \in 1..Len(graph), NodeComplete(k)
        PROVE  Computed!Complete(k)
    <3>1. PartsOfGraph[k] = Parts(graph[k])
      BY <1>s, <2>2 DEF PartsShape
    <3>. QED  BY <2>1, <2>2, <3>1 DEF Computed!Complete, NodeComplete, PartsOfGraph
  <2>. QED  BY <2>1, <2>2
<1>q. ASSUME UNCHANGED <<graph, nThreadsCur, written>>, ResultOfCall' = ResultOfCall
      PROVE  UNCHANGED Computed!graphVars
  <2>1. PartsOfGraph' = PartsOfGraph
    BY <1>q, PartsStay DEF PartsOfGraph
  <2>. QED  BY <1>q, <2>1 DEF Computed!graphVars, PartsOfGraph, ResultOfCall
<1>1. ASSUME NEW gr \in Graphs, NEW n \in 1..MaxThreads, Begin(gr, n)
      PROVE  Computed!Begin
  <2>1. graph = NoGraph /\ graph' # NoGraph /\ pc'[0] = "kick" /\ written' = {}
    BY <1>1, <1>r, <1>z, GraphShape DEF Begin, Running
  <2>2. PartsOfGraph = << >>
    BY <2>1, <1>s DEF PartsShape
  <2>3. PartsOfGraph' \in Seq(Nat) \ {<< >>}
    BY <2>1, <1>s DEF PartsShape
  <2>4. ResultOfCall' = "none"
    BY <2>1 DEF ResultOfCall
  <2>. QED  BY <2>1, <2>2, <2>3, <2>4 DEF Computed!Begin, Computed!None, PartsOfGraph, ResultOfCall
<1>2. CASE Join
  <2>1. /\ graph # NoGraph /\ graph' = NoGraph /\ pc'[0] = "idle"
        /\ UNCHANGED <<nThreadsCur, written, outcome>>
    BY <1>2, <1>r, <1>z DEF Join, Goto, Running, barrierVars, workVars
  <2>2. /\ PartsOfGraph # << >> /\ Len(PartsOfGraph) = Len(graph)
        /\ \A k \in 1..Len(graph) : PartsOfGraph[k] = Parts(graph[k])
    BY <2>1, <1>s DEF PartsShape
  <2>3. PartsOfGraph' = << >>
    BY <2>1, <1>s DEF PartsShape
  <2>4. /\ EndNode \in 2..(Len(graph) + 1)
        /\ \A m \in 1..(EndNode - 1) : NodeComplete(m)
        /\ \A m \in EndNode..Len(graph) : NothingOf(m)
        /\ outcome \in {"success", "aborted"}
        /\ outcome = "success" => EndNode = Len(graph) + 1
    BY <1>2, JoinEnds DEF Join
  <2>5. ResultOfCall' = outcome
    BY <2>1 DEF ResultOfCall
  <2>6. Len(graph) \in Nat
    BY <1>2, <1>z, Context, TeamHasZero
       DEF Join, PoolInv, ControlInv, BarrierInv, Running
  <2>7. \A m \in 1..(EndNode - 1) : Computed!Complete(m)
    <3>1. \A m \in 1..(EndNode - 1) : m \in 1..Len(graph)
      BY <2>4, <2>6
    <3>. QED  BY <1>d, <2>1, <2>4, <3>1
  <2>8. \A m \in EndNode..Len(graph) : \A p \in 0..(PartsOfGraph[m] - 1) : ~Computed!Done(m, p)
    <3>. SUFFICES ASSUME NEW m \in EndNode..Len(graph), NEW p \in 0..(PartsOfGraph[m] - 1)
                  PROVE  ~Computed!Done(m, p)
      OBVIOUS
    <3>1. PartsOfGraph[m] \in Nat
      <4>1. m \in 1..Len(graph)
        BY <2>4, <2>6
      <4>. QED  BY <2>1, <2>2, <4>1, <1>s DEF PartsShape
    <3>2. p \in Nat
      BY <3>1
    <3>. QED  BY <1>d, <2>4, <3>2 DEF NothingOf
  <2>9. Computed!End(EndNode)
    BY <2>1, <2>2, <2>3, <2>4, <2>5, <2>7, <2>8
       DEF Computed!End, Computed!None, PartsOfGraph, ResultOfCall
  <2>. QED  BY <2>2, <2>4, <2>9 DEF Computed!Next, Computed!None, PartsOfGraph
<1>3. ASSUME NEW t \in Threads, WriteRows(t) \/ WriteSolo(t) \/ WriteChunk(t)
      PROVE  [Computed!Next]_(Computed!graphVars)
  <2>1. /\ graph # NoGraph /\ UNCHANGED <<graph, nThreadsCur>>
        /\ ResultOfCall' = ResultOfCall
    <3>1. Running /\ Running'
      BY <1>3, <1>z, ComputePlaces
         DEF Compute, PoolInv, Running, WriteRows, WriteSolo, WriteChunk, Goto
    <3>2. UNCHANGED <<graph, nThreadsCur>>
      BY <1>3 DEF WriteRows, WriteSolo, WriteChunk, barrierVars
    <3>. QED  BY <1>r, <3>1, <3>2 DEF ResultOfCall, Running
  <2>2. CASE written' = written
    BY <1>q, <2>1, <2>2
  <2>3. ASSUME NEW k \in 1..Len(graph), NEW p \in 0..(Parts(graph[k]) - 1),
               \A m \in 1..(k - 1) : NodeComplete(m), ~Wrote(k, p),
               written' = written \cup {<<k, p, t>>}
        PROVE  Computed!Next
    <3>1. /\ PartsOfGraph # << >> /\ Len(PartsOfGraph) = Len(graph)
          /\ PartsOfGraph[k] = Parts(graph[k]) /\ PartsOfGraph' = PartsOfGraph
      BY <1>s, <2>1, PartsStay DEF PartsShape, PartsOfGraph
    <3>2. \A m \in 1..(k - 1) : Computed!Complete(m)
      <4>1. Len(graph) \in Nat
        BY <1>s, <2>1, <3>1 DEF PartsShape
      <4>2. \A m \in 1..(k - 1) : m \in 1..Len(graph)
        BY <4>1
      <4>. QED  BY <1>d, <2>1, <2>3, <4>2
    <3>3. Computed!WritePart(k, p, t)
      BY <1>d, <2>1, <2>3, <3>1, <3>2 DEF Computed!WritePart, PartsOfGraph, ResultOfCall
    <3>. QED  BY <3>1, <3>3 DEF Computed!Next, Computed!None, PartsOfGraph
  <2>. QED  BY <1>3, <2>2, <2>3, PartIsNew
<1>4. ASSUME UNCHANGED <<graph, nThreadsCur, written>>,
             pc[0] = "idle" => UNCHANGED <<pc, outcome>>,
             pc[0] # "idle" => pc'[0] # "idle"
      PROVE  [Computed!Next]_(Computed!graphVars)
  <2>1. ResultOfCall' = ResultOfCall
    BY <1>4 DEF ResultOfCall
  <2>. QED  BY <1>4, <1>q, <2>1
<1>5. CASE Kickoff \/ Stop \/ Abort
  BY <1>4, <1>5, <1>z
     DEF Kickoff, Stop, Abort, Onward, Goto, barrierVars, workVars
<1>6. ASSUME NEW t \in Workers, Wait(t) \/ SpuriousWake(t)
      PROVE  [Computed!Next]_(Computed!graphVars)
  <2>1. UNCHANGED <<graph, nThreadsCur, written>> /\ pc'[0] = pc[0] /\ Running
    <3>1. Running
      BY <1>6, <1>z, WhoSteps
         DEF Wait, FindWork, GiveUpPolling, Sleep, SpuriousWake, PoolInv
    <3>. QED
      BY <1>6, <1>z, <3>1
         DEF Wait, FindWork, GiveUpPolling, Sleep, SpuriousWake, Goto, barrierVars, workVars,
             Workers
  <2>. QED  BY <1>4, <2>1 DEF Running
<1>7. ASSUME NEW t \in Threads,
             \/ NextNode(t) \/ GoOn(t) \/ ConvertSlice(t) \/ NoChunkLeft(t)
             \/ InBarrier(t) \/ LeaveBarrier(t)
      PROVE  [Computed!Next]_(Computed!graphVars)
  <2>1. Running
    BY <1>7, ComputePlaces DEF Compute, PoolInv
  <2>2. UNCHANGED <<graph, written>>
    BY <1>7
       DEF NextNode, GoOn, ConvertSlice, NoChunkLeft, InBarrier, LeaveBarrier, tpVars, workVars
  <2>3. UNCHANGED nThreadsCur
    BY <1>7
       DEF NextNode, GoOn, ConvertSlice, NoChunkLeft, InBarrier, LeaveBarrier, barrierVars,
           Inside, Return, LoadPassed, Arrive, ResetCount, Skip, OpenBarrier, SeeItOpen
  <2>. QED  BY <1>4, <1>r, <2>1, <2>2, <2>3 DEF Running
<1>8. CASE UNCHANGED vars
  BY <1>4, <1>8 DEF vars, tpVars, barrierVars, workVars
<1>. QED  BY <1>1, <1>2, <1>3, <1>5, <1>6, <1>7, <1>8
          DEF Next, Caller, Compute, Computed!Next

\* Whatever the graphs and the number of threads, the pool computes the nodes one
\* after the other and each part of a node exactly once, and reports success only when
\* all are computed: it implements GgmlGraph (ggml-cpu.c:2864-2878, 1270-1366).
THEOREM PoolComputesGraphs == Spec => Computed!Spec
BY PoolInvariance, ComputedInit, ComputedStep, PTL DEF Spec, Computed!Spec

-------------------------------------------------------------------------------
(***************************************************************************)
(* The slices of the converted operand.                                    *)
(***************************************************************************)
SlicesInv == \A t \in Team : pc[t] = "mulbar" \/ HalfAt(t) = 2 => scratch[t] = NodeAt(t)

LEMMA SlicesStay ==
  ASSUME ControlInv, Running, SlicesInv, KeepsPlace, Team' = Team, scratch' = scratch,
         \A u \in Team : pc'[u] = "mulbar" => pc[u] = "mulbar"
  PROVE  SlicesInv'
<1>1. 0 \in Team
  BY TeamHasZero DEF ControlInv, BarrierInv
<1>2. \A u \in Team : NodeAt(u)' = NodeAt(u) /\ HalfAt(u)' = HalfAt(u)
  BY <1>1 DEF ControlInv, PlacesInv, Together, KeepsPlace
<1>. QED  BY <1>2 DEF SlicesInv

LEMMA SlicesOpen ==
  ASSUME ControlInv, Running, SlicesInv, NEW t \in Team, LeaveBarrier(t), Skip(t) \/ OpenBarrier(t)
  PROVE  SlicesInv'
<1>1. /\ 0 \in Team /\ t \in Threads /\ pc \in [Threads -> PCs]
      /\ NodeAt(t) = NodeAt(0) /\ pc[t] \in Barriers
  BY Context, TeamHasZero DEF ControlInv, BarrierInv, PoolTyped, LeaveBarrier
<1>2. /\ ~Late(t)
      /\ \A u \in Team \ {t} : pc[u] = pc[t] /\ pc'[u] = pc[t]
  BY AllAtBarrier DEF Same
<1>3. PlacesInv' /\ NodeAt(0)' = NodePast(t) /\ HalfAt(0)' = HalfPast(t)
  BY OpenPlaces
<1>4. UNCHANGED scratch /\ Team' = Team /\ pc'[t] # "mulbar"
  BY <1>1 DEF LeaveBarrier, Goto, workVars, Skip, OpenBarrier, Team
<1>5. \A u \in Team : NodeAt(u)' = NodePast(t) /\ HalfAt(u)' = HalfPast(t)
  BY <1>1, <1>3, <1>4 DEF PlacesInv, Together
<1>6. CASE pc[t] = "mulbar"
  <2>1. NodePast(t) = NodeAt(t)
    BY <1>1, <1>2, <1>6, BeforeBarrier DEF NodePast
  <2>2. \A u \in Team : scratch[u] = NodeAt(u) /\ NodeAt(u) = NodeAt(t)
    BY <1>2, <1>6, Context DEF SlicesInv
  <2>. QED  BY <1>4, <1>5, <2>1, <2>2 DEF SlicesInv
<1>7. CASE pc[t] # "mulbar"
  <2>1. HalfPast(t) # 2 /\ \A u \in Team : pc'[u] # "mulbar"
    BY <1>2, <1>4, <1>7 DEF HalfPast
  <2>. QED  BY <1>4, <1>5, <2>1 DEF SlicesInv
<1>. QED  BY <1>6, <1>7

LEMMA SlicesConvert ==
  ASSUME ControlInv, Running, SlicesInv, NEW t \in Team, ConvertSlice(t)
  PROVE  SlicesInv'
<1>1. /\ 0 \in Team /\ t \in Threads /\ pc \in [Threads -> PCs] /\ Team \subseteq Threads
      /\ scratch \in [Threads -> Nat] /\ Knows(t) /\ node[t] \in Nat /\ Len(graph) \in Nat
  BY Context, TeamHasZero DEF ControlInv, BarrierInv, PoolTyped
<1>2. KeepsPlace /\ UNCHANGED Control
  BY <1>1, ComputeWithin
<1>3. \A u \in Team : NodeAt(u)' = NodeAt(u) /\ HalfAt(u)' = HalfAt(u)
  BY <1>1, <1>2 DEF ControlInv, PlacesInv, Together, KeepsPlace, Control, Team
<1>4. NodeAt(t) = node[t]
  BY <1>1 DEF ConvertSlice, NodeAt, Over, Late, Knows, Barriers
<1>5. /\ scratch'[t] = node[t]
      /\ \A u \in Team \ {t} : scratch'[u] = scratch[u] /\ pc'[u] = pc[u]
  BY <1>1 DEF ConvertSlice, Goto
<1>6. Team' = Team
  BY <1>2 DEF Control, Team
<1>. QED  BY <1>3, <1>4, <1>5, <1>6 DEF SlicesInv

LEMMA SlicesStep ==
  ControlInv /\ (Running => SlicesInv) /\ [Next]_vars => (Running => SlicesInv)'
<1>. SUFFICES ASSUME ControlInv, Running => SlicesInv, [Next]_vars, Running' PROVE SlicesInv'
  OBVIOUS
<1>z. 0 \in Threads /\ Team \subseteq Threads /\ pc \in [Threads -> PCs] /\ 0 \in Team
  BY TeamHasZero DEF ControlInv, BarrierInv, PoolTyped
<1>1. ASSUME NEW gr \in Graphs, NEW n \in 1..MaxThreads, Begin(gr, n)
      PROVE  SlicesInv'
  <2>1. \A u \in Team' : pc'[u] # "mulbar" /\ HalfAt(u)' = 1
    BY <1>1, BeginPlaces DEF PlacesInv, Together
  <2>. QED  BY <2>1 DEF SlicesInv
<1>2. CASE Kickoff \/ Stop
  <2>1. Running /\ KeepsPlace /\ Team' = Team /\ scratch' = scratch
    BY <1>2, KickoffPlaces, StopPlaces DEF Kickoff, Stop, Running, barrierVars, workVars, Team
  <2>2. \A u \in Team : pc'[u] = "mulbar" => pc[u] = "mulbar"
    BY <1>2, <1>z DEF Kickoff, Stop, Broadcast
  <2>. QED  BY <2>1, <2>2, SlicesStay
<1>3. CASE Join
  <2>1. pc'[0] = "idle"
    BY <1>3, <1>z DEF Join, Goto
  <2>. QED  BY <2>1 DEF Running
<1>4. CASE Abort
  <2>1. Running /\ KeepsPlace /\ Team' = Team /\ scratch' = scratch
    BY <1>4, AbortPlaces DEF Abort, Running, barrierVars, Team
  <2>2. \A u \in Team : pc'[u] = "mulbar" => pc[u] = "mulbar"
    BY <1>4, <1>z DEF Abort, Onward, Goto
  <2>. QED  BY <2>1, <2>2, SlicesStay
<1>5. ASSUME NEW t \in Workers, Wait(t) \/ SpuriousWake(t)
      PROVE  SlicesInv'
  <2>1. pc[t] # "exited" /\ t \in Threads
    BY <1>5 DEF Wait, FindWork, GiveUpPolling, Sleep, SpuriousWake, Workers
  <2>2. Running /\ KeepsPlace
    BY <1>5, <2>1, WhoSteps, WaitPlaces
  <2>3. Team' = Team /\ scratch' = scratch /\ \A u \in Team : pc'[u] = "mulbar" => pc[u] = "mulbar"
    BY <1>5, <1>z
       DEF Wait, FindWork, GiveUpPolling, Sleep, SpuriousWake, Goto, barrierVars, workVars, Team
  <2>. QED  BY <2>2, <2>3, SlicesStay
<1>6. ASSUME NEW t \in Threads, Compute(t)
      PROVE  SlicesInv'
  <2>1. t \in Team /\ Running /\ SlicesInv
    BY <1>6, ComputePlaces
  <2>2. CASE ConvertSlice(t)
    BY <2>1, <2>2, SlicesConvert
  <2>3. CASE LeaveBarrier(t) /\ (Skip(t) \/ OpenBarrier(t))
    BY <2>1, <2>3, SlicesOpen
  <2>4. CASE LeaveBarrier(t) /\ SeeItOpen(t)
    <3>1. KeepsPlace
      BY <2>1, <2>4, SeeItOpenWithin
    <3>2. Team' = Team /\ scratch' = scratch /\ \A u \in Team : pc'[u] = "mulbar" => pc[u] = "mulbar"
      BY <2>4, <1>z DEF LeaveBarrier, SeeItOpen, Goto, workVars, Team
    <3>. QED  BY <2>1, <3>1, <3>2, SlicesStay
  <2>5. CASE \/ NextNode(t) \/ GoOn(t) \/ WriteRows(t) \/ WriteSolo(t)
             \/ WriteChunk(t) \/ NoChunkLeft(t) \/ InBarrier(t)
    <3>1. KeepsPlace /\ UNCHANGED Control
      BY <2>5, ComputeWithin
    <3>2. Team' = Team /\ scratch' = scratch
      BY <2>5, <3>1
         DEF Control, Team, NextNode, GoOn, WriteRows, WriteSolo, WriteChunk, NoChunkLeft,
             InBarrier, tpVars, workVars
    <3>3. \A u \in Team : pc'[u] = "mulbar" => pc[u] = "mulbar"
      <4>1. CASE NextNode(t)
        <5>1. Enter(This(t)) # "mulbar"
          BY DEF Enter
        <5>. QED  BY <4>1, <5>1, <1>z DEF NextNode, Goto
      <4>2. CASE ~NextNode(t)
        BY <2>5, <4>2, <1>z
           DEF GoOn, Onward, WriteRows, WriteSolo, WriteChunk, NoChunkLeft, Goto, InBarrier, tpVars
      <4>. QED  BY <4>1, <4>2
    <3>. QED  BY <2>1, <3>1, <3>2, <3>3, SlicesStay
  <2>. QED  BY <1>6, <2>2, <2>3, <2>4, <2>5 DEF Compute, LeaveBarrier, Return
<1>7. CASE UNCHANGED vars
  BY <1>7
     DEF vars, tpVars, barrierVars, poolVars, workVars, SlicesInv, Running, Team, HalfAt, NodeAt,
         Over, Late, EndNode, LastHalf
<1>. QED  BY <1>1, <1>2, <1>3, <1>4, <1>5, <1>6, <1>7 DEF Next, Caller

\* A thread that takes chunks of a multiplication reads no slice of the converted
\* operand that is of another node or not converted yet (ggml-cpu.c:1270-1306): one
\* half of OperandsIntact, that of what the threads share.
THEOREM SlicesAreOfThisNode ==
  Spec => [](\A t \in Team : pc[t] = "chunk" => \A u \in Team : scratch[u] = node[t])
<1>1. Init => (Running => SlicesInv)
  BY TeamHasZero, ControlInit DEF Init, Running, ControlInv, BarrierInv
<1>2. ControlInv /\ (Running => SlicesInv) =>
        \A t \in Team : pc[t] = "chunk" => \A u \in Team : scratch[u] = node[t]
  <2>. SUFFICES ASSUME ControlInv, Running => SlicesInv, NEW t \in Team, pc[t] = "chunk", NEW u \in Team
                PROVE  scratch[u] = node[t]
    OBVIOUS
  <2>1. t \in Threads
    BY TeamHasZero DEF ControlInv, BarrierInv
  <2>2. Running
    BY <2>1, WhoSteps DEF Walking
  <2>3. Knows(t) /\ node[t] \in 1..Len(graph) /\ Len(graph) \in Nat /\ ~Late(t)
    BY <2>2, Context DEF Knows, Late, Barriers
  <2>4. HalfAt(t) = 2 /\ NodeAt(t) = node[t]
    BY <2>3 DEF HalfAt, NodeAt, Over
  <2>5. HalfAt(u) = 2 /\ NodeAt(u) = NodeAt(t)
    BY <2>2, <2>4, Context
  <2>. QED  BY <2>2, <2>4, <2>5 DEF SlicesInv
<1>. QED  BY <1>1, <1>2, ControlInit, ControlStep, SlicesStep, PTL DEF Spec

-------------------------------------------------------------------------------
(***************************************************************************)
(* The schedulers.                                                         *)
(***************************************************************************)
\* The placement of tensors and their memory hide nothing from the pool: every
\* behaviour of a scheduler is one of the pool alone (ggml-cpu.cpp:160-176).
THEOREM ComputeIsPool == ComputeSpec => Spec
<1>1. sched \in Schedulers /\ [ComputeNext]_computeVars => (sched \in Schedulers)' /\ [Next]_vars
  <2>1. \A sc \in Schedulers :
          sc.threads \subseteq 1..MaxThreads /\ \A gr \in sc.graphs : gr.nodes \in Graphs
    BY SchedulersAssumption
  <2>. QED  BY <2>1 DEF ComputeNext, computeVars, Start, Other, Next
<1>2. ComputeInit => Init /\ sched \in Schedulers
  BY DEF ComputeInit
<1>. QED  BY <1>1, <1>2, PTL DEF ComputeSpec, Spec

\* So no thread of a scheduler's pool passes a barrier before the others reach it
\* (ggml_barrier, ggml-cpu.c:529-565).
THEOREM ComputeBarrierIsSafe == ComputeSpec => []BarrierSafe
BY ComputeIsPool, BarrierIsSafe, PTL

\* So a scheduler's graphs are computed node by node, each part exactly once, and
\* success means all of it (ggml-cpu.c:2864-2878): the property GraphComputed.
THEOREM GraphsAreComputed == ComputeSpec => GraphComputed
BY ComputeIsPool, PoolComputesGraphs, PTL DEF GraphComputed

\* And its pool's state has its types (GgmlThreadpool's TypeOK).
THEOREM ComputeTypeCorrect == ComputeSpec => []TypeOK
BY ComputeIsPool, PoolTypeCorrect, PTL

-------------------------------------------------------------------------------
(***************************************************************************)
(* The buffer.  A sound plan lets a tensor take the place of another only  *)
(* when the other is needed no more, or row by row under the node that     *)
(* reads it last; so what a thread reads is there.                         *)
(***************************************************************************)
\* The scheduler's plan is one of its graphs', and a sound one for the graph computed.
PlanInv ==
  /\ sched \in Schedulers
  /\ \E m \in AllGraphs(sched) : plan = Reserve(m)
  /\ Running => g \in sched.graphs /\ graph = g.nodes /\ SoundPlan(plan, g)

\* The part w computed has put its tensor in row a of the buffer.
Puts(w, a) == ~External(Tensor(w[1])) /\ a \in RowsAt(Tensor(w[1]), Rows(graph[w[1]], w[2]))

\* Row r of tensor s has its value: it is an input, or its part is computed.
Available(s, r) ==
  /\ Owns(g, s) /\ r \in AllRows(s)
  /\ IsNode(g, s) => \E w \in written : Tensor(w[1]) = s /\ r \in Rows(graph[w[1]], w[2])

\* What was available is in the buffer, but where something computed later was put.
MemInv ==
  /\ DOMAIN mem = 0..(plan.size - 1)
  /\ \A w \in written : /\ w = <<w[1], w[2], w[3]>> /\ w[1] \in 1..Len(graph)
                        /\ w[2] \in 0..(Parts(graph[w[1]]) - 1) /\ w[3] \in Threads
  /\ \A s \in Tensors(g) : \A r \in AllRows(s) : Available(s, r) =>
       \/ mem[plan.offset[s] + r] = s
       \/ \E w \in written : Puts(w, plan.offset[s] + r) /\ Tensor(w[1]) > s

-------------------------------------------------------------------------------
\* Every row of a node belongs to one of its parts.
LEMMA RowsAll ==
  ASSUME NEW n \in Nat, NEW k \in Nat \ {0}, NEW r \in 0..(n - 1)
  PROVE  r \div CeilDiv(n, k) \in 0..(k - 1)
<1>1. PICK m \in Nat : m = n + k - 1 /\ m >= k
  OBVIOUS
<1>2. PICK d \in Nat : d = m \div k
  OBVIOUS
<1>3. CeilDiv(n, k) = d
  BY <1>1, <1>2 DEF CeilDiv
<1>4. m < k * d + k
  BY <1>2
<1>5. d * k \in Nat /\ k * d = d * k
  BY Times
<1>6. n <= d * k
  <2>1. PICK x \in Nat : x = d * k
    BY <1>5
  <2>2. m < x + k
    BY <1>4, <1>5, <2>1
  <2>. QED  BY <1>1, <2>1, <2>2
<1>7. d # 0
  BY <1>6
<1>8. PICK q \in Nat : q = r \div d /\ d * q <= r
  BY <1>7
<1>9. q < k
  <2>. SUFFICES ASSUME k <= q PROVE FALSE
    OBVIOUS
  <2>1. k * d <= q * d
    BY TimesLess
  <2>2. q * d = d * q /\ q * d \in Nat
    BY Times
  <2>3. PICK x, y \in Nat : x = d * k /\ y = q * d
    BY <1>5, <2>2
  <2>4. x <= y /\ y <= r /\ n <= x
    BY <1>5, <1>6, <1>8, <2>1, <2>2, <2>3
  <2>. QED  BY <2>4
<1>. QED  BY <1>3, <1>8, <1>9

\* Outside the nodes' work nothing is computed, and the graph stays till the end.
LEMMA OtherKeeps ==
  ASSUME PoolInv, Other
  PROVE  /\ UNCHANGED <<sched, plan, g, mem, nThreadsCur, written>>
         /\ Running' => Running /\ graph' = graph
<1>z. 0 \in Threads /\ pc \in [Threads -> PCs]
  BY TeamHasZero DEF PoolInv, ControlInv, BarrierInv, PoolTyped
<1>1. UNCHANGED <<sched, plan, g, mem>>
  BY DEF Other
<1>2. CASE Kickoff \/ Stop \/ Abort
  BY <1>1, <1>2, <1>z DEF Kickoff, Stop, Abort, Running, barrierVars, workVars
<1>3. CASE Join
  BY <1>1, <1>3, <1>z DEF Join, Goto, Running, barrierVars, workVars
<1>4. ASSUME NEW t \in Workers, Wait(t) \/ SpuriousWake(t)
      PROVE  /\ UNCHANGED <<nThreadsCur, written, graph>>
             /\ Running' => Running
  BY <1>4, <1>z
     DEF Wait, FindWork, GiveUpPolling, Sleep, SpuriousWake, Goto, barrierVars, workVars,
         Workers, Running
<1>. QED  BY <1>1, <1>2, <1>3, <1>4 DEF Other, Caller

\* A part is computed of a graph that stays, by as many threads as before.
LEMMA ComputeKeeps ==
  ASSUME PoolInv, NEW t \in Threads, Compute(t)
  PROVE  Running /\ UNCHANGED <<graph, nThreadsCur>>
<1>1. Running
  BY ComputePlaces DEF PoolInv
<1>2. UNCHANGED <<graph, nThreadsCur>>
  BY DEF Compute, NextNode, GoOn, WriteRows, WriteSolo, ConvertSlice, WriteChunk, NoChunkLeft,
         InBarrier, LeaveBarrier, tpVars, barrierVars, Inside, Return, LoadPassed, Arrive,
         ResetCount, Skip, OpenBarrier, SeeItOpen
<1>. QED  BY <1>1, <1>2

\* A scheduler places every graph well, by its own measurements or by old ones.
LEMMA PlanStep == PoolInv /\ PlanInv /\ [ComputeNext]_computeVars => PlanInv'
<1>. SUFFICES ASSUME PoolInv, PlanInv, [ComputeNext]_computeVars PROVE PlanInv'
  OBVIOUS
<1>1. ASSUME NEW graphOf \in sched.graphs, NEW n \in sched.threads, Start(graphOf, n)
      PROVE  PlanInv'
  <2>1. PICK m \in AllGraphs(sched) : plan = Reserve(m)
    BY DEF PlanInv
  <2>2. graphOf \in AllGraphs(sched)
    BY DEF AllGraphs
  <2>3. /\ WellFormed(m) /\ WellFormed(graphOf)
        /\ NeedsRealloc(Measured(m), graphOf) \/ SameShape(m, graphOf)
    BY <2>2, ShapesAssumption DEF PlanInv
  <2>4. SoundPlan(AllocPlan(plan, graphOf), graphOf)
        /\ AllocPlan(plan, graphOf) \in {Reserve(m), Reserve(graphOf)}
    BY <2>1, <2>3, PlanSound
  <2>5. /\ sched' = sched /\ g' = graphOf /\ graph' = graphOf.nodes
        /\ plan' = AllocPlan(plan, graphOf)
    BY <1>1 DEF Start, Begin
  <2>. QED  BY <2>2, <2>4, <2>5 DEF PlanInv
<1>2. ASSUME UNCHANGED <<sched, plan, g>>, Running' => Running /\ graph' = graph
      PROVE  PlanInv'
  BY <1>2 DEF PlanInv
<1>3. CASE Other
  BY <1>2, <1>3, OtherKeeps
<1>4. ASSUME NEW t \in Threads, Compute(t), UNCHANGED <<sched, plan, g>>
      PROVE  PlanInv'
  BY <1>2, <1>4, ComputeKeeps
<1>5. CASE UNCHANGED computeVars
  <2>1. UNCHANGED <<sched, plan, g, pc, graph>>
    BY <1>5 DEF computeVars, vars, tpVars
  <2>. QED  BY <1>2, <2>1 DEF Running
<1>. QED  BY <1>1, <1>3, <1>4, <1>5 DEF ComputeNext

\* Two tensors placed apart share no row of the buffer.
LEMMA ApartRows ==
  ASSUME NEW gr, WellFormed(gr), NEW off \in [Tensors(gr) -> Nat],
         NEW x \in Tensors(gr), NEW u \in Tensors(gr), Apart(gr, off, x, u),
         NEW r \in 0..(SizeOf(gr, x) - 1), NEW v \in 0..(SizeOf(gr, u) - 1)
  PROVE  off[x] + r # off[u] + v
<1>1. PICK a, b \in Nat : a = off[x] /\ b = off[u]
  OBVIOUS
<1>2. PICK y, z \in Nat : y = SizeOf(gr, x) /\ z = SizeOf(gr, u)
  BY TensorFacts
<1>3. a + y <= b \/ b + z <= a
  BY <1>1, <1>2 DEF Apart
<1>4. r \in 0..(y - 1) /\ v \in 0..(z - 1)
  BY <1>2
<1>5. a + r # b + v
  BY <1>3, <1>4
<1>. QED  BY <1>1, <1>5

\* No two inputs share a row.
LEMMA LeafsApart ==
  ASSUME NEW gr, WellFormed(gr), NEW pl, SoundPlan(pl, gr),
         NEW s \in 1..gr.leafs \ gr.ext, NEW t \in 1..gr.leafs \ gr.ext, s # t
  PROVE  /\ s \in Tensors(gr) /\ t \in Tensors(gr) /\ Owns(gr, s) /\ Owns(gr, t)
         /\ Apart(gr, pl.offset, s, t)
<1>1. PICK n \in Nat : n = Total(gr) /\ Tensors(gr) = 1..n
  BY GraphFacts
<1>2. gr.leafs \in Nat /\ gr.leafs <= n
  BY <1>1, GraphFacts
<1>3. \A x \in 1..gr.leafs \ gr.ext :
        x \in Tensors(gr) /\ ~IsNode(gr, x) /\ Owns(gr, x) /\ x \in Owners(gr, n)
  BY <1>1, <1>2 DEF IsNode, Owns, ViewOf, Owners
<1>4. \A x, u \in 1..gr.leafs \ gr.ext : x < u => Apart(gr, pl.offset, x, u)
  BY <1>1, <1>3 DEF SoundPlan, PlacedWell, Takes
<1>5. s < t \/ t < s
  BY <1>2
<1>6. Apart(gr, pl.offset, s, t)
  BY <1>4, <1>5 DEF Apart
<1>. QED  BY <1>3, <1>6

\* When a graph begins, its inputs are in the buffer and nothing is computed.
LEMMA StartMem ==
  ASSUME PlanInv', NEW graphOf, Running', WellFormed(graphOf), NEW n, Start(graphOf, n)
  PROVE  MemInv'
<1>1. g' = graphOf /\ written' = {}
  BY DEF Start, Begin
<1>2. PICK pl : pl = plan'
  OBVIOUS
<1>3. SoundPlan(pl, graphOf)
  BY <1>1, <1>2 DEF PlanInv
<1> DEFINE At(u) == {t \in 1..graphOf.leafs \ graphOf.ext :
                       u - pl.offset[t] \in 0..(SizeOf(graphOf, t) - 1)}
<1>4. mem' = [u \in 0..(pl.size - 1) |-> IF At(u) = {} THEN 0 ELSE CHOOSE t \in At(u) : TRUE]
  BY <1>2 DEF Start
<1>5. ASSUME NEW s \in Tensors(graphOf), NEW r \in 0..(SizeOf(graphOf, s) - 1),
             Owns(graphOf, s), ~IsNode(graphOf, s)
      PROVE  mem'[pl.offset[s] + r] = s
  <2>1. s \in 1..graphOf.leafs \ graphOf.ext
    <3>1. PICK m \in Nat : m = Total(graphOf) /\ Tensors(graphOf) = 1..m
      BY GraphFacts
    <3>2. graphOf.leafs \in Nat
      BY GraphFacts
    <3>. QED  BY <1>5, <3>1, <3>2 DEF IsNode, Owns
  <2>2. PICK o, z, e \in Nat : o = pl.offset[s] /\ z = SizeOf(graphOf, s) /\ e = pl.size
    BY <1>3, TensorFacts DEF SoundPlan
  <2>3. o + z <= e /\ r \in 0..(z - 1)
    BY <1>3, <1>5, <2>2 DEF SoundPlan
  <2>4. o + r \in 0..(e - 1) /\ (o + r) - o \in 0..(z - 1)
    BY <2>3
  <2>5. s \in At(o + r)
    BY <2>1, <2>2, <2>4
  <2>6. ASSUME NEW t \in At(o + r) PROVE t = s
    <3>. SUFFICES ASSUME t # s PROVE FALSE
      OBVIOUS
    <3>1. t \in 1..graphOf.leafs \ graphOf.ext
      OBVIOUS
    <3>2. t \in Tensors(graphOf) /\ Apart(graphOf, pl.offset, s, t)
      BY <1>3, <2>1, <3>1, LeafsApart
    <3>3. pl.offset \in [Tensors(graphOf) -> Nat]
      BY <1>3 DEF SoundPlan
    <3>4. PICK v : v = (o + r) - pl.offset[t] /\ v \in 0..(SizeOf(graphOf, t) - 1)
      OBVIOUS
    <3>5. PICK b, y \in Nat : b = pl.offset[t] /\ y = SizeOf(graphOf, t)
      BY <3>2, <3>3, TensorFacts
    <3>6. b + v = o + r
      BY <3>4, <3>5
    <3>. QED  BY <2>2, <3>2, <3>3, <3>4, <3>5, <3>6, ApartRows
  <2> HIDE DEF At
  <2>7. (CHOOSE t \in At(o + r) : TRUE) = s
    BY <2>5, <2>6
  <2>. QED  BY <1>4, <2>2, <2>4, <2>5, <2>7
<1>6. DOMAIN mem' = 0..(pl.size - 1)
  BY <1>4
<1>. QED  BY <1>1, <1>2, <1>5, <1>6 DEF MemInv, Available, AllRows

\* What belongs to a node, and to an operand, does not change while the graph is computed.
LEMMA PutsStays ==
  ASSUME UNCHANGED <<plan, g, graph, nThreadsCur>>
  PROVE  /\ \A w, a : Puts(w, a)' <=> Puts(w, a)
         /\ \A k, p : Rows(graph[k], p)' = Rows(graph[k], p)
         /\ \A k : Tensor(k)' = Tensor(k) /\ Parts(graph[k])' = Parts(graph[k])
         /\ \A s : AllRows(s)' = AllRows(s) /\ External(s)' = External(s)
<1>1. \A k : Parts(graph[k])' = Parts(graph[k])
  BY PartsStay
<1>2. \A k, p : Rows(graph[k], p)' = Rows(graph[k], p)
  BY <1>1 DEF Rows
<1>3. \A k : Tensor(k)' = Tensor(k)
  BY DEF Tensor
<1>4. \A s : AllRows(s)' = AllRows(s) /\ External(s)' = External(s)
  BY DEF AllRows, External, Base
<1>5. \A s, rs : RowsAt(s, rs)' = RowsAt(s, rs)
  BY DEF RowsAt
<1>. QED  BY <1>1, <1>2, <1>3, <1>4, <1>5 DEF Puts

\* What computes nothing and writes nothing leaves the buffer as it is.
LEMMA QuietMem ==
  ASSUME MemInv, UNCHANGED <<plan, g, graph, nThreadsCur, written, mem>>
  PROVE  MemInv'
<1>1. Threads' = Threads
  BY DEF Threads
<1>2. \A s, r : Available(s, r)' <=> Available(s, r)
  BY PutsStays DEF Available
<1>. QED  BY <1>1, <1>2, PutsStays DEF MemInv

\* The parts computed so far, and one more.
LEMMA NewPart ==
  ASSUME PoolInv, NEW t \in Threads, Compute(t)
  PROVE  \/ written' = written
         \/ \E k \in 1..Len(graph) : \E p \in 0..(Parts(graph[k]) - 1) :
              /\ <<k, p, t>> \notin written
              /\ written' = written \cup {<<k, p, t>>}
              /\ \A m \in 1..Len(graph) : m > k => NothingOf(m)
<1>1. Running /\ WrittenInv /\ ControlInv
  BY ComputePlaces DEF PoolInv
<1>2. PICK j \in Nat, h \in 1..3 :
        /\ j = NodeAt(0) /\ h = HalfAt(0) /\ WrittenAt(j, h)
        /\ h # 3 => j \in 1..Len(graph)
  BY <1>1, FromPlace
<1>3. CASE WriteRows(t) \/ WriteSolo(t) \/ WriteChunk(t)
  <2>1. ASSUME NEW k \in 1..Len(graph), NEW p \in 0..(Parts(graph[k]) - 1), ~Wrote(k, p),
               written' = written \cup {<<k, p, t>>}
        PROVE  <<k, p, t>> \notin written /\ \A m \in 1..Len(graph) : m > k => NothingOf(m)
    <3>1. <<k, p, t>> \notin written
      BY <2>1 DEF Wrote
    <3>2. ~(k < j)
      BY <1>2, <2>1 DEF WrittenAt, NodeComplete
    <3>3. \A m \in 1..Len(graph) : m > k => m > j
      <4>1. Len(graph) \in Nat
        BY <1>1, Context, TeamHasZero DEF ControlInv, BarrierInv
      <4>. QED  BY <3>2, <4>1
    <3>. QED  BY <1>2, <3>1, <3>3 DEF WrittenAt
  <2>. QED  BY <1>3, <2>1, PartIsNew
<1>4. CASE \/ NextNode(t) \/ GoOn(t) \/ ConvertSlice(t) \/ NoChunkLeft(t)
           \/ InBarrier(t) \/ LeaveBarrier(t)
  BY <1>4 DEF NextNode, GoOn, ConvertSlice, NoChunkLeft, InBarrier, LeaveBarrier, tpVars, workVars
<1>. QED  BY <1>3, <1>4 DEF Compute

\* What a part of a node puts in the buffer.
LEMMA StoreOne ==
  ASSUME NEW w, w \notin written, written' = written \cup {w}, Store,
         UNCHANGED <<plan, g, graph, nThreadsCur>>, NEW a \in DOMAIN mem
  PROVE  mem'[a] = IF Puts(w, a) THEN Tensor(w[1]) ELSE mem[a]
<1> DEFINE New == {v \in written' \ written :
                          /\ ~External(Tensor(v[1]))
                          /\ a \in RowsAt(Tensor(v[1]), Rows(graph[v[1]], v[2]))}
<1>1. New = IF Puts(w, a) THEN {w} ELSE {}
  <2>1. written' \ written = {w}
    OBVIOUS
  <2>. QED  BY <2>1 DEF Puts
<1>2. mem'[a] = IF New = {} THEN mem[a] ELSE Tensor((CHOOSE v \in New : TRUE)[1])
  BY DEF Store
<1> HIDE DEF New
<1>. QED  BY <1>1, <1>2

\* A step that completes no part leaves every row of the buffer as it is.
LEMMA StoreNone ==
  ASSUME written' = written, Store, NEW a \in DOMAIN mem
  PROVE  mem'[a] = mem[a]
BY DEF Store

\* A part that is computed is put where it belongs: what it overwrites comes before it.
LEMMA StoreMem ==
  ASSUME PoolInv, PlanInv, MemInv, Running, NEW t \in Threads, Compute(t), Store,
         UNCHANGED <<sched, plan, g>>
  PROVE  MemInv'
<1>1. UNCHANGED <<plan, g, graph, nThreadsCur>> /\ Threads' = Threads
  BY ComputeKeeps DEF Threads
<1>2. DOMAIN mem' = DOMAIN mem
  BY DEF Store
<1>3. PICK pl : pl = plan
  OBVIOUS
<1>4. SoundPlan(pl, g) /\ WellFormed(g) /\ graph = g.nodes
  BY <1>3, ShapesAssumption DEF PlanInv, AllGraphs
<1>5. ASSUME NEW s \in Tensors(g), NEW r \in AllRows(s), Owns(g, s)
      PROVE  pl.offset[s] + r \in DOMAIN mem
  <2>1. PICK o, z, e \in Nat : o = pl.offset[s] /\ z = SizeOf(g, s) /\ e = pl.size
    BY <1>4, TensorFacts DEF SoundPlan
  <2>2. o + z <= e /\ r \in 0..(z - 1)
    BY <1>4, <1>5, <2>1 DEF SoundPlan, AllRows
  <2>3. o + r \in 0..(e - 1)
    BY <2>2
  <2>. QED  BY <1>3, <2>1, <2>3 DEF MemInv
<1>6. CASE written' = written
  <2>1. \A s, r : Available(s, r)' <=> Available(s, r)
    BY <1>1, <1>6, PutsStays DEF Available
  <2>2. \A s \in Tensors(g) : \A r \in AllRows(s) : Available(s, r) =>
          mem'[plan.offset[s] + r] = mem[plan.offset[s] + r]
    BY <1>3, <1>5, <1>6, StoreNone DEF Available
  <2>. QED  BY <1>1, <1>2, <1>6, <2>1, <2>2, PutsStays DEF MemInv
<1>7. ASSUME NEW k \in 1..Len(graph), NEW p \in 0..(Parts(graph[k]) - 1),
             <<k, p, t>> \notin written, written' = written \cup {<<k, p, t>>},
             \A m \in 1..Len(graph) : m > k => NothingOf(m)
      PROVE  MemInv'
  <2> DEFINE w0 == <<k, p, t>>
  <2>1. \A w \in written' : /\ w = <<w[1], w[2], w[3]>> /\ w[1] \in 1..Len(graph)
                            /\ w[2] \in 0..(Parts(graph[w[1]]) - 1) /\ w[3] \in Threads
    BY <1>7 DEF MemInv
  <2>. SUFFICES ASSUME NEW s \in Tensors(g), NEW r \in AllRows(s), Available(s, r)'
                PROVE  \/ mem'[pl.offset[s] + r] = s
                       \/ \E w \in written' : Puts(w, pl.offset[s] + r) /\ Tensor(w[1]) > s
    BY <1>1, <1>2, <1>3, <2>1, PutsStays DEF MemInv
  <2>2. /\ Owns(g, s)
        /\ IsNode(g, s) => \E w \in written' : Tensor(w[1]) = s /\ r \in Rows(graph[w[1]], w[2])
    BY <1>1, PutsStays DEF Available
  <2>3. PICK a : a = pl.offset[s] + r /\ a \in DOMAIN mem
    BY <1>5, <2>2
  <2>4. mem'[a] = IF Puts(w0, a) THEN Tensor(k) ELSE mem[a]
    BY <1>1, <1>7, <2>3, StoreOne
  <2>5. Len(graph) \in Nat /\ g.leafs \in Nat /\ s \in Nat /\ k \in Nat
    <3>1. k \in Nat
      OBVIOUS
    <3>. QED  BY <1>4, <3>1, GraphFacts, TensorFacts
  <2>6. CASE Available(s, r)
    <3>1. \/ mem[a] = s
          \/ \E w \in written : Puts(w, a) /\ Tensor(w[1]) > s
      BY <1>3, <2>3, <2>6 DEF MemInv
    <3>2. CASE \E w \in written : Puts(w, a) /\ Tensor(w[1]) > s
      BY <1>7, <2>3, <3>2
    <3>3. CASE mem[a] = s /\ ~Puts(w0, a)
      BY <2>3, <2>4, <3>3
    <3>4. CASE Puts(w0, a)
      <4>1. CASE Tensor(k) > s
        BY <1>7, <2>3, <3>4, <4>1
      <4>2. CASE Tensor(k) = s
        BY <2>3, <2>4, <3>4, <4>2
      <4>3. CASE Tensor(k) < s
        <5>1. IsNode(g, s)
          BY <2>5, <4>3 DEF Tensor, IsNode
        <5>2. PICK w \in written : Tensor(w[1]) = s
          BY <2>6, <5>1 DEF Available
        <5>3. /\ w = <<w[1], w[2], w[3]>> /\ w[1] \in 1..Len(graph)
              /\ w[2] \in 0..(Parts(graph[w[1]]) - 1) /\ w[3] \in Threads
          BY DEF MemInv
        <5>4. w[1] > k
          BY <2>5, <4>3, <5>2, <5>3 DEF Tensor
        <5>5. NothingOf(w[1]) /\ w[2] \in Nat
          BY <1>7, <5>3, <5>4
        <5>. QED  BY <5>3, <5>5 DEF NothingOf, Wrote
      <4>4. Tensor(k) \in Nat
        BY <2>5 DEF Tensor
      <4>. QED  BY <2>5, <4>1, <4>2, <4>3, <4>4
    <3>. QED  BY <3>1, <3>2, <3>3, <3>4
  <2>7. CASE ~Available(s, r)
    <3>1. IsNode(g, s) /\ \E w \in written' : Tensor(w[1]) = s /\ r \in Rows(graph[w[1]], w[2])
      BY <2>2, <2>7 DEF Available
    <3>2. Tensor(k) = s /\ r \in Rows(graph[k], p)
      BY <1>7, <2>2, <2>7, <3>1 DEF Available
    <3>3. Puts(w0, a)
      <4>1. ~External(s)
        BY <2>2 DEF External, Base, Owns
      <4>. QED  BY <1>3, <2>3, <3>2, <4>1 DEF Puts, RowsAt
    <3>. QED  BY <2>3, <2>4, <3>2, <3>3
  <2>. QED  BY <2>6, <2>7
<1>. QED  BY <1>6, <1>7, NewPart

\* Every step of a scheduler keeps the plan sound and the buffer as the parts left it.
LEMMA ScheduledStep ==
  PoolInv /\ PlanInv /\ (Running => MemInv) /\ [ComputeNext]_computeVars
    => (PlanInv /\ (Running => MemInv))'
<1>. SUFFICES ASSUME PoolInv, PlanInv, Running => MemInv, [ComputeNext]_computeVars
              PROVE  PlanInv' /\ (Running' => MemInv')
  OBVIOUS
<1>1. PlanInv'
  BY PlanStep
<1>2. ASSUME NEW graphOf \in sched.graphs, NEW n \in sched.threads, Start(graphOf, n), Running'
      PROVE  MemInv'
  <2>1. WellFormed(graphOf)
    BY ShapesAssumption DEF PlanInv, AllGraphs
  <2>. QED  BY <1>1, <1>2, <2>1, StartMem
<1>3. CASE Other
  BY <1>1, <1>3, OtherKeeps, QuietMem
<1>4. ASSUME NEW t \in Threads, Compute(t), Store, UNCHANGED <<sched, plan, g>>
      PROVE  MemInv'
  BY <1>4, ComputeKeeps, StoreMem
<1>5. CASE UNCHANGED computeVars
  <2>1. UNCHANGED <<plan, g, graph, nThreadsCur, written, mem, pc>>
    BY <1>5 DEF computeVars, vars, tpVars, barrierVars, workVars
  <2>. QED  BY <1>1, <2>1, QuietMem DEF Running
<1>. QED  BY <1>1, <1>2, <1>3, <1>4, <1>5 DEF ComputeNext

\* The graph computed, and its tensors.
LEMMA GraphInPlace ==
  ASSUME PoolInv, PlanInv, Running
  PROVE  /\ WellFormed(g) /\ SoundPlan(plan, g) /\ graph = g.nodes
         /\ Len(graph) \in Nat \ {0} /\ g.leafs \in Nat
         /\ \A k \in 1..Len(graph) :
              /\ Tensor(k) \in Tensors(g) /\ Tensor(k) \in Nat /\ IsNode(g, Tensor(k))
              /\ NodeOf(g, Tensor(k)) = graph[k] /\ SizeOf(g, Tensor(k)) = graph[k].size
              /\ SrcOf(g, Tensor(k)) = graph[k].src /\ ViewOf(g, Tensor(k)) = graph[k].view
              /\ graph[k].op = "view" => ViewOf(g, Tensor(k)) # 0
         /\ \A s \in Tensors(g) : IsNode(g, s) => \E k \in 1..Len(graph) : s = Tensor(k)
<1>1. WellFormed(g) /\ SoundPlan(plan, g) /\ graph = g.nodes
  BY ShapesAssumption DEF PlanInv, AllGraphs
<1>2. Len(graph) \in Nat \ {0} /\ g.leafs \in Nat
  BY <1>1, Context, TeamHasZero, GraphFacts DEF PoolInv, ControlInv, BarrierInv
<1>3. ASSUME NEW k \in 1..Len(graph)
      PROVE  /\ Tensor(k) \in Tensors(g) /\ Tensor(k) \in Nat /\ IsNode(g, Tensor(k))
             /\ Tensor(k) - g.leafs = k
  BY <1>1, <1>2 DEF Tensor, Tensors, IsNode
<1>4. ASSUME NEW k \in 1..Len(graph)
      PROVE  /\ NodeOf(g, Tensor(k)) = graph[k] /\ SizeOf(g, Tensor(k)) = graph[k].size
             /\ SrcOf(g, Tensor(k)) = graph[k].src /\ ViewOf(g, Tensor(k)) = graph[k].view
  BY <1>1, <1>3 DEF NodeOf, SizeOf, SrcOf, ViewOf
<1>5. \A k \in 1..Len(graph) : graph[k].op = "view" => ViewOf(g, Tensor(k)) # 0
  BY <1>1, <1>3, <1>4 DEF WellFormed
<1>6. ASSUME NEW s \in Tensors(g), IsNode(g, s) PROVE \E k \in 1..Len(graph) : s = Tensor(k)
  <2>1. s - g.leafs \in 1..Len(graph) /\ s = g.leafs + (s - g.leafs)
    BY <1>1, <1>2, <1>6 DEF Tensors, IsNode
  <2>. QED  BY <2>1 DEF Tensor
<1>. QED  BY <1>1, <1>2, <1>3, <1>4, <1>5, <1>6

\* A node that is computed has all its rows.
LEMMA CompleteAvailable ==
  ASSUME PoolInv, PlanInv, Running, NEW k \in 1..Len(graph), NodeComplete(k),
         Owns(g, Tensor(k)), NEW r \in AllRows(Tensor(k))
  PROVE  Available(Tensor(k), r)
<1>1. /\ Tensor(k) \in Tensors(g) /\ WellFormed(g)
      /\ SizeOf(g, Tensor(k)) = graph[k].size
      /\ graph[k].op # "view"
  BY GraphInPlace DEF Owns
<1>2. PICK n \in Nat \ {0} : n = graph[k].size
  BY <1>1, TensorFacts
<1>3. nThreadsCur \in Nat \ {0} /\ graph[k].op \in {"rows", "solo", "mulmat", "view"}
  BY Context, TeamHasZero DEF PoolInv, ControlInv, BarrierInv
<1>4. PICK c \in Nat \ {0} : c = Parts(graph[k])
  <2>1. Chunks(n) \in Nat \ {0}
    BY <1>3 DEF Chunks
  <2>. QED  BY <1>1, <1>2, <1>3, <2>1 DEF Parts
<1>5. r \in 0..(n - 1)
  BY <1>1, <1>2 DEF AllRows
<1>6. PICK p : p = r \div CeilDiv(n, c) /\ p \in 0..(c - 1)
  BY <1>5, RowsAll
<1>7. r \in Rows(graph[k], p)
  BY <1>2, <1>4, <1>5, <1>6 DEF Rows
<1>8. PICK t \in Threads : <<k, p, t>> \in written
  BY <1>4, <1>6 DEF NodeComplete, Wrote
<1>. QED  BY <1>7, <1>8 DEF Available

\* What a needed operand loses, it loses to a node that takes its place, row by row.
LEMMA Covered ==
  ASSUME PoolInv, PlanInv, Running, MemInv,
         NEW s \in Tensors(g), NEW r \in AllRows(s), Available(s, r),
         mem[plan.offset[s] + r] # s,
         \A w \in written : Tensor(w[1]) > s => Needed(g, s, From(g, Tensor(w[1])))
  PROVE  \E k \in 1..Len(graph) : \E p \in 0..(Parts(graph[k]) - 1) :
           /\ Wrote(k, p) /\ Takes(g, plan.offset, Tensor(k), s) /\ r \in Rows(graph[k], p)
<1>1. PICK w \in written : Puts(w, plan.offset[s] + r) /\ Tensor(w[1]) > s
  BY DEF MemInv
<1>2. PICK k, p : k = w[1] /\ p = w[2]
  OBVIOUS
<1>3. /\ k \in 1..Len(graph) /\ p \in 0..(Parts(graph[k]) - 1) /\ Wrote(k, p)
  BY <1>2 DEF MemInv, Wrote
<1>4. PICK x \in Tensors(g) : x = Tensor(k)
  BY <1>3, GraphInPlace
<1>5. x > s /\ ~External(x) /\ plan.offset[s] + r \in RowsAt(x, Rows(graph[k], p))
  BY <1>1, <1>2, <1>4 DEF Puts
<1>6. /\ WellFormed(g) /\ SoundPlan(plan, g) /\ IsNode(g, x)
      /\ NodeOf(g, x) = graph[k] /\ SizeOf(g, x) = graph[k].size
  BY <1>3, <1>4, GraphInPlace
<1>7. Owns(g, x)
  <2>1. graph[k].op # "view"
    BY <1>3, PartsOf, GraphInPlace DEF PoolInv
  <2>2. ViewOf(g, x) # 0 => ViewOf(g, x) \in g.ext
    BY <1>6, <2>1 DEF WellFormed
  <2>. QED  BY <1>5, <2>2 DEF External, Base, Owns
<1>8. PICK n \in Nat : n = Total(g) /\ Tensors(g) = 1..n
  BY <1>6, GraphFacts
<1>9. x \in Owners(g, n) /\ s \in Owners(g, n) /\ s < x
  BY <1>5, <1>7, <1>8 DEF Owners, Available
<1>10. Apart(g, plan.offset, s, x) \/ Takes(g, plan.offset, x, s)
  BY <1>1, <1>2, <1>4, <1>5, <1>6, <1>8, <1>9 DEF SoundPlan, PlacedWell
<1>11. PICK v \in Rows(graph[k], p) : plan.offset[s] + r = plan.offset[x] + v
  BY <1>5 DEF RowsAt
<1>12. v \in 0..(SizeOf(g, x) - 1) /\ r \in 0..(SizeOf(g, s) - 1)
  BY <1>6 DEF Rows, AllRows
<1>13. plan.offset \in [Tensors(g) -> Nat]
  BY <1>6 DEF SoundPlan
<1>14. Takes(g, plan.offset, x, s)
  BY <1>6, <1>10, <1>11, <1>12, <1>13, ApartRows
<1>15. r = v
  <2>1. PICK o \in Nat : o = plan.offset[s] /\ o = plan.offset[x]
    BY <1>13, <1>14 DEF Takes
  <2>2. PICK y, z \in Nat : y = SizeOf(g, x) /\ z = SizeOf(g, s)
    BY <1>6, TensorFacts
  <2>3. v \in 0..(y - 1) /\ r \in 0..(z - 1) /\ o + r = o + v
    BY <1>11, <1>12, <2>1, <2>2
  <2>. QED  BY <2>3
<1>. QED  BY <1>3, <1>4, <1>11, <1>14, <1>15

\* Where a thread computes a node, the nodes before it are complete and nothing of those
\* behind it is computed.
LEMMA AtWork ==
  ASSUME PoolInv, NEW t \in Team, Computing(t)
  PROVE  /\ Running /\ t \in Threads /\ node[t] \in 1..Len(graph)
         /\ \A m \in 1..Len(graph) : m < node[t] => NodeComplete(m)
         /\ \A m \in 1..Len(graph) : m > node[t] => NothingOf(m)
         /\ pc[t] = "rows" => This(t).op = "rows" /\ ~Wrote(node[t], t)
<1>1. t \in Threads /\ pc[t] \in {"rows", "convert", "solo", "chunk"}
  BY TeamHasZero DEF PoolInv, ControlInv, BarrierInv, Computing
<1>2. Running /\ ControlInv /\ WrittenInv
  BY <1>1, WhoSteps DEF PoolInv, Walking
<1>3. /\ Knows(t) /\ node[t] \in Nat /\ Len(graph) \in Nat
      /\ NodeAt(t) = NodeAt(0) /\ HalfAt(t) = HalfAt(0)
  BY <1>2, Context
<1>4. node[t] \in 1..Len(graph) /\ ~Late(t)
  BY <1>1, <1>3 DEF Knows, Late, Barriers
<1>5. NodeAt(t) = node[t] /\ HalfAt(t) # 3 /\ (pc[t] = "rows" => HalfAt(t) = 1)
  BY <1>1, <1>3, <1>4 DEF NodeAt, HalfAt, Over
<1>6. WrittenAt(node[t], HalfAt(t)) /\ PartsInv(node[t], HalfAt(t))
  BY <1>2, <1>3, <1>5 DEF WrittenInv, WrittenAt
<1>7. ASSUME pc[t] = "rows" PROVE This(t).op = "rows" /\ ~Wrote(node[t], t)
  <2>1. This(t).op = "rows"
    BY <1>3, <1>7 DEF Knows
  <2>2. ~Finished(t)
    BY <1>3, <1>4, <1>7 DEF Finished
  <2>3. t \in Nat
    BY <1>1, MaxThreadsAssumption DEF Threads
  <2>. QED  BY <1>6, <2>1, <2>2, <2>3 DEF PartsInv, This
<1>. QED  BY <1>1, <1>2, <1>4, <1>6, <1>7 DEF WrittenAt

\* While thread t computes a part of its node, operand i has the rows it reads.
LEMMA OperandThere ==
  ASSUME PoolInv, PlanInv, MemInv, NEW t \in Team, Computing(t),
         NEW i \in 1..Len(This(t).src)
  PROVE  Holds(This(t).src[i], RowsRead(t, This(t).src[i]))
<1>1. /\ Running /\ t \in Threads /\ node[t] \in 1..Len(graph)
      /\ \A m \in 1..Len(graph) : m < node[t] => NodeComplete(m)
      /\ \A m \in 1..Len(graph) : m > node[t] => NothingOf(m)
      /\ pc[t] = "rows" => This(t).op = "rows" /\ ~Wrote(node[t], t)
  BY AtWork
<1>2. PICK k \in 1..Len(graph) : k = node[t]
  BY <1>1
<1>3. PICK u \in Tensors(g) : u = Tensor(k)
  BY <1>1, GraphInPlace
<1>4. /\ WellFormed(g) /\ SoundPlan(plan, g) /\ IsNode(g, u) /\ This(t) = graph[k]
      /\ NodeOf(g, u) = graph[k] /\ SizeOf(g, u) = graph[k].size /\ SrcOf(g, u) = graph[k].src
      /\ g.leafs \in Nat /\ Len(graph) \in Nat /\ u \in Nat /\ k \in Nat
  BY <1>1, <1>2, <1>3, GraphInPlace DEF This
<1>5. i \in DOMAIN SrcOf(g, u)
  <2>1. SrcOf(g, u) \in Seq(1..(u - 1))
    BY <1>4, TensorFacts
  <2>. QED  BY <1>4, <2>1, LenProperties
<1>6. PICK r0 : r0 = <<u, i>> /\ r0 \in Reads(g)
  <2>1. <<u, i>> \in {u} \X DOMAIN SrcOf(g, u)
    BY <1>5
  <2>. QED  BY <2>1 DEF Reads
<1>7. PICK a \in Tensors(g) : a = Read(g, r0) /\ a = This(t).src[i] /\ a < u
  <2>1. Read(g, r0) = This(t).src[i]
    BY <1>4, <1>6 DEF Read
  <2>2. Read(g, r0) \in Tensors(g) /\ Read(g, r0) \in 1..(u - 1)
    BY <1>4, <1>6, ReadFacts
  <2>. QED  BY <1>4, <2>1, <2>2
<1>a. /\ a \in Nat /\ ViewOf(g, a) \in 0..(a - 1)
      /\ ViewOf(g, a) # 0 => /\ ViewOf(g, a) \in Tensors(g) /\ ViewOf(g, ViewOf(g, a)) = 0
                             /\ SizeOf(g, a) <= SizeOf(g, ViewOf(g, a))
  BY <1>4, TensorFacts
<1>8. PICK s \in Tensors(g) : s = Base(a) /\ s = Root(g, a) /\ s <= a
  BY <1>a DEF Base, Root
<1>9. CASE External(a)
  BY <1>7, <1>9 DEF Holds
<1>10. CASE ~External(a)
  <2>1. Owns(g, s)
    BY <1>4, <1>8, <1>10, TensorFacts DEF External, Owns, Base
  <2>2. s \in Nat /\ a \in Nat /\ SizeOf(g, a) \in Nat /\ SizeOf(g, s) \in Nat
        /\ SizeOf(g, a) <= SizeOf(g, s)
    <3>1. s \in Nat /\ a \in Nat /\ SizeOf(g, a) \in Nat /\ SizeOf(g, s) \in Nat
      BY <1>4, TensorFacts
    <3>. QED  BY <1>8, <1>a, <3>1 DEF Base
  <2>3. plan.offset[a] = plan.offset[s]
    BY <1>4, <1>8 DEF Base, SoundPlan
  <2>4. RowsRead(t, a) \subseteq AllRows(s)
    <3>1. RowsRead(t, a) \subseteq 0..(SizeOf(g, a) - 1)
      BY DEF RowsRead, Rows, AllRows
    <3>. QED  BY <2>2, <3>1 DEF AllRows
  <2>. SUFFICES ASSUME NEW r \in RowsRead(t, a), mem[plan.offset[s] + r] # s
                PROVE  FALSE
    BY <1>7, <1>8, <2>3 DEF Holds, RowsAt
  <2>5. Available(s, r)
    <3>1. CASE ~IsNode(g, s)
      BY <2>1, <2>4, <3>1 DEF Available
    <3>2. CASE IsNode(g, s)
      <4>1. PICK m \in 1..Len(graph) : s = Tensor(m)
        BY <1>1, <3>2, GraphInPlace
      <4>2. m < k
        <5>1. PICK l \in Nat : l = g.leafs
          BY <1>4
        <5>2. u = l + k /\ s = l + m
          BY <1>3, <4>1, <5>1 DEF Tensor
        <5>3. s < u
          BY <1>4, <1>7, <1>8, <2>2
        <5>. QED  BY <1>4, <5>2, <5>3
      <4>3. NodeComplete(m)
        BY <1>1, <1>2, <4>2
      <4>. QED  BY <1>1, <2>1, <2>4, <4>1, <4>3, CompleteAvailable
    <3>. QED  BY <3>1, <3>2
  <2>6. ASSUME NEW m \in 1..Len(graph), NEW p \in Nat, Wrote(m, p) PROVE Tensor(m) <= u
    <3>1. ~(m > k)
      BY <1>1, <1>2, <2>6 DEF NothingOf
    <3>. QED  BY <1>3, <1>4, <3>1 DEF Tensor
  <2>7. ASSUME NEW w \in written
        PROVE  /\ r0 \in From(g, Tensor(w[1]))
               /\ Needed(g, s, From(g, Tensor(w[1])))
    <3>1. w[1] \in 1..Len(graph) /\ w[2] \in Nat /\ Wrote(w[1], w[2])
      BY DEF MemInv, Wrote
    <3>2. Tensor(w[1]) <= u
      BY <2>6, <3>1
    <3>3. r0[1] = u
      BY <1>6
    <3>4. r0 \in From(g, Tensor(w[1]))
      BY <1>4, <1>6, <3>2, <3>3 DEF From
    <3>. QED  BY <1>7, <1>8, <3>4 DEF Needed
  <2>c. PICK m \in 1..Len(graph) : \E p \in 0..(Parts(graph[m]) - 1) :
          Wrote(m, p) /\ Takes(g, plan.offset, Tensor(m), s) /\ r \in Rows(graph[m], p)
    BY <1>1, <2>4, <2>5, <2>7, Covered
  <2>8. PICK p : Wrote(m, p) /\ Takes(g, plan.offset, Tensor(m), s) /\ r \in Rows(graph[m], p)
    BY <2>c
  <2>9. r0 \in From(g, Tensor(m))
    BY <2>7, <2>8 DEF Wrote
  <2>10. Tensor(m) = u /\ a = s
    BY <1>6, <1>7, <1>8, <2>8, <2>9 DEF Takes
  <2>11. m = k
    BY <1>3, <1>4, <2>10 DEF Tensor
  <2>12. graph[k].op = "rows" /\ SizeOf(g, a) = This(t).size
    BY <1>3, <1>4, <2>8, <2>10, <2>11 DEF Takes, CanInplace
  <2>13. pc[t] = "rows"
    <3>1. Knows(t)
      BY <1>1, Context DEF PoolInv
    <3>. QED  BY <1>4, <2>12, <3>1 DEF Knows, Computing
  <2>14. r \in Rows(graph[k], t)
    BY <1>4, <2>12, <2>13 DEF RowsRead
  <2>15. p = t
    BY <2>8, <2>11, <2>14 DEF Rows
  <2>. QED  BY <1>1, <1>2, <2>8, <2>11, <2>13, <2>15
<1>. QED  BY <1>9, <1>10

\* An output that is complete has lost no row when the graph is done.
LEMMA OutputThere ==
  ASSUME PoolInv, PlanInv, MemInv, pc[0] = "join", outcome = "success",
         NEW s \in g.out
  PROVE  Holds(s, AllRows(s))
<1>1. Running /\ Len(graph) \in Nat
  BY GraphInPlace DEF Running
<1>2. \A k \in 1..Len(graph) : NodeComplete(k)
  <2>1. \A m \in 1..(EndNode - 1) : NodeComplete(m)
    BY JoinEnds
  <2>2. EndNode = Len(graph) + 1
    BY JoinEnds
  <2>. QED  BY <1>1, <2>1, <2>2
<1>3. WellFormed(g) /\ s \in Tensors(g) /\ ViewOf(g, s) = 0
  <2>1. WellFormed(g)
    BY <1>1, GraphInPlace
  <2>2. s \in Tensors(g)
    BY <2>1 DEF WellFormed
  <2>. QED  BY <2>1, <2>2, TensorFacts
<1>4. CASE External(s)
  BY <1>4 DEF Holds
<1>5. CASE ~External(s)
  <2>1. Base(s) = s /\ Owns(g, s)
    BY <1>3, <1>5 DEF External, Base, Owns
  <2>. SUFFICES ASSUME NEW r \in AllRows(s), mem[plan.offset[s] + r] # s
                PROVE  FALSE
    BY <2>1 DEF Holds, RowsAt
  <2>2. Available(s, r)
    <3>1. CASE ~IsNode(g, s)
      BY <2>1, <3>1 DEF Available
    <3>2. CASE IsNode(g, s)
      <4>1. PICK m \in 1..Len(graph) : s = Tensor(m)
        BY <1>1, <1>3, <3>2, GraphInPlace
      <4>. QED  BY <1>1, <1>2, <2>1, <4>1, CompleteAvailable
    <3>. QED  BY <3>1, <3>2
  <2>3. \A w \in written : Needed(g, s, From(g, Tensor(w[1])))
    BY DEF Needed
  <2>4. \E k \in 1..Len(graph) : \E p \in 0..(Parts(graph[k]) - 1) :
           /\ Wrote(k, p) /\ Takes(g, plan.offset, Tensor(k), s) /\ r \in Rows(graph[k], p)
    BY <1>1, <1>3, <2>2, <2>3, Covered
  <2>. QED  BY <2>4 DEF Takes
<1>. QED  BY <1>4, <1>5

\* The invariant of a scheduler: that of its pool, a sound plan, and the buffer.
LEMMA ScheduledInvariance == ComputeSpec => [](PoolInv /\ PlanInv /\ (Running => MemInv))
<1>1. ComputeInit => PlanInv /\ (Running => MemInv)
  <2>. SUFFICES ASSUME ComputeInit PROVE PlanInv /\ ~Running
    OBVIOUS
  <2>1. ~Running
    BY MaxThreadsAssumption DEF ComputeInit, Init, Running, Threads
  <2>. QED  BY <2>1 DEF ComputeInit, PlanInv, AllGraphs
<1>. QED  BY <1>1, ScheduledStep, ComputeIsPool, PoolInvariance, PTL DEF ComputeSpec

\* While a thread computes a part of a node, every row it reads of an operand still holds
\* that operand (ggml-alloc.c:464-657, ggml-cpu.c:1270-1306): the property OperandsIntact.
THEOREM OperandsAreIntact == ComputeSpec => []OperandsIntact
<1>1. PoolInv /\ PlanInv /\ (Running => MemInv)
      /\ (\A t \in Team : pc[t] = "chunk" => \A u \in Team : scratch[u] = node[t])
        => OperandsIntact
  <2>. SUFFICES ASSUME PoolInv, PlanInv, Running => MemInv,
                       \A t \in Team : pc[t] = "chunk" => \A u \in Team : scratch[u] = node[t]
                PROVE  OperandsIntact
    OBVIOUS
  <2>1. ASSUME NEW t \in Team, Computing(t), NEW i \in 1..Len(This(t).src)
        PROVE  Holds(This(t).src[i], RowsRead(t, This(t).src[i]))
    BY <2>1, AtWork, OperandThere
  <2>. QED  BY <2>1 DEF OperandsIntact
<1>. QED  BY <1>1, ScheduledInvariance, ComputeIsPool, SlicesAreOfThisNode, PTL

\* When a graph is done each of its outputs is whole in the buffer: it was not freed, and
\* no later tensor was put in its place (ggml-alloc.c:533-537, 480-483): the property
\* OutputsKept.
THEOREM OutputsAreKept == ComputeSpec => []OutputsKept
<1>1. PoolInv /\ PlanInv /\ (Running => MemInv) => OutputsKept
  <2>. SUFFICES ASSUME PoolInv, PlanInv, Running => MemInv, pc[0] = "join", outcome = "success",
                       NEW t \in g.out
                PROVE  Holds(t, AllRows(t))
    BY DEF OutputsKept
  <2>1. Running
    BY DEF Running
  <2>. QED  BY <2>1, OutputThere
<1>. QED  BY <1>1, ScheduledInvariance, PTL
===============================================================================
