---------------------------- MODULE GgmlThreadpool ----------------------------
(***************************************************************************)
(* ggml_graph_compute of ggml-cpu.c, as whisper.cpp calls it through the   *)
(* CPU backend: a pool of threads is made for one graph, its workers poll  *)
(* and then sleep until the graph is there, every thread walks the nodes   *)
(* of the graph with a barrier after each, and the pool is stopped and     *)
(* joined before the call returns.  Thread 0 is the caller.                *)
(* Within a node the threads share the work by rows ("rows"), leave it to  *)
(* thread 0 ("solo"), have nothing to do ("view"), or convert the second   *)
(* operand together and then take chunks from a common counter ("mulmat",  *)
(* ggml_compute_forward_mul_mat).                                          *)
(***************************************************************************)
EXTENDS GgmlBarrier, Sequences

CONSTANT Graphs           \* sequences of nodes

\* What a node does, its rows, the tensors it reads and the one it is a view of.
Node == [op : {"rows", "solo", "mulmat", "view"}, size : Nat, src : Seq(Nat), view : Nat]

ASSUME GraphsAssumption == Graphs \subseteq Seq(Node) \ {<< >>}

VARIABLES graph,          \* of the call under way, or none
          pc,             \* where each thread is
          node,           \* the node each thread is at
          chunk,          \* current_chunk of each thread inside mul_mat
          nGraph,         \* n_graph
          lastGraph,      \* last_graph of each worker
          stop,
          abort,          \* the node before which all stop, 0 if none
          ec,
          currentChunk,   \* current_chunk of the pool
          scratch,        \* wdata: the node each thread's slice was converted for
          written,        \* history: <<node, part, thread>> of each part computed
          outcome         \* history: what the last call returned

poolVars == <<nGraph, lastGraph, stop>>
workVars == <<abort, ec, currentChunk, scratch, written>>
tpVars == <<graph, pc, node, chunk, poolVars, workVars, outcome>>
vars == <<barrierVars, tpVars>>

NoGraph == << >>
Workers == Threads \ {0}
Barriers == {"mulbar", "nodebar", "final"}

PCs == {"idle", "kick", "collect", "join", "poll", "lock", "wait", "exited",
        "node", "rows", "solo", "convert", "chunk", "after"} \cup Barriers

-------------------------------------------------------------------------------
(***************************************************************************)
(* How a node is divided.                                                  *)
(***************************************************************************)

CeilDiv(a, b) == (a + b - 1) \div b

\* mul_mat of size rows by one column: as many chunks as rows, unless these are
\* too few for the threads, and then one chunk a thread (nchunk0 * nchunk1).
Chunks(size) == IF size < nThreadsCur * 4 THEN nThreadsCur ELSE size

Parts(n) == CASE n.op = "rows"   -> nThreadsCur
              [] n.op = "solo"   -> 1
              [] n.op = "mulmat" -> Chunks(n.size)
              [] OTHER           -> 0

\* The rows of part p of a node.
Rows(n, p) == LET dr == CeilDiv(n.size, Parts(n))
              IN {r \in 0..(n.size - 1) : r \div dr = p}

-------------------------------------------------------------------------------
Init ==
  /\ BarrierInit
  /\ graph = NoGraph
  /\ pc = [t \in Threads |-> IF t = 0 THEN "idle" ELSE "exited"]
  /\ node = [t \in Threads |-> 1]
  /\ chunk = [t \in Threads |-> 0]
  /\ nGraph = 0 /\ lastGraph = [t \in Threads |-> 0] /\ stop = FALSE
  /\ abort = 0 /\ ec = "success" /\ currentChunk = 0
  /\ scratch = [t \in Threads |-> 0]
  /\ written = {}
  /\ outcome = "none"

TypeOK ==
  /\ BarrierTypeOK
  /\ (graph = NoGraph) <=> (pc[0] = "idle")
  /\ pc \in [Threads -> PCs]
  /\ node \in [Threads -> Nat \ {0}]
  /\ chunk \in [Threads -> Nat]
  /\ nGraph \in 0..1 /\ lastGraph \in [Threads -> 0..1] /\ stop \in BOOLEAN
  /\ abort \in Nat /\ ec \in {"success", "aborted"} /\ currentChunk \in Nat
  /\ scratch \in [Threads -> Nat]
  /\ outcome \in {"none", "success", "aborted"}

Goto(t, place) == pc' = [pc EXCEPT ![t] = place]

\* A condition variable's broadcast: those asleep go for the mutex.
Broadcast == [t \in Threads |-> IF pc[t] = "wait" THEN "lock" ELSE pc[t]]

-------------------------------------------------------------------------------
(***************************************************************************)
(* The caller.                                                             *)
(***************************************************************************)

\* ggml_threadpool_new_impl: the workers run from here on.
Begin(g, n) ==
  /\ pc[0] = "idle"
  /\ graph' = g
  /\ NewBarrier(n)
  /\ pc' = [t \in Threads |-> IF t = 0 THEN "kick" ELSE IF t < n THEN "poll" ELSE "exited"]
  /\ node' = [t \in Threads |-> 1]
  /\ chunk' = [t \in Threads |-> 0]
  /\ nGraph' = 0 /\ lastGraph' = [t \in Threads |-> 0] /\ stop' = FALSE
  /\ abort' = 0 /\ ec' = "success" /\ currentChunk' = 0
  /\ scratch' = [t \in Threads |-> 0]
  /\ written' = {}
  /\ outcome' = "none"

\* ggml_graph_compute_kickoff, under the mutex.
Kickoff ==
  /\ pc[0] = "kick"
  /\ nGraph' = nGraph + 1
  /\ pc' = [Broadcast EXCEPT ![0] = "node"]
  /\ UNCHANGED <<barrierVars, graph, node, chunk, lastGraph, stop, workVars, outcome>>

\* The result is read, and ggml_threadpool_free stops the workers under the mutex.
Stop ==
  /\ pc[0] = "collect"
  /\ outcome' = ec
  /\ stop' = TRUE
  /\ pc' = [Broadcast EXCEPT ![0] = "join"]
  /\ UNCHANGED <<barrierVars, graph, node, chunk, nGraph, lastGraph, workVars>>

\* The workers are joined, and the call returns.
Join ==
  /\ pc[0] = "join"
  /\ \A t \in Workers : pc[t] = "exited"
  /\ Goto(0, "idle")
  /\ graph' = NoGraph
  /\ UNCHANGED <<barrierVars, node, chunk, poolVars, workVars, outcome>>

-------------------------------------------------------------------------------
(***************************************************************************)
(* A worker waiting for the graph.  Every thread of such a pool is active, *)
(* so that a graph not seen before is always its work.                     *)
(***************************************************************************)

Ready(t) == stop \/ nGraph # lastGraph[t]

\* A wait that looks at nothing before it sleeps.
Sleep_Unchecked(t) ==
  /\ pc[t] = "lock"
  /\ Goto(t, "wait")
  /\ UNCHANGED <<barrierVars, graph, node, chunk, poolVars, workVars, outcome>>

\* Polling or holding the mutex, it finds the graph or that it has to stop.
FindWork(t) ==
  /\ pc[t] \in {"poll", "lock"}
  /\ Ready(t)
  /\ Goto(t, IF stop THEN "exited" ELSE "node")
  /\ lastGraph' = [lastGraph EXCEPT ![t] = IF stop THEN @ ELSE nGraph]
  /\ UNCHANGED <<barrierVars, graph, node, chunk, nGraph, stop, workVars, outcome>>

\* After so many rounds of polling.
GiveUpPolling(t) ==
  /\ pc[t] = "poll"
  /\ ~Ready(t)
  /\ Goto(t, "lock")
  /\ UNCHANGED <<barrierVars, graph, node, chunk, poolVars, workVars, outcome>>

\* Under the mutex it looks again before it sleeps.
Sleep(t) ==
  /\ pc[t] = "lock"
  /\ ~Ready(t)
  /\ Goto(t, "wait")
  /\ UNCHANGED <<barrierVars, graph, node, chunk, poolVars, workVars, outcome>>

SpuriousWake(t) ==
  /\ pc[t] = "wait"
  /\ Goto(t, "lock")
  /\ UNCHANGED <<barrierVars, graph, node, chunk, poolVars, workVars, outcome>>

-------------------------------------------------------------------------------
(***************************************************************************)
(* ggml_graph_compute_thread.                                              *)
(***************************************************************************)

This(t) == graph[node[t]]

Enter(n) == CASE n.op = "rows" -> "rows" [] n.op = "solo" -> "solo"
              [] n.op = "mulmat" -> "convert" [] OTHER -> "after"

\* The counter starts at the last of the first chunks.
ConvertSlice_CounterOffByOne(t) ==
  /\ pc[t] = "convert"
  /\ scratch' = [scratch EXCEPT ![t] = node[t]]
  /\ currentChunk' = IF t = 0 THEN nThreadsCur - 1 ELSE currentChunk
  /\ Goto(t, "mulbar")
  /\ UNCHANGED <<barrierVars, graph, node, chunk, poolVars, abort, ec, written, outcome>>

\* The loop's condition.
NextNode(t) ==
  /\ pc[t] = "node"
  /\ Goto(t, IF node[t] <= Len(graph) /\ abort # node[t] THEN Enter(This(t)) ELSE "final")
  /\ UNCHANGED <<barrierVars, graph, node, chunk, poolVars, workVars, outcome>>

WriteRows(t) ==
  /\ pc[t] = "rows"
  /\ written' = written \cup {<<node[t], t, t>>}
  /\ Goto(t, "after")
  /\ UNCHANGED <<barrierVars, graph, node, chunk, poolVars, abort, ec, currentChunk, scratch, outcome>>

WriteSolo(t) ==
  /\ pc[t] = "solo"
  /\ written' = IF t = 0 THEN written \cup {<<node[t], 0, t>>} ELSE written
  /\ Goto(t, "after")
  /\ UNCHANGED <<barrierVars, graph, node, chunk, poolVars, abort, ec, currentChunk, scratch, outcome>>

\* mul_mat up to its barrier: each thread converts its slice of the operand, and
\* thread 0 sets the counter past the chunks the threads start with.
ConvertSlice(t) ==
  /\ pc[t] = "convert"
  /\ scratch' = [scratch EXCEPT ![t] = node[t]]
  /\ currentChunk' = IF t = 0 THEN nThreadsCur ELSE currentChunk
  /\ Goto(t, "mulbar")
  /\ UNCHANGED <<barrierVars, graph, node, chunk, poolVars, abort, ec, written, outcome>>

\* One chunk, and the number of the next from the counter.
WriteChunk(t) ==
  /\ pc[t] = "chunk"
  /\ chunk[t] < Chunks(This(t).size)
  /\ written' = written \cup {<<node[t], chunk[t], t>>}
  /\ IF nThreadsCur >= Chunks(This(t).size)
       THEN Goto(t, "after") /\ UNCHANGED <<chunk, currentChunk>>
       ELSE /\ chunk' = [chunk EXCEPT ![t] = currentChunk]
            /\ currentChunk' = currentChunk + 1
            /\ UNCHANGED pc
  /\ UNCHANGED <<barrierVars, graph, node, poolVars, abort, ec, scratch, outcome>>

NoChunkLeft(t) ==
  /\ pc[t] = "chunk"
  /\ chunk[t] >= Chunks(This(t).size)
  /\ Goto(t, "after")
  /\ UNCHANGED <<barrierVars, graph, node, chunk, poolVars, workVars, outcome>>

\* The end of the loop's body.  After the last node there is no barrier here.
Onward(t) ==
  IF node[t] < Len(graph)
    THEN Goto(t, "nodebar") /\ UNCHANGED node
    ELSE Goto(t, "node") /\ node' = [node EXCEPT ![t] = @ + 1]

GoOn(t) ==
  /\ pc[t] = "after"
  /\ Onward(t)
  /\ UNCHANGED <<barrierVars, graph, chunk, poolVars, workVars, outcome>>

\* The abort callback tells thread 0 to give up.
Abort ==
  /\ pc[0] = "after"
  /\ abort' = node[0] + 1
  /\ ec' = "aborted"
  /\ Onward(0)
  /\ UNCHANGED <<barrierVars, graph, chunk, poolVars, currentChunk, scratch, written, outcome>>

InBarrier(t) ==
  /\ pc[t] \in Barriers
  /\ Inside(t)
  /\ UNCHANGED tpVars

\* Out of the barrier: to the chunks, to the next node, or out of the graph.
LeaveBarrier(t) ==
  /\ pc[t] \in Barriers
  /\ Return(t)
  /\ \/ /\ pc[t] = "mulbar"
        /\ Goto(t, "chunk")
        /\ chunk' = [chunk EXCEPT ![t] = t]
        /\ UNCHANGED node
     \/ /\ pc[t] = "nodebar"
        /\ Goto(t, "node")
        /\ node' = [node EXCEPT ![t] = @ + 1]
        /\ UNCHANGED chunk
     \/ /\ pc[t] = "final"
        /\ Goto(t, IF t = 0 THEN "collect" ELSE "poll")
        /\ UNCHANGED <<node, chunk>>
  /\ UNCHANGED <<graph, poolVars, workVars, outcome>>

-------------------------------------------------------------------------------
Compute(t) ==
  \/ NextNode(t) \/ GoOn(t)
  \/ WriteRows(t) \/ WriteSolo(t)
  \/ ConvertSlice(t) \/ WriteChunk(t) \/ NoChunkLeft(t)
  \/ InBarrier(t) \/ LeaveBarrier(t)

Caller == Kickoff \/ Stop \/ Join

Wait(t) == FindWork(t) \/ GiveUpPolling(t) \/ Sleep(t)

Next ==
  \/ \E g \in Graphs, n \in 1..MaxThreads : Begin(g, n)
  \/ Caller
  \/ Abort
  \/ \E t \in Workers : Wait(t) \/ SpuriousWake(t)
  \/ \E t \in Threads : Compute(t)

Spec == Init /\ [][Next]_vars
===============================================================================
