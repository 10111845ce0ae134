------------------------------ MODULE GgmlCompute ------------------------------
(***************************************************************************)
(* A scheduler of whisper.cpp at work: its buffer is measured once, on the *)
(* largest graph (whisper_sched_graph_init), and then every smaller graph  *)
(* of the same shape is placed in it by the old measurements               *)
(* (ggml_gallocr_alloc_graph), given its inputs, and computed by a pool of *)
(* threads.  mem says whose value each row of the buffer holds.            *)
(***************************************************************************)
EXTENDS GgmlThreadpool, GgmlAlloc

CONSTANT Schedulers       \* [measure |-> graph, graphs |-> set, threads |-> set]

ASSUME SchedulersAssumption ==
  /\ Graphs = UNION {{gr.nodes : gr \in sc.graphs} : sc \in Schedulers}
  /\ \A sc \in Schedulers : sc.threads \subseteq 1..MaxThreads

AllGraphs(sc) == {sc.measure} \cup sc.graphs

\* The graphs of a scheduler are built by one function: where the old measurements
\* are used, they are those of a graph of the same shape.
ASSUME ShapesAssumption ==
  \A sc \in Schedulers : \A m, gr \in AllGraphs(sc) :
    /\ WellFormed(gr)
    /\ NeedsRealloc(Measured(m), gr) \/ SameShape(m, gr)

VARIABLES sched,          \* the scheduler
          plan,           \* what its allocator keeps
          g,              \* the graph computed, with its leafs
          mem

computeVars == <<vars, sched, plan, g, mem>>

\* The rows of tensor t in the buffer, or those in the set rs of them.
RowsAt(t, rs) == {plan.offset[t] + r : r \in rs}
AllRows(t) == 0..(SizeOf(g, t) - 1)

Tensor(k) == g.leafs + k

\* The tensor whose value is read through t.
Base(t) == IF ViewOf(g, t) = 0 THEN t ELSE ViewOf(g, t)

\* What is held elsewhere is not in the buffer, nor is what is written into it.
External(t) == Base(t) \in g.ext

Holds(t, rs) == External(t) \/ \A u \in RowsAt(t, rs) : mem[u] = Base(t)

ComputeInit ==
  /\ Init
  /\ sched \in Schedulers
  /\ plan = Reserve(sched.measure)
  /\ g = sched.measure
  /\ mem = [u \in 0..(plan.size - 1) |-> 0]

\* The inputs are set after the tensors are placed.
Start(graphOf, n) ==
  /\ Begin(graphOf.nodes, n)
  /\ g' = graphOf
  /\ plan' = AllocPlan(plan, graphOf)
  /\ mem' = [u \in 0..(plan'.size - 1) |->
               LET At == {t \in 1..graphOf.leafs \ graphOf.ext :
                            u - plan'.offset[t] \in 0..(SizeOf(graphOf, t) - 1)}
               IN IF At = {} THEN 0 ELSE CHOOSE t \in At : TRUE]
  /\ UNCHANGED sched

\* The parts a step computes go to the buffer.
Store ==
  mem' = [u \in DOMAIN mem |->
            LET New == {w \in written' \ written :
                          /\ ~External(Tensor(w[1]))
                          /\ u \in RowsAt(Tensor(w[1]), Rows(graph[w[1]], w[2]))}
            IN IF New = {} THEN mem[u] ELSE Tensor((CHOOSE w \in New : TRUE)[1])]

Other ==
  /\ \/ Caller
     \/ Abort
     \/ \E t \in Workers : Wait(t) \/ SpuriousWake(t)
  /\ UNCHANGED <<sched, plan, g, mem>>

ComputeNext ==
  \/ \E graphOf \in sched.graphs, n \in sched.threads : Start(graphOf, n)
  \/ Other
  \/ \E t \in Threads : Compute(t) /\ Store /\ UNCHANGED <<sched, plan, g>>

ComputeSpec == ComputeInit /\ [][ComputeNext]_computeVars

\* Every thread goes on running; the abort callback, spurious wakeups and the
\* next call are left to chance.
FairComputeSpec ==
  /\ ComputeSpec
  /\ WF_computeVars(Caller /\ UNCHANGED <<sched, plan, g, mem>>)
  /\ \A t \in Threads : WF_computeVars(Compute(t) /\ Store /\ UNCHANGED <<sched, plan, g>>)
  /\ \A t \in Workers : WF_computeVars(Wait(t) /\ UNCHANGED <<sched, plan, g, mem>>)

-------------------------------------------------------------------------------
\* The rows of operand s that thread t reads where it is: its own rows of one
\* laid out like the result, when the work is shared by rows, or all of it.
RowsRead(t, s) ==
  IF pc[t] = "rows" /\ SizeOf(g, s) = This(t).size THEN Rows(This(t), t) ELSE AllRows(s)

Computing(t) ==
  \/ pc[t] \in {"rows", "convert"}
  \/ pc[t] = "solo" /\ t = 0
  \/ pc[t] = "chunk" /\ chunk[t] < Chunks(This(t).size)

\* While a thread computes a part of a node, every row it reads of an operand
\* still holds that operand, though buffers are shared and reused and results
\* overwrite operands (ggml-alloc.c:464-657), and in mul_mat every slice of the
\* converted operand is that of this node (ggml-cpu.c:1270-1306).
OperandsIntact ==
  \A t \in Team :
    /\ Computing(t) => \A i \in 1..Len(This(t).src) :
                         Holds(This(t).src[i], RowsRead(t, This(t).src[i]))
    /\ pc[t] = "chunk" => \A u \in Team : scratch[u] = node[t]

\* When a graph has been computed its outputs are there to be read: nothing
\* computed after them was put in their place (ggml-alloc.c:533-537, 480-483).
OutputsKept ==
  pc[0] = "join" /\ outcome = "success" => \A t \in g.out : Holds(t, AllRows(t))

\* The nodes are computed one after the other, each part of a node exactly once,
\* and the call reports success only when all are (ggml-cpu.c:2864-2878).
Computed == INSTANCE GgmlGraph WITH
              parts   <- [k \in DOMAIN graph |-> Parts(graph[k])],
              written <- written,
              outcome <- IF pc[0] = "idle" THEN outcome ELSE "none"
GraphComputed == Computed!Spec

\* Every call of ggml_graph_compute returns: no thread is left at a barrier the
\* others have gone through or skip, and no worker sleeps through the graph or
\* the end of the pool (ggml-cpu.c:2939-3026, 2582-2600).
Returns == (graph # NoGraph) ~> (graph = NoGraph)
===============================================================================
