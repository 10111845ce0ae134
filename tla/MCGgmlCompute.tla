----------------------------- MODULE MCGgmlCompute -----------------------------
(***************************************************************************)
(* Instances of GgmlCompute.  One thread computes every graph of three     *)
(* nodes that Small describes; teams of two and three threads compute a    *)
(* few graphs that have every kind of node.                                *)
(***************************************************************************)
EXTENDS GgmlCompute

N(op, size, src) == [op |-> op, size |-> size, src |-> src, view |-> 0]
V(size, of) == [op |-> "view", size |-> size, src |-> <<of>>, view |-> of]

\* Two inputs and three nodes.
Srcs(n) == {<<a>> : a \in 1..n} \cup {<<a, b>> : a \in 1..(n - 1), b \in 2..n}
Ops(n, ops) == {N(op, s, src) : op \in ops, s \in {1, 2}, src \in Srcs(n)}
Views(vs) == {V(1, v) : v \in vs}

Bases(n) == IF n.view = 0 THEN {3} ELSE {}

Shapes == UNION {{[leafs |-> 2, ext |-> {}, out |-> out, sizes |-> <<2, 1>>,
                   nodes |-> <<a, b, c>>] :
                     b \in Ops(3, {"rows", "solo"}) \cup Views({1} \cup Bases(a)),
                     c \in Ops(4, {"rows"}), out \in {{5}, {5} \cup Bases(a)}} :
                 a \in {N("rows", 2, <<1, 2>>), N("rows", 1, <<2>>), N("solo", 2, <<1>>), V(1, 1)}}

\* Both inputs are read, or they would not be in the graph.
Small == {s \in Shapes : {1, 2} \subseteq UNION {ToSet(s.nodes[k].src) : k \in 1..3}}

SmallSchedulers == {[measure |-> s, graphs |-> {s}, threads |-> {1}] : s \in Small}

\* An attention block: cur is scaled, multiplied with two weights (1 and 2), one
\* product read through a view, masked (4) and normalised in place, multiplied
\* again, and added to the input (3).
Block(n) ==
  [leafs |-> 4, ext |-> {1, 2}, out |-> {11}, sizes |-> <<1, 1, n, 1>>,
   nodes |-> << N("rows", n, <<3>>),          \* 5
                N("mulmat", n, <<1, 5>>),     \* 6
                N("mulmat", n, <<2, 5>>),     \* 7
                V(n, 7),                      \* 8
                N("mulmat", n, <<6, 8>>),     \* 9
                N("rows", n, <<9, 4>>),       \* 10
                N("rows", n, <<10, 3>>) >>]   \* 11

Tall == [leafs |-> 1, ext |-> {}, out |-> {3}, sizes |-> <<8>>,
         nodes |-> << N("mulmat", 8, <<1>>), N("solo", 8, <<2>>) >>]

Blocks == [measure |-> Block(2), graphs |-> {Block(1), Block(2)}, threads |-> {2}]
Talls == [measure |-> Tall, graphs |-> {Tall}, threads |-> {2}]
Three == LET b == [leafs |-> 1, ext |-> {}, out |-> {3}, sizes |-> <<3>>,
                   nodes |-> << N("mulmat", 3, <<1>>), N("rows", 3, <<2>>) >>]
         IN [measure |-> b, graphs |-> {b}, threads |-> {3}]

\* Measured too small, and measured again.
Grown == [measure |-> Block(1), graphs |-> {Block(1), Block(2)}, threads |-> {1}]

\* The KV cache (1) is held elsewhere: a row is stored through one view of it and
\* read through another.
Cached == LET b == [leafs |-> 2, ext |-> {1}, out |-> {6}, sizes |-> <<2, 1>>,
                    nodes |-> << V(1, 1),                                       \* 3
                                 [N("rows", 1, <<2, 3>>) EXCEPT !.view = 1],    \* 4
                                 V(2, 1),                                       \* 5
                                 N("rows", 1, <<5, 2>>) >>]                     \* 6
          IN [measure |-> b, graphs |-> {b}, threads |-> {2}]

MCSchedulers == SmallSchedulers \cup {Blocks, Talls, Three, Grown, Cached}
MCGraphs == UNION {{s.nodes : s \in sc.graphs} : sc \in MCSchedulers}

-------------------------------------------------------------------------------
(***************************************************************************)
(* Every graph of four tensors, expanded from one of them or from two.     *)
(***************************************************************************)
Built == INSTANCE GgmlBuild

Sources(t) == {<< >>} \cup {<<a>> : a \in 1..(t - 1)} \cup {<<a, b>> : a, b \in 1..(t - 1)}
SmallSrcs == {<< << >>, s2, s3, s4>> : s2 \in Sources(2), s3 \in Sources(3), s4 \in Sources(4)}
SomeRoots == {<<a>> : a \in 1..4} \cup {<<a, b>> : a, b \in 1..4}

\* The nodes come in an order they can be computed in, each once, and with none that
\* is not needed (ggml.c:6246-6316).
ASSUME GraphsWellBuilt ==
  \A src \in SmallSrcs, roots \in SomeRoots :
    LET gr == Built!Build(src, roots)
    IN Built!Exact(src, roots, gr) /\ Built!Ordered(src, roots, gr) /\ Built!UsesCounted(src, gr)

\* No tensor says that the self-attention reads what was stored in the cache, but each
\* layer's reads come behind its stores (whisper.cpp:2614-2655).
ASSUME CacheStoredFirst ==
  \A layers \in 1..4 : \A il \in 1..layers :
    LET gr == Built!DecoderGraph(layers)
        At(s) == Built!Place(gr, <<il, s>>)
    IN At("storeK") < At("KQ") /\ At("storeV") < At("KQV")

\* The block above lists its nodes as they are built.
ASSUME BlockAsBuilt ==
  LET src == [t \in 1..11 |-> IF t <= 4 THEN << >> ELSE Block(1).nodes[t - 4].src]
  IN Built!Build(src, << 11 >>).nodes = <<5, 6, 7, 8, 9, 10, 11>>
===============================================================================
