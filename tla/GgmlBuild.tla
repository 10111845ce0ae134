------------------------------- MODULE GgmlBuild -------------------------------
(***************************************************************************)
(* ggml_build_forward_expand of ggml.c: how the nodes of a graph come into *)
(* the order they are computed in.  src says of each tensor which tensors  *)
(* it is made of, in order; one that is made of none is a leaf.  And the   *)
(* decoder's self-attention in whisper.cpp, whose reads of the cache are   *)
(* behind its stores by this order alone.                                  *)
(***************************************************************************)
EXTENDS Integers, SequencesExt

EmptyGraph(src) ==
  [nodes |-> << >>, leafs |-> << >>, visited |-> {}, uses |-> [t \in DOMAIN src |-> 0]]

\* ggml_visit_parents: the tensor comes behind all that it is made of.
RECURSIVE Visit(_, _, _)
Visit(src, gr, t) ==
  LET Operand(s, p) == LET r == Visit(src, s, p) IN [r EXCEPT !.uses[p] = @ + 1]
      s1 == FoldLeft(Operand, [gr EXCEPT !.visited = @ \cup {t}], src[t])
  IN IF t \in gr.visited THEN gr
     ELSE IF src[t] = << >> THEN [s1 EXCEPT !.leafs = Append(@, t)]
     ELSE [s1 EXCEPT !.nodes = Append(@, t)]

\* The tensors that are expanded, one after the other.
Build(src, roots) == FoldLeft(LAMBDA gr, t : Visit(src, gr, t), EmptyGraph(src), roots)

-------------------------------------------------------------------------------
(***************************************************************************)
(* What a graph has to be.                                                 *)
(***************************************************************************)

\* The tensors those in S are made of, and they themselves.
RECURSIVE Needed(_, _)
Needed(src, S) ==
  LET Below == UNION {ToSet(src[t]) : t \in S}
  IN IF Below \subseteq S THEN S ELSE Needed(src, S \cup Below)

Place(gr, t) == CHOOSE k \in DOMAIN gr.nodes : gr.nodes[k] = t

\* Everything that is needed, and nothing else, is there once.
Exact(src, roots, gr) ==
  /\ IsInjective(gr.nodes \o gr.leafs)
  /\ ToSet(gr.nodes) \cup ToSet(gr.leafs) = Needed(src, ToSet(roots))
  /\ \A t \in Needed(src, ToSet(roots)) : t \in ToSet(gr.leafs) <=> src[t] = << >>

\* A node is computed when all that it reads has been, and what was expanded first,
\* with all that it needs, before anything else.
Ordered(src, roots, gr) ==
  /\ \A t \in ToSet(gr.nodes) : \A p \in ToSet(src[t]) \cap ToSet(gr.nodes) :
       Place(gr, p) < Place(gr, t)
  /\ \A k \in DOMAIN roots :
       LET First == Needed(src, ToSet(SubSeq(roots, 1, k))) \cap ToSet(gr.nodes)
       IN ToSet(SubSeq(gr.nodes, 1, Cardinality(First))) = First

\* use_counts says how often each is read.
UsesCounted(src, gr) ==
  \A p \in gr.visited :
    gr.uses[p] = Cardinality({e \in (gr.visited) \X (1..10) :
                                e[2] \in DOMAIN src[e[1]] /\ src[e[1]][e[2]] = p})

-------------------------------------------------------------------------------
(***************************************************************************)
(* The self-attention of whisper_build_graph_decoder, layer by layer.      *)
(***************************************************************************)
Leafs == {"input", "weights", "mask", "cacheK", "cacheV"}
Steps == {"norm", "q", "k", "v", "slotK", "slotV", "storeK", "storeV",
          "K", "KQ", "softmax", "V", "KQV", "out"}

Tensors(layers) == ({0} \X Leafs) \cup ((1..layers) \X Steps)

LayerSrc(il, step) ==
  LET Of(s) == <<il, s>>
      Leaf(s) == <<0, s>>
      in == IF il = 1 THEN Leaf("input") ELSE <<il - 1, "out">>
  IN CASE step = "norm"             -> <<in>>
       [] step \in {"q", "k", "v"}  -> <<Leaf("weights"), Of("norm")>>
       [] step \in {"slotK", "K"}   -> <<Leaf("cacheK")>>
       [] step \in {"slotV", "V"}   -> <<Leaf("cacheV")>>
       [] step = "storeK"           -> <<Of("k"), Of("slotK")>>
       [] step = "storeV"           -> <<Of("v"), Of("slotV")>>
       [] step = "KQ"               -> <<Of("K"), Of("q")>>
       [] step = "softmax"          -> <<Of("KQ"), Leaf("mask")>>
       [] step = "KQV"              -> <<Of("V"), Of("softmax")>>
       [] step = "out"              -> <<Of("KQV"), in>>
       [] OTHER                     -> << >>

DecoderSrc(layers) == [t \in Tensors(layers) |-> LayerSrc(t[1], t[2])]

\* The stores are expanded while the layers are described, the output at the end.
DecoderRoots(layers) ==
  [k \in 1..(2 * layers) |-> <<(k + 1) \div 2, IF k % 2 = 1 THEN "storeK" ELSE "storeV">>]
    \o << <<layers, "out">> >>

DecoderGraph(layers) == Build(DecoderSrc(layers), DecoderRoots(layers))
===============================================================================
