------------------------------- MODULE GgmlAlloc -------------------------------
(***************************************************************************)
(* How ggml-alloc.c places the tensors of a graph in one buffer: the       *)
(* measuring allocator (ggml_dyn_tallocr), and the walk over the graph     *)
(* that allocates a tensor before its node is computed, reuses the buffer  *)
(* of an operand for a result, and frees a tensor after its last use       *)
(* (ggml_gallocr_alloc_graph_impl).                                        *)
(* A graph is [leafs |-> n, ext |-> set, out |-> set, sizes |-> <<...>>,   *)
(* nodes |-> <<...>>].  Tensors are numbered: the leafs 1..n, which are    *)
(* inputs or (in ext) weights held elsewhere, then the nodes in order.  A  *)
(* node is [op, size, src |-> the tensors it reads, view |-> the tensor it *)
(* is a view of, or 0].  Sizes are in rows; tensors of one size have one   *)
(* layout.                                                                 *)
(***************************************************************************)
EXTENDS Integers, Sequences, FiniteSets, SequencesExt

\* The size of a measured buffer is SIZE_MAX/2: no graph comes near it.
Unlimited == 1000000

FreeAll == [free |-> << [offset |-> 0, size |-> Unlimited] >>, maxSize |-> 0]

-------------------------------------------------------------------------------
(***************************************************************************)
(* The measuring allocator: the free blocks, sorted by offset.             *)
(***************************************************************************)

\* The smallest block that is large enough, the last such of equal ones; the
\* last block, which has no end, only if there is no other.
BestFit(free, size) ==
  LET Fits == {i \in 1..(Len(free) - 1) : free[i].size >= size}
      Best == {i \in Fits : \A j \in Fits : free[i].size <= free[j].size}
  IN IF Best = {} THEN Len(free) ELSE CHOOSE i \in Best : \A j \in Best : j <= i

\* The block the allocator takes size rows from, and what is left of it.
Alloc(a, size) ==
  LET i == BestFit(a.free, size)
      b == a.free[i]
      rest == [offset |-> b.offset + size, size |-> b.size - size]
      end == b.offset + size
  IN [offset |-> b.offset,
      alloc |-> [free |-> IF rest.size = 0 THEN RemoveAt(a.free, i)
                                           ELSE [a.free EXCEPT ![i] = rest],
                 maxSize |-> IF end > a.maxSize THEN end ELSE a.maxSize]]

BlockEnd(b) == b.offset + b.size

\* A freed block is merged with the block before it and the block after it, or
\* inserted in its place.  The code aborts beyond MAX_FREE_BLOCKS = 256 of them
\* (ggml-alloc.c:265), which is left out.
Free(free, offset, size) ==
  LET end == offset + size
      Touching == {i \in 1..Len(free) : BlockEnd(free[i]) = offset \/ free[i].offset = end}
      lo == CHOOSE i \in Touching : \A j \in Touching : i <= j
      hi == IF lo < Len(free) /\ (lo + 1) \in Touching THEN lo + 1 ELSE lo
      first == IF free[lo].offset < offset THEN free[lo].offset ELSE offset
      last == IF BlockEnd(free[hi]) > end THEN BlockEnd(free[hi]) ELSE end
      merged == [offset |-> first, size |-> last - first]
      Behind == {i \in 1..Len(free) : free[i].offset >= offset}
      at == CHOOSE i \in Behind : \A j \in Behind : i <= j
  IN IF Touching = {}
       THEN InsertAt(free, IF Behind = {} THEN Len(free) + 1 ELSE at,
                     [offset |-> offset, size |-> size])
       ELSE SubSeq(free, 1, lo - 1) \o << merged >> \o SubSeq(free, hi + 1, Len(free))

-------------------------------------------------------------------------------
Tensors(g) == 1..(g.leafs + Len(g.nodes))
NodeOf(g, t) == g.nodes[t - g.leafs]
IsNode(g, t) == t > g.leafs
SrcOf(g, t) == IF IsNode(g, t) THEN NodeOf(g, t).src ELSE << >>
ViewOf(g, t) == IF IsNode(g, t) THEN NodeOf(g, t).view ELSE 0
SizeOf(g, t) == IF IsNode(g, t) THEN NodeOf(g, t).size ELSE g.sizes[t]

\* ggml_op_can_inplace: the operations of these graphs that work row by row.
CanInplace(op) == op = "rows"

\* The hash nodes of the walk, the allocator among them.
Fresh(g) ==
  [al |-> FreeAll,
   allocated |-> [t \in Tensors(g) |-> FALSE],
   offset    |-> [t \in Tensors(g) |-> 0],
   children  |-> [t \in Tensors(g) |-> 0],
   views     |-> [t \in Tensors(g) |-> 0]]

(***************************************************************************)
(* Plausible bugs.                                                         *)
(***************************************************************************)

\* Reuses an operand that another node still needs.
Reusable_Shared(g, st, t, p) ==
  /\ st.allocated[p]
  /\ p \notin g.out
  /\ SizeOf(g, p) = SizeOf(g, t)
  /\ st.views[p] = 0
  /\ ViewOf(g, p) = 0

\* Frees an output after its last use in the graph.
FreeNode_Outputs(g, st, t) ==
  [st EXCEPT !.al.free = Free(@, st.offset[t], SizeOf(g, t)), !.allocated[t] = FALSE]

-------------------------------------------------------------------------------
\* Whether the result t may take over the buffer of its operand p.  A view is
\* never "allocated", so that the code's branch for a view is never reached.
Reusable(g, st, t, p) ==
  /\ st.allocated[p]
  /\ p \notin g.out
  /\ SizeOf(g, p) = SizeOf(g, t)
  /\ st.children[p] = 1 /\ st.views[p] = 0
  /\ ViewOf(g, p) = 0

\* ggml_gallocr_allocate_node
AllocateNode(g, st, t) ==
  LET src == SrcOf(g, t)
      Parents == {j \in 1..Len(src) : Reusable(g, st, t, src[j])}
      p == src[CHOOSE j \in Parents : \A i \in Parents : j <= i]
      a == Alloc(st.al, SizeOf(g, t))
  IN IF t \in g.ext \/ st.allocated[t] \/ ViewOf(g, t) # 0 THEN st
     ELSE IF IsNode(g, t) /\ CanInplace(NodeOf(g, t).op) /\ Parents # {}
       THEN [st EXCEPT !.allocated = [@ EXCEPT ![t] = TRUE, ![p] = FALSE],
                       !.offset[t] = st.offset[p]]
       ELSE [st EXCEPT !.allocated[t] = TRUE, !.offset[t] = a.offset, !.al = a.alloc]

\* ggml_gallocr_free_node
FreeNode(g, st, t) ==
  IF t \in g.out THEN st
  ELSE [st EXCEPT !.al.free = Free(@, st.offset[t], SizeOf(g, t)),
                  !.allocated[t] = FALSE]

\* One operand of a node just computed has been used once more.
UpdateParent(g, st, p) ==
  LET s1 == [st EXCEPT !.children[p] = @ - 1]
      v == ViewOf(g, p)
      s2 == [s1 EXCEPT !.views[v] = @ - 1]
  IN IF s1.children[p] # 0 \/ s1.views[p] # 0 THEN s1
     ELSE IF v # 0
       THEN IF s2.views[v] = 0 /\ s2.children[v] = 0 /\ s2.allocated[v]
              THEN FreeNode(g, s2, v) ELSE s2
     ELSE IF s1.allocated[p] THEN FreeNode(g, s1, p) ELSE s1

\* The operands read: operand r[2] of tensor r[1].
Reads(g) == UNION {{t} \X DOMAIN SrcOf(g, t) : t \in Tensors(g)}
Read(g, r) == SrcOf(g, r[1])[r[2]]

\* The first walk counts the uses of each tensor, and its views.
Count(g, st) ==
  [st EXCEPT !.children = [p \in Tensors(g) |-> Cardinality({r \in Reads(g) : Read(g, r) = p})],
             !.views = [p \in Tensors(g) |-> Cardinality({t \in Tensors(g) : ViewOf(g, t) = p})]]

\* The loops of the walk.
AllocateEach(g, st, seq) == FoldLeft(LAMBDA s, t : AllocateNode(g, s, t), st, seq)
UpdateEach(g, st, seq) == FoldLeft(LAMBDA s, p : UpdateParent(g, s, p), st, seq)

\* The second walk: the operands, the node, and what it ends.
Place(g, st, t) ==
  UpdateEach(g, AllocateNode(g, AllocateEach(g, st, SrcOf(g, t)), t), SrcOf(g, t))

PlaceEach(g, st, seq) == FoldLeft(LAMBDA s, t : Place(g, s, t), st, seq)

\* ggml_gallocr_alloc_graph_impl: the leafs, the counts, the nodes.
AllocGraph(g) ==
  LET leafs == [t \in 1..g.leafs |-> t]
      nodes == [k \in 1..Len(g.nodes) |-> g.leafs + k]
  IN PlaceEach(g, Count(g, AllocateEach(g, Fresh(g), leafs)), nodes)

\* The rows of the buffer a tensor needs: a weight and a view need none.
RowsNeeded(g, t) == IF t \in g.ext \/ ViewOf(g, t) # 0 THEN 0 ELSE SizeOf(g, t)

\* What is remembered of the graph measured: for each node, what it and each of its
\* operands needed.
Measured(g) ==
  [leafs |-> g.leafs,
   nodes |-> [t \in {u \in Tensors(g) : IsNode(g, u)} |-> RowsNeeded(g, t)],
   srcs |-> [r \in Reads(g) |-> RowsNeeded(g, Read(g, r))]]

\* What ggml_gallocr_reserve keeps: an offset for each tensor, that of the tensor
\* it is a view of for a view, what was measured, and the size of the buffer.
Reserve(g) ==
  LET st == AllocGraph(g)
  IN [offset |-> [t \in Tensors(g) |-> IF ViewOf(g, t) = 0 THEN st.offset[t]
                                        ELSE st.offset[ViewOf(g, t)]],
      measured |-> Measured(g),
      size |-> st.al.maxSize]

\* ggml_gallocr_needs_realloc: it compares counts and sizes, not what reads what.
NeedsRealloc(measured, g) ==
  \/ measured.leafs # g.leafs
  \/ DOMAIN measured.nodes # {t \in Tensors(g) : IsNode(g, t)}
  \/ \E t \in DOMAIN measured.nodes : RowsNeeded(g, t) > measured.nodes[t]
  \/ \E r \in Reads(g) :
       RowsNeeded(g, Read(g, r)) > IF r \in DOMAIN measured.srcs THEN measured.srcs[r] ELSE 0

\* What the graphs built by whisper.cpp are like.  No tensor is empty, and all of
\* them together are far smaller than the measured buffer.  A leaf is in a graph
\* because a node reads it.  A tensor comes behind
\* those it reads and the one it is a view of, which is no view itself.  What is
\* computed into a view goes to a tensor held elsewhere (the KV cache), and an
\* output is no view.
WellFormed(g) ==
  /\ g.leafs \in Nat /\ Len(g.nodes) \in Nat
  /\ g.ext \subseteq 1..g.leafs
  /\ \A t \in 1..g.leafs : \E r \in Reads(g) : Read(g, r) = t
  /\ \A t \in Tensors(g) :
       /\ SizeOf(g, t) \in 1..(Unlimited \div (g.leafs + Len(g.nodes) + 1))
       /\ SrcOf(g, t) \in Seq(1..(t - 1))
       /\ ViewOf(g, t) \in 0..(t - 1)
       /\ ViewOf(g, t) # 0 =>
            /\ ViewOf(g, ViewOf(g, t)) = 0
            /\ SizeOf(g, t) <= SizeOf(g, ViewOf(g, t))
            /\ NodeOf(g, t).op = "view" \/ ViewOf(g, t) \in g.ext
       /\ IsNode(g, t) /\ NodeOf(g, t).op = "view" => ViewOf(g, t) # 0
       /\ t \in g.out => ViewOf(g, t) = 0
  /\ g.out \subseteq Tensors(g)

\* g is m with other sizes, and what has one layout in m has one in g.
SameShape(m, g) ==
  /\ <<g.leafs, g.ext, g.out, Len(g.nodes)>> = <<m.leafs, m.ext, m.out, Len(m.nodes)>>
  /\ \A t \in Tensors(m) :
       /\ SrcOf(g, t) = SrcOf(m, t) /\ ViewOf(g, t) = ViewOf(m, t)
       /\ IsNode(m, t) => NodeOf(g, t).op = NodeOf(m, t).op
       /\ \A j \in DOMAIN SrcOf(m, t) : SizeOf(m, SrcOf(m, t)[j]) = SizeOf(m, t)
                                     => SizeOf(g, SrcOf(m, t)[j]) = SizeOf(g, t)

\* ggml_gallocr_alloc_graph
AllocPlan(plan, g) == IF NeedsRealloc(plan.measured, g) THEN Reserve(g) ELSE plan
===============================================================================
