------------------------------- MODULE GgmlGraph -------------------------------
(***************************************************************************)
(* What ggml_graph_compute promises: the nodes of a graph are computed one *)
(* after the other, each part of a node once, by whatever thread; it       *)
(* returns when no part is left, or after some node if it is aborted.      *)
(***************************************************************************)
EXTENDS Naturals, Sequences

CONSTANT Threads          \* who computes

VARIABLES parts,          \* of the graph under way: the number of parts of each node
          written,        \* the parts computed, and by whom: <<node, part, thread>>
          outcome         \* of the last graph

graphVars == <<parts, written, outcome>>

None == << >>

Done(k, p) == \E t \in Threads : <<k, p, t>> \in written
Complete(k) == \A p \in 0..(parts[k] - 1) : Done(k, p)

Init == parts = None /\ written = {} /\ outcome = "none"

Begin ==
  /\ parts = None
  /\ parts' \in Seq(Nat) \ {None}
  /\ written' = {}
  /\ outcome' = "none"

WritePart(k, p, t) ==
  /\ \A m \in 1..(k - 1) : Complete(m)
  /\ ~Done(k, p)
  /\ written' = written \cup {<<k, p, t>>}
  /\ UNCHANGED <<parts, outcome>>

\* The nodes from k on are left out if the graph is aborted.
End(k) ==
  /\ \A m \in 1..(k - 1) : Complete(m)
  /\ \A m \in k..Len(parts) : \A p \in 0..(parts[m] - 1) : ~Done(m, p)
  /\ outcome' \in {"success", "aborted"}
  /\ outcome' = "success" => k = Len(parts) + 1
  /\ parts' = None
  /\ UNCHANGED written

Next ==
  \/ Begin
  \/ /\ parts # None
     /\ \E k \in 1..Len(parts), t \in Threads :
          \E p \in 0..(parts[k] - 1) : WritePart(k, p, t)
  \/ parts # None /\ \E k \in 2..(Len(parts) + 1) : End(k)

Spec == Init /\ [][Next]_graphVars
===============================================================================
