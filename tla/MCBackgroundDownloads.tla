----------------------- MODULE MCBackgroundDownloads -------------------------
(***************************************************************************)
(* BackgroundDownloads on an instance TLC can explore.                     *)
(***************************************************************************)
EXTENDS BackgroundDownloads, TLC, FiniteSets

\* Coroutines are interchangeable, and so are workers; models are not, for
\* downloadAll goes through them in order.
Symmetry == Permutations(Jobs) \cup Permutations(Workers)

\* The runs follow what two downloads do that are alive at a time, of either kind.
AtMostTwoDownloads ==
  Cardinality({j \in Jobs : job[j].pc # "idle"})
    + Cardinality({w \in Workers : worker[w].pc # "idle"}) <= 2
===============================================================================
