----------------------- MODULE MCTranscriptionViewModel -----------------------
(***************************************************************************)
(* TranscriptionViewModel on an instance TLC can explore.                  *)
(***************************************************************************)
EXTENDS TranscriptionViewModel, TLC

\* Coroutines are interchangeable and so are models; for the safety runs only.
Symmetry == Permutations(Coroutines) \cup Permutations(Models)
===============================================================================
