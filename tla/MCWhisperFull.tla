---------------------------- MODULE MCWhisperFull ----------------------------
(***************************************************************************)
(* A model of 14 positions, at most two decoders, and audio that is empty, *)
(* too short, or long enough for two windows; the second one keeps the     *)
(* past.  The app's parameters are the first ones.                         *)
(***************************************************************************)
EXTENDS WhisperFull, WhisperSegments

MCText == {-2}
MCStamps == {0, 752}
MCTemperatures == <<0, 2, 6>>
MCLengths == {0, 5, 2030}
MCParams == {[beam |-> FALSE, noTimestamps |-> FALSE, noContext |-> TRUE],
             [beam |-> FALSE, noTimestamps |-> TRUE, noContext |-> FALSE],
             [beam |-> TRUE, noTimestamps |-> FALSE, noContext |-> TRUE]}

-------------------------------------------------------------------------------
(***************************************************************************)
(* The loop of whisper_kv_cache_find_slot, step by step: from head on, a   *)
(* cell in use moves head behind it, and the count of the cells tested     *)
(* ends the search.  It yields where it finds n free cells, or -1.         *)
(***************************************************************************)
RECURSIVE Search(_, _, _, _)
Search(c, n, head, tested) ==
  IF head + n > Size(c) THEN Search(c, n, 0, tested + Size(c) - head)
  ELSE LET used == {k \in 0..(n - 1) : c.cells[head + k].pos >= 0}
           step == 1 + CHOOSE k \in used : \A l \in used : k <= l
       IN IF used = {} THEN head
          ELSE IF tested + step >= Size(c) THEN -1
          ELSE Search(c, n, head + step, tested + step)

FirstSlot(c, n) == IF n > Size(c) THEN -1 ELSE Search(c, n, c.head, 0)

SmallCaches ==
  UNION {{[cells |-> [k \in 0..(s - 1) |-> [pos |-> p[k], seqs |-> {}, tok |-> 0]], head |-> h] :
            p \in [0..(s - 1) -> {-1, 0}], h \in 0..s} : s \in 1..6}

\* HasSlot and FindSlot say what that loop finds: it misses no slot, also none around
\* the place where it started, and takes the first from there on.
ASSUME SlotsAreFound ==
  \A c \in SmallCaches : \A n \in 1..7 :
    FirstSlot(c, n) = IF HasSlot(c, n) THEN FindSlot(c, n) ELSE -1

-------------------------------------------------------------------------------
(***************************************************************************)
(* The copies of cells from sequence to sequence, one after the other: of  *)
(* the prompt to every other decoder, and of beam search, where each       *)
(* decoder's cells go to a spare sequence before its own are removed.      *)
(***************************************************************************)
CopyLoop(c, dsts) == FoldLeft(LAMBDA d, j : SeqCp(d, 0, j), c, dsts)

Spare(j) == 8 + j

MoveLoop(c, from) ==
  LET order == SetToSortSeq(DOMAIN from, LAMBDA a, b : a < b)
      Lent(d, j) == SeqCp(d, from[j], Spare(j))
      Replaced(d, j) == SeqRm(SeqCp(SeqRm(d, j), Spare(j), j), Spare(j))
  IN FoldLeft(Replaced, FoldLeft(Lent, c, order), order)

SharedCell(seqs) == IF seqs = {} THEN FreeCell ELSE [pos |-> 1, seqs |-> seqs, tok |-> -2]
SharedCaches == {[cells |-> [k \in 0..1 |-> SharedCell(s[k])], head |-> 1] :
                   s \in [0..1 -> SUBSET (0..2)]}

\* SeqCpAll and SeqMove are those loops, also where a sequence is the only one of a cell,
\* is picked by several, by none, or by itself (whisper.cpp:7146-7149, 7283-7298).
ASSUME CopiesInOne ==
  \A c \in SharedCaches :
    /\ \A n \in 0..2 : SeqCpAll(c, 0, 1..n) = CopyLoop(c, [j \in 1..n |-> j])
    /\ \A r \in SUBSET (0..2) \ {{}} : \A from \in [r -> r] : SeqMove(c, from) = MoveLoop(c, from)

-------------------------------------------------------------------------------
(***************************************************************************)
(* Results of up to five tokens: texts, the end, a timestamp of the start, *)
(* which cuts nothing, and two others.                                     *)
(***************************************************************************)
SomeTokens == {[id |-> -3, tid |-> 1], [id |-> -2, tid |-> 4], [id |-> -1, tid |-> 2],
               [id |-> 0, tid |-> 0], [id |-> 1, tid |-> 1], [id |-> 3, tid |-> 3]}
Results == UNION {[1..n -> SomeTokens] : n \in 0..5}

\* The segments of a window are those the timestamps mark, and hold its text, all of it
\* and in its order: none is lost where timestamps follow each other, or at the end
\* (whisper.cpp:7582-7689).
ASSUME SegmentsAsMarked ==
  \A toks \in Results :
    LET segs == Segments(toks, 3000)
    IN /\ segs = Reference(toks, 3000)
       /\ FoldLeft(LAMBDA text, seg : text \o seg.text, << >>, segs) = TextOf(toks)

\* While timestamps do not go back, neither do the segments (whisper.cpp:7582-7686).
ASSUME SegmentsInOrder ==
  \A toks \in Results :
    LET segs == Segments(toks, 3000)
        times == SelectSeq([k \in DOMAIN toks |-> [toks[k] EXCEPT !.id = IF k = 1 THEN 1 ELSE @]], Cuts)
    IN (\A k \in 2..Len(times) : times[k - 1].tid <= times[k].tid)
         => \A k \in 2..Len(segs) : segs[k - 1].t1 <= segs[k].t0 /\ segs[k].t0 <= segs[k].t1
===============================================================================
