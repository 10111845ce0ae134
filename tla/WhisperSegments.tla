---------------------------- MODULE WhisperSegments ----------------------------
(***************************************************************************)
(* How whisper_full_with_state cuts the result of a window into segments.  *)
(* A token is [id, tid]: its number as in WhisperFull, and the timestamp   *)
(* that was likeliest when it was sampled.  Times are in frames from the   *)
(* start of the window.  Special tokens are not printed, and single_segment*)
(* is off, as the app leaves them.                                         *)
(***************************************************************************)
EXTENDS Integers, SequencesExt

IsText(tok) == tok.id < -1
Cuts(tok) == tok.id > 0

\* The texts of a sequence of tokens.
TextOf(toks) ==
  FoldLeft(LAMBDA text, tok : IF IsText(tok) THEN Append(text, tok.id) ELSE text, << >>, toks)

-------------------------------------------------------------------------------
\* The variables of the loop: text, the token i0 and the time t0 the next segment
\* starts with; and whether the token before was a timestamp that cut.
Start(toks) == [text |-> << >>, i0 |-> 1, t0 |-> 2 * toks[1].tid, cut |-> FALSE, segs |-> << >>]

Push(toks, s, t1, last) ==
  IF s.text = << >> THEN s.segs
  ELSE Append(s.segs, [t0 |-> s.t0, t1 |-> t1, text |-> s.text, toks |-> SubSeq(toks, s.i0, last)])

\* A timestamp ends a segment if there is text, and those right behind it belong to
\* none.
Loop(toks, s, i) ==
  CASE IsText(toks[i])               -> [s EXCEPT !.text = Append(@, toks[i].id), !.cut = FALSE]
    [] Cuts(toks[i]) /\ s.cut        -> [s EXCEPT !.i0 = i + 1]
    [] Cuts(toks[i]) /\ ~s.cut       -> [text |-> << >>, i0 |-> i + 1, t0 |-> 2 * toks[i].tid, cut |-> TRUE,
                                         segs |-> Push(toks, s, 2 * toks[i].tid, i)]
    [] OTHER                         -> [s EXCEPT !.cut = FALSE]

\* What is left at the end is a segment up to where the next window starts.
Segments(toks, seekDelta) ==
  IF toks = << >> THEN << >>
  ELSE LET s == FoldLeft(LAMBDA x, i : Loop(toks, x, i), Start(toks), [i \in DOMAIN toks |-> i])
       IN Push(toks, s, seekDelta, Len(toks))

-------------------------------------------------------------------------------
(***************************************************************************)
(* What the segments are, without a loop.                                  *)
(***************************************************************************)

\* The timestamps at which a segment may end: not those behind another one.
Marks(toks) == {i \in DOMAIN toks : Cuts(toks[i]) /\ (i = 1 \/ ~Cuts(toks[i - 1]))}

\* A segment is what lies between one mark, with all the timestamps that follow it,
\* and the next, or the end; and has a text.
Between(toks, i, j) ==
  /\ i <= j
  /\ i = 1 \/ (Cuts(toks[i - 1]) /\ ~Cuts(toks[i]))
  /\ j \in Marks(toks) \/ (j = Len(toks) /\ ~Cuts(toks[j]))
  /\ \A k \in i..(j - 1) : ~Cuts(toks[k])
  /\ \E k \in i..j : IsText(toks[k])

\* The start is the time of the mark before, not that of the timestamp it starts
\* with.
StartTime(toks, i) ==
  LET Before == {k \in Marks(toks) : k < i}
  IN 2 * toks[IF Before = {} THEN 1 ELSE CHOOSE k \in Before : \A l \in Before : l <= k].tid

SegmentOf(toks, seekDelta, i, j) ==
  [t0 |-> StartTime(toks, i),
   t1 |-> IF j \in Marks(toks) THEN 2 * toks[j].tid ELSE seekDelta,
   text |-> TextOf(SubSeq(toks, i, j)),
   toks |-> SubSeq(toks, i, j)]

\* The segments in their order.
AllBetween(toks) == {p \in (DOMAIN toks) \X (DOMAIN toks) : Between(toks, p[1], p[2])}

Reference(toks, seekDelta) ==
  LET order == SetToSortSeq(AllBetween(toks), LAMBDA p, q : p[1] < q[1])
  IN [k \in DOMAIN order |-> SegmentOf(toks, seekDelta, order[k][1], order[k][2])]
===============================================================================
