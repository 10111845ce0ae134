----------------------------- MODULE WhisperKvCache -----------------------------
(***************************************************************************)
(* The self-attention cache of whisper.cpp (whisper_kv_cache): cells that  *)
(* hold the keys and values of one token each.  A cell belongs to a set of *)
(* sequences; the decoders of a window share the cells of the prompt, and  *)
(* those of a common past.  pos is -1 in a free cell.  tok is a history    *)
(* variable: the token whose keys and values the cell holds.               *)
(***************************************************************************)
EXTENDS Integers, Sequences, FiniteSets

FreeCell == [pos |-> -1, seqs |-> {}, tok |-> 0]

\* whisper_kv_cache_init
NewCache(size) == [cells |-> [i \in 0..(size - 1) |-> FreeCell], head |-> 0]

Size(c) == Cardinality(DOMAIN c.cells)
Cells(c) == DOMAIN c.cells

-------------------------------------------------------------------------------
(***************************************************************************)
(* Plausible bugs.                                                         *)
(***************************************************************************)

\* Leaves the cells of the last decoding where they are.
Clear_HeadOnly(c) == [c EXCEPT !.head = 0]

\* Takes the sequence out of no cell that it shares.
SeqRm_KeepsShared(c, s) ==
  [c EXCEPT !.cells = [i \in Cells(c) |-> IF c.cells[i].seqs = {s} THEN FreeCell
                                                                    ELSE c.cells[i]]]

-------------------------------------------------------------------------------
\* whisper_kv_cache_clear
Clear(c) == [cells |-> [i \in Cells(c) |-> FreeCell], head |-> 0]

\* The windows of n free cells.
Slots(c, n) ==
  {h \in Cells(c) : \A i \in 0..(n - 1) : (h + i) \in Cells(c) /\ c.cells[h + i].pos < 0}

\* whisper_kv_cache_find_slot takes the first from head on, and then from 0.
HasSlot(c, n) == Slots(c, n) # {}

FindSlot(c, n) ==
  LET Ahead == {h \in Slots(c, n) : h >= c.head}
      From == IF Ahead = {} THEN Slots(c, n) ELSE Ahead
  IN CHOOSE h \in From : \A g \in From : h <= g

\* The batch, a sequence of [pos, seq, tok], goes to the slot that is found.
Store(c, batch) ==
  LET h == FindSlot(c, Len(batch))
      At(i) == batch[i - h + 1]
  IN [cells |-> [i \in Cells(c) |->
                   IF i \in h..(h + Len(batch) - 1)
                     THEN [pos |-> At(i).pos, seqs |-> c.cells[i].seqs \cup {At(i).seq}, tok |-> At(i).tok]
                     ELSE c.cells[i]],
      head |-> h]

\* whisper_kv_cache_seq_rm for all positions.
Without(cell, s) ==
  IF cell.seqs = {s} THEN FreeCell ELSE [cell EXCEPT !.seqs = @ \ {s}]

SeqRm(c, s) ==
  LET Freed == {i \in Cells(c) : c.cells[i].seqs = {s}}
  IN [cells |-> [i \in Cells(c) |-> Without(c.cells[i], s)],
      head |-> IF Freed = {} THEN c.head
               ELSE CHOOSE i \in Freed : \A j \in Freed : i <= j]

\* whisper_kv_cache_seq_cp for all positions, to one sequence after the other.
SeqCpAll(c, src, dsts) ==
  [cells |-> [i \in Cells(c) |->
                IF src \in c.cells[i].seqs
                  THEN [c.cells[i] EXCEPT !.seqs = @ \cup dsts] ELSE c.cells[i]],
   head |-> IF dsts = {} THEN c.head ELSE 0]

SeqCp(c, src, dst) == SeqCpAll(c, src, {dst})

\* Each sequence j of from gets the cells of sequence from[j] in place of its own: what
\* is left of copying all of them to spare sequences first, and then back.
Owners(seqs, from) == (seqs \ DOMAIN from) \cup {j \in DOMAIN from : from[j] \in seqs}

SeqMove(c, from) ==
  [cells |-> [i \in Cells(c) |->
                LET seqs == Owners(c.cells[i].seqs, from)
                IN IF seqs = {} THEN FreeCell ELSE [c.cells[i] EXCEPT !.seqs = seqs]],
   head |-> 0]

\* whisper_kv_cache_cell_max: one past the last cell in use; the first one is not
\* looked at.
CellMax(c) ==
  LET Used == {i \in Cells(c) \ {0} : c.cells[i].pos >= 0 /\ c.cells[i].seqs # {}}
  IN IF Used = {} THEN 1 ELSE 1 + CHOOSE i \in Used : \A j \in Used : j <= i

-------------------------------------------------------------------------------
\* What the token of sequence s at position p attends to, of the first n cells:
\* the mask of whisper_decode_internal.
Attended(c, n, s, p) ==
  {i \in Cells(c) : i < n /\ s \in c.cells[i].seqs /\ c.cells[i].pos <= p}

\* What the cache knows of sequence s.
History(c, s) == {<<c.cells[i].pos, c.cells[i].tok>> : i \in {i \in Cells(c) : s \in c.cells[i].seqs}}

\* A cell is free if and only if it belongs to no sequence.
Sound(c) == \A i \in Cells(c) : c.cells[i].pos >= 0 <=> c.cells[i].seqs # {}
===============================================================================
