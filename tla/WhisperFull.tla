------------------------------ MODULE WhisperFull ------------------------------
(***************************************************************************)
(* whisper_full_with_state of whisper.cpp: calls one after the other on    *)
(* one state.  The audio is decoded window by window; a window is decoded  *)
(* at rising temperatures until the best decoder's result is accepted, by  *)
(* one or several decoders that share the cache of their prompt; the best  *)
(* decoder's last timestamp says where the next window starts.             *)
(* Frames are of 10 ms.  A token is a number: text below -1, the end of    *)
(* text -1, and a timestamp 2k frames into the window k >= 0.  Which of    *)
(* the allowed tokens is sampled, and which scores, entropies and          *)
(* no-speech probabilities come of it, is left open.                       *)
(***************************************************************************)
EXTENDS WhisperKvCache, SequencesExt

CONSTANTS TextCtx,        \* n_text_ctx: positions the model knows
          PaddedCtx,      \* that, padded to the cache's granularity
          Text,           \* the text tokens
          Stamps,         \* the timestamps
          MaxInitialStamp,
          EntropyTail,    \* sequences longer than this may fail for their entropy
          Temperatures,   \* in tenths
          BestOf, BeamSize,
          MaxDecoders,    \* WHISPER_MAX_DECODERS
          Lengths,        \* of the audio, in frames
          Params          \* [beam, noTimestamps, noContext : BOOLEAN]

ASSUME WhisperAssumption ==
  /\ Text \subseteq {x \in Int : x < -1} /\ Stamps \subseteq Nat
  /\ MaxDecoders \in Nat /\ BestOf \in 1..MaxDecoders /\ BeamSize \in 1..MaxDecoders
  /\ TextCtx \in Nat /\ TextCtx >= 10 /\ PaddedCtx \in Nat /\ PaddedCtx >= TextCtx
  /\ Temperatures \in Seq(Nat) \ {<< >>} /\ Lengths \subseteq Nat

Eot == -1
DeltaMin == 10
ChunkFrames == 3000
NMax == TextCtx \div 2 - 4     \* n_max: tokens sampled in a window at most

VARIABLES pc, params,
          melLen,         \* frames of the spectrogram the state holds
          seek, it, i, best,
          past,           \* length of prompt_past
          take,           \* how much of it the prompt has
          decoders,
          fresh,          \* history: the decoders that were reset in this window
          kv,             \* kv_self
          kvDecoders,     \* kv_self_n_dec
          ret             \* the code the last call returned, or 1

vars == <<pc, params, melLen, seek, it, i, best, past, take, decoders, fresh, kv, kvDecoders, ret>>
call == <<params, melLen>>
cache == <<kv, kvDecoders>>

NoDecoder == [toks |-> << >>, seekDelta |-> ChunkFrames, hasTs |-> FALSE,
              resultLen |-> 0, status |-> "active"]

Places == {"idle", "window", "temperature", "sample", "decode", "rank", "output", "gone"}

DecoderIds == 0..(MaxDecoders - 1)

\* n_decoders_cur
NDecoders == IF Temperatures[it] > 0 THEN BestOf ELSE IF params.beam THEN BeamSize ELSE 1

Running == {j \in 0..(NDecoders - 1) : decoders[j].status = "active"}

\* prompt_init: sot, language and task, and the "no timestamps" token.
PromptInit == IF params.noTimestamps THEN 4 ELSE 3

\* Behind the token that announces them, t tokens of the past come first.
PromptLen(t) == (IF t > 0 THEN 1 + t ELSE 0) + PromptInit
PromptToken == -100

Init ==
  /\ pc = "idle" /\ params \in Params
  /\ melLen = 0 /\ seek = 0 /\ it = 1 /\ i = 0 /\ best = 0
  /\ past = 0 /\ take = 0
  /\ decoders = [j \in DecoderIds |-> NoDecoder] /\ fresh = {}
  /\ kv = NewCache(PaddedCtx) /\ kvDecoders = 1
  /\ ret = 1

\* The variables of the call go out of scope.
Return(code) ==
  /\ ret' = code
  /\ pc' = "idle"
  /\ seek' = 0 /\ it' = 1 /\ i' = 0 /\ best' = 0 /\ take' = 0
  /\ UNCHANGED call

-------------------------------------------------------------------------------
(***************************************************************************)
(* Plausible bugs.                                                         *)
(***************************************************************************)

\* Sampling goes on to the last token of the window.
Looping_Ignored(d) == FALSE

\* A timestamp at the very start of the window counts.
IsStamp_FromZero(tok) == tok >= 0

\* No room for what the decoders do not share.
CacheFactor_One(n) == 1

\* The whole past conditions the window.
Taken_All == IF Temperatures[it] >= 5 THEN 0 ELSE past

\* The best decoder of the window before is kept.
FirstBest_Kept == best

\* A decoder takes over cells that the one they came from has already given up.
Moved_InPlace(picks) ==
  FoldLeft(LAMBDA c, j : IF picks[j].from = j THEN c ELSE SeqCp(SeqRm(c, j), picks[j].from, j),
           kv, SetToSortSeq(Running, LAMBDA a, b : a < b))

-------------------------------------------------------------------------------
(***************************************************************************)
(* whisper_process_logits: the tokens that are not suppressed.             *)
(***************************************************************************)
Allowed(d) ==
  LET n == Len(d.toks)
      lastStamp == n > 0 /\ d.toks[n] >= 0
      pairDone == n < 2 \/ d.toks[n - 1] >= 0
      texts == IF lastStamp /\ ~pairDone THEN {} ELSE Text
      ends == IF n = 0 THEN {} ELSE {Eot}
      stamps == {s \in Stamps :
                   /\ ~params.noTimestamps
                   /\ ~(lastStamp /\ pairDone)
                   /\ n = 0 => s <= MaxInitialStamp
                   /\ d.hasTs => s >= d.seekDelta \div 2}
  IN texts \cup ends \cup stamps

-------------------------------------------------------------------------------
(***************************************************************************)
(* What a decoder makes of its newest token.                               *)
(***************************************************************************)
IsStamp(tok) == tok > 0

AtEnd(d) == seek + d.seekDelta + DeltaMin >= melLen

\* A window that ends in a loop.
Looping(d) == i = NMax - 1 /\ (d.resultLen = 0 \/ d.seekDelta < ChunkFrames \div 2)

\* The sliding window moves to a new timestamp, never back.
SeeStamp(d, tok) ==
  IF ~IsStamp(tok) THEN d
  ELSE IF d.hasTs /\ d.seekDelta > 2 * tok /\ d.resultLen < i
    THEN [d EXCEPT !.status = "failed"]
  ELSE [d EXCEPT !.seekDelta = 2 * tok, !.resultLen = i + 1, !.hasTs = TRUE]

EndSegment(d) ==
  IF params.noTimestamps
    THEN [d EXCEPT !.resultLen = i + 1, !.seekDelta = ChunkFrames, !.status = "completed"]
  ELSE IF d.resultLen > 0 THEN [d EXCEPT !.status = "completed"]
  ELSE IF AtEnd(d) THEN [d EXCEPT !.resultLen = i + 1, !.status = "completed"]
  ELSE [d EXCEPT !.status = "failed"]

Update(d) ==
  LET tok == d.toks[Len(d.toks)]
      s == SeeStamp(d, tok)
  IN IF s.status = "failed" THEN s
     ELSE IF tok = Eot \/ (s.hasTs /\ AtEnd(s)) THEN EndSegment(s)
     ELSE IF Looping(s) THEN [s EXCEPT !.status = "failed"]
     ELSE s

Extend(d, tok) == [d EXCEPT !.toks = Append(@, tok)]

-------------------------------------------------------------------------------
(***************************************************************************)
(* A call.                                                                 *)
(***************************************************************************)

\* Without samples the spectrogram of the call before is kept.  Audio of less than
\* 100 ms is not looked at.
Call(p, len) ==
  LET mel == IF len > 0 THEN len ELSE melLen
      Short == mel < DeltaMin
  IN /\ pc = "idle"
     /\ params' = p /\ melLen' = mel
     /\ pc' = IF Short THEN "idle" ELSE "window"
     /\ ret' = IF Short THEN 0 ELSE 1
     /\ past' = IF p.noContext /\ ~Short THEN 0 ELSE past
     /\ seek' = IF Short THEN seek ELSE 0
     /\ UNCHANGED <<it, i, best, take, decoders, fresh, cache>>

Finish ==
  /\ pc = "window"
  /\ seek + DeltaMin >= melLen
  /\ Return(0)
  /\ UNCHANGED <<past, decoders, fresh, cache>>

\* best_decoder_id, which every window sets anew.
FirstBest == 0

\* The window is encoded; near the end of the audio the past is forgotten.  What the
\* decoders hold of an earlier window is left out here: they are reset before they are
\* used, the best one as well (BestOfThisWindow).
Encode ==
  /\ pc = "window"
  /\ seek + DeltaMin < melLen
  /\ past' = IF seek > 0 /\ seek + 500 >= melLen THEN 0 ELSE past
  /\ best' = FirstBest
  /\ it' = 1
  /\ decoders' = [j \in DecoderIds |-> NoDecoder] /\ fresh' = {}
  /\ pc' = "temperature"
  /\ UNCHANGED <<call, seek, i, take, cache, ret>>

EncodeFails ==
  /\ pc = "window"
  /\ seek + DeltaMin < melLen
  /\ Return(-6)
  /\ UNCHANGED <<past, decoders, fresh, cache>>

-------------------------------------------------------------------------------
(***************************************************************************)
(* A temperature: the decoders start anew from the prompt.                 *)
(***************************************************************************)

\* n_take: how much of the past conditions the window.
Taken ==
  IF Temperatures[it] >= 5 THEN 0
  ELSE IF past < TextCtx \div 2 THEN past ELSE TextCtx \div 2

Reset == [j \in DecoderIds |-> IF j < NDecoders THEN NoDecoder ELSE decoders[j]]

CacheFactor(n) == IF n > 1 THEN n + 2 ELSE 1

\* A larger cache if there are more decoders than ever before.
EmptyCache == IF kvDecoders < NDecoders THEN NewCache(PaddedCtx * CacheFactor(NDecoders))
                                        ELSE Clear(kv)

Prompt == [k \in 1..PromptLen(Taken) |-> [pos |-> k - 1, seq |-> 0, tok |-> PromptToken]]

Prepare ==
  /\ pc = "temperature"
  /\ decoders' = Reset
  /\ fresh' = fresh \cup 0..(NDecoders - 1)
  /\ kvDecoders' = IF kvDecoders < NDecoders THEN NDecoders ELSE kvDecoders
  /\ UNCHANGED past

\* The prompt is computed, and every decoder shares its cells.
StartTemperature ==
  /\ Prepare
  /\ HasSlot(EmptyCache, PromptLen(Taken))
  /\ kv' = SeqCpAll(Store(EmptyCache, Prompt), 0, 1..(NDecoders - 1))
  /\ take' = Taken
  /\ i' = 0
  /\ pc' = "sample"
  /\ UNCHANGED <<call, seek, it, best, ret>>

\* The prompt finds no slot, or its computation fails.  A search without success
\* moves cache.head too, here and in DecodeFails; the call then fails, and before the
\* cache is used again it is cleared or made anew, which resets the head.
PromptFails ==
  /\ Prepare
  /\ \/ kv' = EmptyCache
     \/ HasSlot(EmptyCache, PromptLen(Taken)) /\ kv' = Store(EmptyCache, Prompt)
  /\ Return(-8)

\* The larger cache cannot be had: the state is freed, under a context that still
\* points to it and cannot be used any more.
CacheFails ==
  /\ pc = "temperature"
  /\ kvDecoders < NDecoders
  /\ pc' = "gone" /\ ret' = -7
  /\ UNCHANGED <<call, seek, it, i, best, past, take, decoders, fresh, cache>>

-------------------------------------------------------------------------------
(***************************************************************************)
(* The decoders of a window.                                               *)
(***************************************************************************)

\* All the running decoders have sampled: they go on if some has not ended.
Sampled(new) ==
  /\ decoders' = [j \in DecoderIds |-> IF j \in Running THEN Update(new[j]) ELSE decoders[j]]
  /\ pc' = IF \A j \in Running : decoders'[j].status # "active" THEN "rank" ELSE "decode"
  /\ UNCHANGED <<call, seek, it, i, best, past, take, fresh, kvDecoders, ret>>

\* Each decoder still running samples a token of its own.
Sample ==
  /\ pc = "sample" /\ ~params.beam
  /\ \E tok \in [Running -> Text \cup {Eot} \cup Stamps] :
       /\ \A j \in Running : tok[j] \in Allowed(decoders[j])
       /\ Sampled([j \in Running |-> Extend(decoders[j], tok[j])])
  /\ UNCHANGED kv

\* The cells follow the sequences: each decoder that runs gets those of the one it
\* picked.
Moved(picks) == SeqMove(kv, [j \in Running |-> picks[j].from])

\* Beam search: each picks some candidate, the sequence of a running decoder and a
\* token for it.
Candidates == UNION {{[from |-> j, tok |-> t] : t \in Allowed(decoders[j])} : j \in Running}

Beam ==
  /\ pc = "sample" /\ params.beam
  /\ \E picks \in [Running -> Candidates] :
       /\ Sampled([j \in Running |->
                    LET from == decoders[picks[j].from]
                    IN Extend([decoders[j] EXCEPT !.toks = from.toks, !.resultLen = from.resultLen,
                                 !.seekDelta = from.seekDelta, !.hasTs = from.hasTs],
                              picks[j].tok)])
       /\ kv' = Moved(picks)

\* The newest token of every running decoder, all at the same position.
Order == CHOOSE f \in [1..Cardinality(Running) -> Running] :
           \A k, l \in DOMAIN f : k < l => f[k] < f[l]

Batch == [k \in 1..Cardinality(Running) |->
            [pos |-> PromptLen(take) + i, seq |-> Order[k], tok |-> Last(decoders[Order[k]].toks)]]

Decode ==
  /\ pc = "decode"
  /\ HasSlot(kv, Len(Batch))
  /\ kv' = Store(kv, Batch)
  /\ i' = i + 1
  /\ pc' = IF i + 1 = NMax THEN "rank" ELSE "sample"
  /\ UNCHANGED <<call, seek, it, best, past, take, decoders, fresh, kvDecoders, ret>>

\* The batch finds no slot, or its computation fails.
DecodeFails ==
  /\ pc = "decode"
  /\ \/ kv' = kv
     \/ HasSlot(kv, Len(Batch)) /\ kv' = Store(kv, Batch)
  /\ Return(-9)
  /\ UNCHANGED <<past, decoders, fresh, kvDecoders>>

-------------------------------------------------------------------------------
(***************************************************************************)
(* The result of a window.                                                 *)
(***************************************************************************)
Ended == {j \in 0..(NDecoders - 1) : decoders[j].status # "failed"}

\* What has not failed is cut to its result; long repetitive results fail.
Ranked(repetitive) ==
  [j \in DecoderIds |->
     IF j \notin Ended THEN decoders[j]
     ELSE [decoders[j] EXCEPT !.toks = SubSeq(@, 1, decoders[j].resultLen),
                              !.status = IF j \in repetitive THEN "failed" ELSE @]]

\* Any of the others that has a result may have the best score; if there is none,
\* the best of a lower temperature stays.
Rank ==
  /\ pc = "rank"
  /\ \E repetitive \in SUBSET {j \in Ended : decoders[j].resultLen > EntropyTail}, b \in DecoderIds,
        improbable \in BOOLEAN :
       LET Scored == {j \in Ended \ repetitive : decoders[j].resultLen > 0}
           Fallback == /\ it < Len(Temperatures)
                       /\ Ranked(repetitive)[b].status = "failed" \/ improbable
       IN /\ IF Scored = {} THEN b = best ELSE b \in Scored
          /\ best' = b
          /\ decoders' = Ranked(repetitive)
          /\ it' = IF Fallback THEN it + 1 ELSE it
          /\ pc' = IF Fallback THEN "temperature" ELSE "output"
  /\ UNCHANGED <<call, seek, i, past, take, fresh, cache, ret>>

\* The result of the best decoder becomes the past, unless it is no speech.  A
\* window that ends in a single timestamp has been said completely.
SingleStampEnding(toks) ==
  Len(toks) > 1 /\ toks[Len(toks) - 1] < 0 /\ IsStamp(toks[Len(toks)])

Output ==
  LET d == decoders[best]
      rest == IF melLen - seek < ChunkFrames THEN melLen - seek ELSE ChunkFrames
  IN /\ pc = "output"
     /\ \E noSpeech \in BOOLEAN : past' = take + IF noSpeech THEN 0 ELSE d.resultLen
     /\ seek' = seek + IF SingleStampEnding(d.toks) THEN rest ELSE d.seekDelta
     /\ pc' = "window"
     /\ UNCHANGED <<call, it, i, best, take, decoders, fresh, cache, ret>>

-------------------------------------------------------------------------------
Step ==
  \/ Finish \/ Encode \/ EncodeFails
  \/ StartTemperature \/ PromptFails \/ CacheFails
  \/ Sample \/ Beam \/ Decode \/ DecodeFails
  \/ Rank \/ Output

\* What a call on a freed state does is not defined; there is no other step.
Crashed == pc = "gone" /\ UNCHANGED vars

Next ==
  \/ Step
  \/ \E p \in Params, len \in Lengths : Call(p, len)
  \/ Crashed

Spec == Init /\ [][Next]_vars

\* A call goes on as long as it can: it runs on the thread that made it.  There is a
\* step wherever pc is inside of a call (TLC finds no deadlock), and it moves pc.
InCall == pc \notin {"idle", "gone"}

FairSpec == Spec /\ WF_pc(InCall /\ pc' \in Places)

-------------------------------------------------------------------------------
(***************************************************************************)
(* Properties.                                                             *)
(***************************************************************************)

\* The values the variables take, among them a past that the prompt and one result
\* can hold.
TypeOK ==
  /\ pc \in Places
  /\ params \in Params
  /\ melLen \in Nat /\ seek \in Nat
  /\ it \in 1..Len(Temperatures) /\ i \in 0..NMax /\ best \in DecoderIds
  /\ take \in 0..(TextCtx \div 2) /\ past \in 0..(TextCtx \div 2 + NMax)
  /\ \A j \in DecoderIds :
       /\ Range(decoders[j].toks) \subseteq Text \cup {Eot} \cup Stamps
       /\ decoders[j].resultLen \in 0..Len(decoders[j].toks)
       /\ decoders[j].status \in {"active", "completed", "failed"}
  /\ Sound(kv) /\ kv.head \in Cells(kv)
  /\ ret \in {1, 0, -6, -7, -8, -9}

\* What a running decoder attends to is the prompt and its own tokens decoded so
\* far, each at its position and once, whatever the beam search moved between
\* decoders and in whichever cells the batches were stored (whisper.cpp:7146-7163,
\* 7283-7298, 7413-7440).
CacheCoherent ==
  pc \in {"sample", "decode", "rank"} =>
    \A j \in Running :
      LET n == PromptLen(take)
          own == SubSeq(decoders[j].toks, 1, i)
          seen == Attended(kv, CellMax(kv), j, n + Len(own) - 1)
      IN /\ Cardinality(seen) = n + Len(own)
         /\ {<<kv.cells[c].pos, kv.cells[c].tok>> : c \in seen}
              = {<<p, PromptToken>> : p \in 0..(n - 1)}
                  \cup {<<n + k - 1, own[k]>> : k \in DOMAIN own}

\* No token is decoded at a position the model does not know: half of the context
\* for the past, the rest for the prompt's other tokens and what is sampled
\* (whisper.cpp:7087 and 7166).  It fits exactly: with the "no timestamps" token, the
\* last one sampled would not, and is never decoded (whisper.cpp:7383).
PositionInContext == pc = "decode" => PromptLen(take) + i < TextCtx

\* The cache, larger than what the decoders need, always has a slot in one piece for
\* the next batch (whisper.cpp:7109-7115).
SlotFound == pc = "decode" => HasSlot(kv, Cardinality(Running))

\* The result that is output was decoded from the window it is output for, also when
\* no decoder of the last temperature has any (whisper.cpp:7027 and 7557).
BestOfThisWindow == pc \in {"rank", "output"} => best \in fresh

\* Every call comes to an end: each window moves on (whisper.cpp:7713).
CallEnds == InCall ~> ~InCall
===============================================================================
