--------------------------- MODULE WhisperFullProofs ---------------------------
(***************************************************************************)
(* Proofs about WhisperFull, for every size of the model's context and of  *)
(* its cache, every number of decoders, every list of temperatures and all *)
(* parameters: no token is decoded at a position the model does not know,  *)
(* a decoder attends to the prompt and its own tokens and to nothing else, *)
(* the next batch always finds a slot, and no result is output that was    *)
(* decoded from another window.                                            *)
(***************************************************************************)
EXTENDS WhisperFull, FiniteSetTheorems, WellFoundedInduction, TLAPS

Token == Text \cup {Eot} \cup Stamps

DecoderType == [toks : Seq(Token), seekDelta : Nat, hasTs : BOOLEAN, resultLen : Nat,
                status : {"active", "completed", "failed"}]

Whole(d) == d \in DecoderType /\ d.resultLen <= Len(d.toks) /\ Len(d.toks) <= NMax
DecodersWhole == \A j \in DecoderIds : Whole(decoders[j])

\* The tokens a decoder has when n have been sampled, and no result without
\* timestamps before it ends.
Sampling(d, n) ==
  /\ Len(d.toks) = n
  /\ params.noTimestamps => d.resultLen = 0

(***************************************************************************)
(* The context is filled exactly, so PositionInContext depends on how a    *)
(* window ends: a decoder that goes on after the last token sampled has a  *)
(* result, and without timestamps there is none before the end.            *)
(***************************************************************************)
Sizes ==
  /\ past \in Nat
  /\ pc \in {"sample", "decode", "rank", "output"} => take \in 0..(TextCtx \div 2)
  /\ pc \in {"sample", "decode"} => i \in 0..(NMax - 1)
  /\ pc \in {"sample", "rank"} => \A j \in Running : Sampling(decoders[j], i)
  /\ pc = "decode" => \A j \in Running : Sampling(decoders[j], i + 1)
  /\ pc = "decode" /\ i = NMax - 1 => ~params.noTimestamps

(***************************************************************************)
(* best_decoder_id may outlive the temperature it was found at, but starts *)
(* as 0 in every window, and decoder 0 is one of those of any temperature. *)
(***************************************************************************)
Bests ==
  /\ best \in DecoderIds
  /\ pc = "temperature" => best \in fresh \cup {0}
  /\ pc \in {"sample", "decode", "rank", "output"} => best \in fresh
  /\ pc \in {"sample", "decode", "rank"} => 0..(NDecoders - 1) \subseteq fresh

Inv == DecodersWhole /\ Sizes /\ Bests

-------------------------------------------------------------------------------
LEMMA Constants ==
  /\ TextCtx \div 2 \in Nat /\ NMax \in Nat \ {0} /\ 2 * (TextCtx \div 2) <= TextCtx
  /\ NMax = TextCtx \div 2 - 4
  /\ NDecoders \in 1..MaxDecoders
  /\ 0 \in 0..(NDecoders - 1) /\ 0..(NDecoders - 1) \subseteq DecoderIds
  BY WhisperAssumption DEF NMax, NDecoders, DecoderIds

LEMMA NoDecoderWhole == Whole(NoDecoder) /\ NoDecoder.toks = << >> /\ NoDecoder.resultLen = 0
  <1>1. NoDecoder.toks \in Seq(Token) /\ Len(NoDecoder.toks) = 0 BY DEF NoDecoder
  <1>2. QED BY <1>1, Constants DEF NoDecoder, Whole, DecoderType, ChunkFrames

LEMMA Tokens == Token \in SUBSET Int
  BY WhisperAssumption DEF Token, Eot

LEMMA RunningIds == Running \subseteq DecoderIds
  BY Constants DEF Running

LEMMA InvInit == Init => Inv
  BY NoDecoderWhole, Constants DEF Init, Inv, DecodersWhole, Sizes, Bests, DecoderIds

-------------------------------------------------------------------------------
\* One more token.
LEMMA Extended ==
  ASSUME NEW d \in DecoderType, NEW tok \in Token
  PROVE  LET e == Extend(d, tok)
         IN /\ e \in DecoderType
            /\ e.toks = Append(d.toks, tok) /\ Len(e.toks) = Len(d.toks) + 1
            /\ e.toks[Len(e.toks)] = tok
            /\ e.resultLen = d.resultLen /\ e.status = d.status
  <1> DEFINE a == Append(d.toks, tok)
  <1>1. d.toks \in Seq(Token) BY DEF DecoderType
  <1>2. a \in Seq(Token) /\ Len(a) = Len(d.toks) + 1 /\ a[Len(a)] = tok BY <1>1
  <1> HIDE DEF a
  <1>3. \A t \in Seq(Token) : LET e == [d EXCEPT !.toks = t]
                            IN /\ e \in DecoderType /\ e.toks = t
                               /\ e.resultLen = d.resultLen /\ e.status = d.status
    BY DEF DecoderType
  <1>4. Extend(d, tok) = [d EXCEPT !.toks = a] BY DEF Extend, a
  <1>5. QED BY <1>2, <1>3, <1>4 DEF a

\* The updates of a decoder.
Updates(e, d, n, s) ==
  e \in DecoderType /\ e.toks = d.toks /\ e.resultLen = n /\ e.status = s

LEMMA StatusField ==
  ASSUME NEW d \in DecoderType, NEW s \in {"active", "completed", "failed"}
  PROVE  Updates([d EXCEPT !.status = s], d, d.resultLen, s)
  BY DEF DecoderType, Updates

LEMMA StampFields ==
  ASSUME NEW d \in DecoderType, NEW n \in Nat, NEW k \in Nat
  PROVE  Updates([d EXCEPT !.seekDelta = k, !.resultLen = n, !.hasTs = TRUE], d, n, d.status)
  BY DEF DecoderType, Updates

LEMMA EndFields ==
  ASSUME NEW d \in DecoderType, NEW n \in Nat, NEW k \in Nat,
         NEW s \in {"active", "completed", "failed"}
  PROVE  Updates([d EXCEPT !.resultLen = n, !.seekDelta = k, !.status = s], d, n, s)
  BY DEF DecoderType, Updates

LEMMA LengthFields ==
  ASSUME NEW d \in DecoderType, NEW n \in Nat, NEW s \in {"active", "completed", "failed"}
  PROVE  Updates([d EXCEPT !.resultLen = n, !.status = s], d, n, s)
  BY DEF DecoderType, Updates

LEMMA Seen ==
  ASSUME NEW d \in DecoderType, i \in Nat, NEW tok \in Int
  PROVE  LET s == SeeStamp(d, tok)
         IN /\ s \in DecoderType /\ s.toks = d.toks
            /\ s.resultLen \in {d.resultLen, i + 1}
            /\ ~IsStamp(tok) => s = d
  <1>1. i + 1 \in Nat /\ (IsStamp(tok) => 2 * tok \in Nat) BY DEF IsStamp
  <1>2. Updates([d EXCEPT !.status = "failed"], d, d.resultLen, "failed")
    BY StatusField
  <1>3. IsStamp(tok) =>
          Updates([d EXCEPT !.seekDelta = 2 * tok, !.resultLen = i + 1, !.hasTs = TRUE],
                  d, i + 1, d.status)
    BY <1>1, StampFields
  <1>4. QED BY <1>2, <1>3, Zenon DEF SeeStamp, Updates

LEMMA SegmentEnded ==
  ASSUME NEW d \in DecoderType, i \in Nat
  PROVE  LET s == EndSegment(d)
         IN /\ s \in DecoderType /\ s.toks = d.toks
            /\ s.resultLen \in {d.resultLen, i + 1}
            /\ s.status # "active"
  <1>1. i + 1 \in Nat /\ ChunkFrames \in Nat BY DEF ChunkFrames
  <1>2. Updates([d EXCEPT !.resultLen = i + 1, !.seekDelta = ChunkFrames, !.status = "completed"],
                d, i + 1, "completed")
    BY <1>1, EndFields
  <1>3. Updates([d EXCEPT !.resultLen = i + 1, !.status = "completed"], d, i + 1, "completed")
    BY <1>1, LengthFields
  <1>4. \A x \in {"completed", "failed"} : Updates([d EXCEPT !.status = x], d, d.resultLen, x)
    BY StatusField
  <1>5. EndSegment(d) \in
          {[d EXCEPT !.resultLen = i + 1, !.seekDelta = ChunkFrames, !.status = "completed"],
           [d EXCEPT !.resultLen = i + 1, !.status = "completed"],
           [d EXCEPT !.status = "completed"], [d EXCEPT !.status = "failed"]}
    BY Zenon DEF EndSegment
  <1>6. QED BY <1>2, <1>3, <1>4, <1>5 DEF Updates

\* What a decoder that has sampled is left with.
LEMMA Updated ==
  ASSUME NEW d \in DecoderType, i \in 0..(NMax - 1), Len(d.toks) = i + 1, d.resultLen <= i + 1,
         NEW tok \in Int, tok = d.toks[Len(d.toks)],
         params.noTimestamps => ~IsStamp(tok) /\ d.resultLen = 0
  PROVE  LET u == Update(d)
         IN /\ Whole(u) /\ u.toks = d.toks
            /\ u.status = "active" => Sampling(u, i + 1)
            /\ u.status = "active" /\ i = NMax - 1 => ~params.noTimestamps
  <1>0. i \in Nat /\ i + 1 <= NMax BY Constants
  <1> DEFINE s == SeeStamp(d, tok)
  <1>1. /\ s \in DecoderType /\ s.toks = d.toks
        /\ s.resultLen \in {d.resultLen, i + 1}
        /\ ~IsStamp(tok) => s = d
    BY <1>0, Seen
  <1>2. Update(d) = IF s.status = "failed" THEN s
                    ELSE IF tok = Eot \/ (s.hasTs /\ AtEnd(s)) THEN EndSegment(s)
                    ELSE IF Looping(s) THEN [s EXCEPT !.status = "failed"]
                    ELSE s
    BY DEF Update
  <1> HIDE DEF s
  <1>3. /\ EndSegment(s) \in DecoderType /\ EndSegment(s).toks = s.toks
        /\ EndSegment(s).resultLen \in {s.resultLen, i + 1}
        /\ EndSegment(s).status # "active"
    BY <1>0, <1>1, SegmentEnded
  <1>4. Updates([s EXCEPT !.status = "failed"], s, s.resultLen, "failed")
    BY <1>1, StatusField
  <1>5. d.resultLen \in Nat /\ s.resultLen <= i + 1 BY <1>1 DEF DecoderType
  <1>6. Whole(Update(d)) /\ Update(d).toks = d.toks
    BY <1>0, <1>1, <1>2, <1>3, <1>4, <1>5 DEF Whole, Updates
  <1>7. ASSUME Update(d).status = "active"
        PROVE  Update(d) = s /\ ~Looping(s)
    BY <1>2, <1>3, <1>4, <1>7 DEF Updates
  <1>8. ASSUME Update(d).status = "active", params.noTimestamps
        PROVE  s.resultLen = 0 /\ i # NMax - 1
    BY <1>1, <1>7, <1>8 DEF Looping
  <1>9. QED BY <1>1, <1>6, <1>7, <1>8 DEF Sampling
-------------------------------------------------------------------------------
\* Without timestamps none is allowed.
LEMMA AllowedTokens ==
  ASSUME NEW d, NEW tok \in Allowed(d)
  PROVE  tok \in Token /\ (params.noTimestamps => ~IsStamp(tok))
  <1>1. tok \in Text \cup {Eot} \cup {s \in Stamps : ~params.noTimestamps}
    BY DEF Allowed
  <1>2. \A t \in Text \cup {Eot} : t \in Int /\ ~(t > 0)
    BY WhisperAssumption DEF Eot
  <1>3. QED BY <1>1, <1>2 DEF IsStamp, Token

\* What running decoders sample, each from the state d[j] of some running decoder.
LEMMA SampledInv ==
  ASSUME Inv, pc = "sample", NEW new, Sampled(new),
         \A j \in Running : \E d \in DecoderType, tok \in Token :
           /\ new[j] = Extend(d, tok) /\ Len(d.toks) = i /\ d.resultLen <= i
           /\ params.noTimestamps => ~IsStamp(tok) /\ d.resultLen = 0
  PROVE  /\ Inv'
         /\ \A j \in Running' : j \in Running /\ decoders'[j].toks = new[j].toks
  <1>1. i \in Nat /\ i \in 0..(NMax - 1) BY Constants DEF Inv, Sizes
  <1>2. ASSUME NEW j \in Running
        PROVE  /\ Whole(Update(new[j])) /\ Update(new[j]).toks = new[j].toks
               /\ Update(new[j]).status = "active" => Sampling(Update(new[j]), i + 1)
               /\ Update(new[j]).status = "active" /\ i = NMax - 1 => ~params.noTimestamps
    <2>1. PICK d \in DecoderType, tok \in Token :
            /\ new[j] = Extend(d, tok) /\ Len(d.toks) = i /\ d.resultLen <= i
            /\ params.noTimestamps => ~IsStamp(tok) /\ d.resultLen = 0
      OBVIOUS
    <2> DEFINE e == Extend(d, tok)
    <2>2. /\ e \in DecoderType /\ Len(e.toks) = i + 1 /\ e.toks[Len(e.toks)] = tok
          /\ e.resultLen = d.resultLen
      BY <2>1, Extended
    <2>3. tok \in Int BY <2>1, Tokens
    <2>4. d.resultLen <= i + 1 BY <1>1, <2>1 DEF DecoderType
    <2> HIDE DEF e
    <2>5. new[j] = e BY <2>1 DEF e
    <2>6. QED BY <1>1, <2>1, <2>2, <2>3, <2>4, <2>5, Updated
  <1>3. /\ decoders' = [j \in DecoderIds |-> IF j \in Running THEN Update(new[j]) ELSE decoders[j]]
        /\ pc' = IF \A j \in Running : decoders'[j].status # "active" THEN "rank" ELSE "decode"
        /\ UNCHANGED <<params, it, i, best, past, take, fresh>>
    BY DEF Sampled, call
  <1>4. DecodersWhole' BY <1>2, <1>3 DEF Inv, DecodersWhole, Whole
  <1>5. Bests' BY <1>3 DEF Inv, Bests, NDecoders
  <1>6. NDecoders' = NDecoders BY <1>3 DEF NDecoders
  <1>7. \A j \in Running' : /\ j \in Running /\ decoders'[j] = Update(new[j])
                            /\ decoders'[j].status = "active"
    <2>1. Running' = {j \in 0..(NDecoders - 1) : decoders'[j].status = "active"}
      BY <1>6 DEF Running
    <2>2. \A j \in 0..(NDecoders - 1) : j \in DecoderIds BY Constants
    <2>3. QED BY <1>3, <2>1, <2>2 DEF Running
  <1>8. \A j \in Running' : Sampling(decoders'[j], i + 1) BY <1>2, <1>7
  <1>9. pc' = "decode" /\ i' = NMax - 1 => ~params'.noTimestamps
    <2> SUFFICES ASSUME pc' = "decode", i = NMax - 1 PROVE ~params.noTimestamps
      BY <1>3
    <2>1. PICK j \in Running : decoders'[j].status = "active" BY <1>3
    <2>2. j \in DecoderIds BY RunningIds
    <2>3. Update(new[j]).status = "active" BY <1>3, <2>1, <2>2
    <2>4. QED BY <1>2, <2>3
  <1>10. Sizes'
    <2>1. pc' \in {"rank", "decode"} BY <1>3
    <2>2. past' \in Nat /\ take' \in 0..(TextCtx \div 2) /\ i' \in 0..(NMax - 1)
      BY <1>1, <1>3 DEF Inv, Sizes
    <2>3. (\A j \in Running : Sampling(decoders[j], i + 1))'
      BY <1>3, <1>8 DEF Sampling
    <2>4. NMax' = NMax BY DEF NMax
    <2>5. pc' = "rank" => Running' = {} BY <1>2, <1>3, <1>7, RunningIds
    <2>6. QED BY <1>9, <2>1, <2>2, <2>3, <2>4, <2>5 DEF Sizes
  <1>11. QED BY <1>2, <1>4, <1>5, <1>7, <1>10 DEF Inv

\* Every decoder that goes on has one more token than the one it came from had.
Follows(from) ==
  \A j \in Running' :
    j \in Running /\ \E tok \in Token : decoders'[j].toks = Append(decoders[from[j]].toks, tok)

LEMMA SampleInv ==
  ASSUME Inv, Sample
  PROVE  Inv' /\ Follows([j \in Running |-> j])
  <1>1. PICK tok \in [Running -> Text \cup {Eot} \cup Stamps] :
          /\ \A j \in Running : tok[j] \in Allowed(decoders[j])
          /\ Sampled([j \in Running |-> Extend(decoders[j], tok[j])])
    BY DEF Sample
  <1>2. pc = "sample" BY DEF Sample
  <1> DEFINE new == [j \in Running |-> Extend(decoders[j], tok[j])]
  <1>3. ASSUME NEW j \in Running
        PROVE  \E d \in DecoderType, t \in Token :
                 /\ new[j] = Extend(d, t) /\ Len(d.toks) = i /\ d.resultLen <= i
                 /\ params.noTimestamps => ~IsStamp(t) /\ d.resultLen = 0
    <2>1. Whole(decoders[j]) /\ Sampling(decoders[j], i)
      BY <1>2, RunningIds DEF Inv, DecodersWhole, Sizes
    <2>2. tok[j] \in Token /\ (params.noTimestamps => ~IsStamp(tok[j]))
      BY <1>1, AllowedTokens
    <2>3. new[j] = Extend(decoders[j], tok[j]) OBVIOUS
    <2>4. QED BY <2>1, <2>2, <2>3 DEF Whole, Sampling
  <1> HIDE DEF new
  <1>4. Sampled(new) BY <1>1 DEF new
  <1>5. Inv' /\ \A j \in Running' : j \in Running /\ decoders'[j].toks = new[j].toks
    BY <1>2, <1>3, <1>4, SampledInv
  <1>6. \A j \in Running : new[j].toks = Append(decoders[j].toks, tok[j]) /\ tok[j] \in Token
    <2>1. ASSUME NEW j \in Running
          PROVE  new[j].toks = Append(decoders[j].toks, tok[j]) /\ tok[j] \in Token
      <3>1. decoders[j] \in DecoderType BY RunningIds DEF Inv, DecodersWhole, Whole
      <3>2. tok[j] \in Token BY <1>1, AllowedTokens
      <3>3. new[j] = Extend(decoders[j], tok[j]) BY DEF new
      <3>4. QED BY <3>1, <3>2, <3>3, Extended
    <2>2. QED BY <2>1
  <1>7. QED BY <1>5, <1>6 DEF Follows

LEMMA BeamInv ==
  ASSUME Inv, Beam
  PROVE  Inv' /\ \E from \in [Running -> Running] : kv' = SeqMove(kv, from) /\ Follows(from)
  <1> DEFINE Taken1(j, p) ==
        LET from == decoders[p.from]
        IN [decoders[j] EXCEPT !.toks = from.toks, !.resultLen = from.resultLen,
                               !.seekDelta = from.seekDelta, !.hasTs = from.hasTs]
  <1>1. PICK picks \in [Running -> Candidates] :
          /\ Sampled([j \in Running |-> Extend(Taken1(j, picks[j]), picks[j].tok)])
          /\ kv' = SeqMove(kv, [j \in Running |-> picks[j].from])
    BY DEF Beam, Moved
  <1>2. pc = "sample" BY DEF Beam
  <1> DEFINE new == [j \in Running |-> Extend(Taken1(j, picks[j]), picks[j].tok)]
  <1>3. ASSUME NEW j \in Running
        PROVE  /\ \E d \in DecoderType, t \in Token :
                    /\ new[j] = Extend(d, t) /\ Len(d.toks) = i /\ d.resultLen <= i
                    /\ params.noTimestamps => ~IsStamp(t) /\ d.resultLen = 0
               /\ picks[j].from \in Running
               /\ \E t \in Token : new[j].toks = Append(decoders[picks[j].from].toks, t)
    <2>1. PICK k \in Running : \E t \in Allowed(decoders[k]) : picks[j] = [from |-> k, tok |-> t]
      <3>1. picks[j] \in Candidates OBVIOUS
      <3>2. QED BY <3>1 DEF Candidates
    <2>2. picks[j].from = k /\ picks[j].tok \in Allowed(decoders[k]) BY <2>1
    <2>3. Whole(decoders[j]) /\ Whole(decoders[k]) /\ Sampling(decoders[k], i)
      BY <1>2, RunningIds DEF Inv, DecodersWhole, Sizes
    <2> DEFINE d == Taken1(j, picks[j])
    <2>4. d \in DecoderType /\ d.toks = decoders[k].toks /\ d.resultLen = decoders[k].resultLen
      BY <2>2, <2>3 DEF Whole, DecoderType
    <2>5. picks[j].tok \in Token /\ (params.noTimestamps => ~IsStamp(picks[j].tok))
      BY <2>2, AllowedTokens
    <2>6. new[j] = Extend(d, picks[j].tok) OBVIOUS
    <2> HIDE DEF d, new, Taken1
    <2>7. Len(d.toks) = i /\ d.resultLen <= i /\ (params.noTimestamps => d.resultLen = 0)
      BY <2>3, <2>4 DEF Whole, Sampling
    <2>8. new[j].toks = Append(decoders[k].toks, picks[j].tok)
      BY <2>4, <2>5, <2>6, Extended
    <2>9. QED BY <2>2, <2>4, <2>5, <2>6, <2>7, <2>8
  <1> HIDE DEF new, Taken1
  <1>4. Sampled(new) BY <1>1 DEF new
  <1>5. Inv' /\ \A j \in Running' : j \in Running /\ decoders'[j].toks = new[j].toks
    BY <1>2, <1>3, <1>4, SampledInv
  <1> DEFINE from == [j \in Running |-> picks[j].from]
  <1>6. from \in [Running -> Running] /\ kv' = SeqMove(kv, from) BY <1>1, <1>3
  <1>7. Follows(from) BY <1>3, <1>5, ZenonT(30) DEF Follows
  <1> HIDE DEF from
  <1>8. QED BY <1>5, <1>6, <1>7
-------------------------------------------------------------------------------
\* Where no window is decoded, the decoders and the past are all there is to keep.
LEMMA Outside ==
  ASSUME pc' \in {"idle", "window", "gone"}, DecodersWhole', past' \in Nat, best' \in DecoderIds
  PROVE  Inv'
  BY DEF Inv, Sizes, Bests

LEMMA ReturnInv ==
  ASSUME NEW code, Return(code), DecodersWhole', past' \in Nat
  PROVE  Inv'
  <1>1. 0 \in DecoderIds BY Constants
  <1>2. QED BY <1>1, Outside DEF Return

\* Calls, windows, and the ends of both.
LEMMA OutsideStep ==
  ASSUME Inv,
         \/ Finish \/ EncodeFails \/ PromptFails \/ CacheFails \/ DecodeFails \/ Output
         \/ \E p \in Params, len \in Lengths : Call(p, len)
  PROVE  Inv'
  <1> USE DEF Inv
  <1>0. UNCHANGED decoders => DecodersWhole' BY DEF DecodersWhole, Whole
  <1>1. CASE Finish \/ EncodeFails
    <2>1. /\ UNCHANGED <<past, decoders>>
          /\ Return(0) \/ Return(-6)
      BY <1>1 DEF Finish, EncodeFails
    <2>2. past' \in Nat BY <2>1 DEF Sizes
    <2>3. QED BY <1>0, <2>1, <2>2, ReturnInv
  <1>2. CASE PromptFails
    <2>1. Return(-8) /\ past' = past /\ decoders' = Reset
      BY <1>2 DEF PromptFails, Prepare
    <2>2. DecodersWhole' BY <2>1, NoDecoderWhole DEF Reset, DecodersWhole, Whole
    <2>3. QED BY <2>1, <2>2, ReturnInv DEF Sizes
  <1>3. CASE CacheFails
    BY <1>0, <1>3, Outside DEF CacheFails, Sizes, Bests
  <1>4. CASE DecodeFails
    <2>1. Return(-9) /\ UNCHANGED <<past, decoders>> BY <1>4 DEF DecodeFails
    <2>2. past' \in Nat BY <2>1 DEF Sizes
    <2>3. QED BY <1>0, <2>1, <2>2, ReturnInv
  <1>5. CASE Output
    <2>1. /\ pc = "output" /\ pc' = "window" /\ UNCHANGED <<best, decoders>>
          /\ \E noSpeech \in BOOLEAN :
               past' = take + IF noSpeech THEN 0 ELSE decoders[best].resultLen
      BY <1>5 DEF Output
    <2>2. take \in Nat /\ decoders[best].resultLen \in Nat
      BY <2>1, Constants DEF Sizes, Bests, DecodersWhole, Whole, DecoderType
    <2>3. past' \in Nat BY <2>1, <2>2
    <2>4. QED BY <1>0, <2>1, <2>3, Outside DEF Bests
  <1>6. CASE \E p \in Params, len \in Lengths : Call(p, len)
    <2>1. PICK p \in Params, len \in Lengths : Call(p, len) BY <1>6
    <2>2. /\ pc' \in {"idle", "window"} /\ past' \in {0, past} /\ UNCHANGED <<best, decoders>>
      BY <2>1 DEF Call
    <2>3. QED BY <1>0, <2>2, Outside DEF Sizes, Bests
  <1>7. QED BY <1>1, <1>2, <1>3, <1>4, <1>5, <1>6

-------------------------------------------------------------------------------
LEMMA EncodeInv == ASSUME Inv, Encode PROVE Inv'
  <1>1. /\ pc' = "temperature" /\ best' = 0 /\ past' \in {0, past}
        /\ decoders' = [j \in DecoderIds |-> NoDecoder]
    BY DEF Encode, FirstBest
  <1>2. DecodersWhole' BY <1>1, NoDecoderWhole DEF DecodersWhole, Whole
  <1>3. past' \in Nat BY <1>1 DEF Inv, Sizes
  <1>4. QED BY <1>1, <1>2, <1>3, Constants DEF Inv, Sizes, Bests

LEMMA StartTemperatureInv == ASSUME Inv, StartTemperature PROVE Inv'
  <1>1. /\ pc = "temperature" /\ pc' = "sample" /\ i' = 0 /\ take' = Taken
        /\ decoders' = Reset /\ fresh' = fresh \cup 0..(NDecoders - 1)
        /\ UNCHANGED <<params, it, best, past>>
    BY DEF StartTemperature, Prepare, call
  <1>2. DecodersWhole' BY <1>1, NoDecoderWhole DEF Inv, Reset, DecodersWhole, Whole
  <1>3. NDecoders' = NDecoders BY <1>1 DEF NDecoders
  <1>4. \A j \in Running' : decoders'[j] = NoDecoder
    BY <1>1, <1>3, Constants DEF Running, Reset
  <1>5. Taken \in 0..(TextCtx \div 2)
    BY Constants DEF Inv, Sizes, Taken
  <1>6. Sizes'
    <2>1. past' \in Nat /\ take' \in 0..(TextCtx \div 2) /\ i' \in 0..(NMax - 1)
      BY <1>1, <1>5, Constants DEF Inv, Sizes
    <2>2. (\A j \in Running : Sampling(decoders[j], i))'
      BY <1>1, <1>4, NoDecoderWhole DEF Sampling
    <2>3. NMax' = NMax BY DEF NMax
    <2>4. QED BY <1>1, <2>1, <2>2, <2>3 DEF Sizes
  <1>7. Bests' BY <1>1, <1>3, Constants DEF Inv, Bests
  <1>8. QED BY <1>2, <1>6, <1>7 DEF Inv

LEMMA DecodeInv == ASSUME Inv, Decode PROVE Inv'
  <1>1. /\ pc = "decode" /\ i' = i + 1 /\ pc' = IF i + 1 = NMax THEN "rank" ELSE "sample"
        /\ UNCHANGED <<params, it, best, past, take, decoders, fresh>>
    BY DEF Decode, call
  <1>2. DecodersWhole' BY <1>1 DEF Inv, DecodersWhole, Whole
  <1>3. NDecoders' = NDecoders /\ Running' = Running /\ NMax' = NMax
    BY <1>1 DEF NDecoders, Running, NMax
  <1>4. pc' = "sample" => i' \in 0..(NMax - 1)
    BY <1>1, Constants DEF Inv, Sizes
  <1>5. (\A j \in Running : Sampling(decoders[j], i))'
    BY <1>1, <1>3 DEF Inv, Sizes, Sampling
  <1>6. Sizes' BY <1>1, <1>3, <1>4, <1>5 DEF Inv, Sizes
  <1>7. Bests' BY <1>1, <1>3 DEF Inv, Bests
  <1>8. QED BY <1>2, <1>6, <1>7 DEF Inv

\* A result is cut from tokens that are at least as many.
LEMMA RankedWhole ==
  ASSUME NEW d, Whole(d), NEW s \in {"active", "completed", "failed"}
  PROVE  Whole([d EXCEPT !.toks = SubSeq(@, 1, d.resultLen), !.status = s])
  <1> DEFINE t == SubSeq(d.toks, 1, d.resultLen)
  <1>1. /\ d \in DecoderType /\ d.toks \in Seq(Token) /\ d.resultLen \in 0..Len(d.toks)
        /\ Len(d.toks) <= NMax
    BY DEF Whole, DecoderType
  <1>2. t \in Seq(Token) /\ Len(t) = d.resultLen /\ d.resultLen <= NMax BY <1>1, Constants
  <1> HIDE DEF t
  <1>3. LET e == [d EXCEPT !.toks = t, !.status = s]
        IN e \in DecoderType /\ e.toks = t /\ e.resultLen = d.resultLen
    BY <1>1, <1>2 DEF DecoderType
  <1>4. [d EXCEPT !.toks = SubSeq(@, 1, d.resultLen), !.status = s]
          = [d EXCEPT !.toks = t, !.status = s]
    BY DEF t
  <1>5. QED BY <1>1, <1>2, <1>3, <1>4 DEF Whole

LEMMA RankInv == ASSUME Inv, Rank PROVE Inv'
  <1>1. PICK repetitive \in SUBSET {j \in Ended : decoders[j].resultLen > EntropyTail},
             b \in DecoderIds, improbable \in BOOLEAN :
          /\ b = best \/ b \in Ended
          /\ best' = b /\ decoders' = Ranked(repetitive)
          /\ pc' \in {"temperature", "output"}
    BY DEF Rank
  <1>2. /\ pc = "rank" /\ UNCHANGED <<params, i, past, take, fresh>>
    BY DEF Rank, call
  <1>3. DecodersWhole'
    <2>1. ASSUME NEW j \in DecoderIds PROVE Whole(Ranked(repetitive)[j])
      <3>1. Whole(decoders[j]) BY DEF Inv, DecodersWhole
      <3>2. decoders[j].status \in {"active", "completed", "failed"} BY <3>1 DEF Whole, DecoderType
      <3>3. Whole([decoders[j] EXCEPT !.toks = SubSeq(@, 1, decoders[j].resultLen),
                                      !.status = "failed"])
        BY <3>1, RankedWhole
      <3>4. Whole([decoders[j] EXCEPT !.toks = SubSeq(@, 1, decoders[j].resultLen),
                                      !.status = decoders[j].status])
        BY <3>1, <3>2, RankedWhole
      <3>5. QED BY <3>1, <3>3, <3>4, Zenon DEF Ranked
    <2>2. QED BY <1>1, <2>1 DEF DecodersWhole, Whole
  <1>4. b \in fresh
    <2>1. Ended \subseteq fresh BY <1>2 DEF Ended, Inv, Bests
    <2>2. best \in fresh BY <1>2 DEF Inv, Bests
    <2>3. QED BY <1>1, <2>1, <2>2
  <1>5. Sizes' BY <1>1, <1>2 DEF Inv, Sizes
  <1>6. Bests' BY <1>1, <1>2, <1>4 DEF Bests
  <1>7. QED BY <1>3, <1>5, <1>6 DEF Inv

LEMMA Invariance == Spec => []Inv
  <1>1. Inv /\ UNCHANGED vars => Inv'
    <2> SUFFICES ASSUME Inv, UNCHANGED vars PROVE Inv'
      OBVIOUS
    <2>1. DecodersWhole' BY DEF Inv, DecodersWhole, Whole, vars
    <2>2. NDecoders' = NDecoders /\ Running' = Running /\ NMax' = NMax
      BY DEF NDecoders, Running, NMax, vars
    <2>3. Sizes' BY <2>2 DEF Inv, Sizes, Sampling, vars
    <2>4. Bests' BY <2>2 DEF Inv, Bests, vars
    <2>5. QED BY <2>1, <2>3, <2>4 DEF Inv
  <1>2. Inv /\ Next => Inv'
    BY <1>1, OutsideStep, EncodeInv, StartTemperatureInv, SampleInv, BeamInv, DecodeInv, RankInv
       DEF Next, Step, Crashed
  <1>3. QED BY <1>1, <1>2, InvInit, PTL DEF Spec

-------------------------------------------------------------------------------
(***************************************************************************)
(* The variables of a call.  A window that is decoded is not the last      *)
(* 100 ms of the audio, so there is a rest of it to move on by; and the    *)
(* past is at most what one prompt took of it and one result.              *)
(***************************************************************************)
Half == TextCtx \div 2

Typing ==
  /\ pc \in Places /\ params \in Params /\ ret \in {1, 0, -6, -7, -8, -9}
  /\ melLen \in Nat /\ seek \in Nat
  /\ it \in 1..Len(Temperatures) /\ i \in 0..NMax
  /\ take \in 0..Half /\ past \in 0..(Half + NMax)
  /\ pc \in {"temperature", "sample", "decode", "rank", "output"} => seek + DeltaMin < melLen

LEMMA Starts ==
  1 \in 1..Len(Temperatures) /\ 0 \in 0..NMax /\ 0 \in 0..Half /\ 0 \in 0..(Half + NMax)
  <1>1. Len(Temperatures) \in Nat \ {0} BY WhisperAssumption
  <1>2. QED BY <1>1, Constants DEF Half

LEMMA TypingInit == Init => Typing
  BY Starts DEF Init, Typing, Places

LEMMA TypingReturn ==
  ASSUME Typing, NEW code \in {0, -6, -8, -9}, Return(code), past' \in 0..(Half + NMax)
  PROVE  Typing'
  BY Starts DEF Typing, Return, call, Places

\* Where only the place, the decoders and the cache change.
LEMMA TypingOfPlace ==
  ASSUME Typing, pc \in {"temperature", "sample", "decode", "rank"},
         pc' \in {"temperature", "sample", "decode", "rank", "output", "gone"},
         UNCHANGED <<params, melLen, seek, past>>,
         it' \in 1..Len(Temperatures), i' \in 0..NMax, take' \in 0..Half,
         ret' \in {ret, -7}
  PROVE  Typing'
  BY DEF Typing, Places

LEMMA TypingCall ==
  ASSUME Typing, NEW p \in Params, NEW len \in Lengths, Call(p, len)
  PROVE  Typing'
  <1> DEFINE mel == IF len > 0 THEN len ELSE melLen
  <1>1. mel \in Nat BY WhisperAssumption DEF Typing
  <1>2. /\ params' = p /\ melLen' = mel /\ pc' \in {"idle", "window"} /\ ret' \in {0, 1}
        /\ past' \in {0, past} /\ seek' \in {0, seek} /\ UNCHANGED <<it, i, take>>
    BY DEF Call
  <1> HIDE DEF mel
  <1>3. QED BY <1>1, <1>2, Starts DEF Typing, Places

LEMMA TypingOutput == ASSUME Inv, Typing, Output PROVE Typing'
  <1> DEFINE d == decoders[best]
             rest == IF melLen - seek < ChunkFrames THEN melLen - seek ELSE ChunkFrames
  <1>1. /\ pc = "output" /\ pc' = "window"
        /\ \E noSpeech \in BOOLEAN : past' = take + IF noSpeech THEN 0 ELSE d.resultLen
        /\ seek' = seek + IF SingleStampEnding(d.toks) THEN rest ELSE d.seekDelta
        /\ UNCHANGED <<params, melLen, it, i, take, ret>>
    BY DEF Output, call
  <1>2. d.seekDelta \in Nat /\ d.resultLen \in 0..NMax
    <2>1. Whole(decoders[best]) BY DEF Inv, Bests, DecodersWhole
    <2>2. QED BY <2>1, Constants DEF Whole, DecoderType
  <1>3. rest \in Nat
    BY <1>1 DEF Typing, ChunkFrames, DeltaMin
  <1> HIDE DEF d, rest
  <1>4. seek' \in Nat
    <2>1. seek \in Nat BY DEF Typing
    <2>2. QED BY <1>1, <1>2, <1>3, <2>1
  <1>5. past' \in 0..(Half + NMax)
    <2>1. PICK t \in 0..Half, r \in 0..NMax : t = take /\ past' \in {t, t + r}
      BY <1>1, <1>2 DEF Typing
    <2>2. Half \in Nat /\ NMax \in Nat BY Constants DEF Half
    <2>3. QED BY <2>1, <2>2
  <1>6. QED BY <1>1, <1>4, <1>5 DEF Typing, Places

LEMMA TypingStep == ASSUME Inv, Typing, Next PROVE Typing'
  <1>0. /\ past \in 0..(Half + NMax) /\ take \in 0..Half
        /\ it \in 1..Len(Temperatures) /\ i \in 0..NMax
    BY DEF Typing
  <1>1. CASE Finish \/ EncodeFails \/ PromptFails \/ DecodeFails
    <2>1. past' = past /\ \E code \in {0, -6, -8, -9} : Return(code)
      BY <1>1 DEF Finish, EncodeFails, PromptFails, Prepare, DecodeFails
    <2>2. QED BY <1>0, <2>1, TypingReturn
  <1>2. CASE Encode
    <2>1. /\ pc' = "temperature" /\ seek + DeltaMin < melLen /\ past' \in {0, past} /\ it' = 1
          /\ UNCHANGED <<params, melLen, seek, i, take, ret>>
      BY <1>2 DEF Encode, call
    <2>2. QED BY <2>1, Starts DEF Typing, Places
  <1>3. CASE StartTemperature
    <2>1. /\ pc = "temperature" /\ pc' = "sample" /\ i' = 0 /\ take' = Taken
          /\ UNCHANGED <<params, melLen, seek, past, it, ret>>
      BY <1>3 DEF StartTemperature, Prepare, call
    <2>2. Taken \in 0..Half BY Constants DEF Inv, Sizes, Taken, Half
    <2>3. QED BY <1>0, <2>1, <2>2, Starts, TypingOfPlace
  <1>4. CASE CacheFails
    <2>1. /\ pc = "temperature" /\ pc' = "gone" /\ ret' = -7
          /\ UNCHANGED <<params, melLen, seek, past, it, i, take>>
      BY <1>4 DEF CacheFails, call
    <2>2. QED BY <1>0, <2>1, TypingOfPlace
  <1>5. CASE Sample \/ Beam
    <2>1. PICK new : pc = "sample" /\ Sampled(new) BY <1>5 DEF Sample, Beam
    <2>2. /\ pc' \in {"rank", "decode"}
          /\ UNCHANGED <<params, melLen, seek, past, it, i, take, ret>>
      BY <2>1 DEF Sampled, call
    <2>3. QED BY <1>0, <2>1, <2>2, TypingOfPlace
  <1>6. CASE Decode
    <2>1. /\ pc = "decode" /\ pc' \in {"rank", "sample"} /\ i' = i + 1
          /\ UNCHANGED <<params, melLen, seek, past, it, take, ret>>
      BY <1>6 DEF Decode, call
    <2>2. i' \in 0..NMax BY <2>1, Constants DEF Inv, Sizes
    <2>3. QED BY <1>0, <2>1, <2>2, TypingOfPlace
  <1>7. CASE Rank
    <2>1. /\ pc = "rank" /\ pc' \in {"temperature", "output"}
          /\ it' = it \/ (it < Len(Temperatures) /\ it' = it + 1)
          /\ UNCHANGED <<params, melLen, seek, past, i, take, ret>>
      BY <1>7, Zenon DEF Rank, call
    <2>2. it' \in 1..Len(Temperatures)
      <3>1. Len(Temperatures) \in Nat BY WhisperAssumption
      <3>2. QED BY <1>0, <2>1, <3>1
    <2>3. QED BY <1>0, <2>1, <2>2, TypingOfPlace
  <1>8. CASE Output BY <1>8, TypingOutput
  <1>9. CASE \E p \in Params, len \in Lengths : Call(p, len) BY <1>9, TypingCall
  <1>10. CASE Crashed BY <1>10 DEF Crashed, vars, Typing
  <1>11. QED BY <1>1, <1>2, <1>3, <1>4, <1>5, <1>6, <1>7, <1>8, <1>9, <1>10 DEF Next, Step

LEMMA Typed == Spec => []Typing
  <1>1. Typing /\ UNCHANGED vars => Typing' BY DEF Typing, vars
  <1>2. Inv /\ Typing /\ [Next]_vars => Typing' BY <1>1, TypingStep
  <1>3. QED BY <1>2, TypingInit, Invariance, PTL DEF Spec

-------------------------------------------------------------------------------
\* Every non-empty set of numbers up to n has a least and a greatest element: the sets of
\* those of its elements that are at most k are ordered well by inclusion.
LEMMA Least ==
  ASSUME NEW n \in Int, NEW T \in SUBSET (0..n), T # {}
  PROVE  \E m \in T : \A x \in T : m <= x
  <1> DEFINE S == 0..n
             Below(k) == {x \in T : x <= k}
             C == {U \in SUBSET T : \E k \in T : U = Below(k)}
             R == StrictSubsetOrdering(S)
  <1>1. IsFiniteSet(S) BY FS_Interval
  <1>2. C \subseteq FiniteSubsetsOf(S)
    BY <1>1, FS_Subset DEF FiniteSubsetsOf
  <1>3. C # {}
    <2>1. PICK k \in T : TRUE OBVIOUS
    <2>2. Below(k) \in C OBVIOUS
    <2>3. QED BY <2>2
  <1>4. IsWellFoundedOn(R, FiniteSubsetsOf(S)) BY FS_StrictSubsetOrderingWellFounded
  <1> HIDE DEF R
  <1>5. PICK U \in C : \A V \in C : <<V, U>> \notin R
    <2> HIDE DEF C
    <2>1. QED BY <1>2, <1>3, <1>4, WFMin
  <1>6. PICK k \in T : U = Below(k) OBVIOUS
  <1>7. ASSUME NEW x \in T, x < k PROVE FALSE
    <2>1. k \in Int /\ x \in Int OBVIOUS
    <2>2. k \in U /\ k \notin Below(x) BY <1>6, <1>7, <2>1
    <2>3. Below(x) \subseteq U
      <3>1. ASSUME NEW y \in Below(x) PROVE y <= k
        <4>1. y \in Int /\ y <= x OBVIOUS
        <4>2. QED BY <1>7, <2>1, <4>1
      <3>2. QED BY <1>6, <3>1
    <2>4. Below(x) \in C OBVIOUS
    <2>5. <<Below(x), U>> \in StrictSubsetOrdering(S)
      <3>1. Below(x) \in SUBSET S /\ U \in SUBSET S OBVIOUS
      <3>2. QED BY <2>2, <2>3, <3>1 DEF StrictSubsetOrdering
    <2>6. QED BY <1>5, <2>4, <2>5 DEF R
  <1>8. QED
    <2>1. ASSUME NEW x \in T PROVE k <= x BY <1>7
    <2>2. QED BY <2>1

LEMMA Greatest ==
  ASSUME NEW n \in Int, NEW T \in SUBSET (0..n), T # {}
  PROVE  \E m \in T : \A x \in T : x <= m
  <1> DEFINE D == {x \in 0..n : n - x \in T}
  <1>1. D # {}
    <2>1. PICK x \in T : TRUE OBVIOUS
    <2>2. x \in 0..n /\ n - (n - x) = x OBVIOUS
    <2>3. n - x \in 0..n BY <2>2
    <2>4. n - x \in D BY <2>2, <2>3
    <2>5. QED BY <2>4
  <1>2. PICK d \in D : \A x \in D : d <= x BY <1>1, Least
  <1>3. ASSUME NEW x \in T PROVE x <= n - d
    <2>1. x \in 0..n /\ d \in 0..n /\ n - (n - x) = x OBVIOUS
    <2>2. n - x \in 0..n BY <2>1
    <2>3. n - x \in D BY <2>1, <2>2
    <2>4. d <= n - x BY <1>2, <2>3
    <2>5. QED BY <2>1, <2>4
  <1>4. QED BY <1>3

LEMMA BoundedFinite ==
  ASSUME NEW n \in Int, NEW T \in SUBSET (0..n)
  PROVE  IsFiniteSet(T) /\ Cardinality(T) \in Nat
  <1>1. IsFiniteSet(0..n) BY FS_Interval
  <1>2. IsFiniteSet(T) BY <1>1, FS_Subset
  <1>3. QED BY <1>2, FS_CardinalityType

\* A set of numbers up to n has an enumeration in their order.
Ascends(f, U) == /\ f \in [1..Cardinality(U) -> U]
                 /\ \A k, l \in 1..Cardinality(U) : k < l => f[k] < f[l]

LEMMA Enumerated ==
  ASSUME NEW n \in Int, NEW S \in SUBSET (0..n)
  PROVE  \E f : Ascends(f, S)
  <1> DEFINE C == {U \in FiniteSubsetsOf(S) : ~ \E f : Ascends(f, U)}
             R == StrictSubsetOrdering(S)
  <1>f. \A U \in SUBSET S : IsFiniteSet(U) /\ U \in FiniteSubsetsOf(S)
    <2>1. ASSUME NEW U \in SUBSET S PROVE IsFiniteSet(U) BY BoundedFinite
    <2>2. QED BY <2>1 DEF FiniteSubsetsOf
  <1> SUFFICES ASSUME ~ \E f : Ascends(f, S) PROVE FALSE
    OBVIOUS
  <1>1. S \in C BY <1>f
  <1>2. IsWellFoundedOn(R, FiniteSubsetsOf(S)) BY FS_StrictSubsetOrderingWellFounded
  <1> HIDE DEF R
  <1>3. PICK U \in C : \A V \in C : <<V, U>> \notin R
    <2>1. C \subseteq FiniteSubsetsOf(S) /\ C # {} BY <1>1
    <2> HIDE DEF C
    <2>2. QED BY <2>1, <1>2, WFMin
  <1>4. U \in SUBSET S /\ U \in SUBSET (0..n) /\ IsFiniteSet(U) /\ ~ \E f : Ascends(f, U)
    BY DEF FiniteSubsetsOf
  <1>5. U # {}
    <2> SUFFICES ASSUME U = {} PROVE FALSE
      OBVIOUS
    <2>1. Cardinality(U) = 0 BY FS_EmptySet
    <2>2. 1..0 = {} OBVIOUS
    <2>3. Ascends([x \in {} |-> x], U) BY <2>1, <2>2 DEF Ascends
    <2>4. QED BY <1>4, <2>3
  <1>6. PICK m \in U : \A x \in U : x <= m BY <1>4, <1>5, Greatest
  <1> DEFINE V == U \ {m}
             c == Cardinality(V)
  <1>7. IsFiniteSet(V) /\ c \in Nat /\ Cardinality(U) = c + 1
    <2>1. Cardinality(V) = Cardinality(U) - 1 /\ IsFiniteSet(V) BY <1>4, FS_RemoveElement
    <2>2. Cardinality(U) \in Nat /\ Cardinality(V) \in Nat BY <1>4, <2>1, FS_CardinalityType
    <2>3. QED BY <2>1, <2>2
  <1>8. PICK f : Ascends(f, V)
    <2>1. V \notin C
      <3>1. <<V, U>> \in StrictSubsetOrdering(S) BY <1>4 DEF StrictSubsetOrdering
      <3>2. QED BY <1>3, <3>1 DEF R
    <2>2. V \in FiniteSubsetsOf(S) BY <1>4, <1>f
    <2>3. QED BY <2>1, <2>2
  <1> HIDE DEF c, C
  <1>9. f \in [1..c -> V] /\ \A k, l \in 1..c : k < l => f[k] < f[l] BY <1>8 DEF Ascends, c
  <1> DEFINE g == [k \in 1..(c + 1) |-> IF k = c + 1 THEN m ELSE f[k]]
  <1>10. g \in [1..(c + 1) -> U]
    <2>1. ASSUME NEW k \in 1..(c + 1), k # c + 1 PROVE k \in 1..c BY <1>7, <2>1
    <2>2. QED BY <1>9, <2>1
  <1>11. ASSUME NEW k \in 1..(c + 1), NEW l \in 1..(c + 1), k < l PROVE g[k] < g[l]
    <2>1. k \in 1..c /\ g[k] = f[k] /\ f[k] \in V BY <1>7, <1>9, <1>11
    <2>2. CASE l = c + 1
      <3>1. g[l] = m /\ f[k] \in U /\ f[k] # m BY <2>1, <2>2
      <3>2. f[k] <= m BY <1>6, <3>1
      <3>4. f[k] \in 0..n /\ m \in 0..n BY <1>4, <3>1
      <3>3. QED BY <2>1, <3>1, <3>2, <3>4
    <2>3. CASE l # c + 1
      <3>1. l \in 1..c /\ g[l] = f[l] BY <1>7, <2>3
      <3>2. QED BY <1>9, <1>11, <2>1, <3>1
    <2>4. QED BY <2>2, <2>3
  <1> HIDE DEF g
  <1>12. Ascends(g, U) BY <1>7, <1>10, <1>11 DEF Ascends
  <1>13. QED BY <1>4, <1>12

\* Such an enumeration has every element once.
Enumerates(f, U) == /\ f \in [1..Cardinality(U) -> U]
                    /\ \A k, l \in 1..Cardinality(U) : f[k] = f[l] => k = l
                    /\ \A x \in U : \E k \in 1..Cardinality(U) : f[k] = x

LEMMA Enumeration ==
  ASSUME NEW n \in Int, NEW S \in SUBSET (0..n), NEW f, Ascends(f, S)
  PROVE  Enumerates(f, S)
  <1> DEFINE c == Cardinality(S)
  <1>1. IsFiniteSet(S) /\ c \in Nat BY BoundedFinite
  <1>2. IsFiniteSet(1..c) /\ Cardinality(1..c) = c
    BY <1>1, FS_Interval
  <1>3. f \in [1..c -> S] /\ \A k, l \in 1..c : k < l => f[k] < f[l] BY DEF Ascends
  <1> HIDE DEF c
  <1>4. \A k, l \in 1..c : f[k] = f[l] => k = l
    <2> SUFFICES ASSUME NEW k \in 1..c, NEW l \in 1..c, k # l PROVE f[k] # f[l]
      OBVIOUS
    <2>1. f[k] \in 0..n /\ f[l] \in 0..n
      <3>1. f[k] \in S /\ f[l] \in S BY <1>3
      <3>2. QED BY <3>1
    <2>2. k < l \/ l < k OBVIOUS
    <2>3. f[k] < f[l] \/ f[l] < f[k] BY <1>3, <2>2
    <2>4. QED BY <2>1, <2>3
  <1>5. f \in Injection(1..c, S) BY <1>3, <1>4 DEF Injection, IsInjective
  <1>6. f \in Surjection(1..c, S)
    BY <1>1, <1>2, <1>5, FS_Injection DEF c
  <1>7. QED BY <1>3, <1>4, <1>6 DEF Surjection, Enumerates, c

-------------------------------------------------------------------------------
Cell == [pos : Int, seqs : SUBSET Nat, tok : Int]

\* A cache of s cells.
IsCache(c, s) ==
  /\ c.cells \in [0..(s - 1) -> Cell]
  /\ Sound(c)
  /\ c.head \in 0..(s - 1)

IsEmpty(c) == c.head = 0 /\ \A x \in Cells(c) : c.cells[x] = FreeCell

LEMMA FreeCellTyped ==
  FreeCell \in Cell /\ FreeCell.pos = -1 /\ FreeCell.seqs = {}
  BY DEF FreeCell, Cell

\* One cell of a cache: a free one belongs to no sequence.
LEMMA CellTyped ==
  ASSUME NEW s \in Nat \ {0}, NEW c, IsCache(c, s), NEW x \in 0..(s - 1)
  PROVE  /\ Cells(c) = 0..(s - 1)
         /\ c.cells[x] \in Cell
         /\ c.cells[x].pos \in Int /\ c.cells[x].seqs \in SUBSET Nat /\ c.cells[x].tok \in Int
         /\ c.cells[x].pos < 0 => c.cells[x].seqs = {}
         /\ c.cells[x].seqs = {} => c.cells[x].pos < 0
  <1>1. Cells(c) = 0..(s - 1) BY DEF IsCache, Cells
  <1>2. c.cells[x] \in Cell BY DEF IsCache
  <1>3. c.cells[x].pos \in Int /\ c.cells[x].seqs \in SUBSET Nat /\ c.cells[x].tok \in Int
    BY <1>2 DEF Cell
  <1>4. c.cells[x].pos >= 0 <=> c.cells[x].seqs # {} BY <1>1 DEF IsCache, Sound
  <1>5. ~(c.cells[x].pos >= 0) <=> c.cells[x].pos < 0 BY <1>3
  <1>6. QED BY <1>1, <1>2, <1>3, <1>4, <1>5

LEMMA NewIsEmpty ==
  ASSUME NEW s \in Nat \ {0}
  PROVE  IsCache(NewCache(s), s) /\ IsEmpty(NewCache(s))
  <1> DEFINE c == NewCache(s)
  <1>1. c.cells = [x \in 0..(s - 1) |-> FreeCell] /\ c.head = 0 BY DEF NewCache
  <1> HIDE DEF c
  <1>2. Cells(c) = 0..(s - 1) BY <1>1 DEF Cells
  <1>3. Sound(c) BY <1>1, <1>2, FreeCellTyped DEF Sound
  <1>4. 0 \in 0..(s - 1) OBVIOUS
  <1>5. QED BY <1>1, <1>2, <1>3, <1>4, FreeCellTyped DEF IsCache, IsEmpty, c

LEMMA ClearIsEmpty ==
  ASSUME NEW s \in Nat \ {0}, NEW k, IsCache(k, s)
  PROVE  IsCache(Clear(k), s) /\ IsEmpty(Clear(k))
  <1> DEFINE c == Clear(k)
  <1>0. Cells(k) = 0..(s - 1) BY DEF IsCache, Cells
  <1>1. c.cells = [x \in 0..(s - 1) |-> FreeCell] /\ c.head = 0 BY <1>0 DEF Clear
  <1> HIDE DEF c
  <1>2. Cells(c) = 0..(s - 1) BY <1>1 DEF Cells
  <1>3. Sound(c) BY <1>1, <1>2, FreeCellTyped DEF Sound
  <1>4. 0 \in 0..(s - 1) OBVIOUS
  <1>5. QED BY <1>1, <1>2, <1>3, <1>4, FreeCellTyped DEF IsCache, IsEmpty, c

-------------------------------------------------------------------------------
\* The slot that is found is free.
LEMMA SlotIsFree ==
  ASSUME NEW s \in Nat \ {0}, NEW c, IsCache(c, s), NEW n \in Nat \ {0}, HasSlot(c, n)
  PROVE  LET h == FindSlot(c, n)
         IN /\ h \in 0..(s - 1) /\ h + n - 1 \in 0..(s - 1)
            /\ \A x \in h..(h + n - 1) : x \in 0..(s - 1) /\ c.cells[x].pos < 0
            /\ IsEmpty(c) => h = 0
  <1> DEFINE Ahead == {h \in Slots(c, n) : h >= c.head}
             From == IF Ahead = {} THEN Slots(c, n) ELSE Ahead
             h == FindSlot(c, n)
  <1>1. Cells(c) = 0..(s - 1) BY DEF IsCache, Cells
  <1>2. Slots(c, n) \in SUBSET (0..(s - 1)) BY <1>1 DEF Slots
  <1>3. From # {} /\ From \in SUBSET (0..(s - 1)) BY <1>2 DEF HasSlot
  <1>4. \E m \in From : \A g \in From : m <= g
    <2> HIDE DEF From
    <2>1. s - 1 \in Int OBVIOUS
    <2>2. QED BY <1>3, <2>1, Least
  <1>5. h \in From /\ \A g \in From : h <= g
    <2>1. h = CHOOSE m \in From : \A g \in From : m <= g BY DEF FindSlot
    <2> HIDE DEF From, h
    <2>2. QED BY <1>4, <2>1
  <1>6. h \in Slots(c, n) BY <1>5
  <1>7. /\ h \in 0..(s - 1)
        /\ \A k \in 0..(n - 1) : (h + k) \in 0..(s - 1) /\ c.cells[h + k].pos < 0
    BY <1>1, <1>2, <1>6 DEF Slots
  <1>8. ASSUME NEW x \in h..(h + n - 1) PROVE x \in 0..(s - 1) /\ c.cells[x].pos < 0
    <2> HIDE DEF h
    <2>1. h \in Int BY <1>7
    <2>2. x \in Int /\ h <= x /\ x <= h + n - 1 BY <1>8, <2>1
    <2>3. x - h \in 0..(n - 1) /\ h + (x - h) = x BY <2>1, <2>2
    <2>4. QED BY <1>7, <2>3
  <1>9. h + n - 1 \in 0..(s - 1)
    <2> HIDE DEF h
    <2>1. h \in Int BY <1>7
    <2>2. h + n - 1 \in h..(h + n - 1) BY <2>1
    <2>3. QED BY <1>8, <2>2
  <1>10. ASSUME IsEmpty(c) PROVE h = 0
    <2>1. c.head = 0 /\ \A x \in 0..(s - 1) : c.cells[x].pos = -1
      BY <1>1, <1>10, FreeCellTyped DEF IsEmpty
    <2>2. 0 \in Slots(c, n)
      <3>1. ASSUME NEW k \in 0..(n - 1) PROVE 0 + k \in 0..(s - 1) /\ c.cells[0 + k].pos < 0
        <4> HIDE DEF h
        <4>1. h + k \in 0..(s - 1) /\ h \in 0..(s - 1) BY <1>7
        <4>2. 0 + k \in 0..(s - 1) BY <4>1
        <4>3. QED BY <2>1, <4>2
      <3>2. 0 \in 0..(s - 1) OBVIOUS
      <3>3. QED BY <1>1, <3>1, <3>2 DEF Slots
    <2>3. 0 \in Ahead BY <2>1, <2>2
    <2>4. h <= 0 BY <1>5, <2>3
    <2> HIDE DEF h
    <2>5. QED BY <1>7, <2>4
  <1> HIDE DEF h
  <1>11. QED BY <1>7, <1>8, <1>9, <1>10 DEF h

\* What is stored there.
Entry == [pos : Nat, seq : Nat, tok : Int]

\* The cache d of s cells is c with the n entries of the batch in free cells from h on.
Stores(d, c, s, h, batch, n) ==
  /\ IsCache(d, s)
  /\ h \in 0..(s - 1) /\ h + n - 1 \in 0..(s - 1)
  /\ IsEmpty(c) => h = 0
  /\ \A x \in h..(h + n - 1) :
       /\ x \in 0..(s - 1) /\ x - h + 1 \in 1..n
       /\ c.cells[x].pos < 0
       /\ d.cells[x].pos = batch[x - h + 1].pos
       /\ d.cells[x].seqs = {batch[x - h + 1].seq}
       /\ d.cells[x].tok = batch[x - h + 1].tok
  /\ \A x \in 0..(s - 1) : x \notin h..(h + n - 1) => d.cells[x] = c.cells[x]

LEMMA Stored ==
  ASSUME NEW s \in Nat \ {0}, NEW c, IsCache(c, s),
         NEW n \in Nat \ {0}, NEW batch \in [1..n -> Entry], HasSlot(c, n)
  PROVE  Stores(Store(c, batch), c, s, FindSlot(c, n), batch, n)
  <1> DEFINE d == Store(c, batch)
             h == FindSlot(c, n)
             New(x) == [pos |-> batch[x - h + 1].pos, seqs |-> {batch[x - h + 1].seq},
                        tok |-> batch[x - h + 1].tok]
  <1>1. /\ h \in 0..(s - 1) /\ h + n - 1 \in 0..(s - 1)
        /\ \A x \in h..(h + n - 1) : x \in 0..(s - 1) /\ c.cells[x].pos < 0
        /\ IsEmpty(c) => h = 0
    BY SlotIsFree
  <1>2. Len(batch) = n OBVIOUS
  <1>3. Cells(c) = 0..(s - 1) BY DEF IsCache, Cells
  <1>4. /\ d.cells = [x \in 0..(s - 1) |->
                        IF x \in h..(h + n - 1)
                          THEN [pos |-> batch[x - h + 1].pos,
                                seqs |-> c.cells[x].seqs \cup {batch[x - h + 1].seq},
                                tok |-> batch[x - h + 1].tok]
                          ELSE c.cells[x]]
        /\ d.head = h
    BY <1>2, <1>3 DEF Store
  <1>5. ASSUME NEW x \in h..(h + n - 1)
        PROVE  /\ x \in 0..(s - 1) /\ x - h + 1 \in 1..n /\ c.cells[x].pos < 0
               /\ c.cells[x].seqs = {} /\ batch[x - h + 1] \in Entry
    <2> HIDE DEF h
    <2>1. x \in 0..(s - 1) /\ c.cells[x].pos < 0 BY <1>1
    <2>2. h \in Int /\ x \in Int /\ h <= x /\ x <= h + n - 1 BY <1>1, <1>5
    <2>3. x - h + 1 \in 1..n BY <2>2
    <2>4. c.cells[x].seqs = {} BY <2>1, CellTyped
    <2>5. QED BY <2>1, <2>3, <2>4
  <1> HIDE DEF h, d
  <1>6. ASSUME NEW x \in h..(h + n - 1)
        PROVE  d.cells[x] = New(x)
    BY <1>4, <1>5
  <1>7. \A x \in 0..(s - 1) : x \notin h..(h + n - 1) => d.cells[x] = c.cells[x]
    BY <1>4
  <1>8. ASSUME NEW x \in h..(h + n - 1)
        PROVE  /\ New(x) \in Cell /\ New(x).pos >= 0 /\ New(x).seqs # {}
    BY <1>5 DEF Entry, Cell
  <1>9. ASSUME NEW x \in 0..(s - 1)
        PROVE  d.cells[x] \in Cell /\ (d.cells[x].pos >= 0 <=> d.cells[x].seqs # {})
    <2>1. CASE x \in h..(h + n - 1) BY <1>6, <1>8, <2>1
    <2>2. CASE x \notin h..(h + n - 1)
      <3>1. d.cells[x] = c.cells[x] BY <1>7, <2>2
      <3>2. c.cells[x] \in Cell /\ (c.cells[x].pos >= 0 <=> c.cells[x].seqs # {})
        BY <1>3 DEF IsCache, Sound
      <3>3. QED BY <3>1, <3>2
    <2>3. QED BY <2>1, <2>2
  <1>10. IsCache(d, s)
    <2>1. d.cells \in [0..(s - 1) -> Cell] BY <1>4, <1>9
    <2>2. Cells(d) = 0..(s - 1) BY <2>1 DEF Cells
    <2>3. Sound(d) BY <1>9, <2>2 DEF Sound
    <2>4. QED BY <1>1, <1>4, <2>1, <2>3 DEF IsCache
  <1>11. ASSUME NEW x \in h..(h + n - 1)
         PROVE  /\ d.cells[x].pos = batch[x - h + 1].pos
                /\ d.cells[x].seqs = {batch[x - h + 1].seq}
                /\ d.cells[x].tok = batch[x - h + 1].tok
    <2>1. /\ New(x).pos = batch[x - h + 1].pos /\ New(x).seqs = {batch[x - h + 1].seq}
          /\ New(x).tok = batch[x - h + 1].tok
      OBVIOUS
    <2> HIDE DEF New
    <2>2. d.cells[x] = New(x) BY <1>6
    <2>3. QED BY <2>1, <2>2, Zenon
  <1>12. Stores(d, c, s, h, batch, n) BY <1>1, <1>5, <1>7, <1>10, <1>11 DEF Stores
  <1>13. QED BY <1>12 DEF h, d

-------------------------------------------------------------------------------
\* Copies keep what a cell holds.
LEMMA Copied ==
  ASSUME NEW s \in Nat \ {0}, NEW c, IsCache(c, s), NEW src \in Nat, NEW dsts \in SUBSET Nat
  PROVE  LET d == SeqCpAll(c, src, dsts)
         IN /\ IsCache(d, s)
            /\ \A x \in 0..(s - 1) :
                 /\ d.cells[x].pos = c.cells[x].pos /\ d.cells[x].tok = c.cells[x].tok
                 /\ src \in c.cells[x].seqs => d.cells[x].seqs = c.cells[x].seqs \cup dsts
                 /\ src \notin c.cells[x].seqs => d.cells[x].seqs = c.cells[x].seqs
  <1> DEFINE d == SeqCpAll(c, src, dsts)
  <1>1. Cells(c) = 0..(s - 1) BY DEF IsCache, Cells
  <1>2. /\ d.cells = [x \in 0..(s - 1) |->
                        IF src \in c.cells[x].seqs
                          THEN [c.cells[x] EXCEPT !.seqs = @ \cup dsts] ELSE c.cells[x]]
        /\ d.head \in {c.head, 0}
    BY <1>1 DEF SeqCpAll
  <1>3. ASSUME NEW x \in 0..(s - 1), NEW q \in Cell
        PROVE  LET e == [q EXCEPT !.seqs = @ \cup dsts]
               IN e \in Cell /\ e.pos = q.pos /\ e.tok = q.tok /\ e.seqs = q.seqs \cup dsts
    BY DEF Cell
  <1> HIDE DEF d
  <1>4. ASSUME NEW x \in 0..(s - 1)
        PROVE  /\ d.cells[x] \in Cell
               /\ d.cells[x].pos = c.cells[x].pos /\ d.cells[x].tok = c.cells[x].tok
               /\ src \in c.cells[x].seqs => d.cells[x].seqs = c.cells[x].seqs \cup dsts
               /\ src \notin c.cells[x].seqs => d.cells[x].seqs = c.cells[x].seqs
    <2>1. c.cells[x] \in Cell BY CellTyped
    <2>2. CASE src \in c.cells[x].seqs
      <3>1. d.cells[x] = [c.cells[x] EXCEPT !.seqs = @ \cup dsts] BY <1>2, <2>2
      <3>2. QED BY <1>3, <2>1, <2>2, <3>1
    <2>3. CASE src \notin c.cells[x].seqs
      <3>1. d.cells[x] = c.cells[x] BY <1>2, <2>3
      <3>2. QED BY <2>1, <2>3, <3>1
    <2>4. QED BY <2>2, <2>3
  <1>5. d.cells \in [0..(s - 1) -> Cell] BY <1>2, <1>4
  <1>6. d.head \in 0..(s - 1) BY <1>2 DEF IsCache
  <1>7. Sound(d)
    <2>1. Cells(d) = 0..(s - 1) BY <1>5 DEF Cells
    <2>2. ASSUME NEW x \in 0..(s - 1)
          PROVE  d.cells[x].pos >= 0 <=> d.cells[x].seqs # {}
      <3>1. c.cells[x].pos >= 0 <=> c.cells[x].seqs # {} BY <1>1 DEF IsCache, Sound
      <3>2. c.cells[x].seqs # {} <=> d.cells[x].seqs # {} BY <1>4
      <3>3. d.cells[x].pos = c.cells[x].pos BY <1>4
      <3>4. QED BY <3>1, <3>2, <3>3
    <2>3. QED BY <2>1, <2>2 DEF Sound
  <1>8. QED BY <1>4, <1>5, <1>6, <1>7 DEF d, IsCache

\* A move keeps what a cell holds that some sequence still has, and frees the others.
LEMMA MovedCells ==
  ASSUME NEW s \in Nat \ {0}, NEW c, IsCache(c, s), NEW r \in SUBSET Nat, NEW from \in [r -> r]
  PROVE  LET d == SeqMove(c, from)
         IN /\ IsCache(d, s)
            /\ \A x \in 0..(s - 1) :
                 /\ d.cells[x].seqs = Owners(c.cells[x].seqs, from)
                 /\ d.cells[x].pos >= 0 =>
                      d.cells[x].pos = c.cells[x].pos /\ d.cells[x].tok = c.cells[x].tok
  <1> DEFINE d == SeqMove(c, from)
  <1>1. Cells(c) = 0..(s - 1) BY DEF IsCache, Cells
  <1>2. /\ d.cells = [x \in 0..(s - 1) |->
                        IF Owners(c.cells[x].seqs, from) = {} THEN FreeCell
                          ELSE [c.cells[x] EXCEPT !.seqs = Owners(c.cells[x].seqs, from)]]
        /\ d.head = 0
    BY <1>1 DEF SeqMove
  <1>3. ASSUME NEW q \in Cell, NEW o \in SUBSET Nat
        PROVE  LET e == [q EXCEPT !.seqs = o]
               IN e \in Cell /\ e.pos = q.pos /\ e.tok = q.tok /\ e.seqs = o
    BY DEF Cell
  <1>4. \A o \in SUBSET Nat : Owners(o, from) \in SUBSET Nat /\ (Owners(o, from) # {} => o # {})
    BY DEF Owners
  <1> HIDE DEF d
  <1>5. ASSUME NEW x \in 0..(s - 1)
        PROVE  /\ d.cells[x] \in Cell
               /\ d.cells[x].seqs = Owners(c.cells[x].seqs, from)
               /\ d.cells[x].pos >= 0 <=> d.cells[x].seqs # {}
               /\ d.cells[x].pos >= 0 =>
                    d.cells[x].pos = c.cells[x].pos /\ d.cells[x].tok = c.cells[x].tok
    <2> DEFINE o == Owners(c.cells[x].seqs, from)
    <2>1. c.cells[x] \in Cell /\ c.cells[x].seqs \in SUBSET Nat BY CellTyped
    <2>2. o \in SUBSET Nat /\ (o # {} => c.cells[x].seqs # {}) BY <1>4, <2>1
    <2>3. c.cells[x].pos >= 0 <=> c.cells[x].seqs # {} BY <1>1 DEF IsCache, Sound
    <2>4. CASE o = {}
      <3>1. d.cells[x] = FreeCell BY <1>2, <2>4
      <3>2. ~(FreeCell.pos >= 0) /\ FreeCell.seqs = {} /\ FreeCell \in Cell BY FreeCellTyped
      <3>3. QED BY <2>4, <3>1, <3>2
    <2>5. CASE o # {}
      <3>1. d.cells[x] = [c.cells[x] EXCEPT !.seqs = o] BY <1>2, <2>5
      <3> HIDE DEF o
      <3>2. /\ d.cells[x] \in Cell /\ d.cells[x].pos = c.cells[x].pos
            /\ d.cells[x].tok = c.cells[x].tok /\ d.cells[x].seqs = o
        BY <1>3, <2>1, <2>2, <3>1
      <3>3. QED BY <2>2, <2>3, <2>5, <3>2 DEF o
    <2>6. QED BY <2>4, <2>5
  <1>6. d.cells \in [0..(s - 1) -> Cell] BY <1>2, <1>5
  <1>7. Sound(d)
    <2>1. Cells(d) = 0..(s - 1) BY <1>6 DEF Cells
    <2>2. QED BY <1>5, <2>1 DEF Sound
  <1>8. 0 \in 0..(s - 1) OBVIOUS
  <1>9. QED BY <1>2, <1>5, <1>6, <1>7, <1>8 DEF d, IsCache

\* No cell in use is left out of the computation.
LEMMA AllSeen ==
  ASSUME NEW s \in Nat \ {0}, NEW c, IsCache(c, s), NEW x \in 0..(s - 1), c.cells[x].seqs # {}
  PROVE  x < CellMax(c)
  <1> DEFINE Used == {y \in Cells(c) \ {0} : c.cells[y].pos >= 0 /\ c.cells[y].seqs # {}}
             m == CHOOSE y \in Used : \A z \in Used : z <= y
  <1>1. Cells(c) = 0..(s - 1) BY DEF IsCache, Cells
  <1>2. x # 0 => x \in Used BY <1>1 DEF IsCache, Sound
  <1>3. CellMax(c) = IF Used = {} THEN 1 ELSE 1 + m BY DEF CellMax
  <1>4. CASE Used = {} BY <1>2, <1>3, <1>4
  <1>5. CASE Used # {}
    <2>1. Used \in SUBSET (0..(s - 1)) BY <1>1
    <2>2. \A y \in Used : y # 0 OBVIOUS
    <2> HIDE DEF Used
    <2>3. s - 1 \in Int OBVIOUS
    <2>4. \E y \in Used : \A z \in Used : z <= y BY <1>5, <2>1, <2>3, Greatest
    <2>5. m \in Used /\ \A z \in Used : z <= m BY <2>4
    <2> HIDE DEF m
    <2>6. m \in 0..(s - 1) /\ m # 0 BY <2>1, <2>2, <2>5
    <2>7. x <= m BY <1>2, <2>5, <2>6
    <2>8. CellMax(c) = 1 + m BY <1>3, <1>5
    <2>9. QED BY <2>6, <2>7, <2>8
  <1>6. QED BY <1>4, <1>5

-------------------------------------------------------------------------------
(***************************************************************************)
(* What the cache holds of a decoder: of n tokens of the prompt and k of   *)
(* its own, each once and at its position.                                 *)
(***************************************************************************)
TokenAt(n, toks, p) == IF p < n THEN PromptToken ELSE toks[p - n + 1]

Holds(c, j, n, toks, k) ==
  /\ \A x \in Cells(c) : j \in c.cells[x].seqs =>
       c.cells[x].pos \in 0..(n + k - 1) /\ c.cells[x].tok = TokenAt(n, toks, c.cells[x].pos)
  /\ \A p \in 0..(n + k - 1) : \E x \in Cells(c) : j \in c.cells[x].seqs /\ c.cells[x].pos = p
  /\ \A x, y \in Cells(c) :
       j \in c.cells[x].seqs /\ j \in c.cells[y].seqs /\ c.cells[x].pos = c.cells[y].pos => x = y

\* Where cells are used at all: the prompt comes first, and the cells of one batch, of nd
\* tokens at most, are close together.
Packed(c, n, k, nd) ==
  /\ \A x \in Cells(c) : /\ c.cells[x].pos < n + k
                         /\ c.cells[x].pos \in 0..(n - 1) => x < n
                         /\ c.cells[x].seqs \subseteq 0..(nd - 1)
  /\ \A x, y \in Cells(c) :
       c.cells[x].pos = c.cells[y].pos /\ c.cells[x].pos >= n => x - y < nd

\* More tokens behind those that are in the cache change nothing.
LEMMA HoldsOfMore ==
  ASSUME NEW c, NEW j, NEW n \in Nat, NEW k \in Nat, NEW toks, NEW more,
         \A l \in 1..k : more[l] = toks[l], Holds(c, j, n, toks, k)
  PROVE  Holds(c, j, n, more, k)
  <1>1. ASSUME NEW p \in 0..(n + k - 1) PROVE TokenAt(n, more, p) = TokenAt(n, toks, p)
    <2>1. CASE p < n BY <2>1 DEF TokenAt
    <2>2. CASE ~(p < n)
      <3>1. p - n + 1 \in 1..k BY <2>2
      <3>2. QED BY <2>2, <3>1 DEF TokenAt
    <2>3. QED BY <2>1, <2>2
  <1>2. QED BY <1>1 DEF Holds

\* A cache of the same cells.
LEMMA HoldsOfSame ==
  ASSUME NEW s \in Nat \ {0}, NEW c, IsCache(c, s), NEW d, IsCache(d, s),
         NEW l, NEW j, NEW n \in Nat, NEW k \in Nat, NEW toks, Holds(c, l, n, toks, k),
         \A x \in 0..(s - 1) : /\ j \in d.cells[x].seqs <=> l \in c.cells[x].seqs
                               /\ j \in d.cells[x].seqs => /\ d.cells[x].pos = c.cells[x].pos
                                                           /\ d.cells[x].tok = c.cells[x].tok
  PROVE  Holds(d, j, n, toks, k)
  <1>1. Cells(c) = 0..(s - 1) /\ Cells(d) = 0..(s - 1) BY DEF IsCache, Cells
  <1>2. ASSUME NEW x \in 0..(s - 1), j \in d.cells[x].seqs
        PROVE  /\ d.cells[x].pos \in 0..(n + k - 1)
               /\ d.cells[x].tok = TokenAt(n, toks, d.cells[x].pos)
    <2>1. /\ l \in c.cells[x].seqs
          /\ d.cells[x].pos = c.cells[x].pos /\ d.cells[x].tok = c.cells[x].tok
      BY <1>2
    <2>2. /\ c.cells[x].pos \in 0..(n + k - 1)
          /\ c.cells[x].tok = TokenAt(n, toks, c.cells[x].pos)
      BY <1>1, <2>1 DEF Holds
    <2>3. QED BY <2>1, <2>2
  <1>3. ASSUME NEW p \in 0..(n + k - 1)
        PROVE  \E x \in 0..(s - 1) : j \in d.cells[x].seqs /\ d.cells[x].pos = p
    <2>1. PICK x \in 0..(s - 1) : l \in c.cells[x].seqs /\ c.cells[x].pos = p
      BY <1>1 DEF Holds
    <2>2. QED BY <2>1
  <1>4. ASSUME NEW x \in 0..(s - 1), NEW y \in 0..(s - 1),
               j \in d.cells[x].seqs, j \in d.cells[y].seqs, d.cells[x].pos = d.cells[y].pos
        PROVE  x = y
    <2>1. l \in c.cells[x].seqs /\ l \in c.cells[y].seqs /\ c.cells[x].pos = c.cells[y].pos
      BY <1>4
    <2>2. QED BY <1>1, <2>1 DEF Holds
  <1>5. QED BY <1>1, <1>2, <1>3, <1>4 DEF Holds

-------------------------------------------------------------------------------
\* The prompt in an empty cache, shared by nd decoders.
LEMMA PromptHeld ==
  ASSUME NEW s \in Nat \ {0}, NEW c, IsCache(c, s), IsEmpty(c), NEW n \in Nat \ {0}, HasSlot(c, n),
         NEW batch \in [1..n -> Entry],
         \A k \in 1..n : batch[k].pos = k - 1 /\ batch[k].seq = 0 /\ batch[k].tok = PromptToken,
         NEW nd \in Nat \ {0}
  PROVE  LET d == SeqCpAll(Store(c, batch), 0, 1..(nd - 1))
         IN /\ IsCache(d, s)
            /\ \A j \in 0..(nd - 1) : \A toks : Holds(d, j, n, toks, 0)
            /\ Packed(d, n, 0, nd)
  <1> DEFINE m == Store(c, batch)
             h == FindSlot(c, n)
             d == SeqCpAll(m, 0, 1..(nd - 1))
  <1>1. /\ IsCache(m, s)
        /\ h = 0 /\ h \in 0..(s - 1) /\ h + n - 1 \in 0..(s - 1)
        /\ \A x \in h..(h + n - 1) :
             /\ x \in 0..(s - 1) /\ x - h + 1 \in 1..n
             /\ m.cells[x].pos = batch[x - h + 1].pos
             /\ m.cells[x].seqs = {batch[x - h + 1].seq}
             /\ m.cells[x].tok = batch[x - h + 1].tok
        /\ \A x \in 0..(s - 1) : x \notin h..(h + n - 1) => m.cells[x] = c.cells[x]
    <2>1. Stores(Store(c, batch), c, s, FindSlot(c, n), batch, n) BY Stored
    <2>2. Stores(m, c, s, h, batch, n) BY <2>1
    <2> HIDE DEF m, h
    <2>3. QED BY <2>2 DEF Stores
  <1>2. ASSUME NEW x \in 0..(n - 1)
        PROVE  /\ x \in 0..(s - 1)
               /\ m.cells[x].pos = x /\ m.cells[x].seqs = {0} /\ m.cells[x].tok = PromptToken
    <2> HIDE DEF m, h
    <2>1. x \in h..(h + n - 1) /\ x - h + 1 = x + 1 /\ x + 1 \in 1..n BY <1>1
    <2>2. batch[x + 1].pos = x /\ batch[x + 1].seq = 0 /\ batch[x + 1].tok = PromptToken
      BY <2>1
    <2>3. QED BY <1>1, <2>1, <2>2
  <1>3. ASSUME NEW x \in 0..(s - 1), x \notin 0..(n - 1)
        PROVE  m.cells[x].pos = -1 /\ m.cells[x].seqs = {}
    <2>1. c.cells[x] = FreeCell BY CellTyped DEF IsEmpty
    <2> HIDE DEF m, h
    <2>2. x \notin h..(h + n - 1) BY <1>1, <1>3
    <2>3. QED BY <1>1, <2>1, <2>2, FreeCellTyped
  <1>4. 1..(nd - 1) \in SUBSET Nat /\ 0 \in Nat /\ {0} \cup 1..(nd - 1) = 0..(nd - 1) OBVIOUS
  <1>5. /\ IsCache(d, s)
        /\ \A x \in 0..(s - 1) :
             /\ d.cells[x].pos = m.cells[x].pos /\ d.cells[x].tok = m.cells[x].tok
             /\ 0 \in m.cells[x].seqs => d.cells[x].seqs = m.cells[x].seqs \cup 1..(nd - 1)
             /\ 0 \notin m.cells[x].seqs => d.cells[x].seqs = m.cells[x].seqs
    BY <1>1, <1>4, Copied
  <1> HIDE DEF m, h, d
  <1>6. ASSUME NEW x \in 0..(n - 1)
        PROVE  /\ x \in 0..(s - 1)
               /\ d.cells[x].pos = x /\ d.cells[x].seqs = 0..(nd - 1) /\ d.cells[x].tok = PromptToken
    <2>1. /\ x \in 0..(s - 1)
          /\ m.cells[x].pos = x /\ m.cells[x].seqs = {0} /\ m.cells[x].tok = PromptToken
      BY <1>2
    <2>2. 0 \in m.cells[x].seqs BY <2>1
    <2>3. d.cells[x].seqs = m.cells[x].seqs \cup 1..(nd - 1) BY <1>5, <2>1, <2>2
    <2>4. d.cells[x].seqs = 0..(nd - 1) BY <1>4, <2>1, <2>3
    <2>5. d.cells[x].pos = x /\ d.cells[x].tok = PromptToken BY <1>5, <2>1
    <2>6. QED BY <2>1, <2>4, <2>5
  <1>7. ASSUME NEW x \in 0..(s - 1), x \notin 0..(n - 1)
        PROVE  d.cells[x].pos = -1 /\ d.cells[x].seqs = {}
    <2>1. m.cells[x].pos = -1 /\ m.cells[x].seqs = {} BY <1>3, <1>7
    <2>2. 0 \notin m.cells[x].seqs BY <2>1
    <2>3. d.cells[x].seqs = m.cells[x].seqs /\ d.cells[x].pos = m.cells[x].pos BY <1>5, <2>2
    <2>4. QED BY <2>1, <2>3
  <1>8. Cells(d) = 0..(s - 1) BY <1>5 DEF IsCache, Cells
  <1>9. ASSUME NEW j \in 0..(nd - 1), NEW toks PROVE Holds(d, j, n, toks, 0)
    <2>0. n + 0 - 1 = n - 1 OBVIOUS
    <2>1. ASSUME NEW x \in 0..(s - 1), j \in d.cells[x].seqs
          PROVE  x \in 0..(n - 1) /\ d.cells[x].pos = x /\ d.cells[x].tok = PromptToken
      <3>1. x \in 0..(n - 1) BY <1>7, <2>1
      <3>2. QED BY <1>6, <3>1
    <2>2. \A x \in 0..(n - 1) : TokenAt(n, toks, x) = PromptToken BY DEF TokenAt
    <2>3. \A x \in 0..(n - 1) : x \in 0..(s - 1) /\ j \in d.cells[x].seqs /\ d.cells[x].pos = x
      BY <1>6
    <2>4. ASSUME NEW x \in 0..(s - 1), j \in d.cells[x].seqs
          PROVE  d.cells[x].pos \in 0..(n - 1) /\ d.cells[x].tok = TokenAt(n, toks, d.cells[x].pos)
      BY <2>1, <2>2, <2>4
    <2>5. ASSUME NEW x \in 0..(s - 1), NEW y \in 0..(s - 1), j \in d.cells[x].seqs,
                 j \in d.cells[y].seqs, d.cells[x].pos = d.cells[y].pos
          PROVE  x = y
      BY <2>1, <2>5
    <2>6. \A p \in 0..(n - 1) : \E x \in 0..(s - 1) : j \in d.cells[x].seqs /\ d.cells[x].pos = p
      BY <2>3
    <2>7. QED BY <1>8, <2>0, <2>4, <2>5, <2>6 DEF Holds
  <1>10. Packed(d, n, 0, nd)
    <2>1. ASSUME NEW x \in 0..(s - 1)
          PROVE  /\ d.cells[x].pos < n + 0
                 /\ d.cells[x].pos \in 0..(n - 1) => x < n
                 /\ d.cells[x].seqs \subseteq 0..(nd - 1)
                 /\ ~(d.cells[x].pos >= n)
      <3>1. CASE x \in 0..(n - 1)
        <4>1. d.cells[x].pos = x /\ d.cells[x].seqs = 0..(nd - 1) BY <1>6, <3>1
        <4>2. QED BY <3>1, <4>1
      <3>2. CASE x \notin 0..(n - 1)
        <4>1. d.cells[x].pos = -1 /\ d.cells[x].seqs = {} BY <1>7, <3>2
        <4>2. QED BY <4>1
      <3>3. QED BY <3>1, <3>2
    <2>2. QED BY <1>8, <2>1 DEF Packed
  <1>11. QED BY <1>5, <1>9, <1>10 DEF d, m

-------------------------------------------------------------------------------
\* What beam search moves.
LEMMA MoveHeld ==
  ASSUME NEW s \in Nat \ {0}, NEW c, IsCache(c, s), NEW r \in SUBSET Nat, NEW from \in [r -> r],
         NEW j \in r, NEW n \in Nat, NEW k \in Nat, NEW toks, Holds(c, from[j], n, toks, k)
  PROVE  Holds(SeqMove(c, from), j, n, toks, k)
  <1> DEFINE d == SeqMove(c, from)
  <1>1. /\ IsCache(d, s)
        /\ \A x \in 0..(s - 1) :
             /\ d.cells[x].seqs = Owners(c.cells[x].seqs, from)
             /\ d.cells[x].pos >= 0 =>
                  d.cells[x].pos = c.cells[x].pos /\ d.cells[x].tok = c.cells[x].tok
    BY MovedCells
  <1> HIDE DEF d
  <1>2. \A o : j \in Owners(o, from) <=> from[j] \in o BY DEF Owners
  <1>3. ASSUME NEW x \in 0..(s - 1), j \in d.cells[x].seqs PROVE d.cells[x].pos >= 0
    BY <1>1, <1>3 DEF IsCache, Sound, Cells
  <1>4. QED BY <1>1, <1>2, <1>3, HoldsOfSame DEF d

LEMMA MovePacked ==
  ASSUME NEW s \in Nat \ {0}, NEW c, IsCache(c, s), NEW nd \in Nat, NEW r \in SUBSET (0..(nd - 1)),
         NEW from \in [r -> r], NEW n \in Nat \ {0}, NEW k \in Nat, Packed(c, n, k, nd)
  PROVE  Packed(SeqMove(c, from), n, k, nd)
  <1> DEFINE d == SeqMove(c, from)
  <1>0. r \in SUBSET Nat OBVIOUS
  <1>1. /\ IsCache(d, s)
        /\ \A x \in 0..(s - 1) :
             /\ d.cells[x].seqs = Owners(c.cells[x].seqs, from)
             /\ d.cells[x].pos >= 0 => d.cells[x].pos = c.cells[x].pos
    BY <1>0, MovedCells
  <1> HIDE DEF d
  <1>2. Cells(c) = 0..(s - 1) /\ Cells(d) = 0..(s - 1) BY <1>1 DEF IsCache, Cells
  <1>3. \A o \in SUBSET (0..(nd - 1)) : Owners(o, from) \subseteq 0..(nd - 1) BY DEF Owners
  <1>4. ASSUME NEW x \in 0..(s - 1)
        PROVE  /\ d.cells[x].pos < n + k
               /\ d.cells[x].pos \in 0..(n - 1) => x < n
               /\ d.cells[x].seqs \subseteq 0..(nd - 1)
    <2>1. c.cells[x].pos < n + k /\ (c.cells[x].pos \in 0..(n - 1) => x < n)
          /\ c.cells[x].seqs \subseteq 0..(nd - 1)
      BY <1>2 DEF Packed
    <2>2. d.cells[x].pos \in Int BY <1>1, CellTyped
    <2>3. CASE d.cells[x].pos >= 0 BY <1>1, <1>3, <2>1, <2>3
    <2>4. CASE ~(d.cells[x].pos >= 0)
      <3>1. PICK p \in Int : p = d.cells[x].pos BY <2>2
      <3>2. p < n + k /\ p \notin 0..(n - 1) BY <2>4, <3>1
      <3>3. QED BY <1>1, <1>3, <2>1, <3>1, <3>2
    <2>5. QED BY <2>3, <2>4
  <1>5. ASSUME NEW x \in 0..(s - 1), NEW y \in 0..(s - 1),
               d.cells[x].pos = d.cells[y].pos, d.cells[x].pos >= n
        PROVE  x - y < nd
    <2>1. PICK p \in Int : p = d.cells[x].pos BY <1>1, CellTyped
    <2>2. p >= 0 /\ p >= n BY <1>5, <2>1
    <2>3. c.cells[x].pos = p /\ c.cells[y].pos = p BY <1>1, <1>5, <2>1, <2>2
    <2>4. QED BY <1>2, <2>2, <2>3 DEF Packed
  <1>6. QED BY <1>2, <1>4, <1>5 DEF d, Packed

-------------------------------------------------------------------------------
\* A batch of one more token for each of some decoders.
LEMMA BatchHeld ==
  ASSUME NEW s \in Nat \ {0}, NEW c, IsCache(c, s), NEW n \in Nat \ {0}, NEW k \in Nat,
         NEW nd \in Nat \ {0}, Packed(c, n, k, nd),
         NEW r \in Nat \ {0}, r <= nd, NEW batch \in [1..r -> Entry], HasSlot(c, r),
         \A l \in 1..r : batch[l].pos = n + k /\ batch[l].seq \in 0..(nd - 1),
         \A l, m \in 1..r : batch[l].seq = batch[m].seq => l = m
  PROVE  LET d == Store(c, batch)
         IN /\ IsCache(d, s)
            /\ Packed(d, n, k + 1, nd)
            /\ \A l \in 1..r : \A toks :
                 Holds(c, batch[l].seq, n, toks, k) /\ toks[k + 1] = batch[l].tok
                   => Holds(d, batch[l].seq, n, toks, k + 1)
  <1> DEFINE d == Store(c, batch)
             h == FindSlot(c, r)
             New == h..(h + r - 1)
  <1>1. /\ IsCache(d, s)
        /\ h \in 0..(s - 1) /\ h + r - 1 \in 0..(s - 1)
        /\ \A x \in New :
             /\ x \in 0..(s - 1) /\ x - h + 1 \in 1..r
             /\ c.cells[x].pos < 0
             /\ d.cells[x].pos = batch[x - h + 1].pos
             /\ d.cells[x].seqs = {batch[x - h + 1].seq}
             /\ d.cells[x].tok = batch[x - h + 1].tok
        /\ \A x \in 0..(s - 1) : x \notin New => d.cells[x] = c.cells[x]
    <2>1. Stores(Store(c, batch), c, s, FindSlot(c, r), batch, r) BY Stored
    <2>2. Stores(d, c, s, h, batch, r) BY <2>1
    <2> HIDE DEF d, h
    <2>3. QED BY <2>2 DEF Stores
  <1>2. Cells(c) = 0..(s - 1) /\ Cells(d) = 0..(s - 1) BY <1>1 DEF IsCache, Cells
  <1> HIDE DEF d, h
  <1>3. \A x \in New : d.cells[x].pos = n + k /\ d.cells[x].seqs \subseteq 0..(nd - 1)
    <2>1. ASSUME NEW x \in New
          PROVE  d.cells[x].pos = n + k /\ d.cells[x].seqs \subseteq 0..(nd - 1)
      <3> HIDE DEF New
      <3>1. PICK l \in 1..r : l = x - h + 1 BY <1>1
      <3>2. d.cells[x].pos = batch[l].pos /\ d.cells[x].seqs = {batch[l].seq} BY <1>1, <3>1
      <3>3. batch[l].pos = n + k /\ batch[l].seq \in 0..(nd - 1) OBVIOUS
      <3>4. QED BY <3>2, <3>3
    <2>2. QED BY <2>1
  <1>4. \A x, y \in New : x - y < nd
    <2>1. ASSUME NEW x \in New, NEW y \in New PROVE x - y < nd
      <3>1. PICK g \in Int : g = h BY <1>1
      <3>2. x \in Int /\ y \in Int /\ g <= x /\ x <= g + r - 1 /\ g <= y /\ y <= g + r - 1
        BY <3>1
      <3>3. QED BY <3>2
    <2>2. QED BY <2>1
  <1> HIDE DEF New
  <1>5. ASSUME NEW x \in 0..(s - 1), x \notin New
        PROVE  /\ d.cells[x] = c.cells[x] /\ c.cells[x].pos \in Int /\ c.cells[x].pos < n + k
               /\ c.cells[x].pos \in 0..(n - 1) => x < n
               /\ c.cells[x].seqs \subseteq 0..(nd - 1)
    BY <1>1, <1>2, <1>5, CellTyped DEF Packed
  <1>6. Packed(d, n, k + 1, nd)
    <2>1. ASSUME NEW x \in 0..(s - 1)
          PROVE  /\ d.cells[x].pos < n + (k + 1)
                 /\ d.cells[x].pos \in 0..(n - 1) => x < n
                 /\ d.cells[x].seqs \subseteq 0..(nd - 1)
      <3>1. CASE x \in New
        <4>1. d.cells[x].pos = n + k /\ d.cells[x].seqs \subseteq 0..(nd - 1) BY <1>3, <3>1
        <4>2. QED BY <4>1
      <3>2. CASE x \notin New
        <4>1. PICK p \in Int : p = c.cells[x].pos /\ p < n + k /\ (p \in 0..(n - 1) => x < n)
          BY <1>5, <3>2
        <4>2. d.cells[x].pos = p /\ d.cells[x].seqs \subseteq 0..(nd - 1) BY <1>5, <3>2, <4>1
        <4>3. p < n + (k + 1) BY <4>1
        <4>4. QED BY <4>1, <4>2, <4>3
      <3>3. QED BY <3>1, <3>2
    <2>2. ASSUME NEW x \in 0..(s - 1), NEW y \in 0..(s - 1),
                 d.cells[x].pos = d.cells[y].pos, d.cells[x].pos >= n
          PROVE  x - y < nd
      <3>1. CASE x \in New /\ y \in New BY <1>4, <3>1
      <3>2. CASE x \in New /\ y \notin New
        <4>1. d.cells[x].pos = n + k /\ d.cells[y].pos < n + k /\ d.cells[y].pos \in Int
          BY <1>3, <1>5, <3>2
        <4>2. QED BY <2>2, <4>1
      <3>3. CASE x \notin New /\ y \in New
        <4>1. d.cells[y].pos = n + k /\ d.cells[x].pos < n + k /\ d.cells[x].pos \in Int
          BY <1>3, <1>5, <3>3
        <4>2. QED BY <2>2, <4>1
      <3>4. CASE x \notin New /\ y \notin New
        <4>1. c.cells[x].pos = c.cells[y].pos /\ c.cells[x].pos >= n BY <1>5, <2>2, <3>4
        <4>2. QED BY <1>2, <4>1 DEF Packed
      <3>5. QED BY <3>1, <3>2, <3>3, <3>4
    <2>3. QED BY <1>2, <2>1, <2>2 DEF Packed
  <1>7. ASSUME NEW l \in 1..r, NEW toks,
               Holds(c, batch[l].seq, n, toks, k), toks[k + 1] = batch[l].tok
        PROVE  Holds(d, batch[l].seq, n, toks, k + 1)
    <2> DEFINE j == batch[l].seq
               z == h + l - 1
    <2>1. z \in New /\ z - h + 1 = l
      <3>1. h \in Int BY <1>1
      <3>2. QED BY <3>1 DEF New
    <2>2. d.cells[z].pos = n + k /\ d.cells[z].seqs = {j} /\ d.cells[z].tok = batch[l].tok
      BY <1>1, <2>1, ZenonT(30)
    <2>3. ASSUME NEW x \in New, j \in d.cells[x].seqs PROVE x = z
      <3>1. x - h + 1 \in 1..r /\ d.cells[x].seqs = {batch[x - h + 1].seq} BY <1>1
      <3>2. x - h + 1 = l BY <2>3, <3>1
      <3>3. h \in Int /\ x \in Int BY <1>1
      <3> HIDE DEF j
      <3>4. QED BY <3>2, <3>3
    <2> HIDE DEF z
    <2>4. TokenAt(n, toks, n + k) = batch[l].tok
      <3>1. ~(n + k < n) /\ n + k - n + 1 = k + 1 OBVIOUS
      <3>2. QED BY <1>7, <3>1 DEF TokenAt
    <2> HIDE DEF j
    <2>5. Holds(c, j, n, toks, k) BY <1>7 DEF j
    <2>6. ASSUME NEW x \in 0..(s - 1), x \notin New, j \in d.cells[x].seqs
          PROVE  /\ j \in c.cells[x].seqs /\ d.cells[x].pos = c.cells[x].pos
                 /\ d.cells[x].pos \in 0..(n + k - 1)
                 /\ d.cells[x].tok = TokenAt(n, toks, d.cells[x].pos)
      BY <1>2, <1>5, <2>5, <2>6 DEF Holds
    <2>7. ASSUME NEW x \in 0..(s - 1), j \in d.cells[x].seqs
          PROVE  /\ d.cells[x].pos \in 0..(n + (k + 1) - 1)
                 /\ d.cells[x].tok = TokenAt(n, toks, d.cells[x].pos)
      <3>1. CASE x \in New
        <4>1. x = z BY <2>3, <2>7, <3>1
        <4>2. n + k \in 0..(n + (k + 1) - 1) OBVIOUS
        <4>3. QED BY <2>2, <2>4, <4>1, <4>2
      <3>2. CASE x \notin New
        <4>1. /\ d.cells[x].pos \in 0..(n + k - 1)
              /\ d.cells[x].tok = TokenAt(n, toks, d.cells[x].pos)
          BY <2>6, <2>7, <3>2
        <4>2. \A p \in 0..(n + k - 1) : p \in 0..(n + (k + 1) - 1) OBVIOUS
        <4>3. QED BY <4>1, <4>2
      <3>3. QED BY <3>1, <3>2
    <2>8. ASSUME NEW p \in 0..(n + (k + 1) - 1)
          PROVE  \E x \in 0..(s - 1) : j \in d.cells[x].seqs /\ d.cells[x].pos = p
      <3>1. CASE p = n + k
        <4>1. z \in 0..(s - 1) BY <1>1, <2>1
        <4>2. QED BY <2>2, <3>1, <4>1
      <3>2. CASE p # n + k
        <4>1. p \in 0..(n + k - 1) BY <3>2
        <4>2. PICK x \in 0..(s - 1) : j \in c.cells[x].seqs /\ c.cells[x].pos = p
          BY <1>2, <2>5, <4>1 DEF Holds
        <4>3. x \notin New
          <5>1. ~(c.cells[x].pos < 0) BY <4>1, <4>2
          <5>2. QED BY <1>1, <5>1
        <4>4. d.cells[x] = c.cells[x] BY <1>5, <4>3
        <4>5. QED BY <4>2, <4>4
      <3>3. QED BY <3>1, <3>2
    <2>9. ASSUME NEW x \in 0..(s - 1), NEW y \in 0..(s - 1),
                 j \in d.cells[x].seqs, j \in d.cells[y].seqs, d.cells[x].pos = d.cells[y].pos
          PROVE  x = y
      <3>1. n + k \notin 0..(n + k - 1) OBVIOUS
      <3>2. CASE x \in New /\ y \in New BY <2>3, <2>9, <3>2
      <3>3. CASE x \in New /\ y \notin New BY <1>3, <2>6, <2>9, <3>1, <3>3
      <3>4. CASE x \notin New /\ y \in New BY <1>3, <2>6, <2>9, <3>1, <3>4
      <3>5. CASE x \notin New /\ y \notin New
        <4>1. j \in c.cells[x].seqs /\ j \in c.cells[y].seqs /\ c.cells[x].pos = c.cells[y].pos
          BY <2>6, <2>9, <3>5
        <4>2. QED BY <1>2, <2>5, <4>1 DEF Holds
      <3>6. QED BY <3>2, <3>3, <3>4, <3>5
    <2>10. Holds(d, j, n, toks, k + 1) BY <1>2, <2>7, <2>8, <2>9 DEF Holds
    <2>11. QED BY <2>10 DEF j
  <1>8. QED BY <1>1, <1>6, <1>7 DEF d

-------------------------------------------------------------------------------
(***************************************************************************)
(* A slot for a batch.  The cells behind the prompt are cut in blocks of   *)
(* nd; of every other block some cell is in use if the batch fits nowhere. *)
(* Cells of one batch are too close together to be in two of these blocks, *)
(* so there would be as many batches as blocks, one more than there are.   *)
(***************************************************************************)
LEMMA Apart ==
  ASSUME NEW a \in Nat, NEW b \in Nat, a < b, NEW w \in Nat
  PROVE  a * w + w <= b * w
  <1>1. PICK t \in Nat : b = a + 1 + t
    <2>1. b - a - 1 \in Nat /\ b = a + 1 + (b - a - 1) OBVIOUS
    <2>2. QED BY <2>1
  <1>2. b * w = a * w + w + t * w BY <1>1
  <1>3. t * w \in Nat /\ a * w \in Nat OBVIOUS
  <1>4. QED BY <1>2, <1>3

LEMMA SlotIsThere ==
  ASSUME NEW s \in Nat \ {0}, NEW c, IsCache(c, s), NEW n \in Nat \ {0}, NEW k \in Nat,
         NEW nd \in Nat \ {0}, NEW r \in 1..nd, Packed(c, n, k, nd), n + (2 * k + 1) * nd <= s
  PROVE  HasSlot(c, r)
  <1> DEFINE w == 2 * nd
             Block(m) == (n + m * w)..(n + m * w + nd - 1)
  <1>1. Cells(c) = 0..(s - 1) BY DEF IsCache, Cells
  <1> SUFFICES ASSUME Slots(c, r) = {} PROVE FALSE
    BY DEF HasSlot
  <1>2. w \in Nat /\ n + k * w + nd <= s
    <2>1. (2 * k + 1) * nd = k * w + nd OBVIOUS
    <2>2. k * w \in Nat OBVIOUS
    <2>3. QED BY <2>1, <2>2
  <1>3. ASSUME NEW m \in 0..k
        PROVE  m * w \in Nat /\ m * w <= k * w
    <2> HIDE DEF w
    <2>1. m * w \in Nat /\ k * w \in Nat BY <1>2
    <2>2. CASE m = k BY <2>1, <2>2
    <2>3. CASE m # k
      <3>1. m \in Nat /\ m < k BY <2>3
      <3>2. m * w + w <= k * w BY <1>2, <3>1, Apart
      <3>3. QED BY <1>2, <2>1, <3>2
    <2>4. QED BY <2>2, <2>3
  <1> HIDE DEF w
  <1>4. ASSUME NEW m \in 0..k
        PROVE  \E x \in Block(m) : x \in 0..(s - 1) /\ c.cells[x].pos \in n..(n + k - 1)
    <2>1. PICK b \in Nat : b = n + m * w /\ b + nd <= s /\ n <= b
      <3>1. n + m * w \in Nat /\ n + m * w + nd <= s /\ n <= n + m * w
        <4>1. PICK p \in Nat, q \in Nat : p = m * w /\ q = k * w /\ p <= q
          BY <1>2, <1>3
        <4>2. n + q + nd <= s BY <1>2, <4>1
        <4>3. n + p \in Nat /\ n + p + nd <= s /\ n <= n + p BY <4>1, <4>2
        <4>4. QED BY <4>1, <4>3
      <3>2. QED BY <3>1
    <2>2. b \in 0..(s - 1) BY <2>1
    <2>3. PICK y \in 0..(r - 1) : ~((b + y) \in 0..(s - 1) /\ c.cells[b + y].pos < 0)
      BY <1>1, <2>2 DEF Slots
    <2>4. b + y \in 0..(s - 1) /\ b + y \in b..(b + nd - 1) /\ b + y >= n BY <2>1
    <2>5. PICK p \in Int : p = c.cells[b + y].pos /\ ~(p < 0) BY <2>3, <2>4, CellTyped
    <2>6. p < n + k /\ (p \in 0..(n - 1) => b + y < n) BY <1>1, <2>4, <2>5 DEF Packed
    <2>7. p \in n..(n + k - 1) BY <2>4, <2>5, <2>6
    <2>8. QED BY <2>1, <2>4, <2>5, <2>7
  <1> DEFINE u == [m \in 0..k |-> CHOOSE x \in Block(m) :
                                    x \in 0..(s - 1) /\ c.cells[x].pos \in n..(n + k - 1)]
             f == [m \in 0..k |-> c.cells[u[m]].pos]
  <1>5. ASSUME NEW m \in 0..k
        PROVE  /\ u[m] \in Block(m) /\ u[m] \in 0..(s - 1)
               /\ f[m] = c.cells[u[m]].pos /\ f[m] \in n..(n + k - 1)
    BY <1>4
  <1>6. f \in [0..k -> n..(n + k - 1)] BY <1>5
  <1> HIDE DEF u, f
  <1>7. PICK x, y \in 0..k : x # y /\ f[x] = f[y]
    <2>1. /\ IsFiniteSet(0..k) /\ Cardinality(0..k) = k + 1
          /\ IsFiniteSet(n..(n + k - 1)) /\ Cardinality(n..(n + k - 1)) = k
      <3>1. 0 \in Int /\ k \in Int /\ n \in Int /\ n + k - 1 \in Int OBVIOUS
      <3>2. IsFiniteSet(0..k) /\ Cardinality(0..k) = IF 0 > k THEN 0 ELSE k - 0 + 1
        BY <3>1, FS_Interval
      <3>3. /\ IsFiniteSet(n..(n + k - 1))
            /\ Cardinality(n..(n + k - 1)) = IF n > n + k - 1 THEN 0 ELSE n + k - 1 - n + 1
        BY <3>1, FS_Interval
      <3>4. QED BY <3>2, <3>3
    <2>2. Cardinality(n..(n + k - 1)) < Cardinality(0..k) BY <2>1
    <2>3. QED BY <1>6, <2>1, <2>2, FS_PigeonHole
  <1>8. ASSUME NEW a \in 0..k, NEW b \in 0..k, a < b, f[a] = f[b] PROVE FALSE
    <2>1. u[b] - u[a] < nd
      <3>1. c.cells[u[b]].pos = c.cells[u[a]].pos /\ c.cells[u[b]].pos >= n
        <4>1. f[b] \in n..(n + k - 1) BY <1>5
        <4>2. f[b] >= n BY <4>1
        <4>3. QED BY <1>5, <1>8, <4>2
      <3>2. QED BY <1>1, <1>5, <3>1 DEF Packed
    <2>2. PICK p \in Nat, q \in Nat : p = a * w /\ q = b * w /\ p + w <= q
      <3>1. a \in Nat /\ b \in Nat OBVIOUS
      <3>2. a * w + w <= b * w BY <1>2, <1>8, <3>1, Apart
      <3>3. QED BY <1>3, <3>2
    <2>3. PICK ua \in Int, ub \in Int : /\ ua = u[a] /\ ub = u[b]
                                        /\ ua <= n + p + nd - 1 /\ n + q <= ub
      <3>1. u[a] \in (n + p)..(n + p + nd - 1) /\ u[b] \in (n + q)..(n + q + nd - 1)
        BY <1>5, <2>2
      <3>2. QED BY <3>1
    <2>4. ub - ua < nd BY <2>1, <2>3
    <2>5. w = nd + nd BY DEF w
    <2>6. QED BY <2>2, <2>3, <2>4, <2>5
  <1>9. x < y \/ y < x BY <1>7
  <1>10. QED BY <1>7, <1>8, <1>9

\* One decoder alone leaves a cell free as long as there are more cells than tokens.
LEMMA CellIsThere ==
  ASSUME NEW s \in Nat \ {0}, NEW c, IsCache(c, s), NEW n \in Nat \ {0}, NEW k \in Nat,
         Packed(c, n, k, 1), NEW toks, Holds(c, 0, n, toks, k), n + k < s
  PROVE  HasSlot(c, 1)
  <1>1. Cells(c) = 0..(s - 1) BY DEF IsCache, Cells
  <1> SUFFICES ASSUME Slots(c, 1) = {} PROVE FALSE
    BY DEF HasSlot
  <1>2. ASSUME NEW x \in 0..(s - 1)
        PROVE  0 \in c.cells[x].seqs /\ c.cells[x].pos \in 0..(n + k - 1)
    <2>1. PICK y \in 0..(1 - 1) : ~((x + y) \in 0..(s - 1) /\ c.cells[x + y].pos < 0)
      BY <1>1 DEF Slots
    <2>2. y = 0 /\ x + y = x OBVIOUS
    <2>3. ~(c.cells[x].pos < 0) BY <2>1, <2>2
    <2>4. c.cells[x].seqs # {} BY <2>3, CellTyped
    <2>5. c.cells[x].seqs \subseteq 0..(1 - 1) BY <1>1 DEF Packed
    <2>6. 0..(1 - 1) = {0} OBVIOUS
    <2>7. 0 \in c.cells[x].seqs BY <2>4, <2>5, <2>6
    <2>8. QED BY <1>1, <2>7 DEF Holds
  <1>3. PICK e \in Nat : e = n + k /\ e < s
    <2>1. n + k \in Nat OBVIOUS
    <2>2. QED BY <2>1
  <1> DEFINE f == [x \in 0..e |-> c.cells[x].pos]
  <1>4. \A x \in 0..e : x \in 0..(s - 1) /\ f[x] \in 0..(e - 1) BY <1>2, <1>3
  <1>5. f \in [0..e -> 0..(e - 1)] BY <1>4
  <1> HIDE DEF f
  <1>6. PICK x, y \in 0..e : x # y /\ f[x] = f[y]
    <2>1. /\ IsFiniteSet(0..e) /\ Cardinality(0..e) = e + 1
          /\ IsFiniteSet(0..(e - 1)) /\ Cardinality(0..(e - 1)) = e
      <3>1. 0 \in Int /\ e \in Int /\ e - 1 \in Int OBVIOUS
      <3>2. IsFiniteSet(0..e) /\ Cardinality(0..e) = IF 0 > e THEN 0 ELSE e - 0 + 1
        BY <3>1, FS_Interval
      <3>3. /\ IsFiniteSet(0..(e - 1))
            /\ Cardinality(0..(e - 1)) = IF 0 > e - 1 THEN 0 ELSE e - 1 - 0 + 1
        BY <3>1, FS_Interval
      <3>4. QED BY <3>2, <3>3
    <2>2. Cardinality(0..(e - 1)) < Cardinality(0..e) BY <2>1
    <2> DEFINE A == 0..e
               B == 0..(e - 1)
    <2>3. IsFiniteSet(A) /\ IsFiniteSet(B) /\ Cardinality(B) < Cardinality(A) /\ f \in [A -> B]
      BY <1>5, <2>1, <2>2
    <2> HIDE DEF A, B
    <2>4. \E x, y \in A : x # y /\ f[x] = f[y] BY <2>3, FS_PigeonHole
    <2>5. QED BY <2>4 DEF A
  <1>7. x \in 0..(s - 1) /\ y \in 0..(s - 1) /\ c.cells[x].pos = c.cells[y].pos
    BY <1>4, <1>6 DEF f
  <1>8. QED BY <1>1, <1>2, <1>6, <1>7 DEF Holds

-------------------------------------------------------------------------------
(***************************************************************************)
(* The cache has room for the decoders there ever were, and while a window *)
(* is decoded it holds of each running one the prompt and the tokens       *)
(* decoded so far.                                                         *)
(***************************************************************************)
KvSize == PaddedCtx * CacheFactor(kvDecoders)

CacheSized == kvDecoders \in 1..MaxDecoders /\ IsCache(kv, KvSize)

CacheHolds(n) ==
  /\ NDecoders <= kvDecoders
  /\ Packed(kv, n, i, NDecoders)
  /\ \A j \in Running : Holds(kv, j, n, decoders[j].toks, i)
  /\ pc = "decode" => Running # {}

CacheInv ==
  CacheSized /\ (pc \in {"sample", "decode", "rank"} => CacheHolds(PromptLen(take)))

LEMMA SizeTyped ==
  ASSUME NEW n \in 1..MaxDecoders
  PROVE  PaddedCtx * CacheFactor(n) \in Nat \ {0}
  <1>1. PICK f \in Nat \ {0} : f = CacheFactor(n) BY DEF CacheFactor
  <1>2. PICK p \in Nat \ {0} : p = PaddedCtx BY WhisperAssumption
  <1>3. p * f \in Nat \ {0}
    <2>1. 0 * f + f <= p * f BY Apart
    <2>2. p * f \in Nat /\ 0 * f = 0 OBVIOUS
    <2>3. QED BY <2>1, <2>2
  <1>4. QED BY <1>1, <1>2, <1>3

LEMMA CacheInit == Init => CacheInv
  <1> SUFFICES ASSUME Init PROVE CacheInv
    OBVIOUS
  <1>1. 1 \in 1..MaxDecoders BY WhisperAssumption
  <1>2. kvDecoders = 1 /\ kv = NewCache(PaddedCtx) /\ pc = "idle" BY DEF Init
  <1>3. CacheFactor(1) = 1 /\ KvSize = PaddedCtx BY <1>2, WhisperAssumption DEF CacheFactor, KvSize
  <1>4. PaddedCtx \in Nat \ {0} BY WhisperAssumption
  <1>5. IsCache(kv, KvSize) BY <1>2, <1>3, <1>4, NewIsEmpty
  <1>6. QED BY <1>1, <1>2, <1>5 DEF CacheInv, CacheSized

\* Where no window is decoded, the cache only keeps its size.
LEMMA CacheOutside ==
  ASSUME CacheInv, UNCHANGED cache, pc' \notin {"sample", "decode", "rank"}
  PROVE  CacheInv'
  BY DEF CacheInv, CacheSized, KvSize, CacheFactor, IsCache, Sound, Cells, cache

-------------------------------------------------------------------------------
\* A temperature starts with an empty cache.
LEMMA Emptied ==
  ASSUME CacheInv, Prepare
  PROVE  /\ kvDecoders' \in 1..MaxDecoders /\ NDecoders <= kvDecoders'
         /\ KvSize' \in Nat \ {0}
         /\ IsCache(EmptyCache, KvSize') /\ IsEmpty(EmptyCache)
  <1>1. kvDecoders \in 1..MaxDecoders /\ IsCache(kv, KvSize) BY DEF CacheInv, CacheSized
  <1>2. kvDecoders' = IF kvDecoders < NDecoders THEN NDecoders ELSE kvDecoders BY DEF Prepare
  <1>3. NDecoders \in 1..MaxDecoders BY Constants
  <1>4. kvDecoders' \in 1..MaxDecoders /\ NDecoders <= kvDecoders' BY <1>1, <1>2, <1>3
  <1>5. KvSize' = PaddedCtx * CacheFactor(kvDecoders') BY DEF KvSize, CacheFactor
  <1>6. KvSize' \in Nat \ {0} BY <1>4, <1>5, SizeTyped
  <1>7. CASE kvDecoders < NDecoders
    <2>1. EmptyCache = NewCache(KvSize') BY <1>2, <1>5, <1>7 DEF EmptyCache
    <2>2. QED BY <1>4, <1>6, <2>1, NewIsEmpty
  <1>8. CASE ~(kvDecoders < NDecoders)
    <2>1. EmptyCache = Clear(kv) BY <1>8 DEF EmptyCache
    <2>2. KvSize' = KvSize BY <1>2, <1>5, <1>8 DEF KvSize
    <2>3. QED BY <1>1, <1>4, <1>6, <2>1, <2>2, ClearIsEmpty
  <1>9. QED BY <1>7, <1>8

LEMMA PromptLenTyped ==
  ASSUME NEW t \in Nat
  PROVE  /\ PromptLen(t) \in Nat \ {0} /\ PromptLen(t) <= 1 + t + PromptInit
         /\ PromptInit \in {3, 4} /\ (~params.noTimestamps => PromptInit = 3)
  BY DEF PromptLen, PromptInit

LEMMA PromptTyped ==
  ASSUME Inv, pc = "temperature"
  PROVE  /\ PromptLen(Taken) \in Nat \ {0}
         /\ Prompt \in [1..PromptLen(Taken) -> Entry] /\ Len(Prompt) = PromptLen(Taken)
         /\ \A k \in 1..PromptLen(Taken) :
              Prompt[k].pos = k - 1 /\ Prompt[k].seq = 0 /\ Prompt[k].tok = PromptToken
  <1>1. Taken \in Nat BY Constants DEF Inv, Sizes, Taken
  <1>2. PICK n \in Nat \ {0} : n = PromptLen(Taken) BY <1>1, PromptLenTyped
  <1>3. Prompt = [k \in 1..n |-> [pos |-> k - 1, seq |-> 0, tok |-> PromptToken]] BY <1>2 DEF Prompt
  <1>4. \A k \in 1..n : [pos |-> k - 1, seq |-> 0, tok |-> PromptToken] \in Entry
    BY DEF Entry, PromptToken
  <1>5. Prompt \in [1..n -> Entry] /\ Len(Prompt) = n BY <1>3, <1>4
  <1>6. \A k \in 1..n : Prompt[k].pos = k - 1 /\ Prompt[k].seq = 0 /\ Prompt[k].tok = PromptToken
    BY <1>3
  <1>7. QED BY <1>2, <1>5, <1>6

LEMMA StartTemperatureCache == ASSUME Inv, Typing, CacheInv, StartTemperature PROVE CacheInv'
  <1>1. /\ Prepare /\ pc = "temperature" /\ pc' = "sample" /\ i' = 0 /\ take' = Taken
        /\ HasSlot(EmptyCache, PromptLen(Taken))
        /\ kv' = SeqCpAll(Store(EmptyCache, Prompt), 0, 1..(NDecoders - 1))
        /\ UNCHANGED <<params, it>>
    BY DEF StartTemperature, Prepare, call
  <1>2. PICK n \in Nat \ {0} : n = PromptLen(Taken) BY <1>1, PromptTyped
  <1>3. NDecoders' = NDecoders /\ PromptLen(take)' = n
    BY <1>1, <1>2 DEF NDecoders, PromptLen, PromptInit
  <1>4. NDecoders \in Nat \ {0} BY Constants
  <1>5. /\ IsCache(kv', KvSize')
        /\ \A j \in 0..(NDecoders - 1) : \A toks : Holds(kv', j, n, toks, 0)
        /\ Packed(kv', n, 0, NDecoders)
    BY <1>1, <1>2, <1>4, Emptied, PromptTyped, PromptHeld
  <1>6. Running' \subseteq 0..(NDecoders - 1) BY <1>3 DEF Running
  <1>7. CacheSized' BY <1>1, <1>5, Emptied DEF CacheSized
  <1>8. CacheHolds(PromptLen(take))'
    <2>1. \A j \in Running' : Holds(kv', j, n, decoders'[j].toks, 0) BY <1>5, <1>6
    <2>2. QED BY <1>1, <1>3, <1>5, <2>1, Emptied DEF CacheHolds
  <1>9. QED BY <1>7, <1>8 DEF CacheInv

LEMMA PromptFailsCache == ASSUME Inv, CacheInv, PromptFails PROVE CacheInv'
  <1>1. /\ Prepare /\ pc = "temperature" /\ pc' = "idle"
        /\ \/ kv' = EmptyCache
           \/ HasSlot(EmptyCache, PromptLen(Taken)) /\ kv' = Store(EmptyCache, Prompt)
    BY DEF PromptFails, Prepare, Return
  <1>2. IsCache(kv', KvSize')
    <2>1. CASE kv' = EmptyCache BY <1>1, <2>1, Emptied
    <2>2. CASE HasSlot(EmptyCache, PromptLen(Taken)) /\ kv' = Store(EmptyCache, Prompt)
      <3>1. PICK s \in Nat \ {0} : s = KvSize' /\ IsCache(EmptyCache, s) BY <1>1, Emptied
      <3>2. PICK n \in Nat \ {0} : /\ n = PromptLen(Taken) /\ HasSlot(EmptyCache, n)
                                   /\ Prompt \in [1..n -> Entry]
        BY <1>1, <2>2, PromptTyped
      <3>3. IsCache(Store(EmptyCache, Prompt), s) BY <3>1, <3>2, Stored DEF Stores
      <3>4. QED BY <2>2, <3>1, <3>3
    <2>3. QED BY <1>1, <2>1, <2>2
  <1>3. CacheSized' BY <1>1, <1>2, Emptied DEF CacheSized
  <1>4. QED BY <1>1, <1>3 DEF CacheInv

-------------------------------------------------------------------------------
\* Sampling: the cache already holds what the decoders that go on came from.
LEMMA FollowsCache ==
  ASSUME Inv, CacheInv, pc = "sample", UNCHANGED <<params, it, take, i, kvDecoders>>,
         pc' = IF \A j \in Running : decoders'[j].status # "active" THEN "rank" ELSE "decode",
         NEW from \in [Running -> Running], Follows(from),
         IsCache(kv', KvSize), Packed(kv', PromptLen(take), i, NDecoders),
         \A j \in Running : Holds(kv', j, PromptLen(take), decoders[from[j]].toks, i)
  PROVE  CacheInv'
  <1>1. i \in Nat /\ take \in Nat BY Constants DEF Inv, Sizes
  <1>2. PICK n \in Nat \ {0} : n = PromptLen(take) BY <1>1, PromptLenTyped
  <1>3. NDecoders' = NDecoders /\ PromptLen(take)' = n /\ KvSize' = KvSize
    BY <1>2 DEF NDecoders, PromptLen, PromptInit, KvSize, CacheFactor
  <1>4. ASSUME NEW j \in Running' PROVE Holds(kv', j, n, decoders'[j].toks, i)
    <2>1. j \in Running /\ from[j] \in Running BY DEF Follows
    <2> DEFINE toks == decoders[from[j]].toks
    <2>2. toks \in Seq(Token) /\ Len(toks) = i
      <3>1. Whole(decoders[from[j]]) /\ Sampling(decoders[from[j]], i)
        BY <2>1, RunningIds DEF Inv, DecodersWhole, Sizes
      <3>2. QED BY <3>1 DEF Whole, DecoderType, Sampling
    <2>3. PICK tok \in Token : decoders'[j].toks = Append(toks, tok) BY DEF Follows
    <2>4. Holds(kv', j, n, toks, i) BY <1>2, <2>1
    <2> HIDE DEF toks
    <2>5. \A l \in 1..i : Append(toks, tok)[l] = toks[l] BY <2>2
    <2>6. Holds(kv', j, n, Append(toks, tok), i) BY <1>1, <2>4, <2>5, HoldsOfMore
    <2>7. QED BY <2>3, <2>6
  <1>5. pc' = "decode" => Running' # {}
    <2> SUFFICES ASSUME pc' = "decode" PROVE Running' # {}
      OBVIOUS
    <2>1. PICK j \in Running : decoders'[j].status = "active" OBVIOUS
    <2>2. j \in Running' BY <1>3, <2>1 DEF Running
    <2>3. QED BY <2>2
  <1>6. CacheSized' BY <1>3 DEF CacheInv, CacheSized
  <1>7. NDecoders <= kvDecoders BY DEF CacheInv, CacheHolds
  <1>8. CacheHolds(PromptLen(take))' BY <1>2, <1>3, <1>4, <1>5, <1>7 DEF CacheHolds
  <1>9. QED BY <1>6, <1>8 DEF CacheInv

LEMMA SamplePlace ==
  ASSUME Sample \/ Beam
  PROVE  /\ pc = "sample" /\ UNCHANGED <<params, it, take, i, kvDecoders>>
         /\ pc' = IF \A j \in Running : decoders'[j].status # "active" THEN "rank" ELSE "decode"
  <1>1. PICK new : pc = "sample" /\ Sampled(new) BY DEF Sample, Beam
  <1>2. QED BY <1>1 DEF Sampled, call

LEMMA SampleCache == ASSUME Inv, CacheInv, Sample PROVE CacheInv'
  <1>1. kv' = kv BY DEF Sample
  <1>2. CacheSized /\ CacheHolds(PromptLen(take)) BY SamplePlace DEF CacheInv
  <1> DEFINE from == [j \in Running |-> j]
  <1>3. from \in [Running -> Running] /\ Follows(from) /\ \A j \in Running : from[j] = j
    BY SampleInv
  <1> HIDE DEF from
  <1>4. /\ IsCache(kv', KvSize) /\ Packed(kv', PromptLen(take), i, NDecoders)
        /\ \A j \in Running : Holds(kv', j, PromptLen(take), decoders[from[j]].toks, i)
    BY <1>1, <1>2, <1>3 DEF CacheSized, CacheHolds
  <1>5. QED BY <1>3, <1>4, SamplePlace, FollowsCache

LEMMA BeamCache == ASSUME Inv, CacheInv, Beam PROVE CacheInv'
  <1>1. PICK from \in [Running -> Running] : kv' = SeqMove(kv, from) /\ Follows(from)
    BY BeamInv
  <1>2. pc = "sample" BY SamplePlace
  <1>3. CacheSized /\ CacheHolds(PromptLen(take)) BY <1>2 DEF CacheInv
  <1>4. i \in Nat /\ take \in Nat BY <1>2, Constants DEF Inv, Sizes
  <1>5. PICK n \in Nat \ {0} : n = PromptLen(take) BY <1>4, PromptLenTyped
  <1>6. PICK s \in Nat \ {0} : s = KvSize BY <1>3, SizeTyped DEF CacheSized, KvSize
  <1>7. Running \in SUBSET Nat /\ Running \in SUBSET (0..(NDecoders - 1)) /\ NDecoders \in Nat
    BY Constants DEF Running
  <1>8. IsCache(kv, s) /\ Packed(kv, n, i, NDecoders) BY <1>3, <1>5, <1>6 DEF CacheSized, CacheHolds
  <1>9. IsCache(kv', s) BY <1>1, <1>7, <1>8, MovedCells
  <1>10. Packed(kv', n, i, NDecoders) BY <1>1, <1>4, <1>7, <1>8, MovePacked
  <1>11. ASSUME NEW j \in Running PROVE Holds(kv', j, n, decoders[from[j]].toks, i)
    <2>1. Holds(kv, from[j], n, decoders[from[j]].toks, i) BY <1>3, <1>5 DEF CacheHolds
    <2>2. QED BY <1>1, <1>4, <1>7, <1>8, <2>1, MoveHeld
  <1>12. QED BY <1>1, <1>5, <1>6, <1>9, <1>10, <1>11, SamplePlace, FollowsCache

-------------------------------------------------------------------------------
\* The batch has the newest token of every running decoder.
LEMMA BatchTyped ==
  ASSUME Inv, pc = "decode", Running # {}
  PROVE  LET r == Cardinality(Running)
         IN /\ r \in Nat \ {0} /\ r <= NDecoders
            /\ Batch \in [1..r -> Entry] /\ Len(Batch) = r
            /\ \A l \in 1..r : /\ Batch[l].pos = PromptLen(take) + i /\ Batch[l].seq \in Running
                               /\ Batch[l].tok = decoders[Batch[l].seq].toks[i + 1]
            /\ \A l, m \in 1..r : Batch[l].seq = Batch[m].seq => l = m
            /\ \A j \in Running : \E l \in 1..r : Batch[l].seq = j
  <1>1. PICK nd \in Nat \ {0} : nd = NDecoders BY Constants
  <1>2. nd - 1 \in Int /\ Running \in SUBSET (0..(nd - 1)) BY <1>1 DEF Running
  <1>3. IsFiniteSet(Running) /\ Cardinality(Running) \in Nat BY <1>2, BoundedFinite
  <1>4. PICK r \in Nat : r = Cardinality(Running) BY <1>3
  <1>5. r # 0 BY <1>3, <1>4, FS_EmptySet
  <1>6. r <= nd
    <2>1. 0 \in Int /\ nd - 1 \in Int OBVIOUS
    <2>2. /\ IsFiniteSet(0..(nd - 1))
          /\ Cardinality(0..(nd - 1)) = IF 0 > nd - 1 THEN 0 ELSE nd - 1 - 0 + 1
      BY <2>1, FS_Interval
    <2>3. Cardinality(0..(nd - 1)) = nd BY <2>2
    <2>4. Cardinality(Running) <= Cardinality(0..(nd - 1)) BY <1>2, <2>2, FS_Subset
    <2>5. QED BY <1>4, <2>3, <2>4
  <1>7. Ascends(Order, Running)
    <2>1. \E f \in [1..Cardinality(Running) -> Running] :
            \A k, l \in DOMAIN f : k < l => f[k] < f[l]
      BY <1>2, Enumerated DEF Ascends
    <2>2. QED BY <2>1 DEF Order, Ascends
  <1>8. /\ Order \in [1..r -> Running]
        /\ \A k, l \in 1..r : Order[k] = Order[l] => k = l
        /\ \A x \in Running : \E k \in 1..r : Order[k] = x
    <2>1. Enumerates(Order, Running) BY <1>2, <1>7, Enumeration
    <2>2. QED BY <1>4, <2>1 DEF Enumerates
  <1>9. take \in Nat /\ i \in Nat BY Constants DEF Inv, Sizes
  <1>10. PICK p \in Nat : p = PromptLen(take) + i
    <2>1. PromptLen(take) \in Nat BY <1>9, PromptLenTyped
    <2>2. QED BY <1>9, <2>1
  <1>11. ASSUME NEW j \in Running
         PROVE  Last(decoders[j].toks) = decoders[j].toks[i + 1] /\ Last(decoders[j].toks) \in Int
    <2>1. Whole(decoders[j]) /\ Sampling(decoders[j], i + 1)
      BY RunningIds DEF Inv, DecodersWhole, Sizes
    <2>2. decoders[j].toks \in Seq(Token) /\ Len(decoders[j].toks) = i + 1
      BY <2>1 DEF Whole, DecoderType, Sampling
    <2>3. Last(decoders[j].toks) = decoders[j].toks[i + 1] BY <2>2 DEF Last
    <2>4. i + 1 \in 1..Len(decoders[j].toks) BY <1>9, <2>2
    <2>5. decoders[j].toks[i + 1] \in Token BY <2>2, <2>4
    <2>6. QED BY <2>3, <2>5, Tokens
  <1>12. Batch = [k \in 1..r |->
                    [pos |-> p, seq |-> Order[k], tok |-> Last(decoders[Order[k]].toks)]]
    BY <1>4, <1>10 DEF Batch
  <1>13. ASSUME NEW l \in 1..r
         PROVE  /\ Batch[l] \in Entry /\ Batch[l].pos = p /\ Batch[l].seq = Order[l]
                /\ Batch[l].tok = decoders[Order[l]].toks[i + 1]
    <2>0. \A j \in Running : j \in Nat BY <1>2
    <2>1. Order[l] \in Running /\ Order[l] \in Nat BY <1>8, <2>0
    <2>2. Batch[l] = [pos |-> p, seq |-> Order[l], tok |-> Last(decoders[Order[l]].toks)] BY <1>12
    <2>3. QED BY <1>11, <2>1, <2>2 DEF Entry
  <1>14. Batch \in [1..r -> Entry] BY <1>12, <1>13
  <1>15. Len(Batch) = r BY <1>12
  <1>16. QED BY <1>1, <1>4, <1>5, <1>6, <1>8, <1>10, <1>13, <1>14, <1>15

LEMMA DecodeCache == ASSUME Inv, CacheInv, Decode PROVE CacheInv'
  <1>1. /\ pc = "decode" /\ i' = i + 1 /\ pc' \in {"rank", "sample"}
        /\ HasSlot(kv, Len(Batch)) /\ kv' = Store(kv, Batch)
        /\ UNCHANGED <<params, it, take, decoders, kvDecoders>>
    BY DEF Decode, call
  <1>2. CacheSized /\ CacheHolds(PromptLen(take)) BY <1>1 DEF CacheInv
  <1>3. i \in Nat /\ take \in Nat BY <1>1, Constants DEF Inv, Sizes
  <1>4. PICK n \in Nat \ {0} : n = PromptLen(take) BY <1>3, PromptLenTyped
  <1>5. PICK s \in Nat \ {0} : s = KvSize BY <1>2, SizeTyped DEF CacheSized, KvSize
  <1>6. Running # {} BY <1>1, <1>2 DEF CacheHolds
  <1>7. PICK nd \in Nat \ {0} : nd = NDecoders BY Constants
  <1>8. PICK r \in Nat \ {0} :
          /\ r = Cardinality(Running) /\ r <= nd
          /\ Batch \in [1..r -> Entry] /\ Len(Batch) = r
          /\ \A l \in 1..r : /\ Batch[l].pos = n + i /\ Batch[l].seq \in Running
                             /\ Batch[l].tok = decoders[Batch[l].seq].toks[i + 1]
          /\ \A l, m \in 1..r : Batch[l].seq = Batch[m].seq => l = m
          /\ \A j \in Running : \E l \in 1..r : Batch[l].seq = j
    BY <1>1, <1>4, <1>6, <1>7, BatchTyped
  <1>9. \A j \in Running : j \in 0..(nd - 1) BY <1>7 DEF Running
  <1>10. IsCache(kv, s) /\ Packed(kv, n, i, nd) BY <1>2, <1>4, <1>5, <1>7 DEF CacheSized, CacheHolds
  <1>11. /\ IsCache(kv', s) /\ Packed(kv', n, i + 1, nd)
         /\ \A l \in 1..r : \A toks :
              Holds(kv, Batch[l].seq, n, toks, i) /\ toks[i + 1] = Batch[l].tok
                => Holds(kv', Batch[l].seq, n, toks, i + 1)
    <2>1. HasSlot(kv, r) /\ \A l \in 1..r : Batch[l].pos = n + i /\ Batch[l].seq \in 0..(nd - 1)
      BY <1>1, <1>8, <1>9
    <2>2. \A l, m \in 1..r : Batch[l].seq = Batch[m].seq => l = m BY <1>8
    <2>3. i \in Nat /\ r <= nd /\ Batch \in [1..r -> Entry] BY <1>3, <1>8
    <2>4. QED BY <1>1, <1>10, <2>1, <2>2, <2>3, BatchHeld
  <1>12. ASSUME NEW j \in Running PROVE Holds(kv', j, n, decoders[j].toks, i + 1)
    <2>1. PICK l \in 1..r : Batch[l].seq = j BY <1>8
    <2>2. Batch[l].tok = decoders[j].toks[i + 1] BY <1>8, <2>1
    <2>3. Holds(kv, j, n, decoders[j].toks, i) BY <1>2, <1>4 DEF CacheHolds
    <2>4. QED BY <1>11, <2>1, <2>2, <2>3
  <1>13. NDecoders' = nd /\ Running' = Running /\ PromptLen(take)' = n /\ KvSize' = s
    BY <1>1, <1>4, <1>5, <1>7
       DEF NDecoders, Running, PromptLen, PromptInit, KvSize, CacheFactor
  <1>14. CacheSized' BY <1>1, <1>2, <1>11, <1>13 DEF CacheSized
  <1>15. CacheHolds(PromptLen(take))'
    <2>1. NDecoders <= kvDecoders BY <1>2 DEF CacheHolds
    <2>2. QED BY <1>1, <1>7, <1>11, <1>12, <1>13, <2>1 DEF CacheHolds
  <1>16. QED BY <1>14, <1>15 DEF CacheInv

LEMMA DecodeFailsCache == ASSUME Inv, CacheInv, DecodeFails PROVE CacheInv'
  <1>1. /\ pc = "decode" /\ pc' = "idle" /\ UNCHANGED kvDecoders
        /\ \/ kv' = kv
           \/ HasSlot(kv, Len(Batch)) /\ kv' = Store(kv, Batch)
    BY DEF DecodeFails, Return
  <1>2. CacheSized /\ Running # {} BY <1>1 DEF CacheInv, CacheHolds
  <1>3. PICK s \in Nat \ {0} : s = KvSize BY <1>2, SizeTyped DEF CacheSized, KvSize
  <1>4. IsCache(kv', s)
    <2>1. IsCache(kv, s) BY <1>2, <1>3 DEF CacheSized
    <2>2. CASE kv' = kv BY <2>1, <2>2
    <2>3. CASE HasSlot(kv, Len(Batch)) /\ kv' = Store(kv, Batch)
      <3>1. PICK r \in Nat \ {0} : HasSlot(kv, r) /\ Batch \in [1..r -> Entry]
        BY <1>1, <1>2, <2>3, BatchTyped
      <3>2. IsCache(Store(kv, Batch), s) BY <2>1, <3>1, Stored DEF Stores
      <3>3. QED BY <2>3, <3>2
    <2>4. QED BY <1>1, <2>2, <2>3
  <1>5. KvSize' = s BY <1>1, <1>3 DEF KvSize, CacheFactor
  <1>6. CacheSized' BY <1>1, <1>2, <1>4, <1>5 DEF CacheSized
  <1>7. QED BY <1>1, <1>6 DEF CacheInv

LEMMA CacheStep == ASSUME Inv, Typing, CacheInv, Next PROVE CacheInv'
  <1>1. CASE Finish \/ EncodeFails
    <2>1. pc' = "idle" /\ UNCHANGED cache BY <1>1 DEF Finish, EncodeFails, Return
    <2>2. QED BY <2>1, CacheOutside
  <1>2. CASE Encode \/ CacheFails \/ Rank \/ Output
    <2>1. pc' \in {"temperature", "gone", "output", "window"} /\ UNCHANGED cache
      BY <1>2 DEF Encode, CacheFails, Rank, Output
    <2>2. QED BY <2>1, CacheOutside
  <1>3. CASE \E p \in Params, len \in Lengths : Call(p, len)
    <2>1. pc' \in {"idle", "window"} /\ UNCHANGED cache BY <1>3 DEF Call
    <2>2. QED BY <2>1, CacheOutside
  <1>4. CASE Crashed
    <2>1. pc' = "gone" /\ UNCHANGED cache BY <1>4 DEF Crashed, vars, cache
    <2>2. QED BY <2>1, CacheOutside
  <1>5. QED
    BY <1>1, <1>2, <1>3, <1>4, StartTemperatureCache, PromptFailsCache, SampleCache, BeamCache,
       DecodeCache, DecodeFailsCache
    DEF Next, Step

LEMMA Cached == Spec => []CacheInv
  <1>1. CacheInv /\ UNCHANGED vars => CacheInv'
    <2> SUFFICES ASSUME CacheInv, UNCHANGED vars PROVE CacheInv'
      OBVIOUS
    <2>1. NDecoders' = NDecoders /\ Running' = Running /\ PromptLen(take)' = PromptLen(take)
          /\ KvSize' = KvSize
      BY DEF NDecoders, Running, PromptLen, PromptInit, KvSize, CacheFactor, vars
    <2>2. QED BY <2>1 DEF CacheInv, CacheSized, CacheHolds, vars
  <1>2. Inv /\ Typing /\ CacheInv /\ [Next]_vars => CacheInv' BY <1>1, CacheStep
  <1>3. QED BY <1>2, CacheInit, Invariance, Typed, PTL DEF Spec

-------------------------------------------------------------------------------
\* Every variable keeps its type (whisper.cpp:6855-7770), the past among them, which the
\* prompt and one result can hold.
THEOREM TypeCorrect == Spec => []TypeOK
  <1>1. ASSUME Inv, Typing, CacheInv PROVE TypeOK
    <2>1. ASSUME NEW j \in DecoderIds
          PROVE  /\ Range(decoders[j].toks) \subseteq Token
                 /\ decoders[j].resultLen \in 0..Len(decoders[j].toks)
                 /\ decoders[j].status \in {"active", "completed", "failed"}
      <3>1. Whole(decoders[j]) BY <1>1 DEF Inv, DecodersWhole
      <3>2. /\ decoders[j].toks \in Seq(Token) /\ decoders[j].resultLen \in Nat
            /\ decoders[j].resultLen <= Len(decoders[j].toks)
            /\ decoders[j].status \in {"active", "completed", "failed"}
        BY <3>1 DEF Whole, DecoderType
      <3>3. Range(decoders[j].toks) \subseteq Token BY <3>2 DEF Range
      <3>4. QED BY <3>2, <3>3
    <2>2. PICK s \in Nat \ {0} : s = KvSize /\ IsCache(kv, s)
      BY <1>1, SizeTyped DEF CacheInv, CacheSized, KvSize
    <2>3. Sound(kv) /\ kv.head \in Cells(kv) BY <2>2 DEF IsCache, Cells
    <2>4. best \in DecoderIds BY <1>1 DEF Inv, Bests
    <2>5. QED BY <1>1, <2>1, <2>3, <2>4 DEF Typing, TypeOK, Token, Half
  <1>2. QED BY <1>1, Invariance, Typed, Cached, PTL

-------------------------------------------------------------------------------
\* A decoder attends to n tokens of the prompt and k of its own, each once.
Sees(c, j, n, toks, k) ==
  LET seen == Attended(c, CellMax(c), j, n + k - 1)
  IN /\ Cardinality(seen) = n + k
     /\ {<<c.cells[x].pos, c.cells[x].tok>> : x \in seen}
          = {<<p, PromptToken>> : p \in 0..(n - 1)} \cup {<<n + l - 1, toks[l]>> : l \in 1..k}

\* It does if those are what the cache holds of it.
LEMMA SeenOnce ==
  ASSUME NEW s \in Nat \ {0}, NEW c, IsCache(c, s), NEW j, NEW n \in Nat \ {0}, NEW k \in Nat,
         NEW toks, Holds(c, j, n, toks, k)
  PROVE  Sees(c, j, n, toks, k)
  <1> DEFINE seen == Attended(c, CellMax(c), j, n + k - 1)
             Own == {x \in 0..(s - 1) : j \in c.cells[x].seqs}
  <1>1. Cells(c) = 0..(s - 1) BY DEF IsCache, Cells
  <1>2. seen = Own
    <2>1. ASSUME NEW x \in Own PROVE x < CellMax(c) /\ c.cells[x].pos <= n + k - 1
      <3>1. x \in 0..(s - 1) /\ j \in c.cells[x].seqs OBVIOUS
      <3>2. c.cells[x].pos \in 0..(n + k - 1) BY <1>1, <3>1 DEF Holds
      <3>3. x < CellMax(c) BY <3>1, AllSeen
      <3>4. QED BY <3>2, <3>3
    <2>2. QED BY <1>1, <2>1 DEF Attended
  <1> HIDE DEF seen
  <1>3. PICK e \in Int : e = n + k - 1 /\ e >= 0
    <2>1. n + k - 1 \in Int /\ n + k - 1 >= 0 OBVIOUS
    <2>2. QED BY <2>1
  <1>4. /\ \A x \in Own : /\ c.cells[x].pos \in 0..e
                          /\ c.cells[x].tok = TokenAt(n, toks, c.cells[x].pos)
        /\ \A p \in 0..e : \E x \in Own : c.cells[x].pos = p
        /\ \A x, y \in Own : c.cells[x].pos = c.cells[y].pos => x = y
    BY <1>1, <1>3 DEF Holds
  <1>5. Own \in SUBSET (0..(s - 1)) OBVIOUS
  <1> HIDE DEF Own
  <1>6. Cardinality(Own) = n + k
    <2> DEFINE f == [x \in Own |-> c.cells[x].pos]
    <2>1. IsFiniteSet(Own)
      <3>1. s - 1 \in Int OBVIOUS
      <3>2. QED BY <1>5, <3>1, BoundedFinite
    <2>2. f \in Injection(Own, 0..e) /\ f \in Surjection(Own, 0..e)
      BY <1>4 DEF Injection, IsInjective, Surjection
    <2> HIDE DEF f
    <2>3. Cardinality(0..e) = Cardinality(Own) BY <2>1, <2>2, FS_Surjection
    <2>4. Cardinality(0..e) = IF 0 > e THEN 0 ELSE e - 0 + 1
      <3>1. 0 \in Int OBVIOUS
      <3>2. QED BY <1>3, <3>1, FS_Interval
    <2>5. e - 0 + 1 = n + k /\ ~(0 > e) BY <1>3
    <2>6. QED BY <2>3, <2>4, <2>5
  <1> DEFINE Pairs == {<<c.cells[x].pos, c.cells[x].tok>> : x \in Own}
             Prompts == {<<p, PromptToken>> : p \in 0..(n - 1)}
             Owns == {<<n + l - 1, toks[l]>> : l \in 1..k}
  <1>7. ASSUME NEW x \in Own
        PROVE  <<c.cells[x].pos, c.cells[x].tok>> \in Prompts \cup Owns
    <2>1. PICK p \in 0..e : p = c.cells[x].pos /\ c.cells[x].tok = TokenAt(n, toks, p) BY <1>4
    <2>2. CASE p < n
      <3>1. p \in 0..(n - 1) BY <2>2
      <3>2. TokenAt(n, toks, p) = PromptToken BY <2>2 DEF TokenAt
      <3>3. QED BY <2>1, <3>1, <3>2
    <2>3. CASE ~(p < n)
      <3>1. p - n + 1 \in 1..k /\ n + (p - n + 1) - 1 = p BY <1>3, <2>3
      <3>2. TokenAt(n, toks, p) = toks[p - n + 1] BY <2>3 DEF TokenAt
      <3>3. QED BY <2>1, <3>1, <3>2
    <2>4. QED BY <2>2, <2>3
  <1>8. ASSUME NEW p \in 0..e
        PROVE  <<p, TokenAt(n, toks, p)>> \in Pairs
    BY <1>4
  <1>9. Prompts \subseteq Pairs
    <2>1. ASSUME NEW p \in 0..(n - 1) PROVE <<p, PromptToken>> \in Pairs
      <3>1. p \in 0..e BY <1>3
      <3>2. TokenAt(n, toks, p) = PromptToken BY DEF TokenAt
      <3> HIDE DEF Pairs
      <3>3. QED BY <1>8, <3>1, <3>2
    <2>2. QED BY <2>1
  <1>10. Owns \subseteq Pairs
    <2>1. ASSUME NEW l \in 1..k PROVE <<n + l - 1, toks[l]>> \in Pairs
      <3>1. PICK p \in 0..e : p = n + l - 1 /\ ~(p < n) /\ p - n + 1 = l
        <4>1. n + l - 1 \in 0..e /\ ~(n + l - 1 < n) /\ n + l - 1 - n + 1 = l BY <1>3
        <4>2. QED BY <4>1
      <3>2. TokenAt(n, toks, p) = toks[l] BY <3>1 DEF TokenAt
      <3> HIDE DEF Pairs
      <3>3. QED BY <1>8, <3>1, <3>2
    <2>2. QED BY <2>1
  <1>11. Pairs = Prompts \cup Owns BY <1>7, <1>9, <1>10
  <1>12. QED BY <1>2, <1>6, <1>11 DEF seen, Sees

\* What a running decoder attends to is the prompt and its own tokens decoded so far,
\* each at its position and once (whisper.cpp:7146-7163, 7283-7298 and 7413-7440), for
\* every size of the context, every number of decoders and whatever the beams picked.
THEOREM CacheIsCoherent == Spec => []CacheCoherent
  <1>1. ASSUME Inv, Typing, CacheInv, pc \in {"sample", "decode", "rank"}, NEW j \in Running
        PROVE  LET n == PromptLen(take)
                   own == SubSeq(decoders[j].toks, 1, i)
                   seen == Attended(kv, CellMax(kv), j, n + Len(own) - 1)
               IN /\ Cardinality(seen) = n + Len(own)
                  /\ {<<kv.cells[c].pos, kv.cells[c].tok>> : c \in seen}
                       = {<<p, PromptToken>> : p \in 0..(n - 1)}
                           \cup {<<n + k - 1, own[k]>> : k \in DOMAIN own}
    <2> DEFINE toks == decoders[j].toks
               own == SubSeq(toks, 1, i)
    <2>1. CacheSized /\ CacheHolds(PromptLen(take)) BY <1>1 DEF CacheInv
    <2>2. take \in Nat /\ i \in Nat /\ toks \in Seq(Token) /\ i <= Len(toks)
      <3>1. take \in Nat /\ i \in Nat BY <1>1, Constants DEF Typing, Half
      <3>2. Whole(decoders[j]) /\ (Sampling(decoders[j], i) \/ Sampling(decoders[j], i + 1))
        BY <1>1, RunningIds DEF Inv, DecodersWhole, Sizes
      <3>3. QED BY <3>1, <3>2 DEF Whole, DecoderType, Sampling
    <2>3. PICK n \in Nat \ {0} : n = PromptLen(take) BY <2>2, PromptLenTyped
    <2>4. PICK s \in Nat \ {0} : s = KvSize BY <2>1, SizeTyped DEF CacheSized, KvSize
    <2>5. IsCache(kv, s) /\ Holds(kv, j, n, toks, i) BY <2>1, <2>3, <2>4 DEF CacheSized, CacheHolds
    <2> HIDE DEF toks
    <2>6. Len(own) = i /\ DOMAIN own = 1..i /\ \A k \in 1..i : own[k] = toks[k] BY <2>2
    <2> HIDE DEF own
    <2>7. Holds(kv, j, n, own, i) BY <2>2, <2>5, <2>6, HoldsOfMore
    <2>8. Sees(kv, j, n, own, i) BY <2>2, <2>5, <2>7, SeenOnce
    <2>9. QED BY <2>3, <2>6, <2>8 DEF Sees, own, toks
  <1>2. Inv /\ Typing /\ CacheInv => CacheCoherent BY <1>1 DEF CacheCoherent
  <1>3. QED BY <1>2, Invariance, Typed, Cached, PTL

-------------------------------------------------------------------------------
LEMMA Within ==
  ASSUME NEW a \in Nat, NEW b \in Nat, a <= b, NEW w \in Nat
  PROVE  a * w \in Nat /\ b * w \in Nat /\ a * w <= b * w
  <1>1. a * w \in Nat /\ b * w \in Nat OBVIOUS
  <1>2. CASE a = b BY <1>1, <1>2
  <1>3. CASE a # b
    <2>1. a < b BY <1>3
    <2>2. a * w + w <= b * w BY <2>1, Apart
    <2>3. QED BY <1>1, <2>2
  <1>4. QED BY <1>2, <1>3

\* With several decoders the cache has room for all of their batches twice.
LEMMA RoomForBatches ==
  ASSUME NEW t \in Nat, NEW p \in Nat, t <= p, NEW nd \in Nat, NEW m \in Nat, nd <= m,
         NEW n \in Nat, n <= t, NEW k \in Nat, 2 * k + 1 <= t
  PROVE  n + (2 * k + 1) * nd <= p * (m + 2)
  <1>1. PICK a \in Nat : a = (2 * k + 1) * nd /\ a <= t * nd
    <2>1. 2 * k + 1 \in Nat OBVIOUS
    <2>2. (2 * k + 1) * nd \in Nat /\ (2 * k + 1) * nd <= t * nd BY <2>1, Within
    <2>3. QED BY <2>2
  <1>2. PICK b \in Nat : b = t * nd /\ b = nd * t
    <2>1. t * nd \in Nat /\ t * nd = nd * t OBVIOUS
    <2>2. QED BY <2>1
  <1>3. PICK d \in Nat : d = m * t /\ b <= d
    <2>1. m * t \in Nat /\ nd * t <= m * t BY Within
    <2>2. QED BY <1>2, <2>1
  <1>4. t * (m + 2) = m * t + 2 * t OBVIOUS
  <1>5. t * (m + 2) \in Nat /\ t * (m + 2) <= p * (m + 2)
    <2>1. m + 2 \in Nat OBVIOUS
    <2>2. QED BY <2>1, Within
  <1>6. PICK u \in Nat, v \in Nat : u = t * (m + 2) /\ v = p * (m + 2) /\ u <= v /\ u = d + 2 * t
    <2>1. p * (m + 2) \in Nat OBVIOUS
    <2>2. QED BY <1>3, <1>4, <1>5, <2>1
  <1>7. n + a <= v BY <1>1, <1>2, <1>3, <1>6
  <1>8. QED BY <1>1, <1>6, <1>7

\* No token is decoded at a position beyond the model's context (whisper.cpp:7087,
\* 7166 and 7383), whatever the context's size: the past, the prompt and the tokens
\* sampled fill it exactly.
LEMMA InContext == Inv => PositionInContext
  <1> SUFFICES ASSUME Inv, pc = "decode" PROVE PromptLen(take) + i < TextCtx
    BY DEF PositionInContext
  <1>1. take \in 0..(TextCtx \div 2) /\ i \in 0..(NMax - 1) /\ (i = NMax - 1 => ~params.noTimestamps)
    BY DEF Inv, Sizes
  <1>2. PromptLen(take) <= 1 + take + PromptInit /\ PromptInit \in {3, 4}
        /\ PromptLen(take) \in Int /\ (~params.noTimestamps => PromptInit = 3)
    BY <1>1, Constants, PromptLenTyped
  <1> DEFINE h == TextCtx \div 2
  <1>3. h \in Nat /\ TextCtx \in Nat /\ 2 * h <= TextCtx /\ NMax = h - 4
    BY Constants, WhisperAssumption
  <1>4. take \in 0..h BY <1>1
  <1> HIDE DEF h
  <1>5. take <= h /\ take \in Int /\ i \in Int /\ i <= h - 5
        /\ (~params.noTimestamps \/ i <= h - 6)
    BY <1>1, <1>3, <1>4
  <1>6. QED BY <1>2, <1>3, <1>5

THEOREM PositionsKnown == Spec => []PositionInContext
  BY InContext, Invariance, PTL

\* The next batch always finds a slot in one piece (whisper.cpp:7109-7115), for every
\* size of the context and every number of decoders: one decoder uses as many cells as
\* there are tokens, and several leave so many that some block of them is free.
THEOREM SlotIsFound == Spec => []SlotFound
  <1>1. ASSUME Inv, CacheInv, pc = "decode"
        PROVE  HasSlot(kv, Cardinality(Running))
    <2>1. CacheSized /\ CacheHolds(PromptLen(take)) BY <1>1 DEF CacheInv
    <2>2. PICK t \in Nat, p \in Nat, h \in Nat :
            /\ t = TextCtx /\ p = PaddedCtx /\ h = TextCtx \div 2 /\ t <= p /\ 2 * h <= t
            /\ NMax = h - 4
      BY Constants, WhisperAssumption
    <2>3. PICK k \in Nat : k = i /\ k <= h - 5
      BY <1>1, <2>2, Constants DEF Inv, Sizes
    <2>4. take \in Nat BY <1>1, Constants DEF Inv, Sizes
    <2>5. PICK n \in Nat \ {0} : n = PromptLen(take) BY <2>4, PromptLenTyped
    <2>6. n + k < t BY <1>1, <2>2, <2>3, <2>5, InContext DEF PositionInContext
    <2>7. PICK nd \in Nat \ {0}, m \in Nat \ {0} : nd = NDecoders /\ m = kvDecoders /\ nd <= m
      BY <2>1, Constants DEF CacheSized, CacheHolds
    <2>8. PICK s \in Nat \ {0} : s = KvSize BY <2>1, SizeTyped DEF CacheSized, KvSize
    <2>9. IsCache(kv, s) /\ Packed(kv, n, k, nd)
      BY <2>1, <2>3, <2>5, <2>7, <2>8 DEF CacheSized, CacheHolds
    <2>10. PICK r \in Nat \ {0} : r = Cardinality(Running) /\ r <= nd
      BY <1>1, <2>1, <2>7, BatchTyped DEF CacheHolds
    <2>11. CASE nd = 1
      <3>1. r = 1 BY <2>10, <2>11
      <3>2. 0 \in Running /\ Holds(kv, 0, n, decoders[0].toks, k)
        <4>1. Running # {} /\ \A j \in Running : Holds(kv, j, n, decoders[j].toks, k)
          BY <1>1, <2>1, <2>3, <2>5 DEF CacheHolds
        <4>2. \A j \in Running : j = 0 BY <2>7, <2>11 DEF Running
        <4>3. QED BY <4>1, <4>2
      <3>3. t <= s
        <4>1. PICK f \in Nat \ {0} : f = CacheFactor(m) BY DEF CacheFactor
        <4>2. s = p * f BY <2>2, <2>7, <2>8, <4>1 DEF KvSize
        <4>3. 1 * p <= f * p BY Within
        <4>4. f * p = p * f /\ 1 * p = p OBVIOUS
        <4>5. QED BY <2>2, <4>2, <4>3, <4>4
      <3>4. n + k < s BY <2>6, <3>3
      <3>5. Packed(kv, n, k, 1) BY <2>9, <2>11
      <3>6. HasSlot(kv, 1) BY <2>9, <3>2, <3>4, <3>5, CellIsThere
      <3>7. QED BY <2>10, <3>1, <3>6
    <2>12. CASE nd # 1
      <3>1. s = p * (m + 2)
        <4>1. m > 1 BY <2>7, <2>12
        <4>2. CacheFactor(m) = m + 2 BY <4>1 DEF CacheFactor
        <4>3. QED BY <2>2, <2>7, <2>8, <4>2 DEF KvSize
      <3>2. n <= t /\ 2 * k + 1 <= t BY <2>2, <2>3, <2>6
      <3>3. n + (2 * k + 1) * nd <= p * (m + 2) BY <2>2, <2>7, <3>2, RoomForBatches
      <3>4. n + (2 * k + 1) * nd <= s BY <3>1, <3>3
      <3>5. r \in 1..nd BY <2>10
      <3>6. HasSlot(kv, r) BY <2>9, <3>4, <3>5, SlotIsThere
      <3>7. QED BY <2>10, <3>6
    <2>13. QED BY <2>11, <2>12
  <1>2. Inv /\ CacheInv => SlotFound BY <1>1 DEF SlotFound
  <1>3. QED BY <1>2, Invariance, Cached, PTL

\* The result that is output was decoded from the window it is output for
\* (whisper.cpp:7027 and 7557), also when no decoder of the last temperature has any.
THEOREM BestFromWindow == Spec => []BestOfThisWindow
  <1>1. Inv => BestOfThisWindow BY DEF Inv, Bests, BestOfThisWindow
  <1>2. QED BY <1>1, Invariance, PTL
===============================================================================
