---------------------------- MODULE GgmlAllocProofs ----------------------------
(***************************************************************************)
(* Proofs about the placement of any graph's tensors in a buffer: that the *)
(* allocator of the free blocks gives out what is free and no more, that   *)
(* the walk frees and reuses nothing still wanted, and so that a tensor    *)
(* has rows of its own as long as it is read, or gives them, row by row,   *)
(* to the last that reads it.                                              *)
(***************************************************************************)
EXTENDS GgmlAlloc, FiniteSetTheorems, SequenceTheorems, WellFoundedInduction, TLAPS

-------------------------------------------------------------------------------
(***************************************************************************)
(* Numbers, and the loops of the walk unrolled: w[k] is the state after k  *)
(* rounds.                                                                 *)
(***************************************************************************)
\* Induction over the numbers in a set.
LEMMA Numbers ==
  ASSUME NEW S, 0 \in S, \A n \in Nat : n \in S => n + 1 \in S
  PROVE  Nat \subseteq S
  <1> DEFINE T == Nat \ S
  <1>1. SUFFICES ASSUME T # {} PROVE FALSE OBVIOUS
  <1>2. PICK m \in T : \A n \in T : ~(<<n, m>> \in OpToRel(<, Nat))
    BY <1>1, NatLessThanWellFounded, WFMin
  <1>3. \A n \in T : ~(n < m) BY <1>2 DEF OpToRel
  <1>4. m # 0 /\ m - 1 \in Nat /\ m - 1 < m /\ (m - 1) + 1 = m OBVIOUS
  <1>5. m - 1 \in S BY <1>3, <1>4
  <1>6. QED BY <1>4, <1>5

\* The last of the first k.
LEMMA MaxOfInterval == ASSUME NEW k \in Nat \ {0} PROVE Max(1..k) = k
  BY DEF Max

\* A set of some of the first n that is not empty has a largest.
LEMMA MaxIsIn ==
  ASSUME NEW n \in Nat, NEW s \in SUBSET (1..n), s # {}
  PROVE  Max(s) \in s /\ \A x \in s : x <= Max(s)
  <1> DEFINE K == {k \in Nat : \A u \in SUBSET (1..k) : u # {} => \E m \in u : \A x \in u : m >= x}
  <1>1. 0 \in K
    <2>1. 1..0 = {} OBVIOUS
    <2>2. QED BY <2>1
  <1>2. ASSUME NEW k \in Nat, k \in K PROVE k + 1 \in K
    <2>1. ASSUME NEW u \in SUBSET (1..(k + 1)), u # {} PROVE \E m \in u : \A x \in u : m >= x
      <3>1. CASE k + 1 \in u BY <3>1
      <3>2. CASE k + 1 \notin u
        <4>1. u \in SUBSET (1..k) BY <3>2
        <4>2. QED BY <1>2, <2>1, <4>1
      <3>3. QED BY <3>1, <3>2
    <2>2. QED BY <2>1
  <1> HIDE DEF K
  <1>3. n \in K BY <1>1, <1>2, Numbers
  <1>4. \E m \in s : \A x \in s : m >= x BY <1>3 DEF K
  <1>5. Max(s) \in s /\ \A x \in s : Max(s) >= x BY <1>4 DEF Max
  <1>6. QED BY <1>5

\* And a smallest.
LEMMA SmallestIn ==
  ASSUME NEW n \in Nat, NEW s \in SUBSET (1..n), s # {}
  PROVE  \E m \in s : \A x \in s : m <= x
  <1>1. s \subseteq Nat OBVIOUS
  <1>2. PICK m \in s : \A x \in s : ~(<<x, m>> \in OpToRel(<, Nat))
    BY <1>1, NatLessThanWellFounded, WFMin
  <1>3. \A x \in s : ~(x < m) BY <1>1, <1>2 DEF OpToRel
  <1>4. QED BY <1>1, <1>3

-------------------------------------------------------------------------------
\* What AllocateNode does over a sequence of tensors, one after the other.
LEMMA AllocateWalk ==
  ASSUME NEW g, NEW base, NEW n \in Nat, NEW seq, DOMAIN seq = 1..n
  PROVE  \E w : /\ w[0] = base
                /\ \A k \in 1..n : w[k] = AllocateNode(g, w[k - 1], seq[k])
                /\ AllocateEach(g, base, seq) = w[n]
  <1> DEFINE Is(iter, k) == iter = [s \in SUBSET (1..k) |->
                                     IF s = {} THEN base
                                     ELSE AllocateNode(g, iter[s \ {Max(s)}], seq[Max(s)])]
             It == CHOOSE iter : Is(iter, n)
             K == {k \in Nat : \E iter : Is(iter, k)}
  <1>1. AllocateEach(g, base, seq) = It[1..n]
    BY DEF AllocateEach, FoldLeft, MapThenFoldSet
  <1>2. 0 \in K
    <2>1. 1..0 = {} OBVIOUS
    <2>2. Is([s \in SUBSET (1..0) |-> base], 0) BY <2>1
    <2>3. QED BY <2>2
  <1>3. ASSUME NEW k \in Nat, k \in K PROVE k + 1 \in K
    <2>1. PICK f : Is(f, k) BY <1>3
    <2> DEFINE f2 == [s \in SUBSET (1..(k + 1)) |->
                        IF s = {} THEN base
                        ELSE AllocateNode(g, f[s \ {Max(s)}], seq[Max(s)])]
    <2>2. ASSUME NEW s \in SUBSET (1..(k + 1)), s # {}
          PROVE  s \ {Max(s)} \in SUBSET (1..k)
      <3>1. k + 1 \in Nat OBVIOUS
      <3>2. PICK m \in s : m = Max(s) /\ \A x \in s : x <= m BY <2>2, <3>1, MaxIsIn
      <3>3. ASSUME NEW x \in s, x # m PROVE x \in 1..k BY <3>2, <3>3
      <3>4. QED BY <3>2, <3>3
    <2>3. ASSUME NEW s \in SUBSET (1..k) PROVE f2[s] = f[s]
      <3>1. s \in SUBSET (1..(k + 1)) OBVIOUS
      <3>2. QED BY <2>1, <3>1
    <2>4. ASSUME NEW s \in SUBSET (1..(k + 1)), s # {}
          PROVE  f2[s] = AllocateNode(g, f2[s \ {Max(s)}], seq[Max(s)])
      BY <2>2, <2>3, <2>4
    <2>5. f2[{}] = base OBVIOUS
    <2> HIDE DEF f2
    <2>6. f2 = [s \in SUBSET (1..(k + 1)) |-> f2[s]] BY DEF f2
    <2>7. Is(f2, k + 1) BY <2>4, <2>5, <2>6
    <2> HIDE DEF Is
    <2>8. \E iter : Is(iter, k + 1) BY <2>7
    <2>9. QED BY <2>8
  <1> HIDE DEF K
  <1>4. n \in K BY <1>2, <1>3, Numbers
  <1>5. \E iter : Is(iter, n) BY <1>4 DEF K
  <1>6. Is(It, n) BY <1>5
  <1> HIDE DEF It
  <1> DEFINE w == [k \in 0..n |-> It[1..k]]
  <1>7. w[0] = base
    <2>1. 1..0 = {} /\ 0 \in 0..n OBVIOUS
    <2>2. QED BY <1>6, <2>1
  <1>8. ASSUME NEW k \in 1..n PROVE w[k] = AllocateNode(g, w[k - 1], seq[k])
    <2>1. 1..k \in SUBSET (1..n) /\ 1..k # {}
      <3>1. \A x \in 1..k : x \in 1..n OBVIOUS
      <3>2. k \in 1..k OBVIOUS
      <3>3. QED BY <3>1, <3>2
    <2>2. Max(1..k) = k BY MaxOfInterval
    <2>3. (1..k) \ {k} = 1..(k - 1) /\ k - 1 \in 0..n /\ k \in 0..n OBVIOUS
    <2>4. It[1..k] = AllocateNode(g, It[1..(k - 1)], seq[k]) BY <1>6, <2>1, <2>2, <2>3
    <2>5. QED BY <2>3, <2>4
  <1>9. w[n] = It[1..n] OBVIOUS
  <1> HIDE DEF w
  <1>10. QED BY <1>1, <1>7, <1>8, <1>9

\* And UpdateParent.
LEMMA UpdateWalk ==
  ASSUME NEW g, NEW base, NEW n \in Nat, NEW seq, DOMAIN seq = 1..n
  PROVE  \E w : /\ w[0] = base
                /\ \A k \in 1..n : w[k] = UpdateParent(g, w[k - 1], seq[k])
                /\ UpdateEach(g, base, seq) = w[n]
  <1> DEFINE Is(iter, k) == iter = [s \in SUBSET (1..k) |->
                                     IF s = {} THEN base
                                     ELSE UpdateParent(g, iter[s \ {Max(s)}], seq[Max(s)])]
             It == CHOOSE iter : Is(iter, n)
             K == {k \in Nat : \E iter : Is(iter, k)}
  <1>1. UpdateEach(g, base, seq) = It[1..n]
    BY DEF UpdateEach, FoldLeft, MapThenFoldSet
  <1>2. 0 \in K
    <2>1. 1..0 = {} OBVIOUS
    <2>2. Is([s \in SUBSET (1..0) |-> base], 0) BY <2>1
    <2>3. QED BY <2>2
  <1>3. ASSUME NEW k \in Nat, k \in K PROVE k + 1 \in K
    <2>1. PICK f : Is(f, k) BY <1>3
    <2> DEFINE f2 == [s \in SUBSET (1..(k + 1)) |->
                        IF s = {} THEN base
                        ELSE UpdateParent(g, f[s \ {Max(s)}], seq[Max(s)])]
    <2>2. ASSUME NEW s \in SUBSET (1..(k + 1)), s # {}
          PROVE  s \ {Max(s)} \in SUBSET (1..k)
      <3>1. k + 1 \in Nat OBVIOUS
      <3>2. PICK m \in s : m = Max(s) /\ \A x \in s : x <= m BY <2>2, <3>1, MaxIsIn
      <3>3. ASSUME NEW x \in s, x # m PROVE x \in 1..k BY <3>2, <3>3
      <3>4. QED BY <3>2, <3>3
    <2>3. ASSUME NEW s \in SUBSET (1..k) PROVE f2[s] = f[s]
      <3>1. s \in SUBSET (1..(k + 1)) OBVIOUS
      <3>2. QED BY <2>1, <3>1
    <2>4. ASSUME NEW s \in SUBSET (1..(k + 1)), s # {}
          PROVE  f2[s] = UpdateParent(g, f2[s \ {Max(s)}], seq[Max(s)])
      BY <2>2, <2>3, <2>4
    <2>5. f2[{}] = base OBVIOUS
    <2> HIDE DEF f2
    <2>6. f2 = [s \in SUBSET (1..(k + 1)) |-> f2[s]] BY DEF f2
    <2>7. Is(f2, k + 1) BY <2>4, <2>5, <2>6
    <2> HIDE DEF Is
    <2>8. \E iter : Is(iter, k + 1) BY <2>7
    <2>9. QED BY <2>8
  <1> HIDE DEF K
  <1>4. n \in K BY <1>2, <1>3, Numbers
  <1>5. \E iter : Is(iter, n) BY <1>4 DEF K
  <1>6. Is(It, n) BY <1>5
  <1> HIDE DEF It
  <1> DEFINE w == [k \in 0..n |-> It[1..k]]
  <1>7. w[0] = base
    <2>1. 1..0 = {} /\ 0 \in 0..n OBVIOUS
    <2>2. QED BY <1>6, <2>1
  <1>8. ASSUME NEW k \in 1..n PROVE w[k] = UpdateParent(g, w[k - 1], seq[k])
    <2>1. 1..k \in SUBSET (1..n) /\ 1..k # {}
      <3>1. \A x \in 1..k : x \in 1..n OBVIOUS
      <3>2. k \in 1..k OBVIOUS
      <3>3. QED BY <3>1, <3>2
    <2>2. Max(1..k) = k BY MaxOfInterval
    <2>3. (1..k) \ {k} = 1..(k - 1) /\ k - 1 \in 0..n /\ k \in 0..n OBVIOUS
    <2>4. It[1..k] = UpdateParent(g, It[1..(k - 1)], seq[k]) BY <1>6, <2>1, <2>2, <2>3
    <2>5. QED BY <2>3, <2>4
  <1>9. w[n] = It[1..n] OBVIOUS
  <1> HIDE DEF w
  <1>10. QED BY <1>1, <1>7, <1>8, <1>9

\* And Place.
LEMMA PlaceWalk ==
  ASSUME NEW g, NEW base, NEW n \in Nat, NEW seq, DOMAIN seq = 1..n
  PROVE  \E w : /\ w[0] = base
                /\ \A k \in 1..n : w[k] = Place(g, w[k - 1], seq[k])
                /\ PlaceEach(g, base, seq) = w[n]
  <1> DEFINE Is(iter, k) == iter = [s \in SUBSET (1..k) |->
                                     IF s = {} THEN base
                                     ELSE Place(g, iter[s \ {Max(s)}], seq[Max(s)])]
             It == CHOOSE iter : Is(iter, n)
             K == {k \in Nat : \E iter : Is(iter, k)}
  <1>1. PlaceEach(g, base, seq) = It[1..n]
    BY DEF PlaceEach, FoldLeft, MapThenFoldSet
  <1>2. 0 \in K
    <2>1. 1..0 = {} OBVIOUS
    <2>2. Is([s \in SUBSET (1..0) |-> base], 0) BY <2>1
    <2>3. QED BY <2>2
  <1>3. ASSUME NEW k \in Nat, k \in K PROVE k + 1 \in K
    <2>1. PICK f : Is(f, k) BY <1>3
    <2> DEFINE f2 == [s \in SUBSET (1..(k + 1)) |->
                        IF s = {} THEN base
                        ELSE Place(g, f[s \ {Max(s)}], seq[Max(s)])]
    <2>2. ASSUME NEW s \in SUBSET (1..(k + 1)), s # {}
          PROVE  s \ {Max(s)} \in SUBSET (1..k)
      <3>1. k + 1 \in Nat OBVIOUS
      <3>2. PICK m \in s : m = Max(s) /\ \A x \in s : x <= m BY <2>2, <3>1, MaxIsIn
      <3>3. ASSUME NEW x \in s, x # m PROVE x \in 1..k BY <3>2, <3>3
      <3>4. QED BY <3>2, <3>3
    <2>3. ASSUME NEW s \in SUBSET (1..k) PROVE f2[s] = f[s]
      <3>1. s \in SUBSET (1..(k + 1)) OBVIOUS
      <3>2. QED BY <2>1, <3>1
    <2>4. ASSUME NEW s \in SUBSET (1..(k + 1)), s # {}
          PROVE  f2[s] = Place(g, f2[s \ {Max(s)}], seq[Max(s)])
      BY <2>2, <2>3, <2>4
    <2>5. f2[{}] = base OBVIOUS
    <2> HIDE DEF f2
    <2>6. f2 = [s \in SUBSET (1..(k + 1)) |-> f2[s]] BY DEF f2
    <2>7. Is(f2, k + 1) BY <2>4, <2>5, <2>6
    <2> HIDE DEF Is
    <2>8. \E iter : Is(iter, k + 1) BY <2>7
    <2>9. QED BY <2>8
  <1> HIDE DEF K
  <1>4. n \in K BY <1>2, <1>3, Numbers
  <1>5. \E iter : Is(iter, n) BY <1>4 DEF K
  <1>6. Is(It, n) BY <1>5
  <1> HIDE DEF It
  <1> DEFINE w == [k \in 0..n |-> It[1..k]]
  <1>7. w[0] = base
    <2>1. 1..0 = {} /\ 0 \in 0..n OBVIOUS
    <2>2. QED BY <1>6, <2>1
  <1>8. ASSUME NEW k \in 1..n PROVE w[k] = Place(g, w[k - 1], seq[k])
    <2>1. 1..k \in SUBSET (1..n) /\ 1..k # {}
      <3>1. \A x \in 1..k : x \in 1..n OBVIOUS
      <3>2. k \in 1..k OBVIOUS
      <3>3. QED BY <3>1, <3>2
    <2>2. Max(1..k) = k BY MaxOfInterval
    <2>3. (1..k) \ {k} = 1..(k - 1) /\ k - 1 \in 0..n /\ k \in 0..n OBVIOUS
    <2>4. It[1..k] = Place(g, It[1..(k - 1)], seq[k]) BY <1>6, <2>1, <2>2, <2>3
    <2>5. QED BY <2>3, <2>4
  <1>9. w[n] = It[1..n] OBVIOUS
  <1> HIDE DEF w
  <1>10. QED BY <1>1, <1>7, <1>8, <1>9

-------------------------------------------------------------------------------
\* A free block, and a list of them in order, the last of which has no end
\* (struct free_block, ggml-alloc.c:75-85).
Blocks == [offset : Nat, size : Nat \ {0}]

InOrder(free) ==
  \A i, j \in 1..Len(free) : i < j => BlockEnd(free[i]) <= free[j].offset

FreeOK(free) ==
  /\ free \in Seq(Blocks) /\ Len(free) \in Nat \ {0}
  /\ InOrder(free)
  /\ BlockEnd(free[Len(free)]) = Unlimited

\* Where the last block begins, and that s rows from o on are in no free block.
LastOf(free) == free[Len(free)].offset

Clear(free, o, s) ==
  \A i \in 1..Len(free) : o + s <= free[i].offset \/ BlockEnd(free[i]) <= o

\* A block is not empty.
LEMMA Ends ==
  ASSUME NEW b \in Blocks
  PROVE  /\ b.offset \in Nat /\ b.size \in Nat \ {0}
         /\ BlockEnd(b) \in Nat /\ b.offset < BlockEnd(b)
  <1>1. PICK o \in Nat, s \in Nat \ {0} : b.offset = o /\ b.size = s BY DEF Blocks
  <1>2. o + s \in Nat /\ o < o + s OBVIOUS
  <1>3. QED BY <1>1, <1>2 DEF BlockEnd

\* Nor is any block of a list.
LEMMA BlockTypes ==
  ASSUME NEW free \in Seq(Blocks), NEW i \in 1..Len(free)
  PROVE  /\ free[i].offset \in Nat
         /\ BlockEnd(free[i]) \in Nat /\ free[i].offset < BlockEnd(free[i])
  <1>1. free[i] \in Blocks BY ElementOfSeq
  <1>2. QED BY <1>1, Ends

\* One block in the place of those behind the first a and before block c.
Spliced(free, a, b, c) == SubSeq(free, 1, a) \o << b >> \o SubSeq(free, c, Len(free))

\* What is where in such a list.
LEMMA SpliceIs ==
  ASSUME NEW free \in Seq(Blocks), NEW b \in Blocks,
         NEW a \in 0..Len(free), NEW c \in (a + 1)..(Len(free) + 1)
  PROVE  LET new == Spliced(free, a, b, c)
         IN /\ new \in Seq(Blocks)
            /\ Len(new) = a + 2 + Len(free) - c
            /\ \A i \in 1..Len(new) : new[i] = IF i <= a THEN free[i]
                                               ELSE IF i = a + 1 THEN b ELSE free[c + i - a - 2]
  <1>1. PICK n \in Nat : n = Len(free) BY LenProperties
  <1>2. \A i \in 1..n : free[i] \in Blocks BY <1>1, ElementOfSeq
  <1> DEFINE s1 == SubSeq(free, 1, a)
             s3 == SubSeq(free, c, Len(free))
  <1>3. a \in 0..n /\ c \in (a + 1)..(n + 1) /\ a \in Int /\ c \in Int BY <1>1
  <1>4. /\ s1 \in Seq(Blocks) /\ Len(s1) = a
        /\ \A i \in 1..a : s1[i] = free[i]
    <2>1. \A i \in 1..a : free[i] \in Blocks BY <1>2, <1>3
    <2>2. /\ s1 \in Seq(Blocks) /\ Len(s1) = IF 1 <= a THEN a - 1 + 1 ELSE 0
          /\ \A i \in 1..(a - 1 + 1) : s1[i] = free[1 + i - 1]
      BY <1>3, <2>1, SubSeqProperties
    <2>3. QED BY <1>3, <2>2
  <1>5. /\ s3 \in Seq(Blocks) /\ Len(s3) = n - c + 1
        /\ \A i \in 1..(n - c + 1) : s3[i] = free[c + i - 1]
    <2>1. \A i \in c..n : free[i] \in Blocks BY <1>2, <1>3
    <2>2. /\ s3 \in Seq(Blocks) /\ Len(s3) = IF c <= n THEN n - c + 1 ELSE 0
          /\ \A i \in 1..(n - c + 1) : s3[i] = free[c + i - 1]
      BY <1>1, <1>3, <2>1, SubSeqProperties
    <2>3. QED BY <1>3, <2>2
  <1> HIDE DEF s1, s3
  <1>6. << b >> \in Seq(Blocks) /\ Len(<< b >>) = 1 /\ << b >>[1] = b OBVIOUS
  <1> DEFINE s12 == s1 \o << b >>
  <1>7. /\ s12 \in Seq(Blocks) /\ Len(s12) = a + 1
        /\ \A i \in 1..(a + 1) : s12[i] = IF i <= a THEN s1[i] ELSE << b >>[i - a]
    BY <1>4, <1>6, ConcatProperties
  <1> HIDE DEF s12
  <1>8. \A i \in 1..(a + 1) : s12[i] = IF i <= a THEN free[i] ELSE b
    BY <1>3, <1>4, <1>6, <1>7
  <1>9. /\ s12 \o s3 \in Seq(Blocks) /\ Len(s12 \o s3) = a + 1 + (n - c + 1)
        /\ \A i \in 1..(a + 1 + (n - c + 1)) :
             (s12 \o s3)[i] = IF i <= a + 1 THEN s12[i] ELSE s3[i - (a + 1)]
    <2>1. PICK la \in Nat : la = a + 1 BY <1>3
    <2>2. PICK lb \in Nat : lb = n - c + 1 BY <1>3
    <2>3. Len(s12) = la /\ Len(s3) = lb BY <1>5, <1>7, <2>1, <2>2
    <2>4. /\ s12 \o s3 \in Seq(Blocks) /\ Len(s12 \o s3) = la + lb
          /\ \A i \in 1..(la + lb) : (s12 \o s3)[i] = IF i <= la THEN s12[i] ELSE s3[i - la]
      <3>1. s12 \in Seq(Blocks) /\ s3 \in Seq(Blocks) BY <1>5, <1>7
      <3>2. /\ s12 \o s3 \in Seq(Blocks) /\ Len(s12 \o s3) = Len(s12) + Len(s3)
            /\ \A i \in 1..(Len(s12) + Len(s3)) :
                 (s12 \o s3)[i] = IF i <= Len(s12) THEN s12[i] ELSE s3[i - Len(s12)]
        BY <3>1, ConcatProperties
      <3>3. QED BY <2>3, <3>2
    <2>5. QED BY <2>1, <2>2, <2>4
  <1>10. Spliced(free, a, b, c) = s12 \o s3 BY DEF Spliced, s12, s1, s3
  <1>11. ASSUME NEW i \in 1..(a + 1 + (n - c + 1))
         PROVE  (s12 \o s3)[i] = IF i <= a THEN free[i]
                                 ELSE IF i = a + 1 THEN b ELSE free[c + i - a - 2]
    <2>1. CASE i <= a + 1
      <3>1. i \in 1..(a + 1) /\ (i <= a \/ i = a + 1) BY <1>3, <2>1
      <3>2. (s12 \o s3)[i] = s12[i] BY <1>9, <2>1
      <3>3. s12[i] = IF i <= a THEN free[i] ELSE b BY <1>8, <3>1
      <3>4. QED BY <3>1, <3>2, <3>3
    <2>2. CASE i > a + 1
      <3>1. PICK j \in 1..(n - c + 1) : j = i - (a + 1) BY <1>3, <2>2
      <3>2. c + j - 1 = c + i - a - 2 /\ ~(i <= a + 1) /\ ~(i <= a) /\ i # a + 1
        BY <1>3, <2>2, <3>1
      <3>3. (s12 \o s3)[i] = s3[j] BY <1>9, <3>1, <3>2
      <3>4. s3[j] = free[c + j - 1] BY <1>5
      <3>5. QED BY <3>2, <3>3, <3>4
    <2>3. i <= a + 1 \/ i > a + 1 BY <1>3
    <2>4. QED BY <2>1, <2>2, <2>3
  <1>12. a + 1 + (n - c + 1) = a + 2 + n - c BY <1>3
  <1>13. QED BY <1>1, <1>9, <1>10, <1>11, <1>12

\* It is in order if the new block fits between its neighbours, and what was clear of
\* the old blocks and is clear of the new one stays clear.
LEMMA SpliceKeeps ==
  ASSUME NEW free, FreeOK(free), NEW b \in Blocks,
         NEW a \in 0..Len(free), NEW c \in (a + 1)..(Len(free) + 1),
         a # 0 => BlockEnd(free[a]) <= b.offset,
         IF c <= Len(free) THEN BlockEnd(b) <= free[c].offset ELSE BlockEnd(b) = Unlimited
  PROVE  LET new == Spliced(free, a, b, c)
         IN /\ FreeOK(new)
            /\ LastOf(new) = IF c <= Len(free) THEN LastOf(free) ELSE b.offset
            /\ \A o, s \in Nat : Clear(free, o, s) /\ (o + s <= b.offset \/ BlockEnd(b) <= o)
                                 => Clear(new, o, s)
  <1> DEFINE new == Spliced(free, a, b, c)
  <1>1. PICK n \in Nat \ {0} : n = Len(free) BY DEF FreeOK
  <1>2. free \in Seq(Blocks) BY DEF FreeOK
  <1>3. a \in 0..n /\ c \in (a + 1)..(n + 1) BY <1>1
  <1>4. PICK m \in Nat \ {0} : m = a + 2 + n - c BY <1>3
  <1>5. /\ new \in Seq(Blocks) /\ Len(new) = m
        /\ \A i \in 1..m : new[i] = IF i <= a THEN free[i]
                                    ELSE IF i = a + 1 THEN b ELSE free[c + i - a - 2]
    <2>1. /\ new \in Seq(Blocks) /\ Len(new) = a + 2 + Len(free) - c
          /\ \A i \in 1..Len(new) : new[i] = IF i <= a THEN free[i]
                                             ELSE IF i = a + 1 THEN b ELSE free[c + i - a - 2]
      BY <1>2, SpliceIs
    <2> HIDE DEF new
    <2>2. Len(new) = m BY <1>1, <1>4, <2>1
    <2>3. QED BY <2>1, <2>2
  <1> HIDE DEF new
  <1>6. \A i \in 1..n : free[i] \in Blocks BY <1>1, <1>2, ElementOfSeq
  <1>7. \A i \in 1..n : /\ free[i].offset \in Nat /\ BlockEnd(free[i]) \in Nat
                        /\ free[i].offset < BlockEnd(free[i])
    BY <1>6, Ends
  <1>8. b.offset \in Nat /\ BlockEnd(b) \in Nat /\ b.offset < BlockEnd(b) BY Ends
  <1>9. \A i, j \in 1..n : i < j => BlockEnd(free[i]) <= free[j].offset
    BY <1>1 DEF FreeOK, InOrder
  <1>10. \A i \in 1..n : i <= a => BlockEnd(free[i]) <= b.offset
    <2>1. ASSUME NEW i \in 1..n, i <= a PROVE BlockEnd(free[i]) <= b.offset
      <3>1. CASE i = a BY <1>3, <3>1
      <3>2. CASE i < a
        <4>1. a \in 1..n /\ a # 0 BY <1>3, <3>2
        <4>2. BlockEnd(free[i]) <= free[a].offset BY <1>9, <3>2, <4>1
        <4>3. PICK x, y, z \in Nat : x = free[a].offset /\ y = BlockEnd(free[a]) /\ z = BlockEnd(free[i])
          BY <1>7, <4>1
        <4>4. PICK o \in Nat : o = b.offset BY <1>8
        <4>5. z <= x /\ x < y /\ y <= o BY <1>7, <4>1, <4>2, <4>3, <4>4
        <4>6. QED BY <4>3, <4>4, <4>5
      <3>3. QED BY <1>3, <2>1, <3>1, <3>2
    <2>2. QED BY <2>1
  <1>11. \A j \in 1..n : c <= j => BlockEnd(b) <= free[j].offset
    <2>1. ASSUME NEW j \in 1..n, c <= j PROVE BlockEnd(b) <= free[j].offset
      <3>1. c \in 1..n /\ BlockEnd(b) <= free[c].offset BY <1>1, <1>3, <2>1
      <3>2. CASE j = c BY <3>1, <3>2
      <3>3. CASE c < j
        <4>1. BlockEnd(free[c]) <= free[j].offset BY <1>9, <3>1, <3>3
        <4>2. PICK x, y, z \in Nat : x = free[c].offset /\ y = BlockEnd(free[c]) /\ z = free[j].offset
          BY <1>7, <3>1
        <4>3. PICK o \in Nat : o = BlockEnd(b) BY <1>8
        <4>4. o <= x /\ x < y /\ y <= z BY <1>7, <3>1, <4>1, <4>2, <4>3
        <4>5. QED BY <4>2, <4>3, <4>4
      <3>4. QED BY <1>3, <2>1, <3>2, <3>3
    <2>2. QED BY <2>1
  \* Where each block comes from.
  <1>12. \A i \in 1..m : \/ i <= a /\ i \in 1..n /\ new[i] = free[i]
                         \/ i = a + 1 /\ new[i] = b
                         \/ /\ i > a + 1 /\ new[i] = free[c + i - a - 2]
                            /\ c + i - a - 2 \in 1..n /\ c <= c + i - a - 2
    BY <1>3, <1>4, <1>5
  <1>13. ASSUME NEW i \in 1..m, NEW j \in 1..m, i < j PROVE BlockEnd(new[i]) <= new[j].offset
    <2>1. CASE j <= a BY <1>9, <1>12, <1>3, <1>13, <2>1
    <2>2. CASE j = a + 1
      <3>1. i <= a /\ i \in 1..n /\ new[i] = free[i] BY <1>3, <1>5, <1>13, <2>2, <1>12
      <3>2. new[j] = b BY <1>12, <1>3, <2>2
      <3>3. QED BY <1>10, <3>1, <3>2
    <2>3. CASE j > a + 1
      <3>1. /\ new[j] = free[c + j - a - 2] /\ c + j - a - 2 \in 1..n /\ c <= c + j - a - 2
        BY <1>12, <1>3, <2>3
      <3>2. CASE i <= a
        <4>1. i \in 1..n /\ new[i] = free[i] /\ i < c + j - a - 2 BY <1>12, <1>3, <2>3, <3>2
        <4>2. QED BY <1>9, <3>1, <4>1
      <3>3. CASE i = a + 1
        <4>1. new[i] = b BY <1>12, <1>3, <3>3
        <4>2. QED BY <1>11, <3>1, <4>1
      <3>4. CASE i > a + 1
        <4>1. ~(i <= a) /\ i # a + 1 BY <1>3, <3>4
        <4>2. new[i] = free[c + i - a - 2] /\ c + i - a - 2 \in 1..n BY <1>12, <4>1
        <4>3. c + i - a - 2 < c + j - a - 2 BY <1>3, <1>13
        <4>4. QED BY <1>9, <3>1, <4>2, <4>3
      <3>5. QED BY <1>3, <3>2, <3>3, <3>4
    <2>4. QED BY <1>3, <2>1, <2>2, <2>3
  <1>14. new[m] = IF c <= n THEN free[n] ELSE b
    <2>1. CASE c <= n
      <3>1. m > a + 1 /\ c + m - a - 2 = n /\ m \in 1..m BY <1>3, <1>4, <2>1
      <3>2. new[m] = free[n] BY <1>12, <1>3, <3>1
      <3>3. QED BY <2>1, <3>2
    <2>2. CASE c > n
      <3>1. m = a + 1 /\ m \in 1..m BY <1>3, <1>4, <2>2
      <3>2. QED BY <1>12, <1>3, <2>2, <3>1
    <2>3. QED BY <1>3, <2>1, <2>2
  <1>15. BlockEnd(new[m]) = Unlimited /\ new[m].offset = IF c <= n THEN free[n].offset ELSE b.offset
    BY <1>1, <1>3, <1>14 DEF FreeOK
  <1>16. FreeOK(new) BY <1>5, <1>13, <1>15 DEF FreeOK, InOrder
  <1>17. ASSUME NEW o \in Nat, NEW s \in Nat, Clear(free, o, s), o + s <= b.offset \/ BlockEnd(b) <= o
         PROVE  Clear(new, o, s)
    <2>1. \A i \in 1..n : o + s <= free[i].offset \/ BlockEnd(free[i]) <= o BY <1>1, <1>17 DEF Clear
    <2>2. ASSUME NEW i \in 1..m PROVE o + s <= new[i].offset \/ BlockEnd(new[i]) <= o
      <3>1. CASE new[i] = b BY <1>17, <3>1
      <3>2. CASE \E j \in 1..n : new[i] = free[j] BY <2>1, <3>2
      <3>3. QED BY <1>12, <3>1, <3>2
    <2>3. QED BY <1>5, <2>2 DEF Clear
  <1>18. QED BY <1>1, <1>5, <1>15, <1>16, <1>17 DEF LastOf, new

\* A list stays in order when a block but the last is used up.
LEMMA RemoveKeeps ==
  ASSUME NEW free, FreeOK(free), NEW k \in 1..Len(free), k < Len(free)
  PROVE  LET new == RemoveAt(free, k)
         IN /\ FreeOK(new) /\ LastOf(new) = LastOf(free)
            /\ \A j \in 1..Len(new) : \E i \in 1..Len(free) : i # k /\ new[j] = free[i]
  <1> DEFINE new == RemoveAt(free, k)
             s1 == SubSeq(free, 1, k - 1)
             s2 == SubSeq(free, k + 1, Len(free))
  <1>1. PICK n \in Nat \ {0} : n = Len(free) BY DEF FreeOK
  <1>2. free \in Seq(Blocks) BY DEF FreeOK
  <1>3. k \in 1..n /\ k < n BY <1>1
  <1>4. \A i \in 1..n : free[i] \in Blocks BY <1>1, <1>2, ElementOfSeq
  <1>5. /\ s1 \in Seq(Blocks) /\ Len(s1) = k - 1
        /\ \A i \in 1..(k - 1) : s1[i] = free[i]
    <2>1. \A i \in 1..(k - 1) : free[i] \in Blocks BY <1>3, <1>4
    <2>2. PICK m \in Int : m = k - 1 BY <1>3
    <2>3. /\ s1 \in Seq(Blocks) /\ Len(s1) = IF 1 <= m THEN m - 1 + 1 ELSE 0
          /\ \A i \in 1..(m - 1 + 1) : s1[i] = free[1 + i - 1]
      BY <2>1, <2>2, SubSeqProperties
    <2>4. QED BY <1>3, <2>2, <2>3
  <1>6. /\ s2 \in Seq(Blocks) /\ Len(s2) = n - k
        /\ \A i \in 1..(n - k) : s2[i] = free[k + i]
    <2>1. \A i \in (k + 1)..n : free[i] \in Blocks BY <1>3, <1>4
    <2>2. PICK m \in Int : m = k + 1 BY <1>3
    <2>3. /\ s2 \in Seq(Blocks) /\ Len(s2) = IF m <= n THEN n - m + 1 ELSE 0
          /\ \A i \in 1..(n - m + 1) : s2[i] = free[m + i - 1]
      BY <1>1, <2>1, <2>2, SubSeqProperties
    <2>4. QED BY <1>3, <2>2, <2>3
  <1> HIDE DEF s1, s2
  <1>7. PICK a \in Nat : a = k - 1 BY <1>3
  <1>8. PICK b \in Nat \ {0} : b = n - k BY <1>3
  <1>9. PICK m \in Nat \ {0} : m = n - 1 BY <1>3
  <1>10. /\ new \in Seq(Blocks) /\ Len(new) = m
         /\ \A i \in 1..m : new[i] = IF i < k THEN free[i] ELSE free[i + 1]
    <2>1. new = s1 \o s2 BY DEF RemoveAt, s1, s2
    <2>2. /\ s1 \o s2 \in Seq(Blocks) /\ Len(s1 \o s2) = a + b
          /\ \A i \in 1..(a + b) : (s1 \o s2)[i] = IF i <= a THEN s1[i] ELSE s2[i - a]
      <3>1. Len(s1) = a /\ Len(s2) = b BY <1>5, <1>6, <1>7, <1>8
      <3>2. s1 \in Seq(Blocks) /\ s2 \in Seq(Blocks) BY <1>5, <1>6
      <3>3. /\ s1 \o s2 \in Seq(Blocks) /\ Len(s1 \o s2) = Len(s1) + Len(s2)
            /\ \A i \in 1..(Len(s1) + Len(s2)) :
                 (s1 \o s2)[i] = IF i <= Len(s1) THEN s1[i] ELSE s2[i - Len(s1)]
        BY <3>2, ConcatProperties
      <3>4. QED BY <3>1, <3>3
    <2>3. a + b = m BY <1>3, <1>7, <1>8, <1>9
    <2>4. ASSUME NEW i \in 1..m PROVE new[i] = IF i < k THEN free[i] ELSE free[i + 1]
      <3>1. CASE i < k
        <4>1. i <= a /\ i \in 1..(k - 1) BY <1>3, <1>7, <3>1
        <4>2. QED BY <1>5, <2>1, <2>2, <2>3, <3>1, <4>1
      <3>2. CASE i >= k
        <4>1. PICK j \in 1..(n - k) : j = i - a BY <1>3, <1>7, <1>9, <3>2
        <4>2. ~(i <= a) /\ k + j = i + 1 /\ ~(i < k) BY <1>3, <1>7, <1>9, <3>2, <4>1
        <4>3. new[i] = s2[j] BY <2>1, <2>2, <2>3, <4>1, <4>2
        <4>4. s2[j] = free[i + 1] BY <1>6, <4>2
        <4>5. QED BY <4>2, <4>3, <4>4
      <3>3. QED BY <1>3, <3>1, <3>2
    <2>5. QED BY <2>1, <2>2, <2>3, <2>4
  <1> HIDE DEF new
  <1>11. \A i, j \in 1..n : i < j => BlockEnd(free[i]) <= free[j].offset
    BY <1>1 DEF FreeOK, InOrder
  <1>12. ASSUME NEW i \in 1..m PROVE \E j \in 1..n : j # k /\ new[i] = free[j] /\ i <= j /\ j <= i + 1
                                                   /\ (i < k => j = i) /\ (i >= k => j = i + 1)
    <2>1. CASE i < k BY <1>3, <1>9, <1>10, <2>1
    <2>2. CASE i >= k
      <3>1. i + 1 \in 1..n /\ i + 1 # k /\ ~(i < k) BY <1>3, <1>9, <2>2
      <3>2. QED BY <1>3, <1>10, <2>2, <3>1
    <2>3. QED BY <1>3, <2>1, <2>2
  <1>13. ASSUME NEW i \in 1..m, NEW j \in 1..m, i < j PROVE BlockEnd(new[i]) <= new[j].offset
    <2>1. PICK i2 \in 1..n : /\ new[i] = free[i2] /\ (i < k => i2 = i) /\ (i >= k => i2 = i + 1) BY <1>12
    <2>2. PICK j2 \in 1..n : /\ new[j] = free[j2] /\ (j < k => j2 = j) /\ (j >= k => j2 = j + 1) BY <1>12
    <2>3. i2 < j2 BY <1>3, <1>13, <2>1, <2>2
    <2>4. QED BY <1>11, <2>1, <2>2, <2>3
  <1>14. new[m] = free[n] BY <1>3, <1>9, <1>10
  <1>15. FreeOK(new) BY <1>1, <1>10, <1>13, <1>14 DEF FreeOK, InOrder
  <1>16. QED BY <1>1, <1>10, <1>12, <1>14, <1>15 DEF LastOf, new

\* And when rows are taken from the front of a block.
LEMMA ShrinkKeeps ==
  ASSUME NEW free, FreeOK(free), NEW k \in 1..Len(free), NEW rest \in Blocks,
         free[k].offset <= rest.offset, BlockEnd(rest) = BlockEnd(free[k])
  PROVE  LET new == [free EXCEPT ![k] = rest]
         IN /\ FreeOK(new)
            /\ LastOf(new) = IF k = Len(free) THEN rest.offset ELSE LastOf(free)
            /\ Len(new) = Len(free)
            /\ \A j \in 1..Len(new) : new[j] = IF j = k THEN rest ELSE free[j]
  <1> DEFINE new == [free EXCEPT ![k] = rest]
  <1>1. PICK n \in Nat \ {0} : n = Len(free) BY DEF FreeOK
  <1>2. free \in Seq(Blocks) BY DEF FreeOK
  <1>3. k \in 1..n BY <1>1
  <1>4. /\ new \in Seq(Blocks) /\ Len(new) = n
        /\ \A j \in 1..n : new[j] = IF j = k THEN rest ELSE free[j]
    BY <1>1, <1>2, <1>3, ExceptSeq
  <1> HIDE DEF new
  <1>5. \A i \in 1..n : free[i].offset \in Nat /\ BlockEnd(free[i]) \in Nat
    BY <1>1, <1>2, BlockTypes
  <1>6. rest.offset \in Nat BY Ends
  <1>7. \A i, j \in 1..n : i < j => BlockEnd(free[i]) <= free[j].offset
    BY <1>1 DEF FreeOK, InOrder
  <1>8. \A i \in 1..n : BlockEnd(new[i]) = BlockEnd(free[i]) BY <1>4
  <1>9. \A i \in 1..n : new[i].offset \in Nat /\ free[i].offset <= new[i].offset
    <2>1. ASSUME NEW i \in 1..n
          PROVE  new[i].offset \in Nat /\ free[i].offset <= new[i].offset
      <3>1. CASE i = k BY <1>4, <1>6, <2>1, <3>1
      <3>2. CASE i # k
        <4>1. PICK x \in Nat : x = free[i].offset BY <1>5, <2>1
        <4>2. QED BY <1>4, <2>1, <3>2, <4>1
      <3>3. QED BY <3>1, <3>2
    <2>2. QED BY <2>1
  <1>10. ASSUME NEW i \in 1..n, NEW j \in 1..n, i < j PROVE BlockEnd(new[i]) <= new[j].offset
    <2>1. BlockEnd(new[i]) = BlockEnd(free[i]) /\ BlockEnd(free[i]) <= free[j].offset
      BY <1>7, <1>8, <1>10
    <2>2. PICK x, y, z \in Nat : x = BlockEnd(free[i]) /\ y = free[j].offset /\ z = new[j].offset
      BY <1>5, <1>9
    <2>3. y <= z BY <1>9, <2>2
    <2>4. x <= z BY <2>1, <2>2, <2>3
    <2>5. QED BY <2>1, <2>2, <2>4
  <1>11. FreeOK(new) BY <1>1, <1>4, <1>8, <1>10 DEF FreeOK, InOrder
  <1>12. QED BY <1>1, <1>4, <1>11 DEF LastOf, new

-------------------------------------------------------------------------------
\* The block best fitting is large enough.
LEMMA BestFitIs ==
  ASSUME NEW free, FreeOK(free), NEW size \in Nat
  PROVE  /\ BestFit(free, size) \in 1..Len(free)
         /\ BestFit(free, size) < Len(free) => free[BestFit(free, size)].size >= size
  <1>1. PICK n \in Nat \ {0} : n = Len(free) BY DEF FreeOK
  <1>2. free \in Seq(Blocks) BY DEF FreeOK
  <1> DEFINE Fits == {i \in 1..(n - 1) : free[i].size >= size}
             Best == {i \in Fits : \A j \in Fits : free[i].size <= free[j].size}
             c == CHOOSE i \in Best : \A j \in Best : j <= i
  <1>3. BestFit(free, size) = IF Best = {} THEN n ELSE c BY <1>1 DEF BestFit
  <1>4. CASE Best = {}
    <2>1. BestFit(free, size) = Len(free) BY <1>1, <1>3, <1>4
    <2>2. QED BY <1>1, <2>1
  <1>5. CASE Best # {}
    <2>1. PICK m \in Nat : m = n - 1 BY <1>1
    <2>2. Best \in SUBSET (1..m) BY <2>1
    <2>3. Max(Best) \in Best /\ \A x \in Best : x <= Max(Best) BY <1>5, <2>2, MaxIsIn
    <2>4. \E i \in Best : \A j \in Best : j <= i BY <2>3
    <2>5. c \in Best BY <2>4
    <2>6. c \in 1..(n - 1) /\ free[c].size >= size BY <2>5
    <2> HIDE DEF c, Best
    <2>7. c \in 1..n /\ c < n BY <2>6
    <2>8. QED BY <1>1, <1>3, <1>5, <2>6, <2>7
  <1>6. QED BY <1>4, <1>5

\* What Alloc gives out was free, and is free no more.
Allocs(a, size) ==
  LET r == Alloc(a, size)
  IN /\ r.offset \in Nat /\ FreeOK(r.alloc.free)
     /\ r.alloc.maxSize \in Nat /\ a.maxSize <= r.alloc.maxSize
     /\ r.alloc.maxSize <= a.maxSize + size
     /\ LastOf(r.alloc.free) <= r.alloc.maxSize
     /\ r.offset + size <= r.alloc.maxSize
     /\ Clear(r.alloc.free, r.offset, size)
     /\ \A o, s \in Nat : Clear(a.free, o, s) =>
          Clear(r.alloc.free, o, s) /\ (o + s <= r.offset \/ r.offset + size <= o)

\* ggml_dyn_tallocr_alloc keeps the free blocks in order, and gives out only what was
\* free (ggml-alloc.c:139-221).
THEOREM AllocKeeps ==
  ASSUME NEW a, FreeOK(a.free), a.maxSize \in Nat, LastOf(a.free) <= a.maxSize,
         NEW size \in Nat \ {0}, a.maxSize + size < Unlimited
  PROVE  Allocs(a, size) /\ Alloc(a, size).alloc = [free |-> Alloc(a, size).alloc.free,
                                                    maxSize |-> Alloc(a, size).alloc.maxSize]
  <1> DEFINE k == BestFit(a.free, size)
             b == a.free[k]
             rest == [offset |-> b.offset + size, size |-> b.size - size]
             end == b.offset + size
             new == IF rest.size = 0 THEN RemoveAt(a.free, k) ELSE [a.free EXCEPT ![k] = rest]
             max == IF end > a.maxSize THEN end ELSE a.maxSize
  <1>1. PICK free : free = a.free /\ FreeOK(free) OBVIOUS
  <1>2. PICK n \in Nat \ {0} : n = Len(free) BY <1>1 DEF FreeOK
  <1>3. k \in 1..n /\ (k < n => b.size >= size) BY <1>1, <1>2, BestFitIs
  <1>4. free \in Seq(Blocks) BY <1>1 DEF FreeOK
  <1>5. b \in Blocks BY <1>1, <1>2, <1>3, <1>4, ElementOfSeq
  <1>6. PICK o \in Nat, z \in Nat \ {0} : b.offset = o /\ b.size = z BY <1>5 DEF Blocks
  <1>7. PICK M \in Nat : M = a.maxSize OBVIOUS
  <1>8. k = n => o <= M /\ o + z = Unlimited
    <2>1. k = n => free[n] = b BY <1>1
    <2>2. QED BY <1>1, <1>2, <1>6, <1>7, <2>1 DEF LastOf, FreeOK, BlockEnd
  <1>9. size <= z /\ (k = n => size < z)
    <2>1. CASE k < n BY <1>3, <1>6, <2>1
    <2>2. CASE k = n
      <3>1. o <= M /\ o + z = Unlimited /\ M + size < Unlimited BY <1>7, <1>8, <2>2
      <3>2. Unlimited \in Nat BY DEF Unlimited
      <3>3. size < z BY <3>1, <3>2
      <3>4. QED BY <3>3
    <2>3. QED BY <1>3, <2>1, <2>2
  <1>10. PICK e \in Nat : e = o + size OBVIOUS
  <1>11. end = e /\ max = IF e > M THEN e ELSE M BY <1>6, <1>7, <1>10
  <1>12. PICK mx \in Nat : mx = max /\ M <= mx /\ e <= mx /\ (mx = e \/ mx = M) BY <1>11
  <1>13. Alloc(a, size) = [offset |-> o, alloc |-> [free |-> new, maxSize |-> mx]]
    BY <1>6, <1>12 DEF Alloc
  \* Each block left is an old one or the rest of the block taken.
  <1>14. /\ FreeOK(new) /\ (LastOf(new) = LastOf(free) \/ LastOf(new) = e)
         /\ \A j \in 1..Len(new) : \/ \E i \in 1..n : i # k /\ new[j] = free[i]
                                   \/ new[j].offset = e /\ BlockEnd(new[j]) = o + z
    <2>1. CASE z = size
      <3>1. k < n BY <1>3, <1>9, <2>1
      <3>2. rest.size = 0 BY <1>6, <2>1
      <3>3. new = RemoveAt(free, k) BY <1>1, <3>2
      <3> HIDE DEF k, new
      <3>4. LET nw == RemoveAt(free, k)
            IN /\ FreeOK(nw) /\ LastOf(nw) = LastOf(free)
               /\ \A j \in 1..Len(nw) : \E i \in 1..Len(free) : i # k /\ nw[j] = free[i]
        <4>1. k \in 1..Len(free) /\ k < Len(free) BY <1>2, <1>3, <3>1
        <4>2. FreeOK(free) BY <1>1
        <4>3. QED BY <4>1, <4>2, RemoveKeeps
      <3>5. QED BY <1>2, <3>3, <3>4
    <2>2. CASE z # size
      <3>1. PICK y \in Nat \ {0} : y = z - size BY <1>9, <2>2
      <3>2. rest = [offset |-> e, size |-> y] BY <1>6, <1>10, <3>1
      <3>3. rest \in Blocks BY <3>2 DEF Blocks
      <3>4. BlockEnd(rest) = o + z /\ BlockEnd(b) = o + z
        BY <1>6, <1>10, <3>1, <3>2 DEF BlockEnd
      <3>5. rest.offset = e /\ rest.size # 0 /\ b.offset <= e BY <1>6, <1>10, <3>1, <3>2
      <3>6. new = [free EXCEPT ![k] = rest] BY <1>1, <3>5
      <3>7. free[k] = b BY <1>1
      <3> HIDE DEF k, new, rest, b
      <3>8. LET nw == [free EXCEPT ![k] = rest]
            IN /\ FreeOK(nw)
               /\ LastOf(nw) = IF k = Len(free) THEN rest.offset ELSE LastOf(free)
               /\ Len(nw) = Len(free)
               /\ \A j \in 1..Len(nw) : nw[j] = IF j = k THEN rest ELSE free[j]
        BY <1>1, <1>2, <1>3, <3>3, <3>4, <3>5, <3>7, ShrinkKeeps
      <3>9. QED BY <1>2, <3>4, <3>5, <3>6, <3>8
    <2>3. QED BY <2>1, <2>2
  <1> HIDE DEF new, max
  <1>15. \A i \in 1..n : free[i].offset \in Nat /\ BlockEnd(free[i]) \in Nat
    BY <1>2, <1>4, BlockTypes
  <1>16. \A i \in 1..n : i # k => BlockEnd(free[i]) <= o \/ o + z <= free[i].offset
    <2>1. \A i, j \in 1..n : i < j => BlockEnd(free[i]) <= free[j].offset
      BY <1>1, <1>2 DEF FreeOK, InOrder
    <2>2. free[k].offset = o /\ BlockEnd(free[k]) = o + z BY <1>1, <1>6 DEF BlockEnd
    <2> HIDE DEF k
    <2>3. ASSUME NEW i \in 1..n, i # k PROVE BlockEnd(free[i]) <= o \/ o + z <= free[i].offset
      <3>1. i < k \/ k < i BY <1>3, <2>3
      <3>2. QED BY <1>3, <2>1, <2>2, <3>1
    <2>4. QED BY <2>3
  <1> HIDE DEF k, b, rest, end
  <1>17. Clear(new, o, size)
    <2>1. ASSUME NEW j \in 1..Len(new) PROVE o + size <= new[j].offset \/ BlockEnd(new[j]) <= o
      <3>1. CASE \E i \in 1..n : i # k /\ new[j] = free[i]
        <4>1. PICK i \in 1..n : i # k /\ new[j] = free[i] BY <3>1
        <4>2. BlockEnd(free[i]) <= o \/ o + z <= free[i].offset BY <1>16, <4>1
        <4>3. free[i].offset \in Nat BY <1>15
        <4>4. o + z <= free[i].offset => o + size <= free[i].offset BY <1>9, <4>3
        <4>5. QED BY <4>1, <4>2, <4>4
      <3>2. CASE new[j].offset = e BY <1>10, <3>2
      <3>3. QED BY <1>14, <3>1, <3>2
    <2>2. QED BY <2>1 DEF Clear
  <1>18. ASSUME NEW p \in Nat, NEW s \in Nat, Clear(free, p, s)
         PROVE  Clear(new, p, s) /\ (p + s <= o \/ o + size <= p)
    <2>1. \A i \in 1..n : p + s <= free[i].offset \/ BlockEnd(free[i]) <= p BY <1>2, <1>18 DEF Clear
    <2>2. p + s <= o \/ o + z <= p
      <3>1. k \in 1..n /\ free[k].offset = o /\ BlockEnd(free[k]) = o + z
        BY <1>1, <1>3, <1>6 DEF BlockEnd, b
      <3>2. QED BY <2>1, <3>1
    <2>3. ASSUME NEW j \in 1..Len(new) PROVE p + s <= new[j].offset \/ BlockEnd(new[j]) <= p
      <3>1. CASE \E i \in 1..n : i # k /\ new[j] = free[i] BY <2>1, <3>1
      <3>2. CASE new[j].offset = e /\ BlockEnd(new[j]) = o + z
        <4>1. p + s <= e \/ o + z <= p BY <1>10, <2>2
        <4>2. QED BY <3>2, <4>1
      <3>3. QED BY <1>14, <3>1, <3>2
    <2>4. p + s <= o \/ o + size <= p BY <1>9, <2>2
    <2>5. QED BY <2>3, <2>4 DEF Clear
  <1>19. LastOf(new) <= mx
    <2>1. CASE LastOf(new) = e BY <1>12, <2>1
    <2>2. CASE LastOf(new) = LastOf(free)
      <3>1. LastOf(free) \in Nat /\ LastOf(free) <= M
        <4>1. n \in 1..n BY <1>2
        <4>2. QED BY <1>1, <1>2, <1>7, <1>15, <4>1 DEF LastOf
      <3>2. QED BY <1>12, <2>2, <3>1
    <2>3. QED BY <1>14, <2>1, <2>2
  <1>20. o + size <= mx BY <1>10, <1>12
  <1>21. mx <= M + size
    <2>1. CASE mx = M BY <2>1
    <2>2. CASE mx = e
      <3>1. o <= M \/ e <= M
        <4>1. CASE k = n BY <1>8, <4>1
        <4>2. CASE k # n
          <5>1. k < n /\ n \in 1..n BY <1>2, <1>3, <4>2
          <5>2. o + z <= free[n].offset
            <6>1. free[k].offset = o /\ BlockEnd(free[k]) = o + z BY <1>1, <1>6 DEF BlockEnd, b
            <6>2. QED BY <1>1, <1>2, <1>3, <5>1, <6>1 DEF FreeOK, InOrder
          <5>3. free[n].offset \in Nat /\ free[n].offset <= M BY <1>1, <1>2, <1>7, <1>15, <5>1 DEF LastOf
          <5>4. QED BY <5>2, <5>3
        <4>3. QED BY <4>1, <4>2
      <3>2. QED BY <1>10, <2>2, <3>1
    <2>3. QED BY <1>12, <2>1, <2>2
  <1>22. QED BY <1>1, <1>7, <1>12, <1>13, <1>14, <1>17, <1>18, <1>19, <1>20, <1>21 DEF Allocs

\* After s rows from o on have been freed nothing but them is free that was not before.
Frees(free, o, s, new) ==
  /\ FreeOK(new) /\ LastOf(new) <= LastOf(free)
  /\ \A p \in Nat, z \in Nat \ {0} :
       Clear(free, p, z) /\ (p + z <= o \/ o + s <= p) => Clear(new, p, z)

\* The block that is put back goes from first to last, over the ones it is merged with.
LEMMA PutBack ==
  ASSUME NEW free, FreeOK(free), NEW o \in Nat, NEW s \in Nat \ {0},
         NEW first \in Nat, NEW last \in Nat, first < last,
         NEW a \in 0..Len(free), NEW c \in (a + 1)..(Len(free) + 1),
         a # 0 => BlockEnd(free[a]) <= first,
         IF c <= Len(free) THEN last <= free[c].offset
                           ELSE last = Unlimited /\ first <= LastOf(free),
         \A p \in Nat, z \in Nat \ {0} :
           Clear(free, p, z) /\ (p + z <= o \/ o + s <= p) => p + z <= first \/ last <= p
  PROVE  Frees(free, o, s, Spliced(free, a, [offset |-> first, size |-> last - first], c))
  <1> DEFINE b == [offset |-> first, size |-> last - first]
  <1>1. PICK d \in Nat \ {0} : d = last - first /\ first + d = last OBVIOUS
  <1>2. b \in Blocks /\ b.offset = first /\ BlockEnd(b) = last BY <1>1 DEF Blocks, BlockEnd
  <1> HIDE DEF b
  <1> DEFINE new == Spliced(free, a, b, c)
  <1>3. /\ FreeOK(new)
        /\ LastOf(new) = IF c <= Len(free) THEN LastOf(free) ELSE b.offset
        /\ \A p, z \in Nat : Clear(free, p, z) /\ (p + z <= b.offset \/ BlockEnd(b) <= p)
                                 => Clear(new, p, z)
    BY <1>2, SpliceKeeps
  <1> HIDE DEF new
  <1>4. LastOf(free) \in Nat
    <2>1. free \in Seq(Blocks) /\ Len(free) \in 1..Len(free) BY DEF FreeOK
    <2>2. QED BY <2>1, BlockTypes DEF LastOf
  <1>5. LastOf(new) <= LastOf(free) BY <1>2, <1>3, <1>4
  <1>6. Frees(free, o, s, new) BY <1>2, <1>3, <1>5 DEF Frees
  <1>7. QED BY <1>6 DEF new, b

\* ggml_dyn_tallocr_free_tensor keeps the free blocks in order, and frees nothing but
\* what it is told to: however it merges blocks (ggml-alloc.c:224-281).
THEOREM FreeKeeps ==
  ASSUME NEW free, FreeOK(free), NEW o \in Nat, NEW s \in Nat \ {0},
         Clear(free, o, s), o + s <= LastOf(free)
  PROVE  Frees(free, o, s, Free(free, o, s))
  <1> DEFINE end == o + s
             Touching == {i \in 1..Len(free) : BlockEnd(free[i]) = o \/ free[i].offset = end}
             lo == CHOOSE i \in Touching : \A j \in Touching : i <= j
             hi == IF lo < Len(free) /\ (lo + 1) \in Touching THEN lo + 1 ELSE lo
             first == IF free[lo].offset < o THEN free[lo].offset ELSE o
             last == IF BlockEnd(free[hi]) > end THEN BlockEnd(free[hi]) ELSE end
             Behind == {i \in 1..Len(free) : free[i].offset >= o}
             at == CHOOSE i \in Behind : \A j \in Behind : i <= j
  <1>1. PICK n \in Nat \ {0} : n = Len(free) BY DEF FreeOK
  <1>2. free \in Seq(Blocks) BY DEF FreeOK
  <1>3. \A i \in 1..n : /\ free[i].offset \in Nat /\ BlockEnd(free[i]) \in Nat
                        /\ free[i].offset < BlockEnd(free[i])
    BY <1>1, <1>2, BlockTypes
  <1>4. \A i, j \in 1..n : i < j => BlockEnd(free[i]) <= free[j].offset
    BY <1>1 DEF FreeOK, InOrder
  <1>5. \A i \in 1..n : o + s <= free[i].offset \/ BlockEnd(free[i]) <= o BY <1>1 DEF Clear
  <1>6. n \in 1..n /\ BlockEnd(free[n]) = Unlimited /\ o + s <= free[n].offset
    BY <1>1 DEF FreeOK, LastOf
  <1>7. \A p \in Nat, z \in Nat \ {0} : Clear(free, p, z) =>
          \A i \in 1..n : p + z <= free[i].offset \/ BlockEnd(free[i]) <= p
    BY <1>1 DEF Clear
  <1>8. PICK e \in Nat : e = o + s /\ o < e OBVIOUS
  <1>9. CASE Touching = {}
    <2>1. n \in Behind BY <1>1, <1>3, <1>6, <1>8
    <2>2. Behind \in SUBSET (1..n) BY <1>1
    <2> HIDE DEF Behind
    <2>3. \E i \in Behind : \A j \in Behind : i <= j BY <2>1, <2>2, SmallestIn
    <2>4. at \in Behind /\ \A j \in Behind : at <= j BY <2>3
    <2> HIDE DEF at
    <2>5. at \in 1..n /\ free[at].offset >= o BY <1>1, <2>4 DEF Behind
    <2>6. \A i \in 1..n : i < at => ~(free[i].offset >= o) BY <1>1, <2>4, <2>5 DEF Behind
    <2>7. e <= free[at].offset
      <3>1. ~(BlockEnd(free[at]) <= o) BY <1>3, <2>5
      <3>2. QED BY <1>5, <1>8, <2>5, <3>1
    <2>8. at - 1 # 0 => BlockEnd(free[at - 1]) <= o
      <3>1. SUFFICES ASSUME at - 1 # 0 PROVE BlockEnd(free[at - 1]) <= o OBVIOUS
      <3>2. at - 1 \in 1..n /\ at - 1 < at BY <2>5, <3>1
      <3>3. ~(free[at - 1].offset >= o) /\ free[at - 1].offset \in Nat BY <1>3, <2>6, <3>2
      <3>4. ~(o + s <= free[at - 1].offset) BY <3>3
      <3>5. QED BY <1>5, <3>2, <3>4
    <2>9. Free(free, o, s) = Spliced(free, at - 1, [offset |-> o, size |-> s], at)
      <3>1. Free(free, o, s) = InsertAt(free, at, [offset |-> o, size |-> s])
        BY <1>9, <2>1 DEF Free, Behind, at
      <3>2. QED BY <3>1 DEF InsertAt, Spliced
    <2>10. s = e - o BY <1>8
    <2>11. at - 1 \in 0..Len(free) /\ at \in (at - 1 + 1)..(Len(free) + 1) /\ at <= Len(free)
      BY <1>1, <2>5
    <2>12. Frees(free, o, s, Spliced(free, at - 1, [offset |-> o, size |-> e - o], at))
      BY <1>8, <2>7, <2>8, <2>11, PutBack
    <2>13. QED BY <2>9, <2>10, <2>12
  <1>10. CASE Touching # {}
    <2>1. Touching \in SUBSET (1..n) BY <1>1
    <2>2. \A i \in 1..n : i \in Touching <=> BlockEnd(free[i]) = o \/ free[i].offset = e BY <1>1, <1>8
    <2> HIDE DEF Touching
    <2>3. \E i \in Touching : \A j \in Touching : i <= j BY <1>10, <2>1, SmallestIn
    <2>4. lo \in Touching /\ \A j \in Touching : lo <= j BY <2>3
    <2> HIDE DEF lo
    <2>5. lo \in 1..n /\ (BlockEnd(free[lo]) = o \/ free[lo].offset = e) BY <2>1, <2>2, <2>4
    <2>6. PICK f, d \in Nat : f = free[lo].offset /\ d = BlockEnd(free[lo]) /\ f < d BY <1>3, <2>5
    <2>7. Free(free, o, s) = Spliced(free, lo - 1, [offset |-> first, size |-> last - first], hi + 1)
      BY <1>10 DEF Free, Spliced, Touching, lo
    <2>8. lo - 1 \in 0..Len(free) /\ (lo - 1 # 0 => lo - 1 \in 1..n /\ lo - 1 < lo) BY <1>1, <2>5
    <2>9. lo < n => lo + 1 \in 1..n /\ lo < lo + 1 BY <2>5
    <2>10. CASE d = o /\ lo < n /\ lo + 1 \in Touching
      <3>1. hi = lo + 1 BY <1>1, <2>10
      <3> HIDE DEF hi
      <3>2. lo + 1 \in 1..n BY <2>9, <2>10
      <3>3. PICK f2, d2 \in Nat : f2 = free[lo + 1].offset /\ d2 = BlockEnd(free[lo + 1]) /\ f2 < d2
        BY <1>3, <3>2
      <3>4. d <= f2 BY <1>4, <2>5, <2>6, <2>9, <2>10, <3>2, <3>3
      <3>5. f2 = e BY <2>2, <2>10, <3>2, <3>3, <3>4
      <3>6. first = f /\ last = d2 BY <1>8, <2>6, <2>10, <3>1, <3>3, <3>5
      <3> HIDE DEF first, last
      <3>7. f < d2 BY <2>6, <2>10, <3>3, <3>4
      <3>8. lo - 1 # 0 => BlockEnd(free[lo - 1]) <= f BY <1>4, <2>5, <2>6, <2>8
      <3>9. hi + 1 \in (lo - 1 + 1)..(Len(free) + 1) BY <1>1, <2>5, <2>10, <3>1
      <3>10. IF hi + 1 <= Len(free) THEN d2 <= free[hi + 1].offset
                                    ELSE d2 = Unlimited /\ f <= LastOf(free)
        <4>1. CASE hi + 1 <= n
          <5>1. hi + 1 \in 1..n /\ lo + 1 < hi + 1 BY <2>5, <3>1, <4>1
          <5>2. QED BY <1>1, <1>4, <3>2, <3>3, <4>1, <5>1
        <4>2. CASE ~(hi + 1 <= n)
          <5>1. lo + 1 = n BY <2>5, <2>10, <3>1, <4>2
          <5>2. f <= f2 BY <2>6, <3>3, <3>4
          <5>3. QED BY <1>1, <1>6, <3>3, <4>2, <5>1, <5>2 DEF LastOf
        <4>3. QED BY <4>1, <4>2
      <3>11. ASSUME NEW p \in Nat, NEW z \in Nat \ {0}, Clear(free, p, z), p + z <= o \/ o + s <= p
             PROVE  p + z <= f \/ d2 <= p
        <4>1. p + z <= f \/ d <= p BY <1>7, <2>5, <2>6, <3>11
        <4>2. p + z <= f2 \/ d2 <= p BY <1>7, <3>2, <3>3, <3>11
        <4>3. p + z <= o \/ e <= p BY <1>8, <3>11
        <4>4. QED BY <2>6, <2>10, <3>3, <3>5, <4>1, <4>2, <4>3
      <3>12. hi + 1 \in (lo - 1 + 1)..(Len(free) + 1) BY <3>9
      <3>13. Frees(free, o, s, Spliced(free, lo - 1, [offset |-> f, size |-> d2 - f], hi + 1))
        BY <2>8, <3>7, <3>8, <3>10, <3>11, <3>12, PutBack
      <3>14. QED BY <2>7, <3>6, <3>13
    <2>11. CASE d = o /\ ~(lo < n /\ lo + 1 \in Touching)
      <3>1. hi = lo BY <1>1, <2>11
      <3> HIDE DEF hi
      <3>2. first = f /\ last = e
        <4>1. first = f BY <2>6, <2>11
        <4>2. BlockEnd(free[lo]) = o /\ ~(o > e) BY <1>8, <2>6, <2>11
        <4>3. last = e BY <1>8, <3>1, <4>2
        <4>4. QED BY <4>1, <4>3
      <3> HIDE DEF first, last
      <3>3. f < e BY <1>8, <2>6, <2>11
      <3>4. lo - 1 # 0 => BlockEnd(free[lo - 1]) <= f BY <1>4, <2>5, <2>6, <2>8
      <3>5. lo < n
        <4>1. free[n].offset \in Nat BY <1>3, <1>6
        <4>2. lo # n
          <5>1. SUFFICES ASSUME lo = n PROVE FALSE OBVIOUS
          <5>2. f = free[n].offset BY <2>6, <5>1
          <5>3. e <= f BY <1>6, <1>8, <5>2
          <5>4. QED BY <1>8, <2>6, <2>11, <5>3
        <4>3. QED BY <2>5, <4>2
      <3>6. hi + 1 \in (lo - 1 + 1)..(Len(free) + 1) /\ hi + 1 <= Len(free) BY <1>1, <2>5, <3>1, <3>5
      <3>7. e <= free[hi + 1].offset
        <4>1. lo + 1 \in 1..n BY <2>9, <3>5
        <4>2. d <= free[lo + 1].offset BY <1>4, <2>5, <2>6, <2>9, <3>5, <4>1
        <4>3. free[lo + 1].offset \in Nat /\ free[lo + 1].offset < BlockEnd(free[lo + 1])
              /\ BlockEnd(free[lo + 1]) \in Nat
          BY <1>3, <4>1
        <4>4. ~(BlockEnd(free[lo + 1]) <= o) BY <2>6, <2>11, <4>2, <4>3
        <4>5. QED BY <1>5, <1>8, <3>1, <4>1, <4>4
      <3>8. ASSUME NEW p \in Nat, NEW z \in Nat \ {0}, Clear(free, p, z), p + z <= o \/ o + s <= p
             PROVE  p + z <= f \/ e <= p
        <4>1. p + z <= f \/ d <= p BY <1>7, <2>5, <2>6, <3>8
        <4>2. p + z <= o \/ e <= p BY <1>8, <3>8
        <4>3. QED BY <2>6, <2>11, <4>1, <4>2
      <3>9. Frees(free, o, s, Spliced(free, lo - 1, [offset |-> f, size |-> e - f], hi + 1))
        BY <2>8, <3>3, <3>4, <3>6, <3>7, <3>8, PutBack
      <3>10. QED BY <2>7, <3>2, <3>9
    <2>12. CASE d # o
      <3>1. f = e BY <2>5, <2>6, <2>12
      <3>2. hi = lo
        <4>1. SUFFICES ASSUME lo < n, lo + 1 \in Touching PROVE FALSE BY <1>1
        <4>2. lo + 1 \in 1..n /\ lo < lo + 1 BY <2>9, <4>1
        <4>3. PICK f2, d2 \in Nat : f2 = free[lo + 1].offset /\ d2 = BlockEnd(free[lo + 1]) /\ f2 < d2
          BY <1>3, <4>2
        <4>4. d <= f2 BY <1>4, <2>5, <2>6, <4>2, <4>3
        <4>5. d2 = o \/ f2 = e BY <2>2, <4>1, <4>2, <4>3
        <4>6. QED BY <1>8, <2>6, <3>1, <4>3, <4>4, <4>5
      <3> HIDE DEF hi
      <3>3. first = o /\ last = d BY <1>8, <2>6, <3>1, <3>2
      <3> HIDE DEF first, last
      <3>4. o < d BY <1>8, <2>6, <3>1
      <3>5. lo - 1 # 0 => BlockEnd(free[lo - 1]) <= o
        <4>1. SUFFICES ASSUME lo - 1 # 0 PROVE BlockEnd(free[lo - 1]) <= o OBVIOUS
        <4>2. lo - 1 \in 1..n /\ lo - 1 < lo BY <2>8, <4>1
        <4>3. PICK f2, d2 \in Nat : f2 = free[lo - 1].offset /\ d2 = BlockEnd(free[lo - 1]) /\ f2 < d2
          BY <1>3, <4>2
        <4>4. d2 <= f BY <1>4, <2>5, <2>6, <4>2, <4>3
        <4>5. ~(o + s <= f2) BY <1>8, <3>1, <4>3, <4>4
        <4>6. QED BY <1>5, <4>2, <4>3, <4>5
      <3>6. hi + 1 \in (lo - 1 + 1)..(Len(free) + 1) BY <1>1, <2>5, <3>2
      <3>7. IF hi + 1 <= Len(free) THEN d <= free[hi + 1].offset
                                   ELSE d = Unlimited /\ o <= LastOf(free)
        <4>1. CASE lo < n BY <1>1, <1>4, <2>5, <2>6, <2>9, <3>2, <4>1
        <4>2. CASE ~(lo < n)
          <5>1. lo = n BY <2>5, <4>2
          <5>2. LastOf(free) = e BY <1>1, <2>6, <3>1, <5>1 DEF LastOf
          <5>3. d = Unlimited BY <1>6, <2>6, <5>1
          <5>4. ~(hi + 1 <= Len(free)) BY <1>1, <3>2, <5>1
          <5>5. QED BY <1>8, <5>2, <5>3, <5>4
        <4>3. QED BY <4>1, <4>2
      <3>8. ASSUME NEW p \in Nat, NEW z \in Nat \ {0}, Clear(free, p, z), p + z <= o \/ o + s <= p
             PROVE  p + z <= o \/ d <= p
        <4>1. p + z <= f \/ d <= p BY <1>7, <2>5, <2>6, <3>8
        <4>2. p + z <= o \/ e <= p BY <1>8, <3>8
        <4>3. QED BY <1>8, <2>6, <3>1, <4>1, <4>2
      <3>9. Frees(free, o, s, Spliced(free, lo - 1, [offset |-> o, size |-> d - o], hi + 1))
        BY <2>8, <3>4, <3>5, <3>6, <3>7, <3>8, PutBack
      <3>10. QED BY <2>7, <3>3, <3>9
    <2>13. QED BY <2>10, <2>11, <2>12
  <1>11. QED BY <1>9, <1>10

-------------------------------------------------------------------------------
(***************************************************************************)
(* The tensors of a graph, and that there is room for all of them.         *)
(***************************************************************************)
Total(g) == g.leafs + Len(g.nodes)
Limit(g) == Unlimited \div (Total(g) + 1)

\* The tensor whose rows are read through t, and the tensors that have rows of their own.
Root(g, t) == IF ViewOf(g, t) = 0 THEN t ELSE ViewOf(g, t)
Owns(g, t) == t \notin g.ext /\ ViewOf(g, t) = 0
Owners(g, n) == {t \in 1..n : Owns(g, t)}

\* What is at hand about a graph, and about a tensor.
LEMMA GraphFacts ==
  ASSUME NEW g, WellFormed(g)
  PROVE  /\ g.leafs \in Nat /\ Len(g.nodes) \in Nat /\ Total(g) \in Nat
         /\ Tensors(g) = 1..Total(g) /\ g.leafs <= Total(g)
         /\ Limit(g) \in Nat
  <1>1. g.leafs \in Nat /\ Len(g.nodes) \in Nat BY DEF WellFormed
  <1>2. Total(g) \in Nat /\ g.leafs <= Total(g) BY <1>1 DEF Total
  <1>3. Tensors(g) = 1..Total(g) BY DEF Tensors, Total
  <1>4. Limit(g) \in Nat BY <1>2 DEF Limit, Unlimited
  <1>5. QED BY <1>1, <1>2, <1>3, <1>4

\* The ones it reads come before it, and so does the one it is a view of.
LEMMA TensorFacts ==
  ASSUME NEW g, WellFormed(g), NEW t \in Tensors(g)
  PROVE  /\ t \in Nat \ {0}
         /\ SizeOf(g, t) \in Nat \ {0} /\ SizeOf(g, t) <= Limit(g)
         /\ SrcOf(g, t) \in Seq(1..(t - 1))
         /\ ViewOf(g, t) \in 0..(t - 1)
         /\ ViewOf(g, t) # 0 => /\ ViewOf(g, t) \in Tensors(g) /\ ViewOf(g, ViewOf(g, t)) = 0
                                /\ SizeOf(g, t) <= SizeOf(g, ViewOf(g, t))
         /\ t \in g.out => ViewOf(g, t) = 0
         /\ t \in g.ext => t <= g.leafs /\ ViewOf(g, t) = 0
  <1>1. PICK n \in Nat : n = Total(g) /\ Tensors(g) = 1..n BY GraphFacts
  <1>2. t \in Nat \ {0} BY <1>1
  <1>3. SizeOf(g, t) \in Nat \ {0} /\ SizeOf(g, t) <= Limit(g) BY DEF WellFormed, Limit, Total
  <1>4. /\ SrcOf(g, t) \in Seq(1..(t - 1))
        /\ ViewOf(g, t) \in 0..(t - 1)
        /\ ViewOf(g, t) # 0 => /\ ViewOf(g, ViewOf(g, t)) = 0
                               /\ SizeOf(g, t) <= SizeOf(g, ViewOf(g, t))
        /\ t \in g.out => ViewOf(g, t) = 0
    BY DEF WellFormed
  <1>5. ViewOf(g, t) # 0 => ViewOf(g, t) \in Tensors(g) BY <1>1, <1>4
  <1>6. t \in g.ext => t <= g.leafs /\ ViewOf(g, t) = 0
    <2>1. SUFFICES ASSUME t \in g.ext PROVE t <= g.leafs /\ ViewOf(g, t) = 0 OBVIOUS
    <2>2. t \in 1..g.leafs /\ g.leafs \in Nat BY <2>1, GraphFacts DEF WellFormed
    <2>3. ~IsNode(g, t) BY <2>2 DEF IsNode
    <2>4. QED BY <2>2, <2>3 DEF ViewOf
  <1>7. QED BY <1>2, <1>3, <1>4, <1>5, <1>6

\* Products of numbers that are no constants.
LEMMA Times ==
  ASSUME NEW n \in Nat, NEW l \in Nat
  PROVE  n * l \in Nat /\ (n + 1) * l = n * l + l
  OBVIOUS

\* They grow with their factors.
LEMMA TimesLess ==
  ASSUME NEW n \in Nat, NEW k \in Nat, NEW l \in Nat, n <= k
  PROVE  n * l <= k * l
  <1> DEFINE K == {d \in Nat : n * l <= (n + d) * l}
  <1>1. 0 \in K BY Times
  <1>2. ASSUME NEW d \in Nat, d \in K PROVE d + 1 \in K
    <2>1. n + d \in Nat /\ n + (d + 1) = (n + d) + 1 OBVIOUS
    <2>2. (n + (d + 1)) * l = (n + d) * l + l BY <2>1, Times
    <2>3. (n + d) * l \in Nat /\ n * l \in Nat BY <2>1, Times
    <2>4. PICK x, y \in Nat : x = (n + d) * l /\ y = n * l BY <2>3
    <2>5. y <= x /\ y <= x + l BY <1>2, <2>4
    <2>6. n * l <= (n + (d + 1)) * l BY <2>2, <2>4, <2>5
    <2>7. QED BY <2>6
  <1> HIDE DEF K
  <1>3. k - n \in K BY <1>1, <1>2, Numbers
  <1>4. n + (k - n) = k OBVIOUS
  <1>5. QED BY <1>3, <1>4 DEF K

\* All tensors and one more fit in the measured buffer.
LEMMA LimitFits == ASSUME NEW g, WellFormed(g) PROVE (Total(g) + 1) * Limit(g) <= Unlimited
  <1>1. PICK d \in Nat \ {0} : d = Total(g) + 1 BY GraphFacts
  <1>2. PICK u \in Nat : u = Unlimited BY DEF Unlimited
  <1>3. Limit(g) = u \div d BY <1>1, <1>2 DEF Limit
  <1>4. d * (u \div d) <= u OBVIOUS
  <1>5. QED BY <1>1, <1>2, <1>3, <1>4

\* However many tensors are placed, there is room for the next.
LEMMA Room ==
  ASSUME NEW g, WellFormed(g), NEW t \in Tensors(g), NEW m \in Nat, m <= (t - 1) * Limit(g)
  PROVE  m + SizeOf(g, t) < Unlimited /\ m + SizeOf(g, t) <= t * Limit(g)
  <1>1. PICK n \in Nat : n = Total(g) /\ Tensors(g) = 1..n BY GraphFacts
  <1>2. PICK l \in Nat : l = Limit(g) BY GraphFacts
  <1>3. PICK z \in Nat \ {0} : z = SizeOf(g, t) /\ z <= l BY <1>2, TensorFacts
  <1>4. PICK k \in Nat : k = t - 1 /\ k + 1 = t /\ t \in Nat /\ k + 1 <= n BY <1>1
  <1>5. t * l = k * l + l /\ k * l \in Nat BY <1>4, Times
  <1>6. t * l <= n * l BY <1>1, <1>4, TimesLess
  <1>7. (n + 1) * l = n * l + l /\ n * l \in Nat BY Times
  <1>8. (n + 1) * l <= Unlimited BY <1>1, <1>2, LimitFits
  <1>9. PICK x, y \in Nat : x = k * l /\ y = n * l BY <1>5, <1>7
  <1>10. x + l <= y /\ y + l <= Unlimited /\ m <= x BY <1>2, <1>4, <1>5, <1>6, <1>7, <1>8, <1>9
  <1>11. Unlimited \in Nat BY DEF Unlimited
  <1>12. m + z < Unlimited /\ m + z <= x + l BY <1>3, <1>10, <1>11
  <1>13. QED BY <1>2, <1>3, <1>4, <1>5, <1>9, <1>12

-------------------------------------------------------------------------------
(***************************************************************************)
(* The placed tensors, the first n among them, and the free blocks: those  *)
(* that are allocated have rows of their own, which no free block has and  *)
(* no other allocated tensor.                                              *)
(***************************************************************************)
\* Two tensors share no row.
Apart(g, off, t, u) ==
  off[t] + SizeOf(g, t) <= off[u] \/ off[u] + SizeOf(g, u) <= off[t]

\* The layout of the first n tensors: the allocated ones share no row with each other and
\* none with a free block.
Layout(g, free, max, alc, off, n) ==
  /\ FreeOK(free) /\ max \in Nat /\ LastOf(free) <= max /\ max <= n * Limit(g)
  /\ alc \in [Tensors(g) -> BOOLEAN] /\ off \in [Tensors(g) -> Nat]
  /\ \A t \in Tensors(g) : alc[t] => t \in Owners(g, n) /\ Clear(free, off[t], SizeOf(g, t))
  /\ \A t \in Tensors(g) : t \in Owners(g, n) => off[t] + SizeOf(g, t) <= max
  /\ \A t, u \in Tensors(g) : alc[t] /\ alc[u] /\ t # u => Apart(g, off, t, u)

\* One more tensor.
LEMMA PlacedNext ==
  ASSUME NEW g, WellFormed(g), NEW t \in Tensors(g)
  PROVE  /\ \A u \in Tensors(g) : u \in Owners(g, t) <=> u \in Owners(g, t - 1) \/ (u = t /\ Owns(g, t))
         /\ t \notin Owners(g, t - 1)
  <1>1. PICK n \in Nat : Tensors(g) = 1..n BY GraphFacts
  <1>2. QED BY <1>1 DEF Owners

\* A tensor that is a view or held elsewhere takes no rows.
LEMMA LayoutSkip ==
  ASSUME NEW g, WellFormed(g), NEW t \in Tensors(g), ~Owns(g, t),
         NEW free, NEW max, NEW alc, NEW off, Layout(g, free, max, alc, off, t - 1)
  PROVE  Layout(g, free, max, alc, off, t)
  <1>1. \A u \in Tensors(g) : u \in Owners(g, t) <=> u \in Owners(g, t - 1) BY PlacedNext
  <1>2. max <= t * Limit(g)
    <2>1. max \in Nat /\ max <= (t - 1) * Limit(g) BY DEF Layout
    <2>2. max + SizeOf(g, t) <= t * Limit(g) BY <2>1, Room
    <2>3. SizeOf(g, t) \in Nat /\ t * Limit(g) \in Nat BY TensorFacts, GraphFacts, Times
    <2>4. QED BY <2>1, <2>2, <2>3
  <1>3. QED BY <1>1, <1>2 DEF Layout

\* A tensor that takes rows from a free block.
LEMMA LayoutNew ==
  ASSUME NEW g, WellFormed(g), NEW t \in Tensors(g), Owns(g, t),
         NEW a, NEW alc, NEW off, Layout(g, a.free, a.maxSize, alc, off, t - 1)
  PROVE  LET r == Alloc(a, SizeOf(g, t))
             off2 == [off EXCEPT ![t] = r.offset]
         IN /\ Layout(g, r.alloc.free, r.alloc.maxSize, [alc EXCEPT ![t] = TRUE], off2, t)
            /\ r.alloc = [free |-> r.alloc.free, maxSize |-> r.alloc.maxSize]
            /\ \A u \in Tensors(g) : alc[u] => Apart(g, off2, u, t)
  <1> DEFINE r == Alloc(a, SizeOf(g, t))
  <1>1. PICK z \in Nat \ {0} : z = SizeOf(g, t) BY TensorFacts
  <1>2. PICK M \in Nat : M = a.maxSize /\ M <= (t - 1) * Limit(g) BY DEF Layout
  <1>3. M + z < Unlimited /\ M + z <= t * Limit(g) BY <1>1, <1>2, Room
  <1>4. PICK free : free = a.free OBVIOUS
  <1>5. Allocs(a, z) /\ r.alloc = [free |-> r.alloc.free, maxSize |-> r.alloc.maxSize]
    BY <1>1, <1>2, <1>3, AllocKeeps DEF Layout
  <1>t. /\ r.offset \in Nat /\ r.alloc.maxSize \in Nat
    BY <1>1, <1>5 DEF Allocs
  <1>6. PICK o, M2 \in Nat : o = r.offset /\ M2 = r.alloc.maxSize BY <1>t
  <1>f. PICK f2 : f2 = r.alloc.free OBVIOUS
  <1> HIDE DEF r
  <1>7. /\ FreeOK(f2) /\ M <= M2 /\ M2 <= M + z /\ LastOf(f2) <= M2 /\ o + z <= M2
        /\ Clear(f2, o, z)
        /\ \A p, s \in Nat : Clear(free, p, s) => Clear(f2, p, s) /\ (p + s <= o \/ o + z <= p)
    BY <1>1, <1>2, <1>4, <1>5, <1>6, <1>f DEF Allocs, r
  <1> DEFINE alc2 == [alc EXCEPT ![t] = TRUE]
             off2 == [off EXCEPT ![t] = o]
  <1>8. alc \in [Tensors(g) -> BOOLEAN] /\ off \in [Tensors(g) -> Nat] BY DEF Layout
  <1>9. alc2 \in [Tensors(g) -> BOOLEAN] /\ off2 \in [Tensors(g) -> Nat] BY <1>8
  <1>10. \A u \in Tensors(g) : /\ alc2[u] = (u = t \/ alc[u])
                               /\ off2[u] = IF u = t THEN o ELSE off[u]
    BY <1>8
  <1> HIDE DEF alc2, off2
  <1>11. \A u \in Tensors(g) : u \in Owners(g, t) <=> u \in Owners(g, t - 1) \/ u = t BY PlacedNext
  <1>12. ~alc[t] BY PlacedNext DEF Layout
  <1>13. \A u \in Tensors(g) : SizeOf(g, u) \in Nat /\ off[u] \in Nat BY <1>8, TensorFacts
  <1>14. ASSUME NEW u \in Tensors(g), alc[u]
         PROVE  /\ u \in Owners(g, t - 1) /\ Clear(f2, off[u], SizeOf(g, u)) /\ u # t
                /\ off[u] + SizeOf(g, u) <= o \/ o + z <= off[u]
    <2>1. u \in Owners(g, t - 1) /\ Clear(free, off[u], SizeOf(g, u)) BY <1>4, <1>14 DEF Layout
    <2>2. QED BY <1>7, <1>12, <1>13, <1>14, <2>1
  <1>15. ASSUME NEW u \in Tensors(g), alc[u] PROVE Apart(g, off2, u, t)
    BY <1>1, <1>10, <1>14, <1>15 DEF Apart
  <1>16. ASSUME NEW u \in Tensors(g), alc2[u]
         PROVE  u \in Owners(g, t) /\ Clear(f2, off2[u], SizeOf(g, u))
    BY <1>1, <1>7, <1>10, <1>11, <1>14, <1>16
  <1>17. ASSUME NEW u \in Tensors(g), u \in Owners(g, t) PROVE off2[u] + SizeOf(g, u) <= M2
    <2>1. CASE u = t BY <1>1, <1>7, <1>10, <2>1
    <2>2. CASE u # t
      <3>1. off2[u] = off[u] /\ off[u] + SizeOf(g, u) <= M BY <1>2, <1>10, <1>11, <1>17, <2>2 DEF Layout
      <3>2. PICK x, y \in Nat : x = off[u] /\ y = SizeOf(g, u) BY <1>13
      <3>3. x + y <= M2 BY <1>7, <3>1, <3>2
      <3>4. QED BY <3>1, <3>2, <3>3
    <2>3. QED BY <2>1, <2>2
  <1>18. ASSUME NEW u \in Tensors(g), NEW v \in Tensors(g), alc2[u], alc2[v], u # v
         PROVE  Apart(g, off2, u, v)
    <2>1. CASE u = t BY <1>10, <1>15, <1>18, <2>1 DEF Apart
    <2>2. CASE v = t BY <1>10, <1>15, <1>18, <2>2
    <2>3. CASE u # t /\ v # t
      <3>1. Apart(g, off, u, v) BY <1>10, <1>18, <2>3 DEF Layout
      <3>2. QED BY <1>10, <2>3, <3>1 DEF Apart
    <2>4. QED BY <2>1, <2>2, <2>3
  <1>19. M2 <= t * Limit(g)
    <2>1. t * Limit(g) \in Nat BY TensorFacts, GraphFacts, Times
    <2>2. QED BY <1>3, <1>7, <2>1
  <1>20. Layout(g, f2, M2, alc2, off2, t)
    BY <1>7, <1>9, <1>16, <1>17, <1>18, <1>19 DEF Layout
  <1>21. QED BY <1>5, <1>6, <1>f, <1>15, <1>20 DEF r, alc2, off2

\* A tensor that takes over the rows of another of its size.
LEMMA LayoutReuse ==
  ASSUME NEW g, WellFormed(g), NEW t \in Tensors(g), Owns(g, t),
         NEW free, NEW max, NEW alc, NEW off, Layout(g, free, max, alc, off, t - 1),
         NEW p \in Tensors(g), alc[p], SizeOf(g, p) = SizeOf(g, t)
  PROVE  LET off2 == [off EXCEPT ![t] = off[p]]
         IN /\ p # t
            /\ Layout(g, free, max, [alc EXCEPT ![t] = TRUE, ![p] = FALSE], off2, t)
            /\ \A u \in Tensors(g) : alc[u] /\ u # p => Apart(g, off2, u, t)
  <1> DEFINE alc2 == [alc EXCEPT ![t] = TRUE, ![p] = FALSE]
             off2 == [off EXCEPT ![t] = off[p]]
  <1>1. alc \in [Tensors(g) -> BOOLEAN] /\ off \in [Tensors(g) -> Nat] BY DEF Layout
  <1>2. ~alc[t] BY PlacedNext DEF Layout
  <1>3. p # t BY <1>2
  <1>4. alc2 \in [Tensors(g) -> BOOLEAN] /\ off2 \in [Tensors(g) -> Nat] BY <1>1
  <1>5. \A u \in Tensors(g) : /\ alc2[u] = (u # p /\ (u = t \/ alc[u]))
                              /\ off2[u] = IF u = t THEN off[p] ELSE off[u]
    BY <1>1, <1>3
  <1> HIDE DEF alc2, off2
  <1>6. \A u \in Tensors(g) : u \in Owners(g, t) <=> u \in Owners(g, t - 1) \/ u = t BY PlacedNext
  <1>7. p \in Owners(g, t - 1) /\ Clear(free, off[p], SizeOf(g, p)) BY DEF Layout
  <1>8. \A u \in Tensors(g) : u \in Owners(g, t - 1) => off[u] + SizeOf(g, u) <= max BY DEF Layout
  <1>9. ASSUME NEW u \in Tensors(g), alc[u], u # p PROVE Apart(g, off2, u, t)
    <2>1. Apart(g, off, u, p) /\ u # t BY <1>2, <1>9 DEF Layout
    <2>2. QED BY <1>5, <2>1 DEF Apart
  <1>10. ASSUME NEW u \in Tensors(g), alc2[u]
         PROVE  u \in Owners(g, t) /\ Clear(free, off2[u], SizeOf(g, u))
    <2>1. CASE u = t BY <1>5, <1>6, <1>7, <2>1
    <2>2. CASE u # t
      <3>1. alc[u] BY <1>5, <1>10, <2>2
      <3>2. u \in Owners(g, t - 1) /\ Clear(free, off[u], SizeOf(g, u)) BY <3>1 DEF Layout
      <3>3. QED BY <1>5, <1>6, <2>2, <3>2
    <2>3. QED BY <2>1, <2>2
  <1>11. ASSUME NEW u \in Tensors(g), u \in Owners(g, t) PROVE off2[u] + SizeOf(g, u) <= max
    <2>1. CASE u = t BY <1>5, <1>7, <1>8, <2>1
    <2>2. CASE u # t BY <1>5, <1>6, <1>8, <1>11, <2>2
    <2>3. QED BY <2>1, <2>2
  <1>12. ASSUME NEW u \in Tensors(g), NEW v \in Tensors(g), alc2[u], alc2[v], u # v
         PROVE  Apart(g, off2, u, v)
    <2>1. CASE u = t
      <3>1. alc[v] /\ v # p BY <1>5, <1>12, <2>1
      <3>2. QED BY <1>9, <2>1, <3>1 DEF Apart
    <2>2. CASE v = t
      <3>1. alc[u] /\ u # p BY <1>5, <1>12, <2>2
      <3>2. QED BY <1>9, <2>2, <3>1
    <2>3. CASE u # t /\ v # t
      <3>1. Apart(g, off, u, v) BY <1>5, <1>12, <2>3 DEF Layout
      <3>2. QED BY <1>5, <2>3, <3>1 DEF Apart
    <2>4. QED BY <2>1, <2>2, <2>3
  <1>13. max \in Nat /\ max <= t * Limit(g)
    <2>1. max \in Nat /\ max <= (t - 1) * Limit(g) BY DEF Layout
    <2>2. max + SizeOf(g, t) <= t * Limit(g) BY <2>1, Room
    <2>3. SizeOf(g, t) \in Nat /\ t * Limit(g) \in Nat BY TensorFacts, GraphFacts, Times
    <2>4. QED BY <2>1, <2>2, <2>3
  <1>14. Layout(g, free, max, alc2, off2, t)
    BY <1>4, <1>10, <1>11, <1>12, <1>13 DEF Layout
  <1>15. QED BY <1>3, <1>9, <1>14 DEF alc2, off2

\* A tensor that gives its rows back.
LEMMA LayoutFree ==
  ASSUME NEW g, WellFormed(g), NEW n \in 0..Total(g), NEW x \in Tensors(g),
         NEW free, NEW max, NEW alc, NEW off, Layout(g, free, max, alc, off, n), alc[x]
  PROVE  Layout(g, Free(free, off[x], SizeOf(g, x)), max, [alc EXCEPT ![x] = FALSE], off, n)
  <1> DEFINE new == Free(free, off[x], SizeOf(g, x))
             alc2 == [alc EXCEPT ![x] = FALSE]
  <1>1. alc \in [Tensors(g) -> BOOLEAN] /\ off \in [Tensors(g) -> Nat] BY DEF Layout
  <1>2. PICK o \in Nat, z \in Nat \ {0} : o = off[x] /\ z = SizeOf(g, x) BY <1>1, TensorFacts
  <1>3. FreeOK(free) /\ Clear(free, o, z) /\ x \in Owners(g, n) BY <1>2 DEF Layout
  <1>4. PICK M \in Nat : M = max /\ LastOf(free) <= M /\ o + z <= M BY <1>2, <1>3 DEF Layout
  <1>5. PICK k \in Nat \ {0} : k = Len(free) BY <1>3 DEF FreeOK
  <1>6. free \in Seq(Blocks) /\ k \in 1..Len(free) BY <1>3, <1>5 DEF FreeOK
  <1>7. PICK f, e \in Nat : f = free[k].offset /\ e = BlockEnd(free[k]) BY <1>6, BlockTypes
  <1>8. o + z <= f
    <2>1. o + z <= f \/ e <= o BY <1>3, <1>6, <1>7 DEF Clear
    <2>2. e = Unlimited BY <1>3, <1>5, <1>7 DEF FreeOK
    <2>3. M < Unlimited
      <3>1. PICK c \in Nat : c = Total(g) /\ Tensors(g) = 1..c BY GraphFacts
      <3>2. c \in Tensors(g) /\ n <= c /\ n \in Nat BY <3>1
      <3>3. PICK l \in Nat : l = Limit(g) BY GraphFacts
      <3>4. PICK y \in Nat : y = (c - 1) * l /\ c * l = y + l
        <4>1. PICK b \in Nat : b = c - 1 /\ b + 1 = c BY <3>1
        <4>2. QED BY <4>1, Times
      <3>5. y + SizeOf(g, c) < Unlimited /\ y \in Nat BY <3>2, <3>3, <3>4, Room
      <3>6. M <= n * l BY <1>4, <3>3 DEF Layout
      <3>7. CASE n = c
        <4>1. y + l < Unlimited
          <5>1. (c + 1) * l = c * l + l /\ c * l \in Nat BY Times
          <5>2. l \in Nat \ {0}
            <6>1. SizeOf(g, c) \in Nat \ {0} /\ SizeOf(g, c) <= l BY <3>2, <3>3, TensorFacts
            <6>2. QED BY <6>1
          <5>3. (c + 1) * l <= Unlimited BY <3>1, <3>3, LimitFits
          <5>4. Unlimited \in Nat BY DEF Unlimited
          <5>5. QED BY <3>4, <5>1, <5>2, <5>3, <5>4
        <4>2. M <= y + l BY <3>4, <3>6, <3>7
        <4>3. Unlimited \in Nat BY DEF Unlimited
        <4>4. QED BY <4>1, <4>2, <4>3
      <3>8. CASE n < c
        <4>1. PICK b \in Nat : b = c - 1 /\ n <= b BY <3>1, <3>2, <3>8
        <4>2. n * l <= b * l /\ b * l \in Nat /\ n * l \in Nat BY <3>2, <4>1, Times, TimesLess
        <4>3. M <= y BY <3>4, <3>6, <4>1, <4>2
        <4>4. SizeOf(g, c) \in Nat /\ Unlimited \in Nat BY <3>2, TensorFacts DEF Unlimited
        <4>5. QED BY <3>5, <4>3, <4>4
      <3>9. QED BY <3>2, <3>7, <3>8
    <2>4. Unlimited \in Nat BY DEF Unlimited
    <2>5. QED BY <1>4, <2>1, <2>2, <2>3, <2>4
  <1>9. Frees(free, o, z, new)
    <2>1. o + z <= LastOf(free) BY <1>5, <1>7, <1>8 DEF LastOf
    <2>2. QED BY <1>2, <1>3, <2>1, FreeKeeps
  <1>10. LastOf(new) <= max
    <2>1. FreeOK(new) /\ LastOf(new) <= LastOf(free) BY <1>9 DEF Frees
    <2>2. new \in Seq(Blocks) /\ Len(new) \in 1..Len(new) BY <2>1 DEF FreeOK
    <2>3. LastOf(new) \in Nat /\ LastOf(free) \in Nat BY <1>5, <1>7, <2>2, BlockTypes DEF LastOf
    <2>4. QED BY <1>4, <2>1, <2>3
  <1> HIDE DEF new
  <1>11. alc2 \in [Tensors(g) -> BOOLEAN] /\ \A u \in Tensors(g) : alc2[u] = (u # x /\ alc[u]) BY <1>1
  <1> HIDE DEF alc2
  <1>12. ASSUME NEW u \in Tensors(g), alc2[u]
         PROVE  u \in Owners(g, n) /\ Clear(new, off[u], SizeOf(g, u))
    <2>1. alc[u] /\ u # x BY <1>11, <1>12
    <2>2. u \in Owners(g, n) /\ Clear(free, off[u], SizeOf(g, u)) /\ Apart(g, off, u, x) BY <2>1 DEF Layout
    <2>3. PICK p \in Nat, s \in Nat \ {0} : p = off[u] /\ s = SizeOf(g, u) BY <1>1, TensorFacts
    <2>4. p + s <= o \/ o + z <= p BY <1>2, <2>2, <2>3 DEF Apart
    <2>5. Clear(new, p, s) BY <1>9, <2>2, <2>3, <2>4 DEF Frees
    <2>6. QED BY <2>2, <2>3, <2>5
  <1>13. Layout(g, new, max, alc2, off, n)
    <2>1. FreeOK(new) BY <1>9 DEF Frees
    <2>2. \A u, v \in Tensors(g) : alc2[u] /\ alc2[v] /\ u # v => Apart(g, off, u, v) BY <1>11 DEF Layout
    <2>3. QED BY <1>10, <1>11, <1>12, <2>1, <2>2 DEF Layout
  <1>14. QED BY <1>13 DEF new, alc2

-------------------------------------------------------------------------------
(***************************************************************************)
(* The states of the walk.                                                 *)
(***************************************************************************)
States(g) ==
  [al : [free : Seq(Blocks), maxSize : Nat],
   allocated : [Tensors(g) -> BOOLEAN], offset : [Tensors(g) -> Nat],
   children : [Tensors(g) -> Int], views : [Tensors(g) -> Int]]

\* The walk has come to tensor n.
AllocInv(g, st, n) ==
  st \in States(g) /\ Layout(g, st.al.free, st.al.maxSize, st.allocated, st.offset, n)

\* p is an operand of t that nothing but t needs, and t takes its rows.
Reuses(g, st, new, t, p) ==
  /\ IsNode(g, t) /\ CanInplace(NodeOf(g, t).op)
  /\ Reusable(g, st, t, p)
  /\ \E j \in DOMAIN SrcOf(g, t) : SrcOf(g, t)[j] = p
  /\ new.offset[t] = st.offset[p]

\* Tensor t is placed, with rows no other tensor has but one it takes over.
Took(g, st, new, t) ==
  /\ AllocInv(g, new, t)
  /\ new.children = st.children /\ new.views = st.views
  /\ \A u \in Tensors(g) : u # t => new.offset[u] = st.offset[u]
  /\ ~Owns(g, t) => new.allocated = st.allocated
  /\ Owns(g, t) =>
       /\ new.allocated[t]
       /\ \A u \in Tensors(g) : st.allocated[u] =>
            \/ new.allocated[u] /\ Apart(g, new.offset, u, t)
            \/ Reuses(g, st, new, t, u)

\* ggml_gallocr_allocate_node keeps that: whatever is allocated shares no row with tensor
\* t, unless t takes its place.
LEMMA AllocateTakes ==
  ASSUME NEW g, WellFormed(g), NEW t \in Tensors(g), NEW st, AllocInv(g, st, t - 1)
  PROVE  Took(g, st, AllocateNode(g, st, t), t)
  <1> DEFINE src == SrcOf(g, t)
             Parents == {j \in 1..Len(src) : Reusable(g, st, t, src[j])}
             c == CHOOSE j \in Parents : \A i \in Parents : j <= i
             p == src[c]
             a == Alloc(st.al, SizeOf(g, t))
             Stays == t \in g.ext \/ st.allocated[t] \/ ViewOf(g, t) # 0
             InPlace == IsNode(g, t) /\ CanInplace(NodeOf(g, t).op) /\ Parents # {}
             inPlace == [st EXCEPT !.allocated = [@ EXCEPT ![t] = TRUE, ![p] = FALSE],
                                   !.offset[t] = st.offset[p]]
             apart == [st EXCEPT !.allocated[t] = TRUE, !.offset[t] = a.offset, !.al = a.alloc]
  <1>1. AllocateNode(g, st, t) = IF Stays THEN st ELSE IF InPlace THEN inPlace ELSE apart
    BY DEF AllocateNode
  <1>2. st \in States(g) /\ Layout(g, st.al.free, st.al.maxSize, st.allocated, st.offset, t - 1)
    BY DEF AllocInv
  <1>3. ~st.allocated[t] BY <1>2, PlacedNext DEF Layout
  <1>4. Stays <=> ~Owns(g, t) BY <1>3 DEF Owns
  <1> HIDE DEF Stays, InPlace
  <1>5. CASE Stays
    <2>1. Layout(g, st.al.free, st.al.maxSize, st.allocated, st.offset, t)
      BY <1>2, <1>4, <1>5, LayoutSkip
    <2>2. QED BY <1>1, <1>2, <1>4, <1>5, <2>1 DEF Took, AllocInv
  <1>6. CASE ~Stays /\ InPlace
    <2>1. Parents # {} /\ IsNode(g, t) /\ CanInplace(NodeOf(g, t).op) BY <1>6 DEF InPlace
    <2>2. src \in Seq(1..(t - 1)) BY TensorFacts
    <2>3. PICK n \in Nat : n = Len(src) /\ DOMAIN src = 1..n BY <2>2, LenProperties
    <2>4. Parents \in SUBSET (1..n) BY <2>3
    <2> HIDE DEF src
    <2>5. c \in Parents
      <3> HIDE DEF Parents
      <3>1. QED BY <2>1, <2>4, SmallestIn
    <2> HIDE DEF c
    <2>6. c \in DOMAIN src /\ Reusable(g, st, t, p) BY <2>3, <2>5
    <2>7. p \in 1..(t - 1) BY <2>2, <2>3, <2>6, ElementOfSeq
    <2>8. p \in Tensors(g)
      <3>1. PICK k \in Nat : Tensors(g) = 1..k BY GraphFacts
      <3>2. QED BY <2>7, <3>1
    <2> HIDE DEF p
    <2>9. st.allocated[p] /\ SizeOf(g, p) = SizeOf(g, t) BY <2>6 DEF Reusable
    <2>10. PICK alc, off : alc = st.allocated /\ off = st.offset OBVIOUS
    <2> DEFINE off2 == [off EXCEPT ![t] = off[p]]
               alc2 == [alc EXCEPT ![t] = TRUE, ![p] = FALSE]
    <2>11. /\ p # t
           /\ Layout(g, st.al.free, st.al.maxSize, alc2, off2, t)
           /\ \A u \in Tensors(g) : alc[u] /\ u # p => Apart(g, off2, u, t)
      BY <1>2, <1>4, <1>6, <2>8, <2>9, <2>10, LayoutReuse
    <2>12. /\ inPlace.al = st.al /\ inPlace.allocated = alc2 /\ inPlace.offset = off2
           /\ inPlace.children = st.children /\ inPlace.views = st.views
      BY <1>2, <2>10 DEF States
    <2>13. alc \in [Tensors(g) -> BOOLEAN] /\ off \in [Tensors(g) -> Nat] BY <1>2, <2>10 DEF Layout
    <2>14. alc2 \in [Tensors(g) -> BOOLEAN] /\ off2 \in [Tensors(g) -> Nat]
      <3>1. [alc EXCEPT ![t] = TRUE] \in [Tensors(g) -> BOOLEAN] BY <2>13
      <3>2. QED BY <2>8, <2>13, <3>1
    <2>15. inPlace \in States(g)
      <3> HIDE DEF alc2
      <3>1. [st EXCEPT !.allocated = alc2, !.offset[t] = st.offset[p]] \in States(g)
        BY <1>2, <2>8, <2>14 DEF States
      <3>2. inPlace = [st EXCEPT !.allocated = alc2, !.offset[t] = st.offset[p]]
        BY <2>10 DEF alc2
      <3>3. QED BY <3>1, <3>2
    <2> HIDE DEF inPlace
    <2>16. AllocInv(g, inPlace, t) BY <2>11, <2>12, <2>15 DEF AllocInv
    <2>17. \A u \in Tensors(g) : /\ alc2[u] = (u # p /\ (u = t \/ alc[u]))
                                 /\ off2[u] = IF u = t THEN off[p] ELSE off[u]
      BY <2>11, <2>13
    <2> HIDE DEF alc2, off2
    <2>18. Reuses(g, st, inPlace, t, p)
      <3>1. src[c] = p BY DEF p
      <3>2. inPlace.offset[t] = st.offset[p] BY <2>10, <2>12, <2>17
      <3>3. QED BY <2>1, <2>6, <3>1, <3>2 DEF Reuses, src
    <2>19. inPlace.allocated[t] BY <2>11, <2>12, <2>17
    <2>20. ASSUME NEW u \in Tensors(g), st.allocated[u]
           PROVE  \/ inPlace.allocated[u] /\ Apart(g, inPlace.offset, u, t)
                  \/ Reuses(g, st, inPlace, t, u)
      <3>1. CASE u = p BY <2>18, <3>1
      <3>2. CASE u # p BY <2>10, <2>11, <2>12, <2>17, <2>20, <3>2
      <3>3. QED BY <3>1, <3>2
    <2>21. Took(g, st, inPlace, t)
      BY <1>4, <1>6, <2>10, <2>12, <2>16, <2>17, <2>19, <2>20 DEF Took
    <2>22. QED BY <1>1, <1>6, <2>21
  <1>7. CASE ~Stays /\ ~InPlace
    <2>1. PICK al, alc, off : al = st.al /\ alc = st.allocated /\ off = st.offset OBVIOUS
    <2> DEFINE off2 == [off EXCEPT ![t] = a.offset]
               alc2 == [alc EXCEPT ![t] = TRUE]
    <2>2. /\ Layout(g, a.alloc.free, a.alloc.maxSize, alc2, off2, t)
          /\ a.alloc = [free |-> a.alloc.free, maxSize |-> a.alloc.maxSize]
          /\ \A u \in Tensors(g) : alc[u] => Apart(g, off2, u, t)
      BY <1>2, <1>4, <1>7, <2>1, LayoutNew
    <2>3. a.alloc \in [free : Seq(Blocks), maxSize : Nat]
      <3>1. a.alloc.free \in Seq(Blocks) /\ a.alloc.maxSize \in Nat BY <2>2 DEF Layout, FreeOK
      <3>2. QED BY <2>2, <3>1
    <2> HIDE DEF a
    <2>4. /\ apart.al = a.alloc /\ apart.allocated = alc2 /\ apart.offset = off2
          /\ apart.children = st.children /\ apart.views = st.views
      BY <1>2, <2>1 DEF States
    <2>5. alc \in [Tensors(g) -> BOOLEAN] /\ off \in [Tensors(g) -> Nat] BY <1>2, <2>1 DEF Layout
    <2>6. alc2 \in [Tensors(g) -> BOOLEAN] /\ off2 \in [Tensors(g) -> Nat] BY <2>2 DEF Layout
    <2>7. apart \in States(g)
      <3>1. a.offset \in Nat
        <4>1. off2[t] = a.offset BY <2>5
        <4>2. QED BY <2>6, <4>1
      <3>2. QED BY <1>2, <2>3, <3>1 DEF States
    <2> HIDE DEF apart
    <2>8. AllocInv(g, apart, t) BY <2>2, <2>4, <2>7 DEF AllocInv
    <2>9. \A u \in Tensors(g) : /\ alc2[u] = (u = t \/ alc[u])
                                /\ u # t => off2[u] = off[u]
      BY <2>5
    <2> HIDE DEF alc2, off2
    <2>10. apart.allocated[t] BY <2>4, <2>9
    <2>11. ASSUME NEW u \in Tensors(g), st.allocated[u]
           PROVE  apart.allocated[u] /\ Apart(g, apart.offset, u, t)
      BY <2>1, <2>2, <2>4, <2>9, <2>11
    <2>12. Took(g, st, apart, t)
      BY <1>4, <1>7, <2>1, <2>4, <2>8, <2>9, <2>10, <2>11 DEF Took
    <2>13. QED BY <1>1, <1>7, <2>12
  <1>8. QED BY <1>5, <1>6, <1>7

\* Freeing a tensor that is no output.
LEMMA FreeNodeKeeps ==
  ASSUME NEW g, WellFormed(g), NEW n \in 0..Total(g), NEW st, AllocInv(g, st, n),
         NEW x \in Tensors(g), st.allocated[x]
  PROVE  LET new == FreeNode(g, st, x)
         IN /\ AllocInv(g, new, n)
            /\ new.offset = st.offset /\ new.children = st.children /\ new.views = st.views
            /\ \A u \in Tensors(g) : st.allocated[u] => new.allocated[u] \/ (u = x /\ x \notin g.out)
  <1>1. CASE x \in g.out BY <1>1 DEF FreeNode
  <1>2. CASE x \notin g.out
    <2> DEFINE free2 == Free(st.al.free, st.offset[x], SizeOf(g, x))
               alc2 == [st.allocated EXCEPT ![x] = FALSE]
               new == [st EXCEPT !.al.free = Free(@, st.offset[x], SizeOf(g, x)), !.allocated[x] = FALSE]
    <2>1. st \in States(g) /\ Layout(g, st.al.free, st.al.maxSize, st.allocated, st.offset, n)
      BY DEF AllocInv
    <2>2. Layout(g, free2, st.al.maxSize, alc2, st.offset, n) BY <2>1, LayoutFree
    <2>3. free2 \in Seq(Blocks) /\ alc2 \in [Tensors(g) -> BOOLEAN] BY <2>2 DEF Layout, FreeOK
    <2> HIDE DEF free2
    <2>4. /\ new.al.free = free2 /\ new.al.maxSize = st.al.maxSize /\ new.allocated = alc2
          /\ new.offset = st.offset /\ new.children = st.children /\ new.views = st.views
      BY <2>1 DEF States, free2
    <2>5. new \in States(g)
      <3>1. [st EXCEPT !.al.free = free2, !.allocated[x] = FALSE] \in States(g)
        BY <2>1, <2>3 DEF States
      <3>2. QED BY <3>1 DEF free2
    <2> HIDE DEF new
    <2>6. AllocInv(g, new, n) BY <2>2, <2>4, <2>5 DEF AllocInv
    <2>7. \A u \in Tensors(g) : st.allocated[u] => new.allocated[u] \/ u = x
      BY <2>1, <2>4 DEF Layout
    <2>8. FreeNode(g, st, x) = new BY <1>2 DEF FreeNode, new
    <2>9. new.offset = st.offset /\ new.children = st.children /\ new.views = st.views BY <2>4
    <2>10. QED BY <1>2, <2>6, <2>7, <2>8, <2>9
  <1>3. QED BY <1>1, <1>2

\* It is so before the first tensor.
LEMMA FreshStart ==
  ASSUME NEW g, WellFormed(g) PROVE AllocInv(g, Fresh(g), 0)
  <1>1. FreeOK(FreeAll.free) /\ LastOf(FreeAll.free) = 0
    <2> DEFINE b == [offset |-> 0, size |-> Unlimited]
    <2>1. b \in Blocks /\ BlockEnd(b) = Unlimited BY DEF Blocks, BlockEnd, Unlimited
    <2>2. FreeAll.free = << b >> /\ b.offset = 0 BY DEF FreeAll
    <2> HIDE DEF b
    <2>3. << b >> \in Seq(Blocks) /\ Len(<< b >>) = 1 /\ << b >>[1] = b BY <2>1
    <2>4. QED BY <2>1, <2>2, <2>3 DEF FreeOK, InOrder, LastOf
  <1>2. Owners(g, 0) = {} BY DEF Owners
  <1>3. Limit(g) \in Nat /\ 0 <= 0 * Limit(g) BY GraphFacts
  <1>4. Fresh(g) \in States(g)
    <2>1. FreeAll.free \in Seq(Blocks) BY <1>1 DEF FreeOK
    <2>2. QED BY <2>1 DEF Fresh, States, FreeAll
  <1>5. Layout(g, FreeAll.free, 0, [t \in Tensors(g) |-> FALSE], [t \in Tensors(g) |-> 0], 0)
    BY <1>1, <1>2, <1>3 DEF Layout
  <1>6. FreeAll.maxSize = 0 BY DEF FreeAll
  <1>7. QED BY <1>4, <1>5, <1>6 DEF AllocInv, Fresh

-------------------------------------------------------------------------------
(***************************************************************************)
(* The counts: of each tensor, the operands still to be read that are it,  *)
(* and its views of which some operand is still to be read.                *)
(***************************************************************************)
\* The operands to be read by tensor t and those behind it, and those behind the j-th of
\* t.
From(g, t) == {r \in Reads(g) : r[1] >= t}
After(g, t, j) == {r \in Reads(g) : r[1] > t \/ (r[1] = t /\ r[2] > j)}

\* The operands among R that are p, the tensors with such operands or without any from the
\* beginning, and the views of p among these.
Readers(g, R, p) == {r \in R : Read(g, r) = p}
Alive(g, R, t) == Readers(g, R, t) # {} \/ Readers(g, Reads(g), t) = {}
AliveViews(g, R, p) == {t \in Tensors(g) : ViewOf(g, t) = p /\ Alive(g, R, t)}

\* The counts are right when the operands in R are still to be read.
Counts(g, ch, vw, R) ==
  \A p \in Tensors(g) : /\ ch[p] = Cardinality(Readers(g, R, p))
                        /\ vw[p] = Cardinality(AliveViews(g, R, p))

\* Tensor x is wanted after the operands but those in R have been read.
Needed(g, x, R) == x \in g.out \/ \E r \in R : Root(g, Read(g, r)) = x

\* What is at hand about an operand.
LEMMA ReadFacts ==
  ASSUME NEW g, WellFormed(g), NEW r \in Reads(g)
  PROVE  /\ r[1] \in Tensors(g) /\ r[2] \in DOMAIN SrcOf(g, r[1]) /\ r = <<r[1], r[2]>>
         /\ Read(g, r) \in Tensors(g) /\ Read(g, r) \in 1..(r[1] - 1)
  <1>1. r[1] \in Tensors(g) /\ r[2] \in DOMAIN SrcOf(g, r[1]) /\ r = <<r[1], r[2]>> BY DEF Reads
  <1>2. SrcOf(g, r[1]) \in Seq(1..(r[1] - 1)) BY <1>1, TensorFacts
  <1>3. PICK n \in Nat : DOMAIN SrcOf(g, r[1]) = 1..n /\ n = Len(SrcOf(g, r[1])) BY <1>2, LenProperties
  <1>4. Read(g, r) \in 1..(r[1] - 1) BY <1>1, <1>2, <1>3, ElementOfSeq DEF Read
  <1>5. PICK k \in Nat : Tensors(g) = 1..k BY GraphFacts
  <1>6. QED BY <1>1, <1>4, <1>5

\* The j-th operand of t.
LEMMA ReadOf ==
  ASSUME NEW g, NEW t \in Tensors(g), NEW j \in DOMAIN SrcOf(g, t)
  PROVE  <<t, j>> \in Reads(g) /\ Read(g, <<t, j>>) = SrcOf(g, t)[j]
  BY DEF Reads, Read

\* A graph has finitely many tensors and operands.
LEMMA ReadsFinite == ASSUME NEW g, WellFormed(g) PROVE IsFiniteSet(Reads(g)) /\ IsFiniteSet(Tensors(g))
  <1>1. PICK n \in Nat : Tensors(g) = 1..n BY GraphFacts
  <1> DEFINE Up(k) == UNION {{t} \X DOMAIN SrcOf(g, t) : t \in 1..k}
             K == {k \in Nat : k <= n => IsFiniteSet(Up(k))}
  <1>2. 0 \in K
    <2>1. 1..0 = {} OBVIOUS
    <2>2. Up(0) = {} BY <2>1
    <2>3. QED BY <2>2, FS_EmptySet
  <1>3. ASSUME NEW k \in Nat, k \in K PROVE k + 1 \in K
    <2>1. SUFFICES ASSUME k + 1 <= n PROVE IsFiniteSet(Up(k + 1)) OBVIOUS
    <2>2. IsFiniteSet(Up(k)) BY <1>3, <2>1
    <2>3. k + 1 \in Tensors(g) BY <1>1, <2>1
    <2>4. SrcOf(g, k + 1) \in Seq(1..((k + 1) - 1)) BY <2>3, TensorFacts
    <2>5. PICK m \in Nat : DOMAIN SrcOf(g, k + 1) = 1..m BY <2>4, LenProperties
    <2>6. IsFiniteSet(1..m) BY <2>5, FS_Interval
    <2>7. IsFiniteSet({k + 1}) BY FS_Singleton
    <2>8. IsFiniteSet({k + 1} \X DOMAIN SrcOf(g, k + 1)) BY <2>5, <2>6, <2>7, FS_Product
    <2>9. Up(k + 1) = Up(k) \cup ({k + 1} \X DOMAIN SrcOf(g, k + 1))
      <3>1. 1..(k + 1) = (1..k) \cup {k + 1} OBVIOUS
      <3>2. QED BY <3>1
    <2> HIDE DEF Up
    <2>10. IsFiniteSet(Up(k) \cup ({k + 1} \X DOMAIN SrcOf(g, k + 1))) BY <2>2, <2>8, FS_Union
    <2>11. QED BY <2>9, <2>10
  <1> HIDE DEF K
  <1>4. n \in K BY <1>2, <1>3, Numbers
  <1>5. Reads(g) = Up(n) BY <1>1 DEF Reads
  <1>6. IsFiniteSet(Tensors(g)) BY <1>1, FS_Interval
  <1>7. QED BY <1>4, <1>5, <1>6 DEF K

\* So they can be counted.
LEMMA SomeFinite ==
  ASSUME NEW g, WellFormed(g), NEW R \in SUBSET Reads(g), NEW p
  PROVE  /\ IsFiniteSet(Readers(g, R, p)) /\ Cardinality(Readers(g, R, p)) \in Nat
         /\ IsFiniteSet(AliveViews(g, R, p)) /\ Cardinality(AliveViews(g, R, p)) \in Nat
  <1>1. Readers(g, R, p) \in SUBSET Reads(g) BY DEF Readers
  <1>2. AliveViews(g, R, p) \in SUBSET Tensors(g) BY DEF AliveViews
  <1>3. IsFiniteSet(Readers(g, R, p)) /\ IsFiniteSet(AliveViews(g, R, p))
    BY <1>1, <1>2, ReadsFinite, FS_Subset
  <1>4. QED BY <1>3, FS_CardinalityType

\* With no reader and no live view left, a tensor is read no more.
LEMMA Useless ==
  ASSUME NEW g, WellFormed(g), NEW R \in SUBSET Reads(g), NEW ch, NEW vw, Counts(g, ch, vw, R),
         NEW x \in Tensors(g), x \notin g.out, ch[x] = 0, vw[x] = 0
  PROVE  ~Needed(g, x, R)
  <1>1. SUFFICES ASSUME NEW r \in R, Root(g, Read(g, r)) = x PROVE FALSE BY DEF Needed
  <1>2. Readers(g, R, x) = {} /\ AliveViews(g, R, x) = {}
    BY SomeFinite, FS_EmptySet DEF Counts
  <1>3. PICK t \in Tensors(g) : t = Read(g, r) BY ReadFacts
  <1>4. CASE ViewOf(g, t) = 0 BY <1>1, <1>2, <1>3, <1>4 DEF Root, Readers
  <1>5. CASE ViewOf(g, t) # 0
    <2>1. ViewOf(g, t) = x BY <1>1, <1>3, <1>5 DEF Root
    <2>2. r \in Readers(g, R, t) BY <1>3 DEF Readers
    <2>3. t \in AliveViews(g, R, x) BY <2>1, <2>2 DEF AliveViews, Alive
    <2>4. QED BY <1>2, <2>3
  <1>6. QED BY <1>4, <1>5

\* Only t reads a tensor with one reader and no live view.
LEMMA OneReader ==
  ASSUME NEW g, WellFormed(g), NEW R \in SUBSET Reads(g), NEW ch, NEW vw, Counts(g, ch, vw, R),
         NEW x \in Tensors(g), ch[x] = 1, vw[x] = 0, NEW r0 \in R, Read(g, r0) = x,
         NEW r \in R, Root(g, Read(g, r)) = x
  PROVE  r = r0
  <1>1. AliveViews(g, R, x) = {} BY SomeFinite, FS_EmptySet DEF Counts
  <1>2. Cardinality(Readers(g, R, x)) = 1 BY DEF Counts
  <1>3. PICK o : Readers(g, R, x) = {o} BY <1>2, SomeFinite, FS_Singleton
  <1>4. PICK t \in Tensors(g) : t = Read(g, r) BY ReadFacts
  <1>5. ViewOf(g, t) = 0
    <2>1. SUFFICES ASSUME ViewOf(g, t) # 0 PROVE FALSE OBVIOUS
    <2>2. ViewOf(g, t) = x BY <1>4, <2>1 DEF Root
    <2>3. r \in Readers(g, R, t) BY <1>4 DEF Readers
    <2>4. t \in AliveViews(g, R, x) BY <2>2, <2>3 DEF AliveViews, Alive
    <2>5. QED BY <1>1, <2>4
  <1>6. r \in Readers(g, R, x) /\ r0 \in Readers(g, R, x) BY <1>4, <1>5 DEF Root, Readers
  <1>7. QED BY <1>3, <1>6

\* Before anything has been read the counts are those of the first walk.
LEMMA CountsStart ==
  ASSUME NEW g, WellFormed(g), NEW st
  PROVE  Counts(g, [p \in Tensors(g) |-> Cardinality({r \in Reads(g) : Read(g, r) = p})],
                   [p \in Tensors(g) |-> Cardinality({t \in Tensors(g) : ViewOf(g, t) = p})], Reads(g))
  <1>1. ASSUME NEW p PROVE Readers(g, Reads(g), p) = {r \in Reads(g) : Read(g, r) = p} BY DEF Readers
  <1>2. ASSUME NEW p PROVE AliveViews(g, Reads(g), p) = {t \in Tensors(g) : ViewOf(g, t) = p}
    BY DEF AliveViews, Alive
  <1>3. QED BY <1>1, <1>2 DEF Counts

\* One operand, p, has been read.
LEMMA CountStep ==
  ASSUME NEW g, WellFormed(g), NEW R \in SUBSET Reads(g), NEW r0 \in R,
         NEW ch \in [Tensors(g) -> Int], NEW vw \in [Tensors(g) -> Int], Counts(g, ch, vw, R)
  PROVE  LET p == Read(g, r0)
             v == ViewOf(g, p)
             ch2 == [ch EXCEPT ![p] = ch[p] - 1]
             vw2 == [vw EXCEPT ![v] = vw[v] - 1]
         IN Counts(g, ch2, IF ch2[p] = 0 /\ vw[p] = 0 /\ v # 0 THEN vw2 ELSE vw, R \ {r0})
  <1> DEFINE S == R \ {r0}
  <1>1. PICK p \in Tensors(g) : p = Read(g, r0) BY ReadFacts
  <1>2. PICK v : v = ViewOf(g, p) OBVIOUS
  <1> DEFINE ch2 == [ch EXCEPT ![p] = ch[p] - 1]
             vw2 == [vw EXCEPT ![v] = vw[v] - 1]
             UsedUp == ch2[p] = 0 /\ vw[p] = 0 /\ v # 0
  <1>3. S \in SUBSET Reads(g) OBVIOUS
  <1>4. Readers(g, S, p) = Readers(g, R, p) \ {r0} /\ r0 \in Readers(g, R, p) BY <1>1 DEF Readers
  <1>5. \A q : q # p => Readers(g, S, q) = Readers(g, R, q) BY <1>1 DEF Readers
  <1>6. Cardinality(Readers(g, S, p)) = ch[p] - 1
    <2>1. IsFiniteSet(Readers(g, R, p)) BY SomeFinite
    <2> DEFINE A == Readers(g, R, p)
    <2> HIDE DEF A
    <2>2. Cardinality(A \ {r0}) = Cardinality(A) - 1 BY <1>4, <2>1, FS_RemoveElement DEF A
    <2>3. ch[p] = Cardinality(A) BY DEF Counts, A
    <2>4. QED BY <1>4, <2>2, <2>3 DEF A
  <1>7. ch2[p] = ch[p] - 1 OBVIOUS
  <1>8. \A q \in Tensors(g) : ch2[q] = Cardinality(Readers(g, S, q))
    <2>1. ASSUME NEW q \in Tensors(g), q # p PROVE ch2[q] = ch[q] BY <2>1
    <2>2. QED BY <1>5, <1>6, <1>7, <2>1 DEF Counts
  <1>9. Alive(g, R, p) BY <1>4 DEF Alive
  <1>10. Alive(g, S, p) <=> ch2[p] # 0
    <2>1. Readers(g, Reads(g), p) # {} BY <1>4 DEF Readers
    <2>2. Alive(g, S, p) <=> Readers(g, S, p) # {} BY <2>1 DEF Alive
    <2>3. Readers(g, S, p) = {} <=> ch2[p] = 0 BY <1>3, <1>6, <1>7, SomeFinite, FS_EmptySet
    <2>4. QED BY <2>2, <2>3
  <1>11. \A t : t # p => (Alive(g, S, t) <=> Alive(g, R, t)) BY <1>5 DEF Alive
  <1>12. \A q : q # v => AliveViews(g, S, q) = AliveViews(g, R, q)
    BY <1>2, <1>11 DEF AliveViews
  <1> HIDE DEF ch2
  <1>13. CASE UsedUp
    <2>1. v \in Tensors(g) BY <1>2, <1>13, TensorFacts
    <2>2. AliveViews(g, S, v) = AliveViews(g, R, v) \ {p} /\ p \in AliveViews(g, R, v)
      BY <1>2, <1>9, <1>10, <1>11, <1>13 DEF AliveViews
    <2>3. Cardinality(AliveViews(g, S, v)) = vw[v] - 1
      <3>1. IsFiniteSet(AliveViews(g, R, v)) BY SomeFinite
      <3> DEFINE A == AliveViews(g, R, v)
      <3> HIDE DEF A
      <3>2. Cardinality(A \ {p}) = Cardinality(A) - 1 BY <2>2, <3>1, FS_RemoveElement DEF A
      <3>3. vw[v] = Cardinality(A) BY <2>1 DEF Counts, A
      <3>4. QED BY <2>2, <3>2, <3>3 DEF A
    <2>4. \A q \in Tensors(g) : vw2[q] = Cardinality(AliveViews(g, S, q))
      <3>1. ASSUME NEW q \in Tensors(g), q # v PROVE vw2[q] = vw[q] BY <3>1
      <3>2. vw2[v] = vw[v] - 1 BY <2>1
      <3>3. QED BY <1>12, <2>3, <3>1, <3>2 DEF Counts
    <2>5. Counts(g, ch2, vw2, S) BY <1>8, <2>4 DEF Counts
    <2>6. QED BY <1>1, <1>2, <1>13, <2>5 DEF ch2
  <1>14. CASE ~UsedUp
    <2>1. ASSUME NEW q \in Tensors(g) PROVE AliveViews(g, S, q) = AliveViews(g, R, q)
      <3>1. CASE q # v BY <1>12, <3>1
      <3>2. CASE q = v
        <4>1. v # 0
          <5>1. PICK n \in Nat : Tensors(g) = 1..n BY GraphFacts
          <5>2. QED BY <3>2, <5>1
        <4>2. vw[p] = 0
          <5>1. AliveViews(g, R, p) = {}
            <6>1. SUFFICES ASSUME NEW t \in Tensors(g), ViewOf(g, t) = p PROVE FALSE BY DEF AliveViews
            <6>2. p # 0
              <7>1. PICK n \in Nat : Tensors(g) = 1..n BY GraphFacts
              <7>2. QED BY <7>1
            <6>3. ViewOf(g, p) = 0 BY <6>1, <6>2, TensorFacts
            <6>4. QED BY <1>2, <4>1, <6>3
          <5>2. QED BY <5>1, FS_EmptySet DEF Counts
        <4>3. ch2[p] # 0 BY <1>14, <4>1, <4>2
        <4>4. Alive(g, S, p) <=> Alive(g, R, p) BY <1>9, <1>10, <4>3
        <4>5. QED BY <1>11, <4>4 DEF AliveViews
      <3>3. QED BY <3>1, <3>2
    <2>2. Counts(g, ch2, vw, S) BY <1>8, <2>1 DEF Counts
    <2>3. QED BY <1>1, <1>2, <1>14, <2>2 DEF ch2
  <1>15. QED BY <1>13, <1>14

-------------------------------------------------------------------------------
(***************************************************************************)
(* What is still wanted is allocated.                                      *)
(***************************************************************************)
\* Of the first n tensors those wanted by an operand in R, or as an output, are allocated.
Kept(g, st, n, R) ==
  \A x \in Tensors(g) : x \in Owners(g, n) /\ Needed(g, x, R) => st.allocated[x]

\* The walk behind tensor n, when the operands in S are still to be used and those in
\* R are read behind n.
Walked(g, st, n, S, R) ==
  AllocInv(g, st, n) /\ Counts(g, st.children, st.views, S) /\ Kept(g, st, n, R)

\* A tensor without a use left may be freed.
LEMMA UselessFreed ==
  ASSUME NEW g, WellFormed(g), NEW n \in 0..Total(g), NEW S \in SUBSET Reads(g), NEW R \in SUBSET S,
         NEW st, Walked(g, st, n, S, R),
         NEW x \in Tensors(g), st.allocated[x], st.children[x] = 0, st.views[x] = 0
  PROVE  LET new == FreeNode(g, st, x) IN Walked(g, new, n, S, R) /\ new.offset = st.offset
  <1> DEFINE new == FreeNode(g, st, x)
  <1>1. AllocInv(g, st, n) /\ Counts(g, st.children, st.views, S) /\ Kept(g, st, n, R) BY DEF Walked
  <1>2. /\ AllocInv(g, new, n)
        /\ new.offset = st.offset /\ new.children = st.children /\ new.views = st.views
        /\ \A u \in Tensors(g) : st.allocated[u] => new.allocated[u] \/ (u = x /\ x \notin g.out)
    BY <1>1, FreeNodeKeeps
  <1>3. x \notin g.out => ~Needed(g, x, S) BY <1>1, Useless
  <1>4. x \notin g.out => ~Needed(g, x, R) BY <1>3 DEF Needed
  <1> HIDE DEF new
  <1>5. Kept(g, new, n, R) BY <1>1, <1>2, <1>4 DEF Kept
  <1>6. QED BY <1>1, <1>2, <1>5 DEF Walked, new

\* When an operand has been read the counts are right without it, and what they let be freed
\* is not wanted (ggml-alloc.c:627-655).
LEMMA UpdateKeeps ==
  ASSUME NEW g, WellFormed(g), NEW n \in 0..Total(g), NEW S \in SUBSET Reads(g), NEW r0 \in S,
         NEW R \in SUBSET (S \ {r0}), NEW st, Walked(g, st, n, S, R)
  PROVE  LET new == UpdateParent(g, st, Read(g, r0))
         IN Walked(g, new, n, S \ {r0}, R) /\ new.offset = st.offset
  <1>1. PICK p \in Tensors(g) : p = Read(g, r0) BY ReadFacts
  <1>2. PICK v : v = ViewOf(g, p) OBVIOUS
  <1> DEFINE T == S \ {r0}
             s1 == [st EXCEPT !.children[p] = @ - 1]
             s2 == [s1 EXCEPT !.views[v] = @ - 1]
             ch2 == [st.children EXCEPT ![p] = st.children[p] - 1]
             vw2 == [st.views EXCEPT ![v] = st.views[v] - 1]
             new == UpdateParent(g, st, p)
  <1>3. st \in States(g) /\ AllocInv(g, st, n) /\ Counts(g, st.children, st.views, S) /\ Kept(g, st, n, R)
    BY DEF Walked, AllocInv
  <1>4. st.children \in [Tensors(g) -> Int] /\ st.views \in [Tensors(g) -> Int] BY <1>3 DEF States
  <1>5. Counts(g, ch2, IF ch2[p] = 0 /\ st.views[p] = 0 /\ v # 0 THEN vw2 ELSE st.views, T)
    BY <1>1, <1>2, <1>3, <1>4, CountStep
  <1>6. /\ s1.children = ch2 /\ s1.views = st.views /\ s1.allocated = st.allocated
        /\ s1.offset = st.offset /\ s1.al = st.al /\ s1 \in States(g)
    <2>1. s1 \in States(g)
      <3>1. PICK c \in Int : c = st.children[p] - 1 BY <1>4
      <3>2. [st EXCEPT !.children[p] = c] \in States(g) BY <1>3 DEF States
      <3>3. s1 = [st EXCEPT !.children[p] = c] BY <3>1
      <3>4. QED BY <3>2, <3>3
    <2>2. QED BY <1>3, <2>1 DEF States
  <1>7. v # 0 => /\ s2.children = ch2 /\ s2.views = vw2 /\ s2.allocated = st.allocated
                 /\ s2.offset = st.offset /\ s2.al = st.al /\ s2 \in States(g)
    <2>1. SUFFICES ASSUME v # 0
                   PROVE  /\ s2.children = ch2 /\ s2.views = vw2 /\ s2.allocated = st.allocated
                          /\ s2.offset = st.offset /\ s2.al = st.al /\ s2 \in States(g)
      OBVIOUS
    <2>2. v \in Tensors(g) BY <1>2, <2>1, TensorFacts
    <2> HIDE DEF s1
    <2>3. s2 \in States(g)
      <3>1. PICK c \in Int : c = s1.views[v] - 1 BY <1>4, <1>6, <2>2
      <3>2. [s1 EXCEPT !.views[v] = c] \in States(g) BY <1>6 DEF States
      <3>3. s2 = [s1 EXCEPT !.views[v] = c] BY <3>1
      <3>4. QED BY <3>2, <3>3
    <2>4. QED BY <1>6, <2>3 DEF States
  <1>8. new = IF ch2[p] # 0 \/ st.views[p] # 0 THEN s1
              ELSE IF v # 0
                THEN IF s2.views[v] = 0 /\ s2.children[v] = 0 /\ s2.allocated[v]
                       THEN FreeNode(g, s2, v) ELSE s2
              ELSE IF s1.allocated[p] THEN FreeNode(g, s1, p) ELSE s1
    BY <1>2, <1>6 DEF UpdateParent
  <1> HIDE DEF s1, ch2, vw2
  <1>9. T \in SUBSET Reads(g) /\ R \in SUBSET T OBVIOUS
  <1>10. AllocInv(g, s1, n) /\ Kept(g, s1, n, R) BY <1>3, <1>6 DEF AllocInv, Kept
  <1> DEFINE UsedUp == ch2[p] = 0 /\ st.views[p] = 0
  <1>11. CASE ~UsedUp
    <2>1. new = s1 BY <1>8, <1>11
    <2>2. Counts(g, s1.children, s1.views, T) BY <1>5, <1>6, <1>11
    <2>3. QED BY <1>1, <1>6, <1>10, <2>1, <2>2 DEF Walked
  <1>12. CASE UsedUp /\ v # 0
    <2>1. v \in Tensors(g) BY <1>2, <1>12, TensorFacts
    <2> HIDE DEF s2
    <2>2. Counts(g, s2.children, s2.views, T) BY <1>5, <1>7, <1>12
    <2>3. AllocInv(g, s2, n) /\ Kept(g, s2, n, R) BY <1>3, <1>7, <1>12 DEF AllocInv, Kept
    <2>4. Walked(g, s2, n, T, R) BY <2>2, <2>3 DEF Walked
    <2>5. new = IF s2.views[v] = 0 /\ s2.children[v] = 0 /\ s2.allocated[v]
                  THEN FreeNode(g, s2, v) ELSE s2
      BY <1>8, <1>12
    <2>6. CASE s2.views[v] = 0 /\ s2.children[v] = 0 /\ s2.allocated[v]
      <3>1. new = FreeNode(g, s2, v) BY <2>5, <2>6
      <3>2. Walked(g, FreeNode(g, s2, v), n, T, R) /\ FreeNode(g, s2, v).offset = s2.offset
        BY <1>9, <2>1, <2>4, <2>6, UselessFreed
      <3>3. QED BY <1>1, <1>7, <1>12, <3>1, <3>2
    <2>7. CASE ~(s2.views[v] = 0 /\ s2.children[v] = 0 /\ s2.allocated[v])
      BY <1>1, <1>7, <1>12, <2>4, <2>5, <2>7
    <2>8. QED BY <2>6, <2>7
  <1>13. CASE UsedUp /\ v = 0
    <2>1. Counts(g, s1.children, s1.views, T) BY <1>5, <1>6, <1>13
    <2>2. Walked(g, s1, n, T, R) BY <1>10, <2>1 DEF Walked
    <2>3. new = IF s1.allocated[p] THEN FreeNode(g, s1, p) ELSE s1 BY <1>8, <1>13
    <2>4. CASE s1.allocated[p]
      <3>1. new = FreeNode(g, s1, p) BY <2>3, <2>4
      <3>2. s1.children[p] = 0 /\ s1.views[p] = 0 BY <1>6, <1>13
      <3>3. Walked(g, FreeNode(g, s1, p), n, T, R) /\ FreeNode(g, s1, p).offset = s1.offset
        BY <1>9, <2>2, <2>4, <3>2, UselessFreed
      <3>4. QED BY <1>1, <1>6, <3>1, <3>3
    <2>5. CASE ~s1.allocated[p] BY <1>1, <1>6, <2>2, <2>3, <2>5
    <2>6. QED BY <2>4, <2>5
  <1>14. QED BY <1>11, <1>12, <1>13

-------------------------------------------------------------------------------
(***************************************************************************)
(* Where the tensors are: a tensor that is placed while another is still   *)
(* wanted has rows of its own, or those of an operand that is read by no   *)
(* one else any more.                                                      *)
(***************************************************************************)
\* Node u has the place of its operand x, which is no output and is read by u alone from
\* there on, itself and not through a view.
Takes(g, off, u, x) ==
  /\ IsNode(g, u) /\ CanInplace(NodeOf(g, u).op)
  /\ SizeOf(g, x) = SizeOf(g, u) /\ off[u] = off[x] /\ x \notin g.out
  /\ \E j \in DOMAIN SrcOf(g, u) : SrcOf(g, u)[j] = x
  /\ \A r \in From(g, u) : Root(g, Read(g, r)) = x => r[1] = u /\ Read(g, r) = x

\* What the second walk is for: see above.
PlacedWell(g, off, n) ==
  \A x, u \in Tensors(g) :
    /\ u \in Owners(g, n) /\ x \in Owners(g, n) /\ x < u
    /\ IsNode(g, u) => Needed(g, x, From(g, u))
    => Apart(g, off, x, u) \/ Takes(g, off, u, x)

\* The operands of a node are placed already.
LEMMA OperandsThere ==
  ASSUME NEW g, WellFormed(g), NEW t \in Tensors(g), NEW st, Kept(g, st, t - 1, From(g, t))
  PROVE  AllocateEach(g, st, SrcOf(g, t)) = st
  <1>1. SrcOf(g, t) \in Seq(1..(t - 1)) BY TensorFacts
  <1>2. PICK n \in Nat : DOMAIN SrcOf(g, t) = 1..n BY <1>1, LenProperties
  <1> DEFINE src == SrcOf(g, t)
  <1> HIDE DEF src
  <1>3. ASSUME NEW j \in 1..n PROVE AllocateNode(g, st, src[j]) = st
    <2> DEFINE r == <<t, j>>
    <2>1. r \in Reads(g) /\ Read(g, r) = src[j] BY <1>2, ReadOf DEF src
    <2>2. PICK p \in Tensors(g) : p = src[j] /\ p \in 1..(t - 1) BY <2>1, ReadFacts
    <2>3. CASE ~Owns(g, p) BY <2>2, <2>3 DEF AllocateNode, Owns
    <2>4. CASE Owns(g, p)
      <3>1. p \in Owners(g, t - 1) BY <2>2, <2>4 DEF Owners
      <3>2. r \in From(g, t)
        <4>1. t \in Nat BY TensorFacts
        <4>2. QED BY <2>1, <4>1 DEF From
      <3>3. Root(g, p) = p BY <2>4 DEF Root, Owns
      <3>4. Needed(g, p, From(g, t)) BY <2>1, <2>2, <3>2, <3>3 DEF Needed
      <3>5. st.allocated[p] BY <3>1, <3>4 DEF Kept
      <3>6. QED BY <2>2, <3>5 DEF AllocateNode
    <2>5. QED BY <2>3, <2>4
  <1>4. PICK w : /\ w[0] = st
                 /\ \A k \in 1..n : w[k] = AllocateNode(g, w[k - 1], src[k])
                 /\ AllocateEach(g, st, src) = w[n]
    <2>1. DOMAIN src = 1..n BY <1>2 DEF src
    <2>2. QED BY <2>1, AllocateWalk
  <1> DEFINE K == {k \in Nat : k <= n => w[k] = st}
  <1>5. 0 \in K BY <1>4
  <1>6. ASSUME NEW k \in Nat, k \in K PROVE k + 1 \in K
    <2>1. SUFFICES ASSUME k + 1 <= n PROVE w[k + 1] = st OBVIOUS
    <2>2. k + 1 \in 1..n /\ (k + 1) - 1 = k /\ k <= n BY <2>1
    <2>3. w[k] = st BY <1>6, <2>2
    <2>4. w[k + 1] = AllocateNode(g, w[(k + 1) - 1], src[k + 1]) BY <1>4, <2>2
    <2>5. QED BY <1>3, <2>2, <2>3, <2>4
  <1> HIDE DEF K
  <1>7. n \in K BY <1>5, <1>6, Numbers
  <1>8. w[n] = st BY <1>7 DEF K
  <1>9. QED BY <1>4, <1>8 DEF src

\* The operands of t are read before those of the tensors behind it.
LEMMA FromNext ==
  ASSUME NEW g, WellFormed(g), NEW t \in Tensors(g)
  PROVE  /\ From(g, t + 1) \subseteq From(g, t) /\ From(g, t) \in SUBSET Reads(g)
         /\ \A r \in From(g, t) : r[1] # t => r \in From(g, t + 1)
         /\ From(g, t) = After(g, t, 0)
         /\ \A n \in Nat : DOMAIN SrcOf(g, t) = 1..n => After(g, t, n) = From(g, t + 1)
  <1>1. t \in Nat BY TensorFacts
  <1>2. \A r \in Reads(g) : r[1] \in Nat /\ r[2] \in Nat \ {0} /\ r[2] \in DOMAIN SrcOf(g, r[1])
    <2>1. ASSUME NEW r \in Reads(g) PROVE r[1] \in Nat /\ r[2] \in Nat \ {0} /\ r[2] \in DOMAIN SrcOf(g, r[1])
      <3>1. r[1] \in Tensors(g) /\ r[2] \in DOMAIN SrcOf(g, r[1]) BY <2>1, ReadFacts
      <3>2. SrcOf(g, r[1]) \in Seq(1..(r[1] - 1)) /\ r[1] \in Nat BY <3>1, TensorFacts
      <3>3. PICK n \in Nat : DOMAIN SrcOf(g, r[1]) = 1..n BY <3>2, LenProperties
      <3>4. QED BY <3>1, <3>2, <3>3
    <2>2. QED BY <2>1
  <1>3. From(g, t + 1) \subseteq From(g, t) /\ From(g, t) \in SUBSET Reads(g) BY <1>1, <1>2 DEF From
  <1>4. \A r \in From(g, t) : r[1] # t => r \in From(g, t + 1) BY <1>1, <1>2 DEF From
  <1>5. From(g, t) = After(g, t, 0) BY <1>1, <1>2 DEF From, After
  <1>6. ASSUME NEW n \in Nat, DOMAIN SrcOf(g, t) = 1..n PROVE After(g, t, n) = From(g, t + 1)
    <2>1. ASSUME NEW r \in Reads(g) PROVE r \in After(g, t, n) <=> r \in From(g, t + 1)
      <3>1. r[1] = t => r[2] <= n BY <1>2, <1>6, <2>1
      <3>2. QED BY <1>1, <1>2, <2>1, <3>1 DEF From, After
    <2>2. QED BY <2>1 DEF From, After
  <1>7. QED BY <1>3, <1>4, <1>5, <1>6

-------------------------------------------------------------------------------
\* An operand is taken over from only by the last that reads it.
LEMMA ReuseEnds ==
  ASSUME NEW g, WellFormed(g), NEW t \in Tensors(g), NEW st, NEW new,
         Counts(g, st.children, st.views, From(g, t)),
         NEW x \in Tensors(g), Reuses(g, st, new, t, x), new.offset[x] = st.offset[x]
  PROVE  Takes(g, new.offset, t, x) /\ ~Needed(g, x, From(g, t + 1))
  <1>1. /\ IsNode(g, t) /\ CanInplace(NodeOf(g, t).op)
        /\ x \notin g.out /\ SizeOf(g, x) = SizeOf(g, t)
        /\ st.children[x] = 1 /\ st.views[x] = 0 /\ ViewOf(g, x) = 0
        /\ new.offset[t] = st.offset[x]
    BY DEF Reuses, Reusable
  <1>2. PICK j \in DOMAIN SrcOf(g, t) : SrcOf(g, t)[j] = x BY DEF Reuses
  <1> DEFINE r0 == <<t, j>>
  <1>3. r0 \in Reads(g) /\ Read(g, r0) = x /\ r0[1] = t BY <1>2, ReadOf
  <1>4. r0 \in From(g, t)
    <2>1. t \in Nat BY TensorFacts
    <2>2. QED BY <1>3, <2>1 DEF From
  <1> HIDE DEF r0
  <1>5. From(g, t) \in SUBSET Reads(g) BY DEF From
  <1>6. \A r \in From(g, t) : Root(g, Read(g, r)) = x => r = r0
    <2>1. ASSUME NEW r \in From(g, t), Root(g, Read(g, r)) = x PROVE r = r0
      <3>1. PICK R, ch, vw : R = From(g, t) /\ ch = st.children /\ vw = st.views OBVIOUS
      <3>2. R \in SUBSET Reads(g) /\ r0 \in R /\ r \in R /\ Counts(g, ch, vw, R) /\ ch[x] = 1 /\ vw[x] = 0
        BY <1>1, <1>4, <1>5, <2>1, <3>1
      <3>3. QED BY <1>3, <2>1, <3>2, OneReader
    <2>2. QED BY <2>1
  <1>7. Takes(g, new.offset, t, x) BY <1>1, <1>2, <1>3, <1>6 DEF Takes
  <1>8. ASSUME NEW r \in From(g, t + 1), Root(g, Read(g, r)) = x PROVE FALSE
    <2>1. r \in From(g, t) BY FromNext
    <2>2. r[1] = t BY <1>3, <1>6, <1>8, <2>1
    <2>3. r[1] >= t + 1 /\ t \in Nat BY TensorFacts DEF From
    <2>4. QED BY <2>2, <2>3
  <1>9. QED BY <1>1, <1>7, <1>8 DEF Needed

\* A node that has been allocated is placed well.
LEMMA PlacedNodeKept ==
  ASSUME NEW g, WellFormed(g), NEW t \in Tensors(g), IsNode(g, t), NEW st,
         Walked(g, st, t - 1, From(g, t), From(g, t)), PlacedWell(g, st.offset, t - 1)
  PROVE  LET new == AllocateNode(g, st, t)
         IN Walked(g, new, t, From(g, t), From(g, t + 1)) /\ PlacedWell(g, new.offset, t)
  <1>1. /\ AllocInv(g, st, t - 1) /\ Counts(g, st.children, st.views, From(g, t))
        /\ Kept(g, st, t - 1, From(g, t))
    BY DEF Walked
  <1>2. PICK new : new = AllocateNode(g, st, t) OBVIOUS
  <1>3. Took(g, st, new, t) BY <1>1, <1>2, AllocateTakes
  <1>4. /\ AllocInv(g, new, t) /\ new.children = st.children /\ new.views = st.views
        /\ \A u \in Tensors(g) : u # t => new.offset[u] = st.offset[u]
    BY <1>3 DEF Took
  <1>5. \A u \in Tensors(g) : u \in Owners(g, t) <=> u \in Owners(g, t - 1) \/ (u = t /\ Owns(g, t))
    BY PlacedNext
  <1>6. t \notin Owners(g, t - 1) BY PlacedNext
  <1>7. ASSUME NEW x \in Tensors(g), x \in Owners(g, t - 1), Needed(g, x, From(g, t)), Owns(g, t)
        PROVE  \/ new.allocated[x] /\ Apart(g, new.offset, x, t)
               \/ Takes(g, new.offset, t, x) /\ ~Needed(g, x, From(g, t + 1))
    <2>1. st.allocated[x] BY <1>1, <1>7 DEF Kept
    <2>2. x # t BY <1>6, <1>7
    <2>3. \/ new.allocated[x] /\ Apart(g, new.offset, x, t)
          \/ Reuses(g, st, new, t, x)
      BY <1>3, <1>7, <2>1 DEF Took
    <2>4. Reuses(g, st, new, t, x) => Takes(g, new.offset, t, x) /\ ~Needed(g, x, From(g, t + 1))
      BY <1>1, <1>4, <2>2, ReuseEnds
    <2>5. QED BY <2>3, <2>4
  <1>8. Kept(g, new, t, From(g, t + 1))
    <2>1. SUFFICES ASSUME NEW x \in Tensors(g), x \in Owners(g, t), Needed(g, x, From(g, t + 1))
                   PROVE  new.allocated[x]
      BY DEF Kept
    <2>2. Needed(g, x, From(g, t)) BY <2>1, FromNext DEF Needed
    <2>3. CASE x \in Owners(g, t - 1) /\ Owns(g, t) BY <1>7, <2>1, <2>2, <2>3
    <2>4. CASE x \in Owners(g, t - 1) /\ ~Owns(g, t)
      <3>1. new.allocated = st.allocated BY <1>3, <2>4 DEF Took
      <3>2. QED BY <1>1, <2>2, <2>4, <3>1 DEF Kept
    <2>5. CASE x = t /\ Owns(g, t) BY <1>3, <2>5 DEF Took
    <2>6. QED BY <1>5, <2>1, <2>3, <2>4, <2>5
  <1>9. PlacedWell(g, new.offset, t)
    <2>1. SUFFICES ASSUME NEW x \in Tensors(g), NEW u \in Tensors(g),
                          u \in Owners(g, t), x \in Owners(g, t), x < u,
                          IsNode(g, u) => Needed(g, x, From(g, u))
                   PROVE  Apart(g, new.offset, x, u) \/ Takes(g, new.offset, u, x)
      BY DEF PlacedWell
    <2>2. x # t
      <3>1. u \in 1..t BY <2>1 DEF Owners
      <3>2. x \in Nat /\ t \in Nat BY <2>1, TensorFacts
      <3>3. QED BY <2>1, <3>1, <3>2
    <2>3. x \in Owners(g, t - 1) BY <1>5, <2>1, <2>2
    <2>4. CASE u # t
      <3>1. u \in Owners(g, t - 1) BY <1>5, <2>1, <2>4
      <3>2. Apart(g, st.offset, x, u) \/ Takes(g, st.offset, u, x)
        BY <2>1, <2>3, <3>1 DEF PlacedWell
      <3>3. new.offset[x] = st.offset[x] /\ new.offset[u] = st.offset[u] BY <1>4, <2>2, <2>4
      <3>4. QED BY <3>2, <3>3 DEF Apart, Takes
    <2>5. CASE u = t
      <3>1. Owns(g, t) BY <1>5, <1>6, <2>1, <2>5
      <3>2. QED BY <1>7, <2>1, <2>3, <2>5, <3>1
    <2>6. QED BY <2>4, <2>5
  <1>10. Walked(g, new, t, From(g, t), From(g, t + 1)) BY <1>1, <1>4, <1>8 DEF Walked
  <1>11. QED BY <1>2, <1>9, <1>10

\* The operands of a node that has been computed, one after the other.
LEMMA UpdatesKeep ==
  ASSUME NEW g, WellFormed(g), NEW t \in Tensors(g), NEW st,
         Walked(g, st, t, From(g, t), From(g, t + 1))
  PROVE  LET new == UpdateEach(g, st, SrcOf(g, t))
         IN Walked(g, new, t, From(g, t + 1), From(g, t + 1)) /\ new.offset = st.offset
  <1> DEFINE src == SrcOf(g, t)
             R == From(g, t + 1)
  <1>1. src \in Seq(1..(t - 1)) /\ t \in Nat BY TensorFacts
  <1>2. PICK n \in Nat : DOMAIN src = 1..n BY <1>1, LenProperties
  <1>3. t \in 0..Total(g)
    <2>1. PICK m \in Nat : m = Total(g) /\ Tensors(g) = 1..m BY GraphFacts
    <2>2. QED BY <2>1
  <1>4. After(g, t, 0) = From(g, t) /\ After(g, t, n) = R BY <1>2, FromNext
  <1>5. \A j : <<t, j>> \in Reads(g) <=> j \in DOMAIN src
    <2>1. ASSUME NEW j, <<t, j>> \in Reads(g) PROVE j \in DOMAIN src BY <2>1 DEF Reads
    <2>2. ASSUME NEW j \in DOMAIN src PROVE <<t, j>> \in Reads(g) BY <2>2, ReadOf
    <2>3. QED BY <2>1, <2>2
  <1>6. ASSUME NEW j \in 1..n PROVE src[j] = Read(g, <<t, j>>) BY <1>2, <1>6, ReadOf
  <1> HIDE DEF src
  <1>7. PICK w : /\ w[0] = st
                 /\ \A k \in 1..n : w[k] = UpdateParent(g, w[k - 1], src[k])
                 /\ UpdateEach(g, st, src) = w[n]
    BY <1>2, UpdateWalk
  <1> DEFINE K == {k \in Nat : k <= n => Walked(g, w[k], t, After(g, t, k), R) /\ w[k].offset = st.offset}
  <1>8. 0 \in K BY <1>4, <1>7
  <1>9. ASSUME NEW k \in Nat, k \in K PROVE k + 1 \in K
    <2>1. SUFFICES ASSUME k + 1 <= n
                   PROVE  Walked(g, w[k + 1], t, After(g, t, k + 1), R) /\ w[k + 1].offset = st.offset
      OBVIOUS
    <2>2. k + 1 \in 1..n /\ (k + 1) - 1 = k /\ k <= n BY <2>1
    <2>3. Walked(g, w[k], t, After(g, t, k), R) /\ w[k].offset = st.offset BY <1>9, <2>2
    <2>4. PICK r0 : r0 = <<t, k + 1>> OBVIOUS
    <2>5. r0 \in Reads(g) /\ r0[1] = t /\ r0[2] = k + 1 BY <1>2, <1>5, <2>2, <2>4
    <2>6. r0 \in After(g, t, k) BY <2>5 DEF After
    <2>7. After(g, t, k + 1) = After(g, t, k) \ {r0}
      <3>1. ASSUME NEW r \in Reads(g)
            PROVE  r[1] \in Nat /\ (r[1] = t => r[2] \in Nat) /\ (r[1] = t /\ r[2] = k + 1 => r = r0)
        <4>1. r[1] \in Tensors(g) /\ r = <<r[1], r[2]>> BY <3>1, ReadFacts
        <4>2. r[1] \in Nat BY <4>1, TensorFacts
        <4>3. r[1] = t => r[2] \in DOMAIN src BY <1>5, <4>1
        <4>4. QED BY <1>2, <2>4, <4>1, <4>2, <4>3
      <3>2. ASSUME NEW r \in Reads(g)
            PROVE  r \in After(g, t, k + 1) <=> r \in After(g, t, k) /\ r # r0
        BY <1>1, <2>5, <3>1, <3>2 DEF After
      <3>3. After(g, t, k + 1) \in SUBSET Reads(g) /\ After(g, t, k) \in SUBSET Reads(g) BY DEF After
      <3>4. QED BY <3>2, <3>3
    <2>8. R \in SUBSET (After(g, t, k) \ {r0})
      <3>1. ASSUME NEW r \in R PROVE r \in After(g, t, k) /\ r # r0
        <4>1. r \in Reads(g) /\ r[1] >= t + 1 BY DEF From
        <4>2. r[1] \in Tensors(g) BY <4>1, ReadFacts
        <4>3. r[1] \in Nat BY <4>2, TensorFacts
        <4>4. r[1] > t /\ r[1] # t BY <1>1, <4>1, <4>3
        <4>5. QED BY <2>5, <4>1, <4>4 DEF After
      <3>2. QED BY <3>1
    <2>9. After(g, t, k) \in SUBSET Reads(g) BY DEF After
    <2>10. src[k + 1] = Read(g, r0) BY <1>6, <2>2, <2>4
    <2>11. w[k + 1] = UpdateParent(g, w[k], Read(g, r0)) BY <1>7, <2>2, <2>10
    <2> HIDE DEF R
    <2>12. PICK S : S = After(g, t, k) OBVIOUS
    <2>13. LET new == UpdateParent(g, w[k], Read(g, r0))
           IN Walked(g, new, t, S \ {r0}, R) /\ new.offset = w[k].offset
      BY <1>3, <2>3, <2>6, <2>8, <2>9, <2>12, UpdateKeeps
    <2>14. QED BY <2>3, <2>7, <2>11, <2>12, <2>13
  <1> HIDE DEF K
  <1>10. n \in K BY <1>8, <1>9, Numbers
  <1>11. Walked(g, w[n], t, R, R) /\ w[n].offset = st.offset BY <1>4, <1>10 DEF K
  <1>12. QED BY <1>7, <1>11 DEF src

\* And what is freed behind it is wanted by no other.
LEMMA PlaceKeeps ==
  ASSUME NEW g, WellFormed(g), NEW t \in Tensors(g), IsNode(g, t), NEW st,
         Walked(g, st, t - 1, From(g, t), From(g, t)), PlacedWell(g, st.offset, t - 1)
  PROVE  LET new == Place(g, st, t)
         IN Walked(g, new, t, From(g, t + 1), From(g, t + 1)) /\ PlacedWell(g, new.offset, t)
  <1>1. AllocateEach(g, st, SrcOf(g, t)) = st
    <2>1. Kept(g, st, t - 1, From(g, t)) BY DEF Walked
    <2>2. QED BY <2>1, OperandsThere
  <1>2. PICK s2 : s2 = AllocateNode(g, st, t) OBVIOUS
  <1>3. Walked(g, s2, t, From(g, t), From(g, t + 1)) /\ PlacedWell(g, s2.offset, t)
    BY <1>2, PlacedNodeKept
  <1>4. PICK new : new = UpdateEach(g, s2, SrcOf(g, t)) OBVIOUS
  <1>5. Walked(g, new, t, From(g, t + 1), From(g, t + 1)) /\ new.offset = s2.offset
    BY <1>3, <1>4, UpdatesKeep
  <1>6. Place(g, st, t) = new BY <1>1, <1>2, <1>4 DEF Place
  <1>7. QED BY <1>3, <1>5, <1>6

-------------------------------------------------------------------------------
(***************************************************************************)
(* The whole walk.                                                         *)
(***************************************************************************)
\* The first n leafs are allocated, all of them for good.
LeafsPlaced(g, st, n) ==
  /\ AllocInv(g, st, n) /\ PlacedWell(g, st.offset, n)
  /\ \A x \in Tensors(g) : x \in Owners(g, n) => st.allocated[x]

\* One leaf more.
LEMMA LeafPlaced ==
  ASSUME NEW g, WellFormed(g), NEW t \in Tensors(g), ~IsNode(g, t), NEW st, LeafsPlaced(g, st, t - 1)
  PROVE  LeafsPlaced(g, AllocateNode(g, st, t), t)
  <1>1. PICK new : new = AllocateNode(g, st, t) OBVIOUS
  <1>2. /\ AllocInv(g, st, t - 1) /\ PlacedWell(g, st.offset, t - 1)
        /\ \A x \in Tensors(g) : x \in Owners(g, t - 1) => st.allocated[x]
    BY DEF LeafsPlaced
  <1>3. Took(g, st, new, t) BY <1>1, <1>2, AllocateTakes
  <1>4. AllocInv(g, new, t) /\ \A u \in Tensors(g) : u # t => new.offset[u] = st.offset[u]
    BY <1>3 DEF Took
  <1>5. \A u \in Tensors(g) : u \in Owners(g, t) <=> u \in Owners(g, t - 1) \/ (u = t /\ Owns(g, t))
    BY PlacedNext
  <1>6. t \notin Owners(g, t - 1) BY PlacedNext
  <1>7. ASSUME NEW x \in Tensors(g), x \in Owners(g, t - 1), Owns(g, t)
        PROVE  new.allocated[x] /\ Apart(g, new.offset, x, t)
    BY <1>2, <1>3, <1>7 DEF Took, Reuses
  <1>8. ASSUME NEW x \in Tensors(g), x \in Owners(g, t) PROVE new.allocated[x]
    <2>1. CASE Owns(g, t) BY <1>3, <1>5, <1>7, <1>8, <2>1 DEF Took
    <2>2. CASE ~Owns(g, t)
      <3>1. new.allocated = st.allocated /\ x \in Owners(g, t - 1) BY <1>3, <1>5, <1>8, <2>2 DEF Took
      <3>2. QED BY <1>2, <3>1
    <2>3. QED BY <2>1, <2>2
  <1>9. PlacedWell(g, new.offset, t)
    <2>1. SUFFICES ASSUME NEW x \in Tensors(g), NEW u \in Tensors(g),
                          u \in Owners(g, t), x \in Owners(g, t), x < u,
                          IsNode(g, u) => Needed(g, x, From(g, u))
                   PROVE  Apart(g, new.offset, x, u) \/ Takes(g, new.offset, u, x)
      BY DEF PlacedWell
    <2>2. x # t
      <3>1. u \in 1..t BY <2>1 DEF Owners
      <3>2. x \in Nat /\ t \in Nat BY <2>1, TensorFacts
      <3>3. QED BY <2>1, <3>1, <3>2
    <2>3. x \in Owners(g, t - 1) BY <1>5, <2>1, <2>2
    <2>4. CASE u # t
      <3>1. u \in Owners(g, t - 1) BY <1>5, <2>1, <2>4
      <3>2. Apart(g, st.offset, x, u) \/ Takes(g, st.offset, u, x)
        BY <1>2, <2>1, <2>3, <3>1 DEF PlacedWell
      <3>3. new.offset[x] = st.offset[x] /\ new.offset[u] = st.offset[u] BY <1>4, <2>2, <2>4
      <3>4. QED BY <3>2, <3>3 DEF Apart, Takes
    <2>5. CASE u = t BY <1>5, <1>6, <1>7, <2>1, <2>3, <2>5
    <2>6. QED BY <2>4, <2>5
  <1>10. QED BY <1>1, <1>4, <1>8, <1>9 DEF LeafsPlaced

\* The first walk.
LEMMA AllLeafsPlaced ==
  ASSUME NEW g, WellFormed(g)
  PROVE  LeafsPlaced(g, AllocateEach(g, Fresh(g), [t \in 1..g.leafs |-> t]), g.leafs)
  <1> DEFINE leafs == [t \in 1..g.leafs |-> t]
  <1>n. PICK n \in Nat : n = g.leafs BY GraphFacts
  <1>2. DOMAIN leafs = 1..n /\ \A k \in 1..n : leafs[k] = k BY <1>n
  <1>3. PICK base : base = Fresh(g) OBVIOUS
  <1> HIDE DEF leafs
  <1>4. PICK w : /\ w[0] = base
                 /\ \A k \in 1..n : w[k] = AllocateNode(g, w[k - 1], leafs[k])
                 /\ AllocateEach(g, base, leafs) = w[n]
    <2>1. DOMAIN leafs = 1..n BY <1>2
    <2>2. QED BY <2>1, AllocateWalk
  <1>1. PICK m \in Nat : n = g.leafs /\ Tensors(g) = 1..m /\ n <= m BY <1>n, GraphFacts
  <1> DEFINE K == {k \in Nat : k <= n => LeafsPlaced(g, w[k], k)}
  <1>5. 0 \in K
    <2>1. Owners(g, 0) = {} BY DEF Owners
    <2>2. LeafsPlaced(g, base, 0) BY <1>3, <2>1, FreshStart DEF LeafsPlaced, PlacedWell
    <2>3. QED BY <1>4, <2>2
  <1>6. ASSUME NEW k \in Nat, k \in K PROVE k + 1 \in K
    <2>1. SUFFICES ASSUME k + 1 <= n PROVE LeafsPlaced(g, w[k + 1], k + 1) OBVIOUS
    <2>2. k + 1 \in 1..n /\ (k + 1) - 1 = k /\ k <= n BY <2>1
    <2>3. PICK t \in Tensors(g) : t = k + 1 /\ t - 1 = k BY <1>1, <2>2
    <2>4. LeafsPlaced(g, w[k], t - 1) BY <1>6, <2>2, <2>3
    <2>5. w[k + 1] = AllocateNode(g, w[k], t) BY <1>2, <1>4, <2>2, <2>3
    <2>6. ~IsNode(g, t) BY <1>1, <2>2, <2>3 DEF IsNode
    <2>7. LeafsPlaced(g, AllocateNode(g, w[k], t), t) BY <2>4, <2>6, LeafPlaced
    <2>8. QED BY <2>3, <2>5, <2>7
  <1> HIDE DEF K
  <1>7. n \in K BY <1>5, <1>6, Numbers
  <1>8. LeafsPlaced(g, w[n], n) BY <1>7 DEF K
  <1>9. QED BY <1>1, <1>3, <1>4, <1>8 DEF leafs

\* With the counts the second can begin.
LEMMA CountedLeafs ==
  ASSUME NEW g, WellFormed(g), NEW st, LeafsPlaced(g, st, g.leafs)
  PROVE  LET new == Count(g, st)
             R == From(g, g.leafs + 1)
         IN Walked(g, new, g.leafs, R, R) /\ PlacedWell(g, new.offset, g.leafs)
  <1> DEFINE ch == [p \in Tensors(g) |-> Cardinality({r \in Reads(g) : Read(g, r) = p})]
             vw == [p \in Tensors(g) |-> Cardinality({t \in Tensors(g) : ViewOf(g, t) = p})]
             new == Count(g, st)
             R == From(g, g.leafs + 1)
  <1>1. /\ AllocInv(g, st, g.leafs) /\ PlacedWell(g, st.offset, g.leafs)
        /\ \A x \in Tensors(g) : x \in Owners(g, g.leafs) => st.allocated[x]
    BY DEF LeafsPlaced
  <1>2. st \in States(g) BY <1>1 DEF AllocInv
  <1>3. ch \in [Tensors(g) -> Int] /\ vw \in [Tensors(g) -> Int]
    <2>1. ASSUME NEW p \in Tensors(g)
          PROVE  /\ Cardinality({r \in Reads(g) : Read(g, r) = p}) \in Int
                 /\ Cardinality({t \in Tensors(g) : ViewOf(g, t) = p}) \in Int
      <3>1. {r \in Reads(g) : Read(g, r) = p} \in SUBSET Reads(g) OBVIOUS
      <3>2. {t \in Tensors(g) : ViewOf(g, t) = p} \in SUBSET Tensors(g) OBVIOUS
      <3>3. IsFiniteSet({r \in Reads(g) : Read(g, r) = p}) BY <3>1, ReadsFinite, FS_Subset
      <3>4. IsFiniteSet({t \in Tensors(g) : ViewOf(g, t) = p}) BY <3>2, ReadsFinite, FS_Subset
      <3>5. Cardinality({r \in Reads(g) : Read(g, r) = p}) \in Nat BY <3>3, FS_CardinalityType
      <3>6. Cardinality({t \in Tensors(g) : ViewOf(g, t) = p}) \in Nat BY <3>4, FS_CardinalityType
      <3>7. QED BY <3>5, <3>6
    <2>2. QED BY <2>1
  <1>4. Counts(g, ch, vw, Reads(g)) BY CountsStart
  <1>5. new = [st EXCEPT !.children = ch, !.views = vw] BY DEF Count
  <1> HIDE DEF ch, vw, new
  <1>6. new \in States(g) BY <1>2, <1>3, <1>5 DEF States
  <1>7. /\ new.children = ch /\ new.views = vw /\ new.al = st.al
        /\ new.allocated = st.allocated /\ new.offset = st.offset
    BY <1>2, <1>5 DEF States
  <1>8. R = Reads(g)
    <2>1. ASSUME NEW r \in Reads(g) PROVE r[1] >= g.leafs + 1
      <3>1. r[1] \in Tensors(g) /\ r[2] \in DOMAIN SrcOf(g, r[1]) BY <2>1, ReadFacts
      <3>2. IsNode(g, r[1])
        <4>1. SUFFICES ASSUME ~IsNode(g, r[1]) PROVE FALSE OBVIOUS
        <4>2. SrcOf(g, r[1]) = << >> BY <4>1 DEF SrcOf
        <4>3. QED BY <3>1, <4>2
      <3>3. r[1] \in Nat /\ g.leafs \in Nat BY <3>1, TensorFacts, GraphFacts
      <3>4. QED BY <3>2, <3>3 DEF IsNode
    <2>2. QED BY <2>1 DEF From
  <1>9. AllocInv(g, new, g.leafs) BY <1>1, <1>6, <1>7 DEF AllocInv
  <1>10. Kept(g, new, g.leafs, R) BY <1>1, <1>7 DEF Kept
  <1>11. Counts(g, new.children, new.views, R) BY <1>4, <1>7, <1>8
  <1>12. Walked(g, new, g.leafs, R, R) BY <1>9, <1>10, <1>11 DEF Walked
  <1>13. PlacedWell(g, new.offset, g.leafs) BY <1>1, <1>7
  <1>14. QED BY <1>12, <1>13 DEF new

\* At its end all tensors are placed well.
LEMMA AllNodesPlaced ==
  ASSUME NEW g, WellFormed(g)
  PROVE  AllocInv(g, AllocGraph(g), Total(g)) /\ PlacedWell(g, AllocGraph(g).offset, Total(g))
  <1> DEFINE nodes == [k \in 1..Len(g.nodes) |-> g.leafs + k]
  <1>1. PICK base : base = Count(g, AllocateEach(g, Fresh(g), [t \in 1..g.leafs |-> t])) OBVIOUS
  <1>2. PICK n \in Nat : n = Len(g.nodes) /\ DOMAIN nodes = 1..n BY GraphFacts
  <1> HIDE DEF nodes
  <1>3. PICK w : /\ w[0] = base
                 /\ \A k \in 1..n : w[k] = Place(g, w[k - 1], nodes[k])
                 /\ PlaceEach(g, base, nodes) = w[n]
    <2>1. DOMAIN nodes = 1..n BY <1>2
    <2>2. QED BY <2>1, PlaceWalk
  <1>4. PICK l, m \in Nat : l = g.leafs /\ m = Total(g) /\ m = l + n /\ Tensors(g) = 1..m
    BY <1>2, GraphFacts DEF Total
  <1>5. \A k \in 1..n : nodes[k] = l + k BY <1>2, <1>4 DEF nodes
  <1> DEFINE Good(st, k) == /\ Walked(g, st, l + k, From(g, l + k + 1), From(g, l + k + 1))
                            /\ PlacedWell(g, st.offset, l + k)
  <1>6. Good(base, 0)
    <2>1. LeafsPlaced(g, AllocateEach(g, Fresh(g), [t \in 1..g.leafs |-> t]), g.leafs) BY AllLeafsPlaced
    <2>2. /\ Walked(g, base, g.leafs, From(g, g.leafs + 1), From(g, g.leafs + 1))
          /\ PlacedWell(g, base.offset, g.leafs)
      BY <1>1, <2>1, CountedLeafs
    <2>3. l + 0 = l OBVIOUS
    <2>4. QED BY <1>4, <2>2, <2>3
  <1> HIDE DEF Good
  <1> DEFINE K == {k \in Nat : k <= n => Good(w[k], k)}
  <1>7. 0 \in K BY <1>3, <1>6
  <1>8. ASSUME NEW k \in Nat, k \in K PROVE k + 1 \in K
    <2>1. SUFFICES ASSUME k + 1 <= n PROVE Good(w[k + 1], k + 1) OBVIOUS
    <2>2. k + 1 \in 1..n /\ (k + 1) - 1 = k /\ k <= n BY <2>1
    <2>3. PICK t \in Tensors(g) : t = l + (k + 1) /\ t - 1 = l + k /\ t = l + k + 1 /\ t > l
      <3>1. l + (k + 1) \in 1..m BY <1>4, <2>2
      <3>2. PICK t \in 1..m : t = l + (k + 1) BY <3>1
      <3>3. t - 1 = l + k /\ t = l + k + 1 /\ t > l BY <3>2
      <3>4. t \in Tensors(g) BY <1>4
      <3>5. QED BY <3>2, <3>3, <3>4
    <2>4. Good(w[k], k) BY <1>8, <2>2
    <2>5. Walked(g, w[k], t - 1, From(g, t), From(g, t)) /\ PlacedWell(g, w[k].offset, t - 1)
      BY <2>3, <2>4 DEF Good
    <2>6. IsNode(g, t) BY <1>4, <2>3 DEF IsNode
    <2>7. w[k + 1] = Place(g, w[k], t) BY <1>3, <1>5, <2>2, <2>3
    <2>8. LET new == Place(g, w[k], t)
          IN Walked(g, new, t, From(g, t + 1), From(g, t + 1)) /\ PlacedWell(g, new.offset, t)
      BY <2>5, <2>6, PlaceKeeps
    <2>9. /\ Walked(g, w[k + 1], t, From(g, t + 1), From(g, t + 1))
          /\ PlacedWell(g, w[k + 1].offset, t)
      BY <2>7, <2>8
    <2>10. QED BY <2>3, <2>9 DEF Good
  <1> HIDE DEF K
  <1>9. n \in K BY <1>7, <1>8, Numbers
  <1>10. Good(w[n], n) BY <1>9 DEF K
  <1>11. AllocGraph(g) = w[n] BY <1>1, <1>3 DEF AllocGraph, nodes
  <1>12. AllocInv(g, w[n], m) /\ PlacedWell(g, w[n].offset, m) BY <1>4, <1>10 DEF Good, Walked
  <1>13. QED BY <1>4, <1>11, <1>12

-------------------------------------------------------------------------------
(***************************************************************************)
(* What is kept of the walk: offsets that are inside the buffer, of a view *)
(* those of its tensor, and of tensors that are placed well.               *)
(***************************************************************************)
SoundPlan(plan, g) ==
  /\ plan.size \in Nat /\ plan.offset \in [Tensors(g) -> Nat]
  /\ \A t \in Tensors(g) : Owns(g, t) => plan.offset[t] + SizeOf(g, t) <= plan.size
  /\ \A t \in Tensors(g) : ViewOf(g, t) # 0 => plan.offset[t] = plan.offset[ViewOf(g, t)]
  /\ PlacedWell(g, plan.offset, Total(g))

\* ggml_gallocr_reserve measures every graph soundly (ggml-alloc.c:552-657, 659-767).
THEOREM ReserveSound == ASSUME NEW g, WellFormed(g) PROVE SoundPlan(Reserve(g), g)
  <1>1. PICK st : st = AllocGraph(g) OBVIOUS
  <1>2. PICK m \in Nat : m = Total(g) /\ Tensors(g) = 1..m BY GraphFacts
  <1>3. AllocInv(g, st, m) /\ PlacedWell(g, st.offset, m) BY <1>1, <1>2, AllNodesPlaced
  <1>4. st.offset \in [Tensors(g) -> Nat] /\ st.al.maxSize \in Nat BY <1>3 DEF AllocInv, Layout
  <1> DEFINE off == [t \in Tensors(g) |-> IF ViewOf(g, t) = 0 THEN st.offset[t]
                                          ELSE st.offset[ViewOf(g, t)]]
  <1>5. Reserve(g).size = st.al.maxSize /\ Reserve(g).offset = off BY <1>1 DEF Reserve
  <1>6. off \in [Tensors(g) -> Nat] BY <1>4, TensorFacts
  <1>7. \A t \in Tensors(g) : ViewOf(g, t) = 0 => off[t] = st.offset[t] OBVIOUS
  <1>8. \A t \in Tensors(g) : ViewOf(g, t) # 0 => off[t] = off[ViewOf(g, t)] BY TensorFacts
  <1> HIDE DEF off
  <1>9. ASSUME NEW t \in Tensors(g), Owns(g, t) PROVE off[t] + SizeOf(g, t) <= st.al.maxSize
    <2>1. t \in Owners(g, m) BY <1>2, <1>9 DEF Owners
    <2>2. st.offset[t] + SizeOf(g, t) <= st.al.maxSize BY <1>3, <2>1 DEF AllocInv, Layout
    <2>3. QED BY <1>7, <1>9, <2>2 DEF Owns
  <1>10. PlacedWell(g, off, m)
    <2>1. SUFFICES ASSUME NEW x \in Tensors(g), NEW u \in Tensors(g),
                          u \in Owners(g, m), x \in Owners(g, m), x < u,
                          IsNode(g, u) => Needed(g, x, From(g, u))
                   PROVE  Apart(g, off, x, u) \/ Takes(g, off, u, x)
      BY DEF PlacedWell
    <2>2. Apart(g, st.offset, x, u) \/ Takes(g, st.offset, u, x) BY <1>3, <2>1 DEF PlacedWell
    <2>3. off[x] = st.offset[x] /\ off[u] = st.offset[u] BY <1>7, <2>1 DEF Owners, Owns
    <2>4. QED BY <2>2, <2>3 DEF Apart, Takes
  <1>11. QED BY <1>2, <1>4, <1>5, <1>6, <1>8, <1>9, <1>10 DEF SoundPlan

\* A plan is as good for a graph of the same shape that needs no more rows.
LEMMA SmallerSound ==
  ASSUME NEW m, NEW g, WellFormed(m), WellFormed(g), SameShape(m, g),
         \A t \in Tensors(g) : Owns(g, t) => SizeOf(g, t) <= SizeOf(m, t),
         NEW plan, SoundPlan(plan, m)
  PROVE  SoundPlan(plan, g)
  <1>1. /\ g.leafs = m.leafs /\ g.ext = m.ext /\ g.out = m.out /\ Len(g.nodes) = Len(m.nodes)
        /\ Tensors(g) = Tensors(m) /\ Total(g) = Total(m)
    BY DEF SameShape, Tensors, Total
  <1>2. \A t \in Tensors(m) : /\ SrcOf(g, t) = SrcOf(m, t) /\ ViewOf(g, t) = ViewOf(m, t)
                              /\ IsNode(g, t) = IsNode(m, t)
                              /\ IsNode(m, t) => NodeOf(g, t).op = NodeOf(m, t).op
    BY <1>1 DEF SameShape, IsNode
  <1>3. Reads(g) = Reads(m) BY <1>1, <1>2 DEF Reads
  <1>4. \A r \in Reads(m) : Read(g, r) = Read(m, r) /\ Root(g, Read(g, r)) = Root(m, Read(m, r))
    <2>1. ASSUME NEW r \in Reads(m) PROVE Read(g, r) = Read(m, r) /\ Read(m, r) \in Tensors(m)
      BY <1>2, <2>1, ReadFacts DEF Read
    <2>2. QED BY <1>2, <2>1 DEF Root
  <1>5. \A t : From(g, t) = From(m, t) /\ From(m, t) \in SUBSET Reads(m) BY <1>3 DEF From
  <1>6. \A t \in Tensors(m) : Owns(g, t) = Owns(m, t) BY <1>1, <1>2 DEF Owns
  <1>7. PICK n \in Nat : n = Total(m) /\ Tensors(m) = 1..n BY GraphFacts
  <1>8. Owners(g, n) = Owners(m, n) BY <1>6, <1>7 DEF Owners
  <1>9. \A x, u \in Tensors(m) : Needed(g, x, From(g, u)) <=> Needed(m, x, From(m, u))
    BY <1>1, <1>4, <1>5 DEF Needed
  <1>10. plan.size \in Nat /\ plan.offset \in [Tensors(m) -> Nat] BY DEF SoundPlan
  <1>11. \A t \in Tensors(m) : /\ SizeOf(g, t) \in Nat /\ SizeOf(m, t) \in Nat
                               /\ Owns(g, t) => SizeOf(g, t) <= SizeOf(m, t)
    BY <1>1, TensorFacts
  <1>12. ASSUME NEW t \in Tensors(m), Owns(g, t) PROVE plan.offset[t] + SizeOf(g, t) <= plan.size
    <2>1. PICK o, a, b, z \in Nat : o = plan.offset[t] /\ a = SizeOf(g, t) /\ b = SizeOf(m, t) /\ z = plan.size
      BY <1>10, <1>11
    <2>2. o + b <= z BY <1>6, <1>12, <2>1 DEF SoundPlan
    <2>3. o + a <= z BY <1>11, <1>12, <2>1, <2>2
    <2>4. QED BY <2>1, <2>3
  <1>13. ASSUME NEW x \in Tensors(m), NEW u \in Tensors(m), Owns(g, x), Owns(g, u),
                Apart(m, plan.offset, x, u)
         PROVE  Apart(g, plan.offset, x, u)
    <2>1. PICK a, b, c, d \in Nat : a = plan.offset[x] /\ b = plan.offset[u]
                                 /\ c = SizeOf(g, x) /\ d = SizeOf(g, u)
      BY <1>10, <1>11
    <2>2. PICK e, f \in Nat : e = SizeOf(m, x) /\ f = SizeOf(m, u) /\ c <= e /\ d <= f
      BY <1>11, <1>13, <2>1
    <2>3. a + e <= b \/ b + f <= a BY <1>13, <2>1, <2>2 DEF Apart
    <2>4. a + c <= b \/ b + d <= a BY <2>2, <2>3
    <2>5. QED BY <2>1, <2>4 DEF Apart
  <1>14. ASSUME NEW x \in Tensors(m), NEW u \in Tensors(m), Takes(m, plan.offset, u, x)
         PROVE  Takes(g, plan.offset, u, x)
    <2>1. PICK j \in DOMAIN SrcOf(m, u) : SrcOf(m, u)[j] = x BY <1>14 DEF Takes
    <2>2. SizeOf(m, x) = SizeOf(m, u) BY <1>14 DEF Takes
    <2>3. SizeOf(g, x) = SizeOf(g, u) BY <2>1, <2>2 DEF SameShape
    <2>4. \A r \in From(g, u) : Root(g, Read(g, r)) = x => r[1] = u /\ Read(g, r) = x
      BY <1>4, <1>5, <1>14 DEF Takes
    <2>5. IsNode(g, u) /\ CanInplace(NodeOf(g, u).op) /\ x \notin g.out
      BY <1>1, <1>2, <1>14 DEF Takes
    <2>6. \E k \in DOMAIN SrcOf(g, u) : SrcOf(g, u)[k] = x BY <1>2, <2>1
    <2>7. QED BY <1>14, <2>3, <2>4, <2>5, <2>6 DEF Takes
  <1>15. PlacedWell(g, plan.offset, n)
    <2>1. PlacedWell(m, plan.offset, n) BY <1>7 DEF SoundPlan
    <2>2. \A x \in Owners(g, n) : x \in Tensors(m) /\ Owns(g, x)
      BY <1>6, <1>7, <1>8 DEF Owners
    <2>3. QED BY <1>1, <1>2, <1>8, <1>9, <1>13, <1>14, <2>1, <2>2 DEF PlacedWell
  <1>16. \A t \in Tensors(m) : ViewOf(g, t) # 0 => plan.offset[t] = plan.offset[ViewOf(g, t)]
    BY <1>2 DEF SoundPlan
  <1>17. QED BY <1>1, <1>7, <1>10, <1>12, <1>15, <1>16 DEF SoundPlan

\* Whatever graph the allocator measured, what ggml_gallocr_alloc_graph then uses for the
\* graph to be computed, the old measurements or new ones, is sound for that one
\* (ggml-alloc.c:814-901).
THEOREM PlanSound ==
  ASSUME NEW m, NEW g, WellFormed(m), WellFormed(g), NEW plan, plan = Reserve(m),
         NeedsRealloc(Measured(m), g) \/ SameShape(m, g)
  PROVE  SoundPlan(AllocPlan(plan, g), g) /\ AllocPlan(plan, g) \in {Reserve(m), Reserve(g)}
  <1>1. plan.measured = Measured(m)
    BY DEF Reserve
  <1>2. CASE NeedsRealloc(Measured(m), g)
    <2>1. AllocPlan(plan, g) = Reserve(g) BY <1>1, <1>2 DEF AllocPlan
    <2>2. QED BY <2>1, ReserveSound
  <1>3. CASE ~NeedsRealloc(Measured(m), g)
    <2>1. /\ SameShape(m, g) /\ g.leafs = m.leafs /\ g.ext = m.ext
          /\ Tensors(g) = Tensors(m)
          /\ \A t \in Tensors(m) : SrcOf(g, t) = SrcOf(m, t) /\ ViewOf(g, t) = ViewOf(m, t)
      BY <1>3 DEF SameShape, Tensors
    <2>2. Reads(g) = Reads(m) BY <2>1 DEF Reads
    <2>3. ASSUME NEW t \in Tensors(g), Owns(g, t) PROVE SizeOf(g, t) <= SizeOf(m, t)
      <3>1. /\ RowsNeeded(g, t) = SizeOf(g, t) /\ RowsNeeded(m, t) = SizeOf(m, t)
            /\ SizeOf(g, t) \in Nat /\ SizeOf(m, t) \in Nat
        BY <2>1, <2>3, TensorFacts DEF RowsNeeded, Owns
      <3>2. CASE IsNode(g, t)
        <4>1. t \in DOMAIN Measured(m).nodes /\ Measured(m).nodes[t] = SizeOf(m, t)
          BY <2>1, <3>1, <3>2 DEF Measured, IsNode
        <4>2. ~(RowsNeeded(g, t) > Measured(m).nodes[t]) BY <1>3, <4>1 DEF NeedsRealloc
        <4>3. QED BY <3>1, <4>1, <4>2
      <3>3. CASE ~IsNode(g, t)
        <4>1. t \in 1..g.leafs BY <2>3, <3>3, GraphFacts DEF IsNode, Tensors
        <4>2. PICK r \in Reads(g) : Read(g, r) = t BY <4>1 DEF WellFormed
        <4>3. Read(m, r) = t BY <2>1, <4>2, ReadFacts DEF Read
        <4>4. r \in DOMAIN Measured(m).srcs /\ Measured(m).srcs[r] = SizeOf(m, t)
          BY <2>2, <3>1, <4>3 DEF Measured
        <4>5. ~(RowsNeeded(g, Read(g, r)) > Measured(m).srcs[r])
          BY <1>3, <4>4 DEF NeedsRealloc
        <4>6. QED BY <3>1, <4>2, <4>4, <4>5
      <3>4. QED BY <3>2, <3>3
    <2>4. SoundPlan(plan, m) BY ReserveSound
    <2>5. SoundPlan(plan, g) BY <2>1, <2>3, <2>4, SmallerSound
    <2>6. AllocPlan(plan, g) = plan BY <1>1, <1>3 DEF AllocPlan
    <2>7. QED BY <2>5, <2>6
  <1>4. QED BY <1>2, <1>3
===============================================================================
