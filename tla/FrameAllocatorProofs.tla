------------------------ MODULE FrameAllocatorProofs ------------------------
(***************************************************************************)
(* The frame allocator hands out only memory it may, finds every free      *)
(* frame, counts exactly and implements FramePool: for every size of the   *)
(* bitmap, the frames and the words, every memory map and kernel image.    *)
(* The rights in a capability space only shrink: for every history.        *)
(***************************************************************************)
EXTENDS MCFrameAllocator, FiniteSetTheorems, TLAPS

(* Quotient and remainder of a natural number.                             *)
LEMMA DivMod ==
  ASSUME NEW a \in Nat, NEW C \in Nat \ {0}
  PROVE  /\ a % C \in 0 .. C - 1
         /\ a \div C \in Nat
         /\ a = C * (a \div C) + (a % C)
OBVIOUS

(* Division is monotonic.                                                  *)
LEMMA DivMono ==
  ASSUME NEW a \in Nat, NEW b \in Nat, NEW C \in Nat \ {0}, a <= b
  PROVE  a \div C <= b \div C
OBVIOUS

(* A frame of Inside lies wholly in the range.                             *)
LEMMA InsideRange ==
  ASSUME NEW base \in Nat, NEW length \in Nat, NEW f \in Inside(base, length)
  PROVE  /\ f \in Frame
         /\ base <= FRAME_SIZE * f
         /\ FRAME_SIZE * f + FRAME_SIZE <= base + length
<1> DEFINE q == (base + FRAME_SIZE - 1) \div FRAME_SIZE
           e == (base + length) \div FRAME_SIZE
<1>1. FRAME_SIZE \in Nat \ {0} /\ MAX_FRAMES \in Nat \ {0}
  BY FramesAssumption
<1>2. base + FRAME_SIZE - 1 \in Nat /\ base + length \in Nat
  BY <1>1
<1>3. /\ q \in Nat
      /\ (base + FRAME_SIZE - 1) % FRAME_SIZE \in 0 .. FRAME_SIZE - 1
      /\ base + FRAME_SIZE - 1
           = FRAME_SIZE * q + ((base + FRAME_SIZE - 1) % FRAME_SIZE)
  BY <1>1, <1>2, DivMod
<1>4. /\ e \in Nat
      /\ (base + length) % FRAME_SIZE \in 0 .. FRAME_SIZE - 1
      /\ base + length = FRAME_SIZE * e + ((base + length) % FRAME_SIZE)
  BY <1>1, <1>2, DivMod
<1>5. f \in Nat /\ q <= f /\ f <= e - 1 /\ f <= MAX_FRAMES - 1
  <2>1. f \in q .. Lesser(e, MAX_FRAMES) - 1
    BY DEF Inside
  <2> HIDE DEF q, e
  <2> QED BY <2>1, <1>1, <1>3, <1>4 DEF Lesser
<1>6. FRAME_SIZE * q \in Nat /\ base <= FRAME_SIZE * q
  <2> DEFINE r == (base + FRAME_SIZE - 1) % FRAME_SIZE
             p == FRAME_SIZE * q
  <2>1. r \in 0 .. FRAME_SIZE - 1 /\ base + FRAME_SIZE - 1 = p + r
    BY <1>3
  <2>2. p \in Nat
    BY <1>1, <1>3
  <2> HIDE DEF p, r
  <2>3. base <= p
    BY <2>1, <2>2, <1>1
  <2> QED BY <2>2, <2>3 DEF p
<1>7. FRAME_SIZE * e \in Nat /\ FRAME_SIZE * e <= base + length
  <2> DEFINE r == (base + length) % FRAME_SIZE
             p == FRAME_SIZE * e
  <2>1. r \in 0 .. FRAME_SIZE - 1 /\ base + length = p + r
    BY <1>4
  <2>2. p \in Nat
    BY <1>1, <1>4
  <2> HIDE DEF p, r
  <2>3. p <= base + length
    BY <2>1, <2>2, <1>1
  <2> QED BY <2>2, <2>3 DEF p
<1> HIDE DEF q, e
<1>8. FRAME_SIZE * q <= FRAME_SIZE * f
  BY <1>1, <1>3, <1>5
<1>9. FRAME_SIZE * f + FRAME_SIZE <= FRAME_SIZE * e
  <2>1. FRAME_SIZE * (f + 1) <= FRAME_SIZE * e
    BY <1>1, <1>4, <1>5
  <2>2. FRAME_SIZE * (f + 1) = FRAME_SIZE * f + FRAME_SIZE
    BY <1>1, <1>5
  <2> QED BY <2>1, <2>2
<1>10. f \in Frame
  BY <1>1, <1>5 DEF Frame
<1>11. FRAME_SIZE * f \in Nat
  BY <1>1, <1>5
<1>12. base <= FRAME_SIZE * f
  BY <1>6, <1>8, <1>11
<1>13. FRAME_SIZE * f + FRAME_SIZE <= base + length
  BY <1>7, <1>9, <1>11, <1>1
<1> QED BY <1>10, <1>12, <1>13

(* A frame outside Touched lies wholly below or above the range.           *)
LEMMA OutsideRange ==
  ASSUME NEW base \in Nat, NEW length \in Nat,
         NEW f \in Frame, f \notin Touched(base, length)
  PROVE  \/ FRAME_SIZE * f + FRAME_SIZE <= base
         \/ base + length <= FRAME_SIZE * f
<1> DEFINE q == base \div FRAME_SIZE
           t == base + length + FRAME_SIZE - 1
           e == t \div FRAME_SIZE
<1>1. FRAME_SIZE \in Nat \ {0} /\ MAX_FRAMES \in Nat \ {0}
  BY FramesAssumption
<1>2. f \in Nat /\ f <= MAX_FRAMES - 1
  BY <1>1 DEF Frame
<1>3. t \in Nat
  BY <1>1
<1>4. /\ q \in Nat /\ base % FRAME_SIZE \in 0 .. FRAME_SIZE - 1
      /\ base = FRAME_SIZE * q + (base % FRAME_SIZE)
  BY <1>1, DivMod
<1>5. /\ e \in Nat /\ t % FRAME_SIZE \in 0 .. FRAME_SIZE - 1
      /\ t = FRAME_SIZE * e + (t % FRAME_SIZE)
  <2> HIDE DEF t
  <2> QED BY <1>1, <1>3, DivMod
<1>6. f < q \/ e <= f
  <2>1. f \notin q .. Lesser(e, MAX_FRAMES) - 1
    BY DEF Touched
  <2> HIDE DEF q, e
  <2> QED BY <2>1, <1>1, <1>2, <1>4, <1>5 DEF Lesser
<1>7. ASSUME f < q PROVE FRAME_SIZE * f + FRAME_SIZE <= base
  <2> HIDE DEF q
  <2>1. FRAME_SIZE * (f + 1) <= FRAME_SIZE * q
    BY <1>1, <1>2, <1>4, <1>7
  <2>2. FRAME_SIZE * (f + 1) = FRAME_SIZE * f + FRAME_SIZE
    BY <1>1, <1>2
  <2>3. FRAME_SIZE * q \in Nat /\ FRAME_SIZE * f \in Nat
    BY <1>1, <1>2, <1>4
  <2>4. FRAME_SIZE * q <= base
    <3> DEFINE p == FRAME_SIZE * q
               r == base % FRAME_SIZE
    <3>1. p \in Nat /\ r \in 0 .. FRAME_SIZE - 1 /\ base = p + r
      BY <1>4, <2>3
    <3> HIDE DEF p, r
    <3>2. p <= base
      BY <3>1, <1>1
    <3> QED BY <3>2 DEF p
  <2> QED BY <2>1, <2>2, <2>3, <2>4, <1>1
<1>8. ASSUME e <= f PROVE base + length <= FRAME_SIZE * f
  <2>1. FRAME_SIZE * e \in Nat /\ FRAME_SIZE * f \in Nat
    BY <1>1, <1>2, <1>5
  <2>2. base + length <= FRAME_SIZE * e
    <3> DEFINE p == FRAME_SIZE * e
               r == t % FRAME_SIZE
    <3>1. p \in Nat /\ r \in 0 .. FRAME_SIZE - 1 /\ base + length + FRAME_SIZE - 1 = p + r
      BY <1>5, <2>1
    <3> HIDE DEF p, r
    <3>2. base + length <= p
      BY <3>1, <1>1
    <3> QED BY <3>2 DEF p
  <2> HIDE DEF e, t
  <2>3. FRAME_SIZE * e <= FRAME_SIZE * f
    BY <1>1, <1>2, <1>5, <1>8
  <2> QED BY <2>1, <2>2, <2>3
<1> QED BY <1>6, <1>7, <1>8
-----------------------------------------------------------------------------
(* What holds of the allocator between any two operations.  That no free   *)
(* frame is below the hint is what makes alloc complete; that the counter  *)
(* is exact is what keeps its decrement from underflowing.                 *)
AInv(a) ==
  /\ DOMAIN a = {"free", "free_count", "next_free_word"}
  /\ a.free \subseteq Frame
  /\ a.free_count = Cardinality(a.free)
  /\ a.next_free_word \in Nat /\ a.next_free_word < BITMAP_WORDS
  /\ \A f \in a.free : a.next_free_word <= Word(f)

LEMMA WordType ==
  ASSUME NEW f \in Nat
  PROVE  Word(f) \in Nat
BY FramesAssumption, DivMod DEF Word

LEMMA WordMono ==
  ASSUME NEW f \in Nat, NEW g \in Nat, f <= g
  PROVE  Word(f) <= Word(g)
BY FramesAssumption, DivMono DEF Word

(* A frame of the bitmap has its bit in a word of the bitmap.              *)
LEMMA WordInBitmap ==
  ASSUME NEW f \in Frame
  PROVE  Word(f) \in Nat /\ Word(f) < BITMAP_WORDS
<1> DEFINE q == f \div WORD_BITS
           m == MAX_FRAMES \div WORD_BITS
<1>1. WORD_BITS \in Nat \ {0} /\ MAX_FRAMES \in Nat \ {0} /\ MAX_FRAMES % WORD_BITS = 0
  BY FramesAssumption
<1>2. f \in Nat /\ f < MAX_FRAMES
  BY <1>1 DEF Frame
<1>3. /\ q \in Nat /\ f % WORD_BITS \in 0 .. WORD_BITS - 1
      /\ f = WORD_BITS * q + (f % WORD_BITS)
  BY <1>1, <1>2, DivMod
<1>4. m \in Nat /\ MAX_FRAMES = WORD_BITS * m + (MAX_FRAMES % WORD_BITS)
  BY <1>1, DivMod
<1>5. WORD_BITS * q <= f /\ WORD_BITS * q \in Nat
  <2> DEFINE p == WORD_BITS * q
             r == f % WORD_BITS
  <2>1. p \in Nat /\ r \in 0 .. WORD_BITS - 1 /\ f = p + r
    BY <1>1, <1>3
  <2> HIDE DEF p, r
  <2>2. p <= f
    BY <1>1, <2>1
  <2> QED BY <2>1, <2>2 DEF p
<1>6. WORD_BITS * m = MAX_FRAMES
  <2> DEFINE p == WORD_BITS * m
  <2>1. p \in Nat /\ MAX_FRAMES = p + (MAX_FRAMES % WORD_BITS)
    BY <1>1, <1>4
  <2> HIDE DEF p, m
  <2>2. p = MAX_FRAMES
    BY <1>1, <2>1
  <2> QED BY <2>2 DEF p
<1>7. q < m
  <2> HIDE DEF q, m
  <2>1. SUFFICES ASSUME m <= q PROVE FALSE
    BY <1>3, <1>4
  <2>2. WORD_BITS * m <= WORD_BITS * q
    BY <1>1, <1>3, <1>4, <2>1
  <2>3. MAX_FRAMES <= WORD_BITS * q
    BY <2>2, <1>6
  <2> DEFINE p == WORD_BITS * q
  <2>4. p \in Nat /\ p <= f /\ MAX_FRAMES <= p
    BY <1>5, <2>3
  <2> HIDE DEF p
  <2> QED BY <2>4, <1>1, <1>2
<1> QED BY <1>3, <1>7 DEF Word, BITMAP_WORDS

LEMMA FrameFinite ==
  ASSUME NEW S \in SUBSET Frame
  PROVE  IsFiniteSet(S) /\ Cardinality(S) \in Nat
<1>1. MAX_FRAMES - 1 \in Int /\ 0 \in Int
  BY FramesAssumption
<1>2. IsFiniteSet(0 .. MAX_FRAMES - 1)
  BY <1>1, FS_Interval
<1>3. IsFiniteSet(S)
  BY <1>2, FS_Subset DEF Frame
<1> QED BY <1>3, FS_CardinalityType

LEMMA NewInv == AInv(AllocatorNew)
<1>1. 0 \in Frame
  BY FramesAssumption DEF Frame
<1>2. Word(0) \in Nat /\ Word(0) < BITMAP_WORDS
  BY <1>1, WordInBitmap
<1>3. BITMAP_WORDS \in Nat
  BY FramesAssumption, DivMod DEF BITMAP_WORDS
<1>4. 0 < BITMAP_WORDS
  BY <1>2, <1>3
<1>5. Cardinality({}) = 0
  BY FS_EmptySet
<1> QED BY <1>4, <1>5 DEF AInv, AllocatorNew

(* The operations keep AInv.                                               *)
LEMMA MarkFreeInv ==
  ASSUME NEW a, AInv(a), NEW base \in Nat, NEW length \in Nat
  PROVE  /\ AInv(mark_range_free(a, base, length))
         /\ \A f \in mark_range_free(a, base, length).free \ a.free :
              f \in Inside(base, length)
<1> DEFINE first == (base + FRAME_SIZE - 1) \div FRAME_SIZE
           fresh == Inside(base, length) \ a.free
           b == [free           |-> a.free \cup fresh,
                 free_count     |-> a.free_count + Cardinality(fresh),
                 next_free_word |-> Lesser(Word(first), a.next_free_word)]
<1>1. FRAME_SIZE \in Nat \ {0} /\ BITMAP_WORDS \in Nat
  BY FramesAssumption, DivMod DEF BITMAP_WORDS
<1>2. first \in Nat
  <2>1. base + FRAME_SIZE - 1 \in Nat
    BY <1>1
  <2> QED BY <1>1, <2>1, DivMod
<1>3. Word(first) \in Nat
  <2> HIDE DEF first
  <2> QED BY <1>2, WordType
<1>4. fresh \in SUBSET Frame /\ a.free \in SUBSET Frame
  BY InsideRange DEF AInv
<1>5. \A f \in fresh : f \in Nat /\ first <= f
  <2>1. \A f \in fresh : f \in first .. Lesser((base + length) \div FRAME_SIZE, MAX_FRAMES) - 1
    BY DEF Inside
  <2>2. \A f \in fresh : f \in Nat
    BY <1>4, FramesAssumption DEF Frame
  <2> HIDE DEF first, fresh
  <2> DEFINE last == Lesser((base + length) \div FRAME_SIZE, MAX_FRAMES) - 1
  <2>3. last \in Int
    <3>1. base + length \in Nat
      OBVIOUS
    <3>2. (base + length) \div FRAME_SIZE \in Nat
      BY <3>1, <1>1, DivMod
    <3> QED BY <3>2, FramesAssumption DEF Lesser
  <2>4. \A f \in fresh : f \in first .. last
    BY <2>1
  <2> HIDE DEF last
  <2> QED BY <2>2, <2>3, <2>4, <1>2
<1> HIDE DEF first, fresh
<1>6. CASE (base + length) \div FRAME_SIZE <= first
  <2>1. mark_range_free(a, base, length) = a
    BY <1>6 DEF mark_range_free, first
  <2> QED BY <2>1
<1>7. CASE ~((base + length) \div FRAME_SIZE <= first)
  <2>1. mark_range_free(a, base, length) = b
    BY <1>7 DEF mark_range_free, first, fresh
  <2>2. /\ DOMAIN b = {"free", "free_count", "next_free_word"}
        /\ b.free = a.free \cup fresh
        /\ b.free_count = a.free_count + Cardinality(fresh)
        /\ b.next_free_word = Lesser(Word(first), a.next_free_word)
    OBVIOUS
  <2> HIDE DEF b
  <2>3. b.free_count = Cardinality(b.free)
    <3>1. /\ IsFiniteSet(fresh) /\ Cardinality(fresh) \in Nat
          /\ IsFiniteSet(a.free) /\ Cardinality(a.free) \in Nat
      BY <1>4, FrameFinite
    <3>2. Cardinality(a.free \cup fresh)
            = Cardinality(a.free) + Cardinality(fresh) - Cardinality(a.free \cap fresh)
      BY <3>1, FS_Union
    <3>3. a.free \cap fresh = {}
      BY DEF fresh
    <3>4. Cardinality(a.free \cap fresh) = 0
      BY <3>3, FS_EmptySet
    <3>5. a.free_count = Cardinality(a.free)
      BY DEF AInv
    <3> QED BY <2>2, <3>1, <3>2, <3>4, <3>5
  <2>4. b.next_free_word \in Nat /\ b.next_free_word < BITMAP_WORDS
        /\ b.next_free_word <= a.next_free_word /\ b.next_free_word <= Word(first)
    BY <2>2, <1>1, <1>3 DEF AInv, Lesser
  <2>5. ASSUME NEW f \in b.free PROVE b.next_free_word <= Word(f)
    <3>1. CASE f \in a.free
      <4>1. f \in Nat
        BY <1>4, <3>1, FramesAssumption DEF Frame
      <4>2. Word(f) \in Nat /\ a.next_free_word \in Nat /\ a.next_free_word <= Word(f)
        BY <3>1, <4>1, WordType DEF AInv
      <4> QED BY <2>4, <4>2
    <3>2. CASE f \in fresh
      <4>1. f \in Nat /\ first <= f
        BY <3>2, <1>5
      <4>2. Word(first) <= Word(f) /\ Word(f) \in Nat
        BY <4>1, <1>2, WordMono, WordType
      <4> QED BY <2>4, <4>2, <1>3
    <3> QED BY <3>1, <3>2, <2>2, <2>5
  <2>6. AInv(b)
    BY <2>2, <2>3, <2>4, <2>5, <1>4 DEF AInv
  <2>7. \A f \in b.free \ a.free : f \in Inside(base, length)
    BY <2>2 DEF fresh
  <2> QED BY <2>1, <2>6, <2>7
<1> QED BY <1>6, <1>7

LEMMA MarkUsedInv ==
  ASSUME NEW a, AInv(a), NEW base \in Nat, NEW length \in Nat
  PROVE  /\ AInv(mark_range_used(a, base, length))
         /\ mark_range_used(a, base, length).free = a.free \ Touched(base, length)
<1> DEFINE taken == Touched(base, length) \cap a.free
           b == mark_range_used(a, base, length)
<1>1. /\ DOMAIN b = DOMAIN a
      /\ b.free = a.free \ taken
      /\ b.free_count = SatSub(a.free_count, Cardinality(taken))
      /\ b.next_free_word = a.next_free_word
  BY DEF mark_range_used, AInv
<1>2. b.free = a.free \ Touched(base, length)
  BY <1>1
<1>3. taken \in SUBSET Frame /\ a.free \in SUBSET Frame
  BY DEF AInv
<1>4. b.free_count = Cardinality(b.free)
  <2>1. /\ IsFiniteSet(taken) /\ Cardinality(taken) \in Nat
        /\ IsFiniteSet(a.free) /\ Cardinality(a.free) \in Nat
    BY <1>3, FrameFinite
  <2>2. Cardinality(a.free \ taken)
          = Cardinality(a.free) - Cardinality(a.free \cap taken)
    BY <2>1, FS_Difference
  <2>3. a.free \cap taken = taken
    OBVIOUS
  <2>4. Cardinality(taken) <= Cardinality(a.free)
    BY <2>1, FS_Subset
  <2>5. a.free_count = Cardinality(a.free)
    BY DEF AInv
  <2> HIDE DEF taken, b
  <2> QED BY <1>1, <2>1, <2>2, <2>3, <2>4, <2>5, SMTT(30) DEF SatSub
<1>5. AInv(b)
  <2> HIDE DEF b
  <2> QED BY <1>1, <1>2, <1>4 DEF AInv
<1> QED BY <1>2, <1>5

LEMMA TakenInv ==
  ASSUME NEW a, AInv(a), NEW f \in Scanned(a), IsLowest(f, Scanned(a))
  PROVE  AInv(Taken(a, f)) /\ Taken(a, f).free = a.free \ {f}
<1> DEFINE b == Taken(a, f)
<1>1. /\ DOMAIN b = {"free", "free_count", "next_free_word"}
      /\ b.free = a.free \ {f}
      /\ b.free_count = a.free_count - 1
      /\ b.next_free_word = Word(f)
  BY DEF Taken
<1> HIDE DEF b
<1>2. f \in a.free /\ f \in Frame /\ f \in Nat /\ a.free \in SUBSET Frame
  BY FramesAssumption DEF Scanned, AInv, Frame
<1>3. b.free_count = Cardinality(b.free)
  BY <1>1, <1>2, FrameFinite, FS_RemoveElement DEF AInv
<1>4. ASSUME NEW g \in b.free PROVE Word(f) <= Word(g)
  <2>1. g \in Scanned(a) /\ g \in Nat
    BY <1>1, <1>2, FramesAssumption DEF Scanned, AInv, Frame
  <2>2. f <= g
    BY <2>1 DEF IsLowest
  <2> QED BY <1>2, <2>1, <2>2, WordMono
<1>5. Word(f) \in Nat /\ Word(f) < BITMAP_WORDS
  BY <1>2, WordInBitmap
<1>6. AInv(b)
  BY <1>1, <1>2, <1>3, <1>4, <1>5 DEF AInv
<1> QED BY <1>1, <1>6 DEF b

LEMMA ReleasedInv ==
  ASSUME NEW a, AInv(a), NEW f \in Frame, f \notin a.free
  PROVE  AInv(Released(a, f)) /\ Released(a, f).free = a.free \cup {f}
<1> DEFINE b == Released(a, f)
<1>1. /\ DOMAIN b = {"free", "free_count", "next_free_word"}
      /\ b.free = a.free \cup {f}
      /\ b.free_count = a.free_count + 1
      /\ b.next_free_word = Lesser(Word(f), a.next_free_word)
  BY DEF Released
<1> HIDE DEF b
<1>2. f \in Nat /\ a.free \in SUBSET Frame /\ b.free \in SUBSET Frame
  BY <1>1, FramesAssumption DEF AInv, Frame
<1>3. b.free_count = Cardinality(b.free)
  BY <1>1, <1>2, FrameFinite, FS_AddElement DEF AInv
<1>4. Word(f) \in Nat /\ Word(f) < BITMAP_WORDS
  BY WordInBitmap
<1>5. /\ b.next_free_word \in Nat /\ b.next_free_word < BITMAP_WORDS
      /\ b.next_free_word <= Word(f) /\ b.next_free_word <= a.next_free_word
  BY <1>1, <1>4 DEF AInv, Lesser
<1>6. ASSUME NEW g \in b.free PROVE b.next_free_word <= Word(g)
  <2>1. g \in Nat /\ Word(g) \in Nat
    BY <1>2, WordType, FramesAssumption DEF Frame
  <2>2. g \in a.free => a.next_free_word <= Word(g)
    BY DEF AInv
  <2>3. a.next_free_word \in Nat
    BY DEF AInv
  <2> QED BY <1>1, <1>5, <2>1, <2>2, <2>3
<1>7. AInv(b)
  BY <1>1, <1>2, <1>3, <1>5, <1>6 DEF AInv
<1> QED BY <1>1, <1>7 DEF b

(* Every free frame is one the scan meets.                                 *)
LEMMA ScannedAll ==
  ASSUME NEW a, AInv(a)
  PROVE  Scanned(a) = a.free
BY DEF AInv, Scanned
-----------------------------------------------------------------------------
(* The inductive invariant.  Everything the allocator may hand out, and    *)
(* everything it has handed out, lies in one usable region; the two steps  *)
(* of boot that follow the memory map add their bound each.                *)
InRegion(f, k) ==
  /\ regions[k].kind = "Usable"
  /\ regions[k].base <= FRAME_SIZE * f
  /\ FRAME_SIZE * f + FRAME_SIZE <= regions[k].base + regions[k].length

IInv ==
  /\ phase \in {"map", "low", "kernel", "run"}
  /\ AInv(alloc)
  /\ written \subseteq Frame
  /\ held \subseteq Frame /\ held \cap alloc.free = {}
  /\ phase # "run" => held = {}
  /\ regions \in Maps /\ phys_end \in KernelEnds
  /\ todo \in Seq({regions[k] : k \in 1 .. Len(regions)})
  /\ \A f \in alloc.free \cup held : \E k \in 1 .. Len(regions) : InRegion(f, k)
  /\ phase \in {"kernel", "run"} =>
       \A f \in alloc.free \cup held : LOW_END <= FRAME_SIZE * f
  /\ phase = "run" =>
       \A f \in alloc.free \cup held : phys_end <= FRAME_SIZE * f

LEMMA InitInv == Init => IInv
<1> SUFFICES ASSUME Init PROVE IInv
  OBVIOUS
<1>1. AInv(alloc) /\ alloc.free = {}
  BY NewInv DEF Init, AllocatorNew
<1>2. regions \in Seq([base : Nat, length : Nat, kind : {"Usable", "Reserved"}])
  BY FrameAllocatorAssumption DEF Init
<1>3. todo \in Seq({regions[k] : k \in 1 .. Len(regions)})
  <2> DEFINE n == Lesser(Len(regions), MAX_REGIONS)
  <2>1. n \in Nat /\ n <= Len(regions)
    BY <1>2, FramesAssumption DEF Lesser
  <2>2. todo = SubSeq(regions, 1, n)
    BY DEF Init, MemoryMap
  <2> HIDE DEF n
  <2>3. todo = [i \in 1 .. n |-> regions[i]]
    BY <2>1, <2>2, <1>2
  <2> DEFINE S == {regions[k] : k \in 1 .. Len(regions)}
  <2>4. Len(regions) \in Nat
    BY <1>2
  <2>5. \A i \in 1 .. n : regions[i] \in S
    BY <2>1, <2>4
  <2> HIDE DEF S
  <2>6. todo \in Seq(S)
    BY <2>1, <2>3, <2>5
  <2> QED BY <2>6 DEF S
<1> QED BY <1>1, <1>3 DEF Init, IInv

LEMMA RegionType ==
  ASSUME regions \in Maps, NEW k \in 1 .. Len(regions)
  PROVE  regions[k].base \in Nat /\ regions[k].length \in Nat
<1> DEFINE R == [base : Nat, length : Nat, kind : {"Usable", "Reserved"}]
<1>1. regions \in Seq(R)
  BY FrameAllocatorAssumption
<1>2. regions[k] \in R
  <2> HIDE DEF R
  <2> QED BY <1>1
<1> QED BY <1>2

(* One turn of the memory map's loop: a frame becomes free only where a    *)
(* usable region covers it.                                                *)
LEMMA MapStep == IInv /\ init_from_memory_map => IInv'
<1> SUFFICES ASSUME IInv, init_from_memory_map PROVE IInv'
  OBVIOUS
<1> DEFINE S == {regions[k] : k \in 1 .. Len(regions)}
<1>1. phase = "map" /\ held = {} /\ regions \in Maps /\ AInv(alloc)
  BY DEF IInv, init_from_memory_map
<1>2. UNCHANGED <<written, held, regions, phys_end>>
  BY DEF init_from_memory_map
<1>3. CASE todo = <<>>
  <2>1. phase' = "low" /\ alloc' = alloc /\ todo' = todo
    BY <1>3 DEF init_from_memory_map
  <2> QED BY <1>1, <1>2, <2>1 DEF IInv, InRegion
<1>4. CASE todo # <<>>
  <2> DEFINE r == Head(todo)
  <2>1. todo \in Seq(S)
    BY DEF IInv
  <2>2. r \in S /\ todo' \in Seq(S) /\ phase' = "map"
    <3> HIDE DEF S
    <3> QED BY <1>1, <1>4, <2>1 DEF init_from_memory_map
  <2>3. PICK k \in 1 .. Len(regions) : r = regions[k]
    BY <2>2
  <2>4. r.base \in Nat /\ r.length \in Nat
    BY <1>1, <2>3, RegionType
  <2>5. AInv(alloc') /\ \A f \in alloc'.free \ alloc.free : InRegion(f, k)
    <3>1. CASE r.kind = "Usable"
      <4>1. alloc' = mark_range_free(alloc, r.base, r.length)
        BY <1>4, <3>1 DEF init_from_memory_map
      <4> HIDE DEF r
      <4>2. /\ AInv(alloc')
            /\ \A f \in alloc'.free \ alloc.free : f \in Inside(r.base, r.length)
        BY <1>1, <2>4, <4>1, MarkFreeInv
      <4>3. \A f \in alloc'.free \ alloc.free :
              /\ r.base <= FRAME_SIZE * f
              /\ FRAME_SIZE * f + FRAME_SIZE <= r.base + r.length
        BY <2>4, <4>2, InsideRange
      <4> QED BY <2>3, <3>1, <4>2, <4>3 DEF InRegion
    <3>2. CASE r.kind # "Usable"
      <4>1. alloc' = alloc
        BY <1>4, <3>2 DEF init_from_memory_map
      <4> QED BY <1>1, <4>1
    <3> QED BY <3>1, <3>2
  <2>6. \A f \in alloc'.free \cup held' : \E j \in 1 .. Len(regions') : InRegion(f, j)'
    <3>1. \A f \in alloc.free : \E j \in 1 .. Len(regions) : InRegion(f, j)
      BY DEF IInv
    <3> QED BY <1>1, <1>2, <2>5, <3>1 DEF InRegion
  <2> QED BY <1>1, <1>2, <2>2, <2>5, <2>6 DEF IInv
<1> QED BY <1>3, <1>4

(* The first MiB: what stays free starts at LOW_END or above.              *)
LEMMA LowStep == IInv /\ reserve_low => IInv'
<1> SUFFICES ASSUME IInv, reserve_low PROVE IInv'
  OBVIOUS
<1>1. /\ phase = "low" /\ phase' = "kernel" /\ held = {} /\ AInv(alloc)
      /\ UNCHANGED <<todo, written, held, regions, phys_end>>
      /\ alloc' = mark_range_used(alloc, 0, LOW_END)
  BY DEF IInv, reserve_low
<1>2. LOW_END \in Nat /\ 0 \in Nat /\ FRAME_SIZE \in Nat \ {0} /\ MAX_FRAMES \in Nat
  BY FrameAllocatorAssumption, FramesAssumption
<1>3. AInv(alloc') /\ alloc'.free = alloc.free \ Touched(0, LOW_END)
  BY <1>1, <1>2, MarkUsedInv
<1>4. ASSUME NEW f \in alloc'.free PROVE LOW_END <= FRAME_SIZE * f
  <2>1. f \in Frame /\ f \in Nat /\ f \notin Touched(0, LOW_END)
    BY <1>2, <1>3 DEF AInv, Frame
  <2>2. FRAME_SIZE * f + FRAME_SIZE <= 0 \/ 0 + LOW_END <= FRAME_SIZE * f
    BY <1>2, <2>1, OutsideRange
  <2> DEFINE x == FRAME_SIZE * f
  <2>3. x \in Nat /\ (x + FRAME_SIZE <= 0 \/ LOW_END <= x)
    BY <1>2, <2>1, <2>2
  <2> HIDE DEF x
  <2>4. LOW_END <= x
    BY <1>2, <2>3
  <2> QED BY <2>4 DEF x
<1> QED BY <1>1, <1>3, <1>4 DEF IInv, InRegion

(* The kernel image: what is left starts at its end or above.              *)
LEMMA KernelStep == IInv /\ reserve_kernel => IInv'
<1> SUFFICES ASSUME IInv, reserve_kernel PROVE IInv'
  OBVIOUS
<1> DEFINE E == phys_end_aligned
           L == E - LOW_END
<1>1. /\ phase = "kernel" /\ phase' = "run" /\ held = {} /\ AInv(alloc)
      /\ UNCHANGED <<todo, written, held, regions, phys_end>>
      /\ alloc' = mark_range_used(alloc, LOW_END, L)
  BY DEF IInv, reserve_kernel
<1>2. LOW_END \in Nat /\ FRAME_SIZE \in Nat \ {0} /\ MAX_FRAMES \in Nat
  BY FrameAllocatorAssumption, FramesAssumption
<1>3. phys_end \in Nat /\ LOW_END <= phys_end
  BY FrameAllocatorAssumption DEF IInv
<1>4. E \in Nat /\ phys_end <= E
  <2> DEFINE t == phys_end + FRAME_SIZE - 1
             q == t \div FRAME_SIZE
             p == FRAME_SIZE * q
             r == t % FRAME_SIZE
  <2>1. t \in Nat
    BY <1>2, <1>3
  <2>2. q \in Nat /\ r \in 0 .. FRAME_SIZE - 1 /\ t = p + r
    <3> HIDE DEF t
    <3> QED BY <1>2, <2>1, DivMod
  <2>3. p \in Nat
    BY <1>2, <2>2
  <2>4. phys_end + FRAME_SIZE - 1 = p + r
    BY <2>2
  <2>5. E = p
    BY DEF phys_end_aligned
  <2> HIDE DEF p, r, E
  <2> QED BY <1>2, <1>3, <2>2, <2>3, <2>4, <2>5
<1> HIDE DEF E
<1>5. L \in Nat /\ LOW_END + L = E
  BY <1>2, <1>3, <1>4
<1> HIDE DEF L
<1>6. AInv(alloc') /\ alloc'.free = alloc.free \ Touched(LOW_END, L)
  BY <1>1, <1>2, <1>5, MarkUsedInv
<1>7. ASSUME NEW f \in alloc'.free PROVE phys_end <= FRAME_SIZE * f
  <2>1. f \in Frame /\ f \in Nat /\ f \notin Touched(LOW_END, L) /\ f \in alloc.free
    BY <1>2, <1>6 DEF AInv, Frame
  <2>2. FRAME_SIZE * f + FRAME_SIZE <= LOW_END \/ LOW_END + L <= FRAME_SIZE * f
    BY <1>2, <1>5, <2>1, OutsideRange
  <2>3. LOW_END <= FRAME_SIZE * f
    BY <1>1, <2>1 DEF IInv
  <2> DEFINE x == FRAME_SIZE * f
  <2>4. x \in Nat /\ LOW_END <= x /\ (x + FRAME_SIZE <= LOW_END \/ E <= x)
    BY <1>2, <1>5, <2>1, <2>2, <2>3
  <2> HIDE DEF x
  <2>5. phys_end <= x
    BY <1>2, <1>3, <1>4, <2>4
  <2> QED BY <2>5 DEF x
<1> QED BY <1>1, <1>6, <1>7 DEF IInv, InRegion

(* alloc and dealloc move one frame between the bitmap and its holder.     *)
LEMMA AllocStep == IInv /\ alloc_frame => IInv'
<1> SUFFICES ASSUME IInv, alloc_frame PROVE IInv'
  OBVIOUS
<1>1. AInv(alloc) /\ phase = "run" /\ UNCHANGED <<phase, todo, regions, phys_end>>
  BY DEF IInv, alloc_frame
<1>2. CASE UNCHANGED <<alloc, written, held>>
  BY <1>1, <1>2 DEF IInv, InRegion
<1>3. ASSUME NEW f \in Scanned(alloc), IsLowest(f, Scanned(alloc)),
             alloc' = Taken(alloc, f), written' = written \ {f},
             held' = held \cup {f}
      PROVE  IInv'
  <2>1. AInv(alloc') /\ alloc'.free = alloc.free \ {f}
    BY <1>1, <1>3, TakenInv
  <2>2. f \in alloc.free /\ f \in Frame
    BY <1>1 DEF Scanned, AInv
  <2>3. alloc'.free \cup held' = alloc.free \cup held
    BY <1>3, <2>1, <2>2
  <2> QED BY <1>1, <1>3, <2>1, <2>2, <2>3 DEF IInv, InRegion
<1> QED BY <1>2, <1>3 DEF alloc_frame

LEMMA FreeStep ==
  ASSUME IInv, NEW f \in Frame \cup {MAX_FRAMES}, free_frame(f)
  PROVE  IInv'
<1>1. AInv(alloc) /\ phase = "run" /\ UNCHANGED <<phase, todo, regions, phys_end>>
  BY DEF IInv, free_frame
<1>2. CASE UNCHANGED <<alloc, written, held>>
  BY <1>1, <1>2 DEF IInv, InRegion
<1>3. CASE /\ f \notin alloc.free /\ f \in held
           /\ alloc' = Released(alloc, f)
           /\ written' = written \ {f}
           /\ held' = held \ {f}
  <2>1. f \in Frame
    BY <1>3 DEF IInv
  <2>2. AInv(alloc') /\ alloc'.free = alloc.free \cup {f}
    BY <1>1, <1>3, <2>1, ReleasedInv
  <2>3. alloc'.free \cup held' = alloc.free \cup held
    BY <1>3, <2>2
  <2> QED BY <1>1, <1>3, <2>1, <2>2, <2>3 DEF IInv, InRegion
<1> QED BY <1>2, <1>3 DEF free_frame

LEMMA UseStep ==
  ASSUME IInv, NEW f \in Frame \cup {MAX_FRAMES}, use_frame(f)
  PROVE  IInv'
BY DEF IInv, use_frame, InRegion

LEMMA NextInv == IInv /\ [Next]_vars => IInv'
<1> SUFFICES ASSUME IInv, [Next]_vars PROVE IInv'
  OBVIOUS
<1>1. CASE UNCHANGED vars
  BY <1>1 DEF IInv, InRegion, vars
<1> QED BY <1>1, MapStep, LowStep, KernelStep, AllocStep, FreeStep, UseStep DEF Next

THEOREM Inductive == Spec => []IInv
BY InitInv, NextInv, PTL DEF Spec

(* The bitmap, the counter and the hint stay in range.                     *)
THEOREM TypeCorrect == Spec => []TypeOK
<1>1. IInv => TypeOK
  <2> SUFFICES ASSUME IInv PROVE TypeOK
    OBVIOUS
  <2>1. alloc.free \in SUBSET Frame /\ IsFiniteSet(Frame) /\ Cardinality(Frame) = MAX_FRAMES
    <3>1. alloc.free \in SUBSET Frame
      BY DEF IInv, AInv
    <3>2. 0 \in Int /\ MAX_FRAMES - 1 \in Int /\ MAX_FRAMES \in Nat \ {0}
      BY FramesAssumption
    <3>3. /\ IsFiniteSet(0 .. MAX_FRAMES - 1)
          /\ Cardinality(0 .. MAX_FRAMES - 1)
               = IF 0 > MAX_FRAMES - 1 THEN 0 ELSE MAX_FRAMES - 1 - 0 + 1
      BY <3>2, FS_Interval
    <3> QED BY <3>1, <3>2, <3>3 DEF Frame
  <2>2. Cardinality(alloc.free) \in Nat /\ Cardinality(alloc.free) <= MAX_FRAMES
    BY <2>1, FrameFinite, FS_Subset
  <2>3. alloc.free_count \in 0 .. MAX_FRAMES
    BY <2>2, FramesAssumption DEF IInv, AInv
  <2>4. alloc.next_free_word \in 0 .. BITMAP_WORDS - 1
    <3>1. BITMAP_WORDS \in Nat
      BY FramesAssumption, DivMod DEF BITMAP_WORDS
    <3> QED BY <3>1 DEF IInv, AInv
  <2> QED BY <2>1, <2>3, <2>4 DEF TypeOK, IInv
<1> QED BY <1>1, Inductive, PTL

(* alloc sees every free frame and the counter is their number.            *)
THEOREM HintAndCount == Spec => []HintAndCountExact
<1>1. IInv => HintAndCountExact
  BY ScannedAll DEF IInv, AInv, HintAndCountExact
<1> QED BY <1>1, Inductive, PTL

(* No octet of a free or held frame is reserved by the firmware's account, *)
(* in the first MiB or in the kernel image.                                *)
THEOREM OnlyUsable == Spec => []OnlyUsableMemory
<1>1. IInv => OnlyUsableMemory
  <2> SUFFICES ASSUME IInv, phase = "run", NEW f \in alloc.free \cup held,
                      NEW x \in FRAME_SIZE * f .. FRAME_SIZE * f + FRAME_SIZE - 1
               PROVE  Usable(x) /\ x >= LOW_END /\ x >= phys_end
    BY DEF OnlyUsableMemory
  <2> DEFINE y == FRAME_SIZE * f
  <2>1. FRAME_SIZE \in Nat \ {0} /\ LOW_END \in Nat /\ phys_end \in Nat /\ f \in Nat
    <3>1. f \in Frame
      BY DEF IInv, AInv
    <3>2. f \in Nat
      BY <3>1, FramesAssumption DEF Frame
    <3>3. phys_end \in KernelEnds
      BY DEF IInv
    <3> QED BY <3>2, <3>3, FramesAssumption, FrameAllocatorAssumption
  <2>2. y \in Nat /\ LOW_END <= y /\ phys_end <= y
    BY <2>1 DEF IInv
  <2>3. PICK k \in 1 .. Len(regions) : InRegion(f, k)
    BY DEF IInv
  <2>4. /\ regions[k].kind = "Usable" /\ regions[k].base <= y
        /\ y + FRAME_SIZE <= regions[k].base + regions[k].length
        /\ regions[k].base \in Nat /\ regions[k].length \in Nat
    BY <2>3, RegionType DEF InRegion, IInv
  <2>5. x \in y .. y + FRAME_SIZE - 1
    OBVIOUS
  <2> HIDE DEF y
  <2>6. regions[k].base <= x /\ x < regions[k].base + regions[k].length
    BY <2>1, <2>2, <2>4, <2>5
  <2>7. x >= LOW_END /\ x >= phys_end
    BY <2>1, <2>2, <2>5
  <2> QED BY <2>3, <2>4, <2>6, <2>7 DEF Usable
<1> QED BY <1>1, Inductive, PTL
-----------------------------------------------------------------------------
(* The refinement of FramePool: boot fills the pool, and from then on each *)
(* call is the pool's operation of the same meaning.                       *)

LEMMA PoolInit == Init => Pool!Init
BY DEF Init, AllocatorNew, Pool!Init

LEMMA PoolStep == IInv /\ IInv' /\ Next => Pool!Next
<1> SUFFICES ASSUME IInv, IInv', Next PROVE Pool!Next
  OBVIOUS
<1>1. alloc'.free \subseteq Frame
  BY DEF IInv, AInv
<1>2. CASE init_from_memory_map \/ reserve_low \/ reserve_kernel
  <2>1. phase # "run" /\ UNCHANGED <<held, written, got>>
    BY <1>2 DEF init_from_memory_map, reserve_low, reserve_kernel
  <2> QED BY <1>1, <2>1 DEF Pool!Next, Pool!Fill
<1>3. CASE alloc_frame
  <2>1. phase = "run" /\ phase' = "run"
    BY <1>3 DEF alloc_frame
  <2>2. CASE Scanned(alloc) = {} /\ got' = <<"None">> /\ UNCHANGED <<alloc, written, held>>
    <3>1. alloc.free = {}
      BY <2>2, ScannedAll DEF IInv
    <3> QED BY <1>1, <2>1, <2>2, <3>1 DEF Pool!Next, Pool!GetNothing
  <2>3. ASSUME NEW f \in Scanned(alloc),
               alloc' = Taken(alloc, f), written' = written \ {f},
               held' = held \cup {f}, got' = <<"Some", f>>
        PROVE  Pool!Next
    <3>1. f \in alloc.free /\ f \in Frame /\ alloc'.free = alloc.free \ {f}
      BY <2>3 DEF Scanned, IInv, AInv, Taken
    <3>2. Pool!Get(f)
      BY <2>1, <2>3, <3>1 DEF Pool!Get
    <3> QED BY <1>1, <3>1, <3>2 DEF Pool!Next
  <2> QED BY <1>3, <2>2, <2>3 DEF alloc_frame
<1>4. ASSUME NEW f \in Frame \cup {MAX_FRAMES}, free_frame(f)
      PROVE  Pool!Next
  <2>1. phase = "run" /\ phase' = "run" /\ got' = <<>>
    BY <1>4 DEF free_frame
  <2>2. CASE UNCHANGED <<alloc, written, held>>
    BY <1>1, <2>1, <2>2 DEF Pool!Next, Pool!Refuse
  <2>3. CASE f \in held /\ alloc' = Released(alloc, f)
             /\ written' = written \ {f} /\ held' = held \ {f}
    <3>1. f \in Frame /\ alloc'.free = alloc.free \cup {f}
      BY <2>3 DEF IInv, Released
    <3>2. Pool!Put(f)
      BY <2>1, <2>3, <3>1 DEF Pool!Put
    <3> QED BY <1>1, <3>1, <3>2 DEF Pool!Next
  <2> QED BY <1>4, <2>2, <2>3 DEF free_frame
<1>5. ASSUME NEW f \in Frame \cup {MAX_FRAMES}, use_frame(f)
      PROVE  Pool!Next
  <2>1. f \in Frame
    BY <1>5 DEF use_frame, IInv
  <2>2. Pool!Write(f)
    BY <1>5 DEF use_frame, Pool!Write
  <2> QED BY <1>1, <2>1, <2>2 DEF Pool!Next
<1> QED BY <1>2, <1>3, <1>4, <1>5 DEF Next

(* The allocator implements the pool: no frame has two holders, no request *)
(* fails while a frame is free, no frame comes with old contents.          *)
THEOREM ImplementsPool == Spec => AllocatorIsPool
<1>1. IInv /\ IInv' /\ [Next]_vars => [Pool!Next]_(Pool!vars)
  <2> SUFFICES ASSUME IInv, IInv', [Next]_vars PROVE [Pool!Next]_(Pool!vars)
    OBVIOUS
  <2>1. CASE UNCHANGED vars
    BY <2>1 DEF vars, Pool!vars
  <2> QED BY <2>1, PoolStep
<1> QED BY <1>1, PoolInit, Inductive, PTL DEF Spec, AllocatorIsPool, Pool!Spec
-----------------------------------------------------------------------------
(* A set of naturals has a least element: the induction over histories.    *)
LEMMA Least ==
  ASSUME NEW S, S \subseteq Nat, S # {}
  PROVE  \E i \in S : \A j \in S : i <= j
<1>1. \A i, j \in Nat : j < i => <<j, i>> \in OpToRel(<, Nat)
  BY DEF OpToRel
<1>2. \E i \in S : \A j \in S : ~(<<j, i>> \in OpToRel(<, Nat))
  BY NatLessThanWellFounded, WFMin, Zenon
<1>3. \E i \in S : \A j \in S : ~(j < i)
  BY <1>1, <1>2, Zenon
<1> QED
  BY <1>3

(* The states of a space along the first n steps of a history.             *)
IsRun(h, f, n) ==
  f = [k \in 0 .. n |-> IF k = 0 THEN SpaceEmpty ELSE After(f[k - 1], h[k])]

LEMMA RunExists ==
  ASSUME NEW h, NEW n \in Nat
  PROVE  \E f : IsRun(h, f, n)
<1> DEFINE S == {k \in Nat : ~\E f : IsRun(h, f, k)}
<1> SUFFICES ASSUME S # {} PROVE FALSE
  OBVIOUS
<1>1. PICK k \in S : \A j \in S : k <= j
  BY Least
<1>2. CASE k = 0
  <2>1. IsRun(h, [j \in 0 .. 0 |-> SpaceEmpty], 0)
    BY DEF IsRun
  <2> QED
    BY <1>2, <2>1
<1>3. CASE k # 0
  <2>1. k - 1 \in Nat /\ k - 1 \notin S
    BY <1>1, <1>3
  <2>2. PICK f : IsRun(h, f, k - 1)
    BY <2>1
  <2> DEFINE g == [j \in 0 .. k |-> IF j = k THEN After(f[k - 1], h[k]) ELSE f[j]]
  <2>3. \A j \in 0 .. k - 1 : f[j] = IF j = 0 THEN SpaceEmpty ELSE After(f[j - 1], h[j])
    BY <2>2 DEF IsRun
  <2>4. \A j \in 0 .. k : g[j] = IF j = 0 THEN SpaceEmpty ELSE After(g[j - 1], h[j])
    <3> SUFFICES ASSUME NEW j \in 0 .. k
                 PROVE  g[j] = IF j = 0 THEN SpaceEmpty ELSE After(g[j - 1], h[j])
      OBVIOUS
    <3>1. CASE j = 0
      BY <1>3, <2>3, <3>1
    <3>2. CASE j # 0
      <4>1. j - 1 \in 0 .. k - 1 /\ g[j - 1] = f[j - 1]
        BY <3>2
      <4>2. g[j] = After(f[j - 1], h[j])
        BY <2>3, <3>2
      <4> HIDE DEF g
      <4> QED
        BY <3>2, <4>1, <4>2
    <3> QED
      BY <3>1, <3>2
  <2>5. g = [j \in 0 .. k |-> g[j]]
    OBVIOUS
  <2> HIDE DEF g
  <2>6. IsRun(h, g, k)
    BY <2>4, <2>5 DEF IsRun
  <2> QED
    BY <2>6
<1> QED
  BY <1>2, <1>3

LEMMA ReplayIsRun ==
  ASSUME NEW h
  PROVE  \E f : IsRun(h, f, HistoryLength) /\ Replay(h) = f[HistoryLength]
<1> DEFINE r == CHOOSE f : IsRun(h, f, HistoryLength)
<1>1. IsRun(h, r, HistoryLength)
  BY RunExists, CapabilitySpaceAssumption
<1>2. Replay(h) = r[HistoryLength]
  BY DEF Replay, IsRun
<1> QED
  BY <1>1, <1>2

(* What holds of the space s after n steps of history h: the rights of a   *)
(* slot's capability were minted for its token, and the count is at most   *)
(* the number of occupied slots.                                           *)
CapSet == [token : Token, rights : SUBSET Right]

MintedBy(h, n, t) ==
  UNION {h[k].rights : k \in {m \in 1 .. n : h[m].op = "mint" /\ h[m].token = t}}

Good(h, n, s) ==
  /\ s.slots \in [Slot -> {NoCap} \cup CapSet]
  /\ s.count \in Nat /\ s.count <= Cardinality(Occupied(s))
  /\ \A i \in Occupied(s) : s.slots[i].rights \subseteq MintedBy(h, n, s.slots[i].token)

LEMMA CapIsSome == \A c \in CapSet : c # NoCap
BY DEF CapSet, NoCap

LEMMA OccupiedFinite ==
  ASSUME NEW s
  PROVE  /\ Slot \subseteq Nat
         /\ IsFiniteSet(Occupied(s)) /\ Occupied(s) \subseteq Slot
         /\ Cardinality(Occupied(s)) \in Nat
<1>1. IsFiniteSet(Slot)
  BY FS_Interval, CapabilitySpaceAssumption DEF Slot
<1>2. Occupied(s) \subseteq Slot
  BY DEF Occupied
<1>3. IsFiniteSet(Occupied(s))
  BY <1>1, <1>2, FS_Subset
<1>4. Cardinality(Occupied(s)) \in Nat
  BY <1>3, FS_CardinalityType
<1>5. Slot \subseteq Nat
  BY CapabilitySpaceAssumption DEF Slot
<1> QED
  BY <1>2, <1>3, <1>4, <1>5

LEMMA LowestIs ==
  ASSUME NEW S, S \subseteq Nat, S # {}
  PROVE  Lowest(S) \in S /\ \A j \in S : Lowest(S) <= j
BY Least DEF Lowest

LEMMA EmptyGood ==
  ASSUME NEW h
  PROVE  Good(h, 0, SpaceEmpty)
<1>1. SpaceEmpty.slots = [i \in Slot |-> NoCap] /\ SpaceEmpty.count = 0
  BY DEF SpaceEmpty
<1>2. Occupied(SpaceEmpty) = {}
  BY <1>1 DEF Occupied
<1> QED
  BY <1>1, <1>2, FS_EmptySet DEF Good

LEMMA InsertGood ==
  ASSUME NEW h, NEW n, NEW s, Good(h, n, s), NEW cap \in CapSet,
         cap.rights \subseteq MintedBy(h, n, cap.token)
  PROVE  Good(h, n, insert(s, cap))
<1> DEFINE free == Slot \ Occupied(s)
           t    == insert(s, cap)
           x    == Lowest(free)
<1>1. CASE free = {}
  BY <1>1 DEF insert
<1>2. CASE free # {}
  <2>1. x \in free
    BY <1>2, OccupiedFinite, LowestIs
  <2>2. t = [slots |-> [s.slots EXCEPT ![x] = cap], count |-> s.count + 1]
    BY <1>2 DEF insert
  <2>3. t.slots = [s.slots EXCEPT ![x] = cap] /\ t.count = s.count + 1
    BY <2>2
  <2> HIDE DEF t, x
  <2>4. t.slots \in [Slot -> {NoCap} \cup CapSet]
    BY <2>1, <2>3 DEF Good
  <2>5. \A i \in Slot : t.slots[i] = IF i = x THEN cap ELSE s.slots[i]
    BY <2>1, <2>3 DEF Good
  <2>6. Occupied(t) = Occupied(s) \cup {x} /\ x \notin Occupied(s)
    BY <2>1, <2>5, CapIsSome DEF Occupied
  <2>7. Cardinality(Occupied(t)) = Cardinality(Occupied(s)) + 1
    BY <2>6, OccupiedFinite, FS_AddElement
  <2>8. \A i \in Occupied(t) : t.slots[i].rights \subseteq MintedBy(h, n, t.slots[i].token)
    BY <2>1, <2>5, <2>6 DEF Good, Occupied
  <2>9. t.count \in Nat /\ t.count <= Cardinality(Occupied(t))
    BY <2>3, <2>7, OccupiedFinite DEF Good
  <2>10. Good(h, n, t)
    BY <2>4, <2>8, <2>9 DEF Good
  <2> QED
    BY <2>10 DEF t
<1> QED
  BY <1>1, <1>2

LEMMA RevokeGood ==
  ASSUME NEW h, NEW n, NEW s, Good(h, n, s), NEW idx
  PROVE  Good(h, n, revoke(s, idx))
<1> DEFINE t == revoke(s, idx)
<1>1. CASE idx \notin Slot
  BY <1>1 DEF revoke
<1>2. CASE idx \in Slot
  <2>1. t = [slots |-> [s.slots EXCEPT ![idx] = NoCap], count |-> SatSub(s.count, 1)]
    BY <1>2 DEF revoke
  <2>2. t.slots = [s.slots EXCEPT ![idx] = NoCap] /\ t.count = SatSub(s.count, 1)
    BY <2>1
  <2> HIDE DEF t
  <2>3. t.slots \in [Slot -> {NoCap} \cup CapSet]
    BY <1>2, <2>2 DEF Good
  <2>4. \A i \in Slot : t.slots[i] = IF i = idx THEN NoCap ELSE s.slots[i]
    BY <1>2, <2>2 DEF Good
  <2>5. Occupied(t) = Occupied(s) \ {idx}
    BY <2>4 DEF Occupied
  <2>6. Cardinality(Occupied(t)) = IF idx \in Occupied(s) THEN Cardinality(Occupied(s)) - 1
                                   ELSE Cardinality(Occupied(s))
    BY <2>5, OccupiedFinite, FS_RemoveElement
  <2>7. \A i \in Occupied(t) : t.slots[i].rights \subseteq MintedBy(h, n, t.slots[i].token)
    BY <2>4, <2>5 DEF Good, Occupied
  <2>8. t.count \in Nat /\ t.count <= Cardinality(Occupied(t))
    <3>1. Cardinality(Occupied(s)) \in Nat /\ Cardinality(Occupied(t)) \in Nat
      BY OccupiedFinite
    <3> QED
      BY <2>2, <2>6, <3>1 DEF Good, SatSub
  <2>9. Good(h, n, t)
    BY <2>3, <2>7, <2>8 DEF Good
  <2> QED
    BY <2>9 DEF t
<1> QED
  BY <1>1, <1>2

LEMMA LaterGood ==
  ASSUME NEW h, NEW n \in Nat, NEW s, Good(h, n, s)
  PROVE  Good(h, n + 1, s)
<1>1. \A t : MintedBy(h, n, t) \subseteq MintedBy(h, n + 1, t)
  BY DEF MintedBy
<1> QED
  BY <1>1 DEF Good

LEMMA AfterGood ==
  ASSUME NEW h \in [1 .. HistoryLength -> Step], NEW n \in Nat, n < HistoryLength,
         NEW s, Good(h, n, s)
  PROVE  Good(h, n + 1, After(s, h[n + 1]))
<1> DEFINE e == h[n + 1]
<1>0. e \in Step
  BY CapabilitySpaceAssumption
<1>1. Good(h, n + 1, s)
  BY LaterGood
<1>2. CASE e.op = "mint"
  <2>1. e.token \in Token /\ e.rights \in SUBSET Right
    BY <1>0, <1>2 DEF Step
  <2>2. Cap(e.token, e.rights) \in CapSet
    BY <2>1 DEF Cap, CapSet
  <2>3. Cap(e.token, e.rights).token = e.token /\ Cap(e.token, e.rights).rights = e.rights
    BY DEF Cap
  <2>4. e.rights \subseteq MintedBy(h, n + 1, e.token)
    BY <1>2 DEF MintedBy
  <2> HIDE DEF e
  <2>5. After(s, e) = insert(s, Cap(e.token, e.rights))
    BY <1>2 DEF After
  <2> QED
    BY <1>1, <2>2, <2>3, <2>4, <2>5, InsertGood DEF e
<1>3. CASE e.op = "revoke"
  BY <1>1, <1>3, RevokeGood DEF After
<1>4. CASE e.op = "derive"
  <2> DEFINE c == s.slots[e.idx]
             d == derive(c, e.rights)
  <2>1. e.idx \in Slot /\ e.rights \in SUBSET Right
    BY <1>0, <1>4 DEF Step
  <2>2. CASE c = NoCap \/ d = NoCap
    BY <1>1, <1>4, <2>2 DEF After
  <2>3. CASE c # NoCap /\ d # NoCap
    <3>1. After(s, e) = insert(s, d)
      BY <1>4, <2>3 DEF After
    <3>2. c \in CapSet /\ e.idx \in Occupied(s)
      BY <2>1, <2>3 DEF Good, Occupied
    <3>3. d = Cap(c.token, c.rights \cap e.rights)
      BY <2>3 DEF derive
    <3>4. c.rights \subseteq MintedBy(h, n + 1, c.token)
      BY <1>1, <3>2 DEF Good
    <3> HIDE DEF c, d
    <3>5. d \in CapSet /\ d.token = c.token /\ d.rights \subseteq c.rights
      BY <3>2, <3>3 DEF Cap, CapSet
    <3>6. d.rights \subseteq MintedBy(h, n + 1, d.token)
      BY <3>4, <3>5
    <3> QED
      BY <1>1, <3>1, <3>5, <3>6, InsertGood
  <2> QED
    BY <2>2, <2>3
<1> QED
  BY <1>0, <1>2, <1>3, <1>4 DEF Step

LEMMA ReplayGood ==
  ASSUME NEW h \in [1 .. HistoryLength -> Step]
  PROVE  Good(h, HistoryLength, Replay(h))
<1>1. PICK f : IsRun(h, f, HistoryLength) /\ Replay(h) = f[HistoryLength]
  BY ReplayIsRun
<1>2. \A k \in 0 .. HistoryLength :
        f[k] = IF k = 0 THEN SpaceEmpty ELSE After(f[k - 1], h[k])
  BY <1>1 DEF IsRun
<1> DEFINE S == {k \in 0 .. HistoryLength : ~Good(h, k, f[k])}
<1>3. S = {}
  <2> SUFFICES ASSUME S # {} PROVE FALSE
    OBVIOUS
  <2>0. S \subseteq Nat
    BY CapabilitySpaceAssumption
  <2>1. PICK k \in S : \A j \in S : k <= j
    BY <2>0, Least
  <2>2. k # 0
    BY <1>2, <2>1, EmptyGood, CapabilitySpaceAssumption
  <2>3. k - 1 \in Nat /\ k - 1 < HistoryLength /\ (k - 1) + 1 = k
    BY <2>1, <2>2, CapabilitySpaceAssumption
  <2>4. Good(h, k - 1, f[k - 1])
    BY <2>1, <2>2, CapabilitySpaceAssumption
  <2>5. Good(h, (k - 1) + 1, After(f[k - 1], h[(k - 1) + 1]))
    BY <2>3, <2>4, AfterGood
  <2>6. f[k] = After(f[k - 1], h[k])
    BY <1>2, <2>1, <2>2
  <2> QED
    BY <2>1, <2>3, <2>5, <2>6
<1> QED
  BY <1>1, <1>3, CapabilitySpaceAssumption

LEMMA FindResult ==
  ASSUME NEW h, NEW n, NEW s, Good(h, n, s), NEW t \in Token
  PROVE  LET i == find_by_token(s, t)
         IN  IF i = -1 THEN \A j \in Occupied(s) : s.slots[j].token # t
             ELSE /\ s.slots[i].token = t
                  /\ \A j \in 0 .. i - 1 : s.slots[j] = NoCap \/ s.slots[j].token # t
<1> DEFINE found == {i \in Occupied(s) : s.slots[i].token = t /\ t # 0}
           i     == find_by_token(s, t)
<1>1. t # 0 /\ Slot \subseteq Nat /\ Occupied(s) \subseteq Slot
  BY OccupiedFinite, CapabilitySpaceAssumption
<1>2. CASE found = {}
  <2>1. i = -1
    BY <1>2 DEF find_by_token
  <2> QED
    BY <1>1, <1>2, <2>1
<1>3. CASE found # {}
  <2>1. i = Lowest(found)
    BY <1>3 DEF find_by_token
  <2>2. i \in found /\ \A j \in found : i <= j
    BY <1>1, <1>3, <2>1, LowestIs
  <2>3. i \in Slot /\ i # -1 /\ s.slots[i].token = t
    BY <1>1, <2>2
  <2> HIDE DEF i
  <2>4. ASSUME NEW j \in 0 .. i - 1 PROVE s.slots[j] = NoCap \/ s.slots[j].token # t
    <3>1. j \in Slot /\ ~(i <= j)
      BY <2>3, CapabilitySpaceAssumption DEF Slot
    <3>2. j \notin found
      BY <2>2, <3>1
    <3> QED
      BY <1>1, <3>1, <3>2 DEF Occupied
  <2> QED
    BY <2>3, <2>4 DEF i
<1> QED
  BY <1>2, <1>3

LEMMA RightsHold == NeverAmplified
<1> SUFFICES ASSUME NEW h \in [1 .. HistoryLength -> Step]
             PROVE  LET s == Replay(h)
                        minted(t) == UNION {h[n].rights :
                              n \in {m \in 1 .. HistoryLength :
                                       h[m].op = "mint" /\ h[m].token = t}}
                    IN  /\ \A i \in Occupied(s) :
                             s.slots[i].rights \subseteq minted(s.slots[i].token)
                        /\ s.count <= Cardinality(Occupied(s))
                        /\ \A t \in Token :
                             LET i == find_by_token(s, t)
                             IN  IF i = -1 THEN \A j \in Occupied(s) : s.slots[j].token # t
                                 ELSE /\ s.slots[i].token = t
                                      /\ \A j \in 0 .. i - 1 : s.slots[j] = NoCap
                                                               \/ s.slots[j].token # t
  BY DEF NeverAmplified
<1> DEFINE s == Replay(h)
<1>1. Good(h, HistoryLength, s)
  BY ReplayGood
<1> HIDE DEF s
<1>2. /\ \A i \in Occupied(s) :
           s.slots[i].rights \subseteq MintedBy(h, HistoryLength, s.slots[i].token)
      /\ s.count <= Cardinality(Occupied(s))
  BY <1>1 DEF Good
<1>3. ASSUME NEW t \in Token
      PROVE  LET i == find_by_token(s, t)
             IN  IF i = -1 THEN \A j \in Occupied(s) : s.slots[j].token # t
                 ELSE /\ s.slots[i].token = t
                      /\ \A j \in 0 .. i - 1 : s.slots[j] = NoCap \/ s.slots[j].token # t
  BY <1>1, FindResult
<1> QED
  BY <1>2, <1>3 DEF MintedBy, s

(* THEOREM RightsOnlyShrink: for any number of slots, tokens, rights and   *)
(* steps, whatever was minted, derived and revoked in a CapabilitySpace,   *)
(* the rights in it were minted for the token they stand beside, and       *)
(* find_by_token finds the lowest slot of a token.                         *)
THEOREM RightsOnlyShrink == Spec => []RightsAttenuate
<1>1. RightsAttenuate
  BY RightsHold DEF RightsAttenuate
<1> QED
  BY <1>1, PTL
=============================================================================
