------------------------------- MODULE Frames -------------------------------
(***************************************************************************)
(* BitmapFrameAllocator of allocator.rs as a value: the frames whose bit   *)
(* is 0, the counter kept beside the bitmap, and the word at which the     *)
(* next scan starts.  Addresses are octets; no sum of a base and a length  *)
(* overflows u64.                                                          *)
(***************************************************************************)
EXTENDS Integers, Sequences, FiniteSets, Common

CONSTANTS
  FRAME_SIZE,    \* 4096
  MAX_FRAMES,    \* 4 GiB / FRAME_SIZE
  WORD_BITS,     \* 64
  MAX_REGIONS    \* 64

ASSUME FramesAssumption ==
  /\ FRAME_SIZE \in Nat \ {0} /\ MAX_FRAMES \in Nat \ {0}
  /\ WORD_BITS \in Nat \ {0} /\ MAX_REGIONS \in Nat \ {0}
  /\ MAX_FRAMES % WORD_BITS = 0

BITMAP_WORDS == MAX_FRAMES \div WORD_BITS

Frame == 0 .. MAX_FRAMES - 1
Word(f) == f \div WORD_BITS

(* Everything reserved.                                                    *)
AllocatorNew == [free |-> {}, free_count |-> 0, next_free_word |-> 0]

(* MemoryMap: what does not fit into its array is dropped without a word.  *)
MemoryMap(regions) == SubSeq(regions, 1, Lesser(Len(regions), MAX_REGIONS))

(* Faulty variant of Inside, for the mutation checks: the base rounded     *)
(* down.                                                                   *)
Inside_BaseDown(base, length) ==
  base \div FRAME_SIZE .. Lesser((base + length) \div FRAME_SIZE, MAX_FRAMES) - 1
(* The frames wholly inside [base, base + length), and those that overlap  *)
(* it, as far as the bitmap reaches.                                       *)
Inside(base, length) ==
  (base + FRAME_SIZE - 1) \div FRAME_SIZE
    .. Lesser((base + length) \div FRAME_SIZE, MAX_FRAMES) - 1
Touched(base, length) ==
  base \div FRAME_SIZE
    .. Lesser((base + length + FRAME_SIZE - 1) \div FRAME_SIZE, MAX_FRAMES) - 1

mark_range_free(a, base, length) ==
  LET first == (base + FRAME_SIZE - 1) \div FRAME_SIZE
      fresh == Inside(base, length) \ a.free
  IN  IF (base + length) \div FRAME_SIZE <= first THEN a
      ELSE [free           |-> a.free \cup fresh,
            free_count     |-> a.free_count + Cardinality(fresh),
            next_free_word |-> Lesser(Word(first), a.next_free_word)]

(* The hint stays: it may point at a word without a free frame.            *)
mark_range_used(a, base, length) ==
  LET taken == Touched(base, length) \cap a.free
  IN  [a EXCEPT !.free = @ \ taken,
                !.free_count = SatSub(@, Cardinality(taken))]

(* alloc scans from the hint on and takes the lowest free bit it meets.    *)
Scanned(a) == {f \in a.free : a.next_free_word <= Word(f)}
IsLowest(f, S) == f \in S /\ \A g \in S : f <= g

(* Faulty variants, for the mutation checks: alloc moves the hint past the *)
(* word, dealloc leaves it where it is.                                    *)
Taken_NextWord(a, f) ==
  [free |-> a.free \ {f}, free_count |-> a.free_count - 1,
   next_free_word |-> Word(f) + 1]
Released_HintKept(a, f) ==
  [a EXCEPT !.free = @ \cup {f}, !.free_count = @ + 1]

Taken(a, f) ==
  [free |-> a.free \ {f}, free_count |-> a.free_count - 1,
   next_free_word |-> Word(f)]

(* dealloc, of a frame that is in the bitmap and not free.                 *)
Released(a, f) ==
  [free |-> a.free \cup {f}, free_count |-> a.free_count + 1,
   next_free_word |-> Lesser(Word(f), a.next_free_word)]
=============================================================================
