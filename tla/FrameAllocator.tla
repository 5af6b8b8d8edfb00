--------------------------- MODULE FrameAllocator ---------------------------
(***************************************************************************)
(* The global frame allocator from boot on.  The kernel frees what the     *)
(* firmware calls usable, region by region, takes back the first MiB and   *)
(* its own image, and then lets page tables and processes allocate, write  *)
(* and return frames in any order.  Callers return frames they hold, or    *)
(* frames that are free or beyond the bitmap, which dealloc refuses.       *)
(***************************************************************************)
EXTENDS Frames

CONSTANTS
  Maps,          \* memory maps the firmware may report
  LOW_END,       \* 0x100000, where the kernel image starts
  KernelEnds     \* where the image may end

ASSUME FrameAllocatorAssumption ==
  /\ LOW_END \in Nat
  /\ KernelEnds \subseteq Nat /\ \A e \in KernelEnds : LOW_END <= e
  /\ \A m \in Maps : m \in Seq([base : Nat, length : Nat, kind : {"Usable", "Reserved"}])

VARIABLES
  phase,     \* where _kernel_start is: "map", "low", "kernel", then "run"
  todo,      \* regions init_from_memory_map has still to visit
  alloc,     \* FRAME_ALLOCATOR
  written,   \* frames whose octets are not all zero
  held,      \* history: frames handed out and not returned
  got,       \* history: the result of the last call, if it was alloc_frame
  regions,   \* history: the firmware's memory map
  phys_end   \* _kernel_end_phys

vars == <<phase, todo, alloc, written, held, got, regions, phys_end>>

Init ==
  /\ phase = "map"
  /\ regions \in Maps
  /\ phys_end \in KernelEnds
  /\ todo = MemoryMap(regions)
  /\ alloc = AllocatorNew
  /\ written = Frame
  /\ held = {}
  /\ got = <<>>

(* One turn of the loop of init_from_memory_map over usable_regions; the   *)
(* last turn leaves it.                                                    *)
init_from_memory_map ==
  /\ phase = "map"
  /\ IF todo = <<>>
     THEN phase' = "low" /\ UNCHANGED <<alloc, todo>>
     ELSE /\ alloc' = IF Head(todo).kind = "Usable"
                      THEN mark_range_free(alloc, Head(todo).base, Head(todo).length)
                      ELSE alloc
          /\ todo' = Tail(todo)
          /\ UNCHANGED phase
  /\ UNCHANGED <<written, held, got, regions, phys_end>>

reserve_low ==
  /\ phase = "low" /\ phase' = "kernel"
  /\ alloc' = mark_range_used(alloc, 0, LOW_END)
  /\ UNCHANGED <<todo, written, held, got, regions, phys_end>>

phys_end_aligned == FRAME_SIZE * ((phys_end + FRAME_SIZE - 1) \div FRAME_SIZE)

reserve_kernel ==
  /\ phase = "kernel" /\ phase' = "run"
  /\ alloc' = mark_range_used(alloc, LOW_END, phys_end_aligned - LOW_END)
  /\ UNCHANGED <<todo, written, held, got, regions, phys_end>>

alloc_frame ==
  /\ phase = "run"
  /\ \/ /\ Scanned(alloc) = {}
        /\ got' = <<"None">>
        /\ UNCHANGED <<alloc, written, held>>
     \/ \E f \in Scanned(alloc) :
          /\ IsLowest(f, Scanned(alloc))
          /\ alloc' = Taken(alloc, f)
          /\ written' = written \ {f}
          /\ held' = held \cup {f}
          /\ got' = <<"Some", f>>
  /\ UNCHANGED <<phase, todo, regions, phys_end>>

free_frame(f) ==
  /\ phase = "run"
  /\ \/ /\ f >= MAX_FRAMES \/ f \in alloc.free
        /\ UNCHANGED <<alloc, written, held>>
     \/ /\ f < MAX_FRAMES /\ f \notin alloc.free
        /\ f \in held
        /\ alloc' = Released(alloc, f)
        /\ written' = written \ {f}
        /\ held' = held \ {f}
  /\ got' = <<>>
  /\ UNCHANGED <<phase, todo, regions, phys_end>>

(* A holder fills its frame.                                               *)
use_frame(f) ==
  /\ f \in held
  /\ written' = written \cup {f}
  /\ got' = <<>>
  /\ UNCHANGED <<phase, todo, alloc, held, regions, phys_end>>

Next ==
  \/ init_from_memory_map
  \/ reserve_low
  \/ reserve_kernel
  \/ alloc_frame
  \/ \E f \in Frame \cup {MAX_FRAMES} : free_frame(f) \/ use_frame(f)

Spec == Init /\ [][Next]_vars
-----------------------------------------------------------------------------
(* The bitmap names frames it has, and the hint a word it has.             *)
TypeOK ==
  /\ phase \in {"map", "low", "kernel", "run"}
  /\ alloc.free \subseteq Frame
  /\ alloc.free_count \in 0 .. MAX_FRAMES
  /\ alloc.next_free_word \in 0 .. BITMAP_WORDS - 1
  /\ written \subseteq Frame /\ held \subseteq Frame

(* No free frame hides below the word where the next scan starts, and the  *)
(* counter is exact, so that its decrement in alloc cannot underflow.      *)
HintAndCountExact ==
  /\ Scanned(alloc) = alloc.free
  /\ alloc.free_count = Cardinality(alloc.free)

(* Octet x of memory, usable by the firmware's account.                    *)
Usable(x) ==
  \E k \in 1 .. Len(regions) :
    /\ regions[k].kind = "Usable"
    /\ regions[k].base <= x /\ x < regions[k].base + regions[k].length

(* Every octet of a frame that is held, or may be handed out once booted,  *)
(* is usable by the firmware's account and lies outside the first MiB and  *)
(* the kernel image, however the regions are aligned and overlap.          *)
OnlyUsableMemory ==
  phase = "run" =>
    \A f \in alloc.free \cup held :
      \A x \in FRAME_SIZE * f .. FRAME_SIZE * f + FRAME_SIZE - 1 :
        Usable(x) /\ x >= LOW_END /\ x >= phys_end

(* The allocator is a pool of frames: never one frame for two holders,     *)
(* never a refusal while a frame is free, never a frame with old contents. *)
Pool == INSTANCE FramePool WITH
  Frames <- Frame,
  ready  <- phase = "run",
  pool   <- alloc.free

AllocatorIsPool == Pool!Spec
=============================================================================
