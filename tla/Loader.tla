------------------------------- MODULE Loader -------------------------------
(***************************************************************************)
(* Steps 7 to 9 and 16 of _kernel_start and process.rs: the kernel builds  *)
(* its linear map and maps its sections, ignoring what fails; then it      *)
(* spawns user processes from ELF files and flat payloads, until it enters *)
(* one.  Nothing runs beside it: each call is one step.  The call of       *)
(* activate is commented out, so memory is reached through the boot        *)
(* identity map all along.  Octet o of a file or payload is written o + 1. *)
(***************************************************************************)
EXTENDS Elf
LOCAL INSTANCE SequencesExt

CONSTANTS
  MAX_PROCESSES,             \* 4
  DEFAULT_USER_ENTRY,        \* 0x40_0000
  DEFAULT_USER_STACK_SIZE,   \* 64 KiB
  DEFAULT_PHYS_MAP_OFFSET,   \* the start of the upper half
  KERNEL_VMA_BASE,           \* 0xFFFF_FFFF_8000_0000
  KERNEL_ADDR_SPACE,         \* physical address of the kernel's root table
  LOW_END,                   \* 0x10_0000
  BootStack,                 \* boot_stack_range(), physical: [bottom, top]
  Sections,                  \* section boundaries of linker.ld, as addresses
  IstGuards,                 \* guard pages of the IST stacks
  Kaslr,                     \* offsets parse_kaslr_offset may return, 0 for None
  Maps,                      \* usable regions the firmware may report
  Files,                     \* ELF files
  Payloads,                  \* lengths of flat payloads
  MAX_SPAWNS                 \* bound on the calls

VARIABLES
  pc,          \* "mmu", "linear", "sections", "run", "ring3" or "halt"
  highest,     \* memory_map.highest_addr()
  offset,      \* PHYS_MAP_OFFSET
  m,           \* allocator, page tables and memory
  PROCESSES,   \* slots
  result,      \* of the last spawn
  asked,       \* history: the file or the length it was called with
  spawns,      \* history: calls made
  loaded       \* history: the segments each process was made from

vars == <<pc, highest, offset, m, PROCESSES, result, asked, spawns, loaded>>

DEFAULT_USER_STACK_TOP == USER_END - PAGE_SIZE
Slot == 0 .. MAX_PROCESSES - 1
none == <<>>
Pages(n) == [k \in 1 .. n |-> k - 1]
RoundUp(n) == PAGE_SIZE * ((n + PAGE_SIZE - 1) \div PAGE_SIZE)

(* Steps 1 to 6 leave the frames of a usable region free, except the first *)
(* MiB and the image; old octets are in them.                              *)
Booted(map) ==
  LET usable == mark_range_free(AllocatorNew, map.base, map.length)
      image_end == Sections.kernel_end - KERNEL_VMA_BASE
  IN  [alloc  |-> mark_range_used(mark_range_used(usable, 0, LOW_END), LOW_END,
                                  image_end - LOW_END),
       tables |-> [t \in {PAGE_SIZE * f : f \in Frame} |-> EmptyTable],
       data   |-> [a \in 0 .. PAGE_SIZE * MAX_FRAMES - 1 |-> -1]]

Init ==
  /\ pc = "mmu" /\ offset = 0 /\ result = "none" /\ asked = none /\ spawns = 0
  /\ \E map \in Maps : m = Booted(map) /\ highest = map.base + map.length
  /\ PROCESSES = [s \in Slot |-> none]
  /\ loaded = [s \in Slot |-> none]

initialize ==
  /\ pc = "mmu" /\ pc' = "linear"
  /\ \E kaslr_offset \in Kaslr :
       LET raw == IF kaslr_offset = 0 THEN DEFAULT_PHYS_MAP_OFFSET ELSE kaslr_offset
       IN  offset' = raw - (raw % SIZE_2MIB)
  /\ UNCHANGED <<highest, m, PROCESSES, result, asked, spawns, loaded>>

RW == {"PRESENT", "WRITABLE", "NO_EXECUTE"}

(* Faulty variant: the count of pages is rounded down.                     *)
build_linear_map_Short ==
  LET page_count == Lesser(highest, PAGE_SIZE * MAX_FRAMES) \div SIZE_2MIB
      Page(s, i) == IF s.r # "Ok" THEN s
                    ELSE map_2mib_page(s.m, KERNEL_ADDR_SPACE, offset + i * SIZE_2MIB,
                                       i * SIZE_2MIB, RW)
  IN  /\ pc = "linear" /\ pc' = "sections"
      /\ m' = FoldLeft(Page, Outcome("Ok", m), Pages(page_count)).m
      /\ UNCHANGED <<highest, offset, PROCESSES, result, asked, spawns, loaded>>

(* The first failure ends the loop; the caller drops the verdict.          *)
build_linear_map ==
  LET page_count == (Lesser(highest, PAGE_SIZE * MAX_FRAMES) + SIZE_2MIB - 1) \div SIZE_2MIB
      Page(s, i) == IF s.r # "Ok" THEN s
                    ELSE map_2mib_page(s.m, KERNEL_ADDR_SPACE, offset + i * SIZE_2MIB,
                                       i * SIZE_2MIB, RW)
  IN  /\ pc = "linear" /\ pc' = "sections"
      /\ m' = FoldLeft(Page, Outcome("Ok", m), Pages(page_count)).m
      /\ UNCHANGED <<highest, offset, PROCESSES, result, asked, spawns, loaded>>

SectionFlags(va) ==
  IF va < Sections.rodata_start THEN {"PRESENT"}
  ELSE IF va < Sections.data_start THEN {"PRESENT", "NO_EXECUTE"}
  ELSE RW

(* Page by page; a failure is dropped and the loop goes on.                *)
map_kernel_sections ==
  LET pages == (Sections.kernel_end - Sections.text_start) \div PAGE_SIZE
      Page(mem, i) ==
        LET va == Sections.text_start + i * PAGE_SIZE
        IN  IF va >= Sections.bss_start /\ va \in IstGuards THEN mem
            ELSE map_page(mem, KERNEL_ADDR_SPACE, va, va - KERNEL_VMA_BASE, SectionFlags(va)).m
  IN  /\ pc = "sections" /\ pc' = "run"
      /\ m' = FoldLeft(Page, m, Pages(pages))
      /\ UNCHANGED <<highest, offset, PROCESSES, result, asked, spawns, loaded>>

-----------------------------------------------------------------------------

(* -1 for None.                                                            *)
find_free_slot ==
  LET empty == {s \in Slot : PROCESSES[s] = none} IN IF empty = {} THEN -1 ELSE First(empty)

map_boot_stack_identity(mem, root) ==
  LET Page(s, i) == LET va == BootStack.bottom + i * PAGE_SIZE
                    IN  IF s.r # "Ok" THEN s ELSE map_page(s.m, root, va, va, RW)
  IN  FoldLeft(Page, Outcome("Ok", mem), Pages((BootStack.top - BootStack.bottom) \div PAGE_SIZE))

alloc_user_address_space(mem) ==
  LET a == AllocFrame(mem)
      s == map_boot_stack_identity(inherit_kernel_mappings(a.m, a.phys, KERNEL_ADDR_SPACE),
                                   a.phys)
  IN  IF ~a.ok THEN Reached("PmAllocFailed", mem, 0) ELSE Reached(s.r, s.m, a.phys)

(* Faulty variant: one frame for all the pages of the region.              *)
map_user_region_Reuse(mem, root, base, pages, writable) ==
  LET a == AllocFrame(mem)
      Page(s, i) == IF s.r # "Ok" THEN s
                    ELSE map_user_page(s.m, root, base + i * PAGE_SIZE, a.phys, writable)
  IN  IF ~is_user_va(base) THEN Outcome("BadAddress", mem)
      ELSE IF ~a.ok THEN Outcome("PmAllocFailed", mem)
      ELSE FoldLeft(Page, Outcome("Ok", a.m), Pages(pages))

(* A frame taken for a page that cannot be mapped stays taken.             *)
map_user_region(mem, root, base, pages, writable) ==
  LET Page(s, i) ==
        LET a == AllocFrame(s.m)
        IN  IF s.r # "Ok" THEN s
            ELSE IF ~a.ok THEN Outcome("PmAllocFailed", s.m)
            ELSE map_user_page(a.m, root, base + i * PAGE_SIZE, a.phys, writable)
  IN  IF ~is_user_va(base) THEN Outcome("BadAddress", mem)
      ELSE FoldLeft(Page, Outcome("Ok", mem), Pages(pages))

(* The octets [from, from + length) of the source to the pages at va; the  *)
(* region has just been mapped, to frames of its own.                      *)
Copied(mem, root, va, from, length) ==
  LET Target(k) == walk_to_phys(mem.tables, root, va + k - ((va + k) % PAGE_SIZE))
                     + ((va + k) % PAGE_SIZE)
      written == {Target(k) : k \in 0 .. length - 1}
      Source(a) == CHOOSE k \in 0 .. length - 1 : Target(k) = a
  IN  IF \E k \in 0 .. length - 1 : Target(k) < 0 THEN Outcome("BadAddress", mem)
      ELSE Outcome("Ok", [mem EXCEPT !.data =
             [a \in DOMAIN @ |-> IF a \in written THEN from + Source(a) + 1 ELSE @[a]]])

load_flat_payload(mem, root, base, length, writable) ==
  LET pages == RoundUp(length) \div PAGE_SIZE
      region == map_user_region(mem, root, base, pages, writable)
  IN  IF ~is_user_va(base) \/ pages = 0 THEN Outcome("BadAddress", mem)
      ELSE IF region.r # "Ok" THEN region
      ELSE Copied(region.m, root, base, 0, length)

(* Faulty variant: the whole of p_memsz is copied.                         *)
load_segment_NoBss(mem, root, ph) ==
  LET va_start == ph.p_vaddr - (ph.p_vaddr % PAGE_SIZE)
      va_end == RoundUp(ph.p_vaddr + ph.p_memsz)
      region == map_user_region(mem, root, va_start, (va_end - va_start) \div PAGE_SIZE,
                                is_writable(ph))
  IN  IF region.r # "Ok" THEN region
      ELSE Copied(region.m, root, ph.p_vaddr, ph.p_offset, ph.p_memsz)

load_segment(mem, root, ph) ==
  LET va_start == ph.p_vaddr - (ph.p_vaddr % PAGE_SIZE)
      va_end == RoundUp(ph.p_vaddr + ph.p_memsz)
      region == map_user_region(mem, root, va_start, (va_end - va_start) \div PAGE_SIZE,
                                is_writable(ph))
  IN  IF region.r # "Ok" THEN region
      ELSE Copied(region.m, root, ph.p_vaddr, ph.p_offset, ph.p_filesz)

map_user_stack(mem, root, top, size) ==
  IF size = 0 \/ size % PAGE_SIZE # 0 \/ top < size \/ ~is_user_va(top - size)
  THEN Outcome("BadAddress", mem)
  ELSE map_user_region(mem, root, top - size, size \div PAGE_SIZE, TRUE)

-----------------------------------------------------------------------------

(* Once the contents are in: the stack, and the slot.  A failure anywhere  *)
(* returns at once and gives nothing back.                                 *)
Finish(slot, root, contents, entry, segments) ==
  LET s == IF contents.r # "Ok" THEN contents
           ELSE map_user_stack(contents.m, root, DEFAULT_USER_STACK_TOP,
                               DEFAULT_USER_STACK_SIZE)
  IN  /\ m' = s.m /\ result' = s.r
      /\ IF s.r = "Ok"
         THEN /\ PROCESSES' = [PROCESSES EXCEPT ![slot] =
                   [pml4_phys |-> root, entry_rip |-> entry,
                    user_rsp |-> DEFAULT_USER_STACK_TOP]]
              /\ loaded' = [loaded EXCEPT ![slot] = segments]
         ELSE UNCHANGED <<PROCESSES, loaded>>

spawn_flat(length) ==
  LET slot == find_free_slot
      space == alloc_user_address_space(m)
      contents == IF space.r # "Ok" THEN Outcome(space.r, space.m)
                  ELSE load_flat_payload(space.m, space.table, DEFAULT_USER_ENTRY, length, FALSE)
      all == [p_vaddr |-> DEFAULT_USER_ENTRY, p_memsz |-> length, p_filesz |-> length,
              p_offset |-> 0, p_flags |-> {"R", "X"}]
  IN  /\ pc = "run" /\ spawns < MAX_SPAWNS
      /\ IF slot = -1
         THEN result' = "SlotsFull" /\ UNCHANGED <<m, PROCESSES, loaded>>
         ELSE Finish(slot, space.table, contents, DEFAULT_USER_ENTRY, <<all>>)
      /\ asked' = [length |-> length] /\ spawns' = spawns + 1
      /\ UNCHANGED <<pc, highest, offset>>

(* Faulty variant: the slot is looked for once the memory is set up.       *)
spawn_elf_LateSlot(f) ==
  LET image == parse(f)
      slot == find_free_slot
      space == alloc_user_address_space(m)
      Load(s, ph) == IF s.r # "Ok" THEN s ELSE load_segment(s.m, space.table, ph)
      contents == FoldLeft(Load, Outcome(space.r, space.m), image.loads)
  IN  /\ pc = "run" /\ spawns < MAX_SPAWNS
      /\ IF image.r # "Ok"
         THEN result' = image.r /\ UNCHANGED <<m, PROCESSES, loaded>>
         ELSE IF slot = -1
         THEN result' = "SlotsFull" /\ m' = contents.m /\ UNCHANGED <<PROCESSES, loaded>>
         ELSE Finish(slot, space.table, contents, f.entry, image.loads)
      /\ asked' = f /\ spawns' = spawns + 1
      /\ UNCHANGED <<pc, highest, offset>>

spawn_elf(f) ==
  LET image == parse(f)
      slot == find_free_slot
      space == alloc_user_address_space(m)
      Load(s, ph) == IF s.r # "Ok" THEN s ELSE load_segment(s.m, space.table, ph)
      contents == FoldLeft(Load, Outcome(space.r, space.m), image.loads)
  IN  /\ pc = "run" /\ spawns < MAX_SPAWNS
      /\ IF image.r # "Ok"
         THEN result' = image.r /\ UNCHANGED <<m, PROCESSES, loaded>>
         ELSE IF slot = -1
         THEN result' = "SlotsFull" /\ UNCHANGED <<m, PROCESSES, loaded>>
         ELSE Finish(slot, space.table, contents, f.entry, image.loads)
      /\ asked' = f /\ spawns' = spawns + 1
      /\ UNCHANGED <<pc, highest, offset>>

(* It does not return: the processor is the user's, or stopped.            *)
enter_ring3(pid) ==
  /\ pc = "run"
  /\ pc' = IF pid \in Slot /\ PROCESSES[pid] # none THEN "ring3" ELSE "halt"
  /\ UNCHANGED <<highest, offset, m, PROCESSES, result, asked, spawns, loaded>>

Next ==
  \/ initialize
  \/ build_linear_map
  \/ map_kernel_sections
  \/ \E length \in Payloads : spawn_flat(length)
  \/ \E f \in Files : spawn_elf(f)
  \/ \E pid \in 0 .. MAX_PROCESSES : enter_ring3(pid)

Spec == Init /\ [][Next]_vars

-----------------------------------------------------------------------------

PagesFrom(lo, hi) == {PAGE_SIZE * k : k \in lo \div PAGE_SIZE .. (hi - 1) \div PAGE_SIZE}
UserFlags(writable) ==
  {"PRESENT", "USER_ACCESSIBLE"} \cup (IF writable THEN {"WRITABLE", "NO_EXECUTE"} ELSE {})

SegmentPages(seg) ==
  IF seg.p_memsz = 0 THEN {} ELSE PagesFrom(seg.p_vaddr, seg.p_vaddr + seg.p_memsz)
BootStackPages == PagesFrom(BootStack.bottom, BootStack.top)
StackSegment ==
  [p_vaddr |-> DEFAULT_USER_STACK_TOP - DEFAULT_USER_STACK_SIZE,
   p_memsz |-> DEFAULT_USER_STACK_SIZE, p_filesz |-> 0, p_offset |-> 0,
   p_flags |-> {"R", "W"}]

(* What address a of a segment holds: the file's octet, or 0 in its bss.   *)
Octet(seg, a) ==
  IF a < seg.p_vaddr + seg.p_filesz THEN seg.p_offset + (a - seg.p_vaddr) + 1 ELSE 0

IsPageOf(seg, root, va) ==
  LET leaf == Leaf(m.tables, root, va)
  IN  /\ leaf # unused /\ leaf.flags = UserFlags(is_writable(seg))
      /\ \A k \in 0 .. PAGE_SIZE - 1 : m.data[leaf.phys + k] = Octet(seg, va + k)

(* A process that spawn_elf or spawn_flat has put into a slot has exactly  *)
(* the pages of its segments, each with the file's octets followed by      *)
(* zeros, a zeroed stack, the boot stack at its own address for the kernel *)
(* alone, nothing else in the lower half, and the kernel's upper half -    *)
(* whatever was spawned, or failed to, before and after.  Of the rights it *)
(* says what the leaves have: W^X by PF_W alone.  A segment without PF_W   *)
(* gets a leaf without NO_EXECUTE, also when it has no PF_X, which         *)
(* load_segment does not read.                                             *)
AddressSpaceExact ==
  \A s \in Slot : PROCESSES[s] # none =>
    LET root == PROCESSES[s].pml4_phys
        segments == Append(loaded[s], StackSegment)
        mapped == UNION {SegmentPages(segments[i]) : i \in DOMAIN segments}
    IN  /\ \A i \in DOMAIN segments : \A va \in SegmentPages(segments[i]) :
             IsPageOf(segments[i], root, va)
        /\ \A va \in BootStackPages : Leaf(m.tables, root, va) = PageTableEntry(va, RW)
        /\ \A va \in PagesFrom(0, USER_END) \ (mapped \cup BootStackPages) :
             Leaf(m.tables, root, va) = unused
        /\ \A va \in PagesFrom(USER_END, U64_END) :
             Leaf(m.tables, root, va) = Leaf(m.tables, KERNEL_ADDR_SPACE, va)

(* The entries below a root, seen from the slots I of it, and the frames   *)
(* they point at: tables, and the pages of the process.                    *)
EntriesOf(t, I) ==
  {<<t, i>> : i \in {j \in I : m.tables[t][j] # unused /\ "HUGE_PAGE" \notin m.tables[t][j].flags}}
Targets(places) == {m.tables[p[1]][p[2]].phys : p \in places}
Tree(root, I) ==
  LET l4 == EntriesOf(root, I)
      l3 == UNION {EntriesOf(t, Index) : t \in Targets(l4)}
      l2 == UNION {EntriesOf(t, Index) : t \in Targets(l3)}
      l1 == UNION {EntriesOf(t, Index) : t \in Targets(l2)}
  IN  [tables |-> l4 \cup l3 \cup l2,
       pages  |-> {p \in l1 : "USER_ACCESSIBLE" \in m.tables[p[1]][p[2]].flags}]
LowerHalf == 0 .. TABLE_ENTRIES \div 2 - 1
UserTree(s) == Tree(PROCESSES[s].pml4_phys, LowerHalf)
FramesOf(s) ==
  {PROCESSES[s].pml4_phys} \cup Targets(UserTree(s).tables \cup UserTree(s).pages)
KernelFrames == Targets(Tree(KERNEL_ADDR_SPACE, Index).tables)
ImageFrames == PagesFrom(LOW_END, Sections.kernel_end - KERNEL_VMA_BASE)
FreeFrames == {PAGE_SIZE * f : f \in m.alloc.free}

(* Every frame a process holds, as a table or as a page, is pointed at by  *)
(* one entry of one process, was taken from the allocator, and is neither  *)
(* a table of the kernel nor part of its image.                            *)
FramesOwned ==
  \A s \in Slot : PROCESSES[s] # none =>
    /\ Cardinality(FramesOf(s)) = 1 + Cardinality(UserTree(s).tables \cup UserTree(s).pages)
    /\ FramesOf(s) \cap (FreeFrames \cup KernelFrames \cup ImageFrames) = {}
    /\ \A t \in Slot \ {s} : PROCESSES[t] # none => FramesOf(s) \cap FramesOf(t) = {}

(* Once the sections are mapped, the kernel's root maps physical memory,   *)
(* as far as the bitmap reaches, at the offset, and each page of a section *)
(* but the guard pages to its frame, and nothing else; a page is missing   *)
(* only when the frames ran out, since boot goes on when map_page fails.   *)
(* Through the whole walk a page can be written just where its section or  *)
(* the linear map allows it, and never be reached from Ring 3.  Execution  *)
(* is claimed of the leaves only: the tables above forbid it everywhere.   *)
KernelMapped ==
  LET physical == SIZE_2MIB * ((Lesser(highest, PAGE_SIZE * MAX_FRAMES) + SIZE_2MIB - 1)
                                 \div SIZE_2MIB)
      Meant(va) ==
        IF va \in PagesFrom(offset, offset + physical)
        THEN PageTableEntry(va - offset - ((va - offset) % SIZE_2MIB), RW \cup {"HUGE_PAGE"})
        ELSE IF va \in PagesFrom(Sections.text_start, Sections.kernel_end) \ IstGuards
        THEN PageTableEntry(va - KERNEL_VMA_BASE, SectionFlags(va))
        ELSE unused
  IN  pc \in {"run", "ring3", "halt"} =>
        \A va \in PagesFrom(0, U64_END) :
          LET leaf == Leaf(m.tables, KERNEL_ADDR_SPACE, va)
          IN  \/ leaf = unused /\ (Meant(va) = unused \/ FreeFrames = {})
              \/ /\ leaf # unused /\ leaf = Meant(va)
                 /\ Grants(m.tables, KERNEL_ADDR_SPACE, va, "WRITABLE")
                      <=> "WRITABLE" \in leaf.flags
                 /\ ~Grants(m.tables, KERNEL_ADDR_SPACE, va, "USER_ACCESSIBLE")

(* A spawn that succeeds keeps exactly the frames its process holds.  One  *)
(* that fails leaves the slots and all that the kernel and the processes   *)
(* hold as they were; what it took stays taken, out of everyone's reach,   *)
(* and nothing is taken when parse or the search for a slot refuses.       *)
SpawnContained ==
  [][spawns' > spawns =>
       LET taken == FreeFrames \ FreeFrames'
           held == KernelFrames \cup UNION {FramesOf(s) : s \in {t \in Slot : PROCESSES[t] # none}}
       IN  IF result' = "Ok"
           THEN \E s \in Slot : /\ PROCESSES[s] = none
                                /\ FramesOf(s)' = taken
                                /\ \A t \in Slot \ {s} : PROCESSES'[t] = PROCESSES[t]
           ELSE /\ PROCESSES' = PROCESSES
                /\ taken \cap held = {}
                /\ \A f \in held \cup {KERNEL_ADDR_SPACE} :
                     /\ m'.tables[f] = m.tables[f]
                     /\ \A a \in f .. f + PAGE_SIZE - 1 : m'.data[a] = m.data[a]
                /\ result' \in {"AlreadyMapped", "PmAllocFailed", "FrameAllocFailed", "BadAddress"}
                   \/ m' = m]_vars

(* What parse has to accept: a static x86-64 file whose tables and         *)
(* segments lie in the file and in the user's half, page-aligned.          *)
WellFormed(f) ==
  /\ f.len >= EHDR_SIZE /\ f.ident = "Ok" /\ f.e_type \in {"EXEC", "DYN"}
  /\ f.phentsize = PHDR_SIZE /\ Len(f.phs) <= MAX_PROGRAM_HEADERS
  /\ f.phoff + PHDR_SIZE * Len(f.phs) <= f.len
  /\ f.entry < USER_END
  /\ \A i \in DOMAIN f.phs :
       LET ph == f.phs[i]
       IN  /\ ph.p_type \notin {"INTERP", "DYNAMIC"}
           /\ ph.p_type = "LOAD" =>
                /\ ph.p_filesz <= ph.p_memsz /\ ph.p_offset + ph.p_filesz <= f.len
                /\ ph.p_vaddr + ph.p_memsz <= USER_END
                /\ ph.p_vaddr < USER_END /\ ph.p_vaddr % PAGE_SIZE = 0
                /\ ph.p_align >= PAGE_SIZE /\ is_power_of_two(ph.p_align)

(* The frames a process with these segments takes: a root, its pages, and  *)
(* a table for every stretch of addresses one entry covers.                *)
Needed(segments) ==
  LET pages == UNION {SegmentPages(segments[i]) : i \in DOMAIN segments}
      Stretches(level) == {va \div (PAGE_SIZE * TABLE_ENTRIES ^ level) : va \in pages \cup BootStackPages}
  IN  1 + Cardinality(pages) + Cardinality(Stretches(1)) + Cardinality(Stretches(2))
        + Cardinality(Stretches(3))

Disjoint(segments) ==
  \A i \in DOMAIN segments :
    /\ SegmentPages(segments[i]) \cap BootStackPages = {}
    /\ \A j \in DOMAIN segments \ {i} : SegmentPages(segments[i]) \cap SegmentPages(segments[j]) = {}

(* A file that parse accepts, or a payload, becomes a process if a slot is *)
(* empty, no two of its segments, its stack and the boot stack share a     *)
(* page, and the allocator has the frames; the verdict tells which of      *)
(* these failed.  So no check parse passes is missed by the mapping code.  *)
SpawnOutcome ==
  [][spawns' > spawns =>
       LET flat == "length" \in DOMAIN asked'
           segments == Append(IF flat
                              THEN <<[p_vaddr |-> DEFAULT_USER_ENTRY, p_memsz |-> asked'.length]>>
                              ELSE SelectSeq(asked'.phs, LAMBDA ph : ph.p_type = "LOAD"),
                              StackSegment)
           noframes == {"PmAllocFailed", "FrameAllocFailed"}
       IN  IF ~flat /\ ~WellFormed(asked') THEN result' = parse(asked').r /\ result' # "Ok"
           ELSE IF \A s \in Slot : PROCESSES[s] # none THEN result' = "SlotsFull"
           ELSE IF flat /\ asked'.length = 0 THEN result' \in {"BadAddress"} \cup noframes
           ELSE IF ~Disjoint(segments) THEN result' \in {"AlreadyMapped"} \cup noframes
           ELSE IF Cardinality(FreeFrames) >= Needed(segments) THEN result' = "Ok"
           ELSE result' \in noframes]_vars

(* The pages map_user_page maps can be reached from Ring 3, and executed   *)
(* where they are code: every entry on the way down has to grant it.       *)
UserPagesReachable ==
  \A s \in Slot : PROCESSES[s] # none =>
    \A i \in DOMAIN loaded[s] : \A va \in SegmentPages(loaded[s][i]) :
      LET root == PROCESSES[s].pml4_phys
      IN  /\ Grants(m.tables, root, va, "USER_ACCESSIBLE")
          /\ ~is_writable(loaded[s][i]) => ~Forbids(m.tables, root, va, "NO_EXECUTE")
=============================================================================
