----------------------------- MODULE PageTables -----------------------------
(***************************************************************************)
(* The four-level page tables of arch/x86_64/mmu.rs as values.  A memory m *)
(* is the frame allocator, the entries each frame has when it is a table,  *)
(* named by its physical address, and the octets of all frames.  The       *)
(* non-canonical gap is left out: the upper half of the virtual addresses  *)
(* follows the lower one, and the two are all of u64.  Flags are sets.     *)
(***************************************************************************)
EXTENDS Frames

CONSTANT TABLE_ENTRIES   \* 512

ASSUME PageTablesAssumption == TABLE_ENTRIES \in Nat \ {0} /\ TABLE_ENTRIES % 2 = 0

PAGE_SIZE == FRAME_SIZE
SIZE_2MIB == PAGE_SIZE * TABLE_ENTRIES
USER_END == (PAGE_SIZE * TABLE_ENTRIES ^ 4) \div 2   \* 0x0000_8000_0000_0000
U64_END == 2 * USER_END

Index == 0 .. TABLE_ENTRIES - 1
unused == <<>>
EmptyTable == [i \in Index |-> unused]
PageTableEntry(phys, flags) == [phys |-> phys, flags |-> flags]

is_user_va(va) == va < USER_END /\ va % PAGE_SIZE = 0

index(va, level) == (va \div (PAGE_SIZE * TABLE_ENTRIES ^ (level - 1))) % TABLE_ENTRIES

(* alloc_frame: the lowest frame from the hint on, zeroed.                 *)
ZeroedFrame(m, f) ==
  [ok |-> TRUE, phys |-> PAGE_SIZE * f,
   m |-> [alloc  |-> Taken(m.alloc, f),
          tables |-> [m.tables EXCEPT ![PAGE_SIZE * f] = EmptyTable],
          data   |-> [a \in DOMAIN m.data |->
                        IF a \div PAGE_SIZE = f THEN 0 ELSE m.data[a]]]]
AllocFrame(m) ==
  IF Scanned(m.alloc) = {} THEN [ok |-> FALSE, phys |-> 0, m |-> m]
  ELSE ZeroedFrame(m, CHOOSE f \in Scanned(m.alloc) : IsLowest(f, Scanned(m.alloc)))

(* PageTableEntry::set and set_huge: a writable entry is no-execute.       *)
set(phys, flags) ==
  PageTableEntry(phys, IF "WRITABLE" \in flags THEN flags \cup {"NO_EXECUTE"} ELSE flags)

WithEntry(m, table, i, e) == [m EXCEPT !.tables[table][i] = e]

(* Results of the walks: a verdict, the memory, and the table reached.     *)
Outcome(r, m) == [r |-> r, m |-> m]
Reached(r, m, table) == [r |-> r, m |-> m, table |-> table]

NewTable(a, table, i) ==
  LET mid_flags == {"PRESENT", "WRITABLE", "NO_EXECUTE"}
  IN  IF ~a.ok THEN Reached("FrameAllocFailed", a.m, table)
      ELSE Reached("Ok", WithEntry(a.m, table, i, set(a.phys, mid_flags)), a.phys)
alloc_or_get_table(m, table, i) ==
  LET entry == m.tables[table][i]
  IN  IF entry = unused THEN NewTable(AllocFrame(m), table, i)
      ELSE IF "HUGE_PAGE" \in entry.flags THEN Reached("AlreadyMapped", m, table)
      ELSE Reached("Ok", m, entry.phys)

(* One more level down, unless an upper one failed.                        *)
Descend(s, va, level) ==
  IF s.r # "Ok" THEN s ELSE alloc_or_get_table(s.m, s.table, index(va, level))

(* The leaf, in the last table reached.                                    *)
SetLeaf(s, i, e) ==
  IF s.r # "Ok" THEN Outcome(s.r, s.m)
  ELSE IF s.m.tables[s.table][i] # unused THEN Outcome("AlreadyMapped", s.m)
  ELSE Outcome("Ok", WithEntry(s.m, s.table, i, e))

map_page(m, root, va, phys, flags) ==
  IF va % PAGE_SIZE # 0 \/ phys % PAGE_SIZE # 0 THEN Outcome("UnalignedAddress", m)
  ELSE IF "WRITABLE" \in flags /\ "NO_EXECUTE" \notin flags
    THEN Outcome("WxPolicyViolation", m)
  ELSE SetLeaf(Descend(Descend(Descend(Reached("Ok", m, root), va, 4), va, 3), va, 2),
               index(va, 1), set(phys, flags \cup {"PRESENT"}))

map_user_page(m, root, va, phys, writable) ==
  IF ~is_user_va(va) THEN Outcome("UnalignedAddress", m)
  ELSE map_page(m, root, va, phys,
                {"PRESENT", "USER_ACCESSIBLE"}
                  \cup (IF writable THEN {"WRITABLE", "NO_EXECUTE"} ELSE {}))

map_2mib_page(m, root, va, phys, flags) ==
  IF va % SIZE_2MIB # 0 \/ phys % SIZE_2MIB # 0 THEN Outcome("UnalignedAddress", m)
  ELSE IF "WRITABLE" \in flags /\ "NO_EXECUTE" \notin flags
    THEN Outcome("WxPolicyViolation", m)
  ELSE SetLeaf(Descend(Descend(Reached("Ok", m, root), va, 4), va, 3),
               index(va, 2), set(phys, flags \cup {"PRESENT", "HUGE_PAGE"}))

(* The upper half of a new root is that of another.                        *)
inherit_kernel_mappings(m, root, from) ==
  [m EXCEPT !.tables[root] =
     [i \in Index |-> IF i >= TABLE_ENTRIES \div 2 THEN m.tables[from][i] ELSE @[i]]]

(* The entries a walk meets, from the root down to a leaf or a gap.        *)
Entry(tables, above, va, level) ==
  IF above = unused \/ "HUGE_PAGE" \in above.flags THEN unused
  ELSE tables[above.phys][index(va, level)]
Walk(tables, root, va) ==
  LET e4 == tables[root][index(va, 4)]
      e3 == Entry(tables, e4, va, 3)
      e2 == Entry(tables, e3, va, 2)
  IN  <<e4, e3, e2, Entry(tables, e2, va, 1)>>

(* Huge pages are not found; -1 for None.                                  *)
walk_to_phys(tables, root, va) ==
  LET leaf == Walk(tables, root, va)[4] IN IF leaf = unused THEN -1 ELSE leaf.phys

(* What the processor makes of the tables: the leaf, and the rights, which *)
(* every entry on the way has to grant.                                    *)
Leaf(tables, root, va) ==
  LET w == Walk(tables, root, va)
  IN  IF w[4] # unused THEN w[4]
      ELSE IF w[3] # unused /\ "HUGE_PAGE" \in w[3].flags THEN w[3]
      ELSE unused
Grants(tables, root, va, flag) ==
  \A e \in {Walk(tables, root, va)[k] : k \in 1 .. 4} \ {unused} : flag \in e.flags
Forbids(tables, root, va, flag) ==
  \E e \in {Walk(tables, root, va)[k] : k \in 1 .. 4} \ {unused} : flag \in e.flags
=============================================================================
