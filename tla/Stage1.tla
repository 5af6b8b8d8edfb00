------------------------------- MODULE Stage1 -------------------------------
(***************************************************************************)
(* build_stage1_map of arch/aarch64/mmu.rs, and what aarch64_kernel_entry  *)
(* does with it, as functions of where the sections lie.  A space has two  *)
(* root tables, 0 for TTBR0 and 1 for TTBR1, and a pool of POOL_TABLES     *)
(* tables given out in order; a leaf is its physical address and its       *)
(* attributes.  A half of the virtual addresses is what a root covers, and *)
(* addresses are taken modulo it, as the walk does.                        *)
(***************************************************************************)
EXTENDS Integers, Sequences, FiniteSets
LOCAL INSTANCE SequencesExt

CONSTANTS
  PAGE_SIZE,        \* 4096
  TABLE_ENTRIES,    \* 512
  POOL_TABLES,      \* 24
  UART_PHYS,
  GICD_PHYS,
  GICD_MMIO_SIZE,
  GICR_PHYS,
  GICR_MMIO_SIZE

HALF == PAGE_SIZE * TABLE_ENTRIES ^ 4
Index == 0 .. TABLE_ENTRIES - 1
invalid == <<>>
zeroed == [i \in Index |-> invalid]
AddressSpace == [r |-> "Ok", tables |-> [t \in 0 .. POOL_TABLES + 1 |-> zeroed], pool_next |-> 0]

table_index(va, level) == (va \div (PAGE_SIZE * TABLE_ENTRIES ^ (3 - level))) % TABLE_ENTRIES

leaf_desc(pa, writable, executable, device) ==
  IF writable /\ executable THEN [r |-> "WxPolicyViolation", d |-> invalid]
  ELSE IF pa % PAGE_SIZE # 0 THEN [r |-> "UnalignedAddress", d |-> invalid]
  ELSE [r |-> "Ok",
        d |-> [to |-> pa,
               attr |-> (IF device THEN {"DEVICE", "UXN", "PXN"} ELSE {"NORMAL"})
                          \cup {IF writable THEN "RW" ELSE "RO"}
                          \cup (IF writable \/ ~executable THEN {"UXN", "PXN"} ELSE {})]]

Failed(s, r) == [s EXCEPT !.r = r]

(* One level down: w is the space and the table reached.                   *)
NextTable(w, va, level) ==
  LET cur == w.s.tables[w.table][table_index(va, level)]
      fresh == w.s.pool_next + 2
  IN  IF w.s.r # "Ok" THEN w
      ELSE IF cur # invalid THEN [w EXCEPT !.table = cur.to]
      ELSE IF w.s.pool_next >= POOL_TABLES THEN [w EXCEPT !.s = Failed(@, "TableExhausted")]
      ELSE [s |-> [r |-> "Ok", pool_next |-> w.s.pool_next + 1,
                   tables |-> [w.s.tables EXCEPT ![fresh] = zeroed,
                                 ![w.table][table_index(va, level)] = [to |-> fresh, attr |-> {}]]],
            table |-> fresh]

SetLeaf(w, i, leaf) ==
  IF w.s.r # "Ok" THEN w.s
  ELSE IF w.s.tables[w.table][i] # invalid THEN Failed(w.s, "AlreadyMapped")
  ELSE [w.s EXCEPT !.tables[w.table][i] = leaf]
map_desc(s, high, va, leaf) ==
  SetLeaf(NextTable(NextTable(NextTable([s |-> s, table |-> IF high THEN 1 ELSE 0],
                                        va, 0), va, 1), va, 2),
          table_index(va, 3), leaf)

map_leaf(s, high, va, pa, writable, executable, device) ==
  LET leaf == leaf_desc(pa, writable, executable, device)
  IN  IF s.r # "Ok" THEN s
      ELSE IF leaf.r # "Ok" THEN Failed(s, leaf.r)
      ELSE map_desc(s, high, va, leaf.d)

(* Faulty variant: the end is rounded down.                                *)
map_range_Down(s, linear, pa_start, pa_end, attrs) ==
  LET start == pa_start - (pa_start % PAGE_SIZE)
      pages == (pa_end - 1 - start) \div PAGE_SIZE
      Page(t, k) ==
        LET pa == start + (k - 1) * PAGE_SIZE
            low == map_leaf(t, FALSE, pa, pa, attrs[1], attrs[2], attrs[3])
        IN  map_leaf(low, TRUE, linear + pa, pa, attrs[1], attrs[2], attrs[3])
  IN  FoldLeft(Page, s, [k \in 1 .. pages |-> k])

(* Both halves, page by page; attrs are writable, executable, device.      *)
map_range(s, linear, pa_start, pa_end, attrs) ==
  LET start == pa_start - (pa_start % PAGE_SIZE)
      pages == (pa_end - start + PAGE_SIZE - 1) \div PAGE_SIZE
      Page(t, k) ==
        LET pa == start + (k - 1) * PAGE_SIZE
            low == map_leaf(t, FALSE, pa, pa, attrs[1], attrs[2], attrs[3])
        IN  map_leaf(low, TRUE, linear + pa, pa, attrs[1], attrs[2], attrs[3])
  IN  FoldLeft(Page, s, [k \in 1 .. pages |-> k])

(* Addresses of the upper half are relative to KERNEL_VMA_BASE.            *)
build_stage1_map(sec, kaslr_offset) ==
  LET linear == kaslr_offset - (kaslr_offset % PAGE_SIZE)
      RX == <<FALSE, TRUE, FALSE>>
      RO == <<FALSE, FALSE, FALSE>>
      RW == <<TRUE, FALSE, FALSE>>
      DEV == <<TRUE, FALSE, TRUE>>
      text == map_range(AddressSpace, linear, sec.text, sec.rodata, RX)
      rodata == map_range(text, linear, sec.rodata, sec.data, RO)
      data == map_range(rodata, linear, sec.data, sec.end, RW)
      uart == map_range(data, linear, UART_PHYS, UART_PHYS + PAGE_SIZE, DEV)
      gicd == map_range(uart, linear, GICD_PHYS, GICD_PHYS + GICD_MMIO_SIZE, DEV)
  IN  map_range(gicd, linear, GICR_PHYS, GICR_PHYS + GICR_MMIO_SIZE, DEV)

(* The translation the processor makes of va in one half.                  *)
Down(s, t, va, level) == IF t = invalid THEN invalid ELSE s.tables[t.to][table_index(va, level)]
Translate(s, high, va) ==
  Down(s, Down(s, Down(s, Down(s, [to |-> IF high THEN 1 ELSE 0], va, 0), va, 1), va, 2), va, 3)

self_test(s, va) ==
  LET leaf == Translate(s, FALSE, va)
  IN  IF leaf = invalid THEN "SelfTestFault"
      ELSE IF "DEVICE" \notin leaf.attr THEN "SelfTestAttr"
      ELSE "Ok"

(* PHYS_MAP_OFFSET as initialize leaves it, which linear_base reads: the   *)
(* base by which console and gic look for their devices.                   *)
linear_base(kaslr_offset) == PAGE_SIZE * (kaslr_offset \div PAGE_SIZE)

(* Up to the marker: "halt" or "MMU=ON".                                   *)
aarch64_kernel_entry(sec, kaslr_offset) ==
  LET s == build_stage1_map(sec, kaslr_offset)
  IN  IF s.r = "Ok" /\ self_test(s, UART_PHYS) = "Ok" THEN "MMU=ON" ELSE "halt"

-----------------------------------------------------------------------------

(* What each page of physical memory is for.                               *)
Meant(sec, pa) ==
  IF pa >= sec.text /\ pa < sec.rodata THEN {"NORMAL", "RO"}
  ELSE IF pa >= sec.rodata /\ pa < sec.data THEN {"NORMAL", "RO", "UXN", "PXN"}
  ELSE IF pa >= sec.data /\ pa < sec.end THEN {"NORMAL", "RW", "UXN", "PXN"}
  ELSE IF \/ pa \in UART_PHYS .. UART_PHYS + PAGE_SIZE - 1
          \/ pa \in GICD_PHYS .. GICD_PHYS + GICD_MMIO_SIZE - 1
          \/ pa \in GICR_PHYS .. GICR_PHYS + GICR_MMIO_SIZE - 1
    THEN {"DEVICE", "RW", "UXN", "PXN"}
  ELSE {}

PageAddresses == {PAGE_SIZE * k : k \in 0 .. HALF \div PAGE_SIZE - 1}

(* Tables below a root that maps these pages.                              *)
TablesFor(pages) ==
  LET Stretches(level) == {va \div (PAGE_SIZE * TABLE_ENTRIES ^ level) : va \in pages}
  IN  Cardinality(Stretches(1)) + Cardinality(Stretches(2)) + Cardinality(Stretches(3))

Halves(s, linear, pa, leaf) ==
  Translate(s, FALSE, pa) = leaf /\ Translate(s, TRUE, (linear + pa) % HALF) = leaf
MapsExactly(s, linear, sec, pages) ==
  /\ s.r = "Ok"
  /\ \A pa \in pages : Halves(s, linear, pa, [to |-> pa, attr |-> Meant(sec, pa)])
  /\ \A pa \in PageAddresses \ pages : Halves(s, linear, pa, invalid)

(* build_stage1_map gives each page of the image and of the devices the    *)
(* rights of its section in both halves, nothing else is mapped, and W^X   *)
(* holds; it fails, and the kernel halts, exactly when the pool is too     *)
(* small; otherwise self_test passes.  The upper half is looked at through *)
(* linear_base, which computes the base a second time, as console and gic  *)
(* do.                                                                     *)
StageExact(sec, kaslr_offset) ==
  LET linear == linear_base(kaslr_offset)
      pages == {pa \in PageAddresses : Meant(sec, pa) # {}}
      need == TablesFor(pages) + TablesFor({(linear + pa) % HALF : pa \in pages})
  IN  IF need > POOL_TABLES
      THEN /\ build_stage1_map(sec, kaslr_offset).r = "TableExhausted"
           /\ aarch64_kernel_entry(sec, kaslr_offset) = "halt"
      ELSE /\ MapsExactly(build_stage1_map(sec, kaslr_offset), linear, sec, pages)
           /\ aarch64_kernel_entry(sec, kaslr_offset) = "MMU=ON"
=============================================================================
