------------------------------ MODULE MCLoader ------------------------------
(***************************************************************************)
(* A machine with 2-octet pages, 4-entry tables and up to 48 frames: the   *)
(* lower half has 128 pages.  The image takes frames 1 to 8: the boot      *)
(* stack in 2 and 3, text, rodata, data and bss from 4 on, the root table  *)
(* in 7.  The files have every shape parse tells apart.                    *)
(***************************************************************************)
EXTENDS Loader

MCBootStack == [bottom |-> 4, top |-> 8]
MCSections ==
  [text_start |-> 456, rodata_start |-> 458, data_start |-> 460, bss_start |-> 460,
   kernel_end |-> 466]

MCKaslr == {0, 288}

(* The largest goes beyond the bitmap, the next holds more than two        *)
(* processes need; the others run out in the kernel's own tables, in the   *)
(* first or in the second process.                                         *)
MCMaps == {[base |-> 0, length |-> n] : n \in {101, 95, 69, 51, 40, 26}}

Load(vaddr, memsz, filesz, off, flags) ==
  [p_type |-> "LOAD", p_vaddr |-> vaddr, p_memsz |-> memsz, p_filesz |-> filesz,
   p_offset |-> off, p_align |-> 2, p_flags |-> flags]
Code == {"R", "X"}
Constants == {"R"}
Vars == {"R", "W"}
File(phs) ==
  [len |-> 12, ident |-> "Ok", e_type |-> "EXEC", phentsize |-> 1, phoff |-> 2,
   phs |-> phs, entry |-> 16]

Text == Load(16, 3, 3, 4, Code)
Data == Load(20, 5, 2, 9, Vars)
Note == [Text EXCEPT !.p_type = "NOTE"]

Good ==
  {File(<<Text, Note, Data>>),
   File(<<Load(0, 2, 1, 11, Constants), Load(252, 0, 0, 0, Vars),
          Load(10, 1, 1, 3, Code \cup Vars)>>)}
Clashing ==
  {File(<<Text, Load(18, 2, 2, 0, Vars)>>), File(<<Load(6, 2, 2, 0, Code)>>),
   File(<<Data, Load(250, 6, 6, 0, Code)>>)}
(* One file for each way each check of parse fails, beyond u64 too.        *)
Refused ==
  LET f == File(<<Text, Data>>)
  IN  {[f EXCEPT !.len = 1], [f EXCEPT !.ident = "BadMagic"],
       [f EXCEPT !.ident = "UnsupportedFormat"], [f EXCEPT !.ident = "UnsupportedTarget"],
       [f EXCEPT !.e_type = "REL"], [f EXCEPT !.phentsize = 2], [f EXCEPT !.phoff = 11],
       [f EXCEPT !.phoff = 511], [f EXCEPT !.entry = 256],
       File(<<Text, Data, Note, Note>>),
       File(<<Text, [Text EXCEPT !.p_type = "INTERP"]>>),
       File(<<[Text EXCEPT !.p_type = "DYNAMIC"]>>)}
    \cup {File(<<Text, ph>>) :
            ph \in {Load(32, 2, 3, 0, Vars), [Data EXCEPT !.p_align = 1],
                    [Data EXCEPT !.p_align = 3], Load(32, 3, 3, 10, Vars),
                    Load(32, 3, 3, 510, Vars), Load(33, 2, 2, 0, Vars),
                    Load(256, 2, 2, 0, Vars), Load(254, 3, 2, 0, Vars),
                    Load(254, 300, 2, 0, Vars)}}
MCFiles == Good \cup Clashing \cup Refused

(* No action reads the last request or its result.                         *)
WithoutCall == <<pc, highest, offset, m, PROCESSES, spawns, loaded>>

(* The aarch64 kernel on 2-octet pages and 4-entry tables, its pool large  *)
(* enough for some layouts of the image and too small for others.          *)
S1 == INSTANCE Stage1 WITH
  PAGE_SIZE <- 2, TABLE_ENTRIES <- 4, POOL_TABLES <- 18, UART_PHYS <- 36,
  GICD_PHYS <- 16, GICD_MMIO_SIZE <- 2, GICR_PHYS <- 20, GICR_MMIO_SIZE <- 4

Layouts ==
  {[text |-> 130, rodata |-> 130 + t, data |-> 130 + t + r, end |-> 130 + t + r + d] :
     t \in {2, 4}, r \in {0, 2}, d \in {2, 6}}

(* The stage 1 map of the aarch64 kernel is the intended one, for every    *)
(* layout and KASLR offset: build_stage1_map, self_test and the entry code *)
(* agree on it.  A statement about values, evaluated where a boot begins.  *)
Stage1Exact ==
  pc = "mmu" => \A sec \in Layouts, kaslr \in {0, 7, 64} : S1!StageExact(sec, kaslr)
=============================================================================
