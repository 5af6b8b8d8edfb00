-------------------------------- MODULE Elf --------------------------------
(***************************************************************************)
(* parse of elf.rs.  A file is its length, what its header says and its    *)
(* program headers; sizes and addresses are u64, p_flags is a subset of    *)
(* {"R", "W", "X"}.                                                        *)
(***************************************************************************)
EXTENDS PageTables

CONSTANTS
  MAX_PROGRAM_HEADERS,   \* 8
  EHDR_SIZE,             \* 64
  PHDR_SIZE              \* 56

(* ProgramHeader.  is_executable exists too, and nothing calls it.         *)
is_writable(ph) == "W" \in ph.p_flags

is_power_of_two(n) == \E k \in 0 .. n : n = 2 ^ k

(* Faulty variant: the end of a segment is not looked at.                  *)
Segment_Open(f, ph) ==
  IF ph.p_type \in {"INTERP", "DYNAMIC"} THEN "DynamicLinkingRejected"
  ELSE IF ph.p_type # "LOAD" THEN "Ok"
  ELSE IF ph.p_filesz > ph.p_memsz \/ ph.p_align < PAGE_SIZE \/ ~is_power_of_two(ph.p_align)
    THEN "BadSegmentLayout"
  ELSE IF ph.p_offset + ph.p_filesz >= U64_END \/ ph.p_offset + ph.p_filesz > f.len
    THEN "SegmentOutOfBounds"
  ELSE IF ~is_user_va(ph.p_vaddr) THEN "BadVirtualAddress"
  ELSE "Ok"

(* One turn of the loop over the program headers.                          *)
Segment(f, ph) ==
  IF ph.p_type \in {"INTERP", "DYNAMIC"} THEN "DynamicLinkingRejected"
  ELSE IF ph.p_type # "LOAD" THEN "Ok"
  ELSE IF ph.p_filesz > ph.p_memsz \/ ph.p_align < PAGE_SIZE \/ ~is_power_of_two(ph.p_align)
    THEN "BadSegmentLayout"
  ELSE IF ph.p_offset + ph.p_filesz >= U64_END \/ ph.p_offset + ph.p_filesz > f.len
    THEN "SegmentOutOfBounds"
  ELSE IF ~is_user_va(ph.p_vaddr) \/ ph.p_vaddr + ph.p_memsz >= U64_END
          \/ ph.p_vaddr + ph.p_memsz > USER_END
    THEN "BadVirtualAddress"
  ELSE "Ok"

First(S) == CHOOSE i \in S : \A j \in S : i <= j

(* The verdict and the segments to load.                                   *)
parse(f) ==
  LET phend == f.phoff + PHDR_SIZE * Len(f.phs)
      bad == {i \in 1 .. Len(f.phs) : Segment(f, f.phs[i]) # "Ok"}
      verdict == IF f.len < EHDR_SIZE THEN "Truncated"
                 ELSE IF f.ident # "Ok" THEN f.ident
                 ELSE IF f.e_type \notin {"EXEC", "DYN"} THEN "UnsupportedTarget"
                 ELSE IF f.phentsize # PHDR_SIZE THEN "BadPhentSize"
                 ELSE IF Len(f.phs) > MAX_PROGRAM_HEADERS THEN "TooManyHeaders"
                 ELSE IF phend >= U64_END \/ phend > f.len THEN "PhdrOutOfBounds"
                 ELSE IF bad # {} THEN Segment(f, f.phs[First(bad)])
                 ELSE IF ~is_user_va(f.entry - (f.entry % PAGE_SIZE)) THEN "BadVirtualAddress"
                 ELSE "Ok"
  IN  [r |-> verdict, loads |-> SelectSeq(f.phs, LAMBDA ph : ph.p_type = "LOAD")]
=============================================================================
