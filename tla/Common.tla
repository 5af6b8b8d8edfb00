------------------------------ MODULE Common ------------------------------
(***************************************************************************)
(* Arithmetic shared by the components.                                    *)
(***************************************************************************)
EXTENDS Integers

(* usize::min and u64::saturating_sub.                                     *)
Lesser(a, b) == IF a < b THEN a ELSE b
SatSub(a, b) == IF a < b THEN 0 ELSE a - b
=============================================================================
