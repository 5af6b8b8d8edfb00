--------------------------- MODULE MCAuditTrail ----------------------------
(* A ring of three events whose counter wraps at six; runs of 13 events go *)
(* round the ring four times and the counter twice.                        *)
EXTENDS AuditTrail

MCReports ==
  {[slot_idx |-> 0, result |-> 0, bus_kind |-> 1, pk_hash_prefix |-> 1],
   [slot_idx |-> 255, result |-> 1, bus_kind |-> 0, pk_hash_prefix |-> 0]}
=============================================================================
