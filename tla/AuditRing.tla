----------------------------- MODULE AuditRing -----------------------------
(***************************************************************************)
(* AUDIT_RING of hsm_attest.rs as a value: the ring of the newest events,  *)
(* the index written next, and the u32 counter of all events so far.  The  *)
(* two functions on it are operators, so that the components that enqueue  *)
(* (HsmRegistry, the wire dispatcher, the air gap) can share them.         *)
(***************************************************************************)
EXTENDS Integers, Sequences, Common

CONSTANTS
  AUDIT_RING_CAPACITY,  \* 32 in the code
  TOTAL_MOD             \* 2^32: `total` is a u32 advanced with wrapping_add

(* The capacity divides 2^32.  The snapshot relies on it once total wraps. *)
ASSUME AuditRingAssumption ==
  /\ AUDIT_RING_CAPACITY \in Nat \ {0}
  /\ TOTAL_MOD \in Nat \ {0}
  /\ TOTAL_MOD % AUDIT_RING_CAPACITY = 0

RingIndex == 0 .. AUDIT_RING_CAPACITY - 1

EnrollEvent(seq, slot_idx, result, bus_kind, prefix) ==
  [seq |-> seq, slot_idx |-> slot_idx, result |-> result,
   bus_kind |-> bus_kind, pk_hash_prefix |-> prefix]

AUDIT_RING ==
  [events |-> [i \in RingIndex |-> EnrollEvent(0, 0, 0, 0, 0)],
   head   |-> 0,
   total  |-> 0]

(* Faulty variants of audit_enqueue and Start, for the mutation checks: a  *)
(* counter of the entries instead of all the events, a number taken after  *)
(* the increment, a ring that stops when it is full, a snapshot from the   *)
(* first entry.                                                            *)
audit_enqueue_TotalCapped(r, slot_idx, result, bus_kind, prefix) ==
  [r EXCEPT !.events[r.head] = EnrollEvent(r.total, slot_idx, result, bus_kind, prefix),
            !.head = (@ + 1) % AUDIT_RING_CAPACITY,
            !.total = Lesser(@ + 1, AUDIT_RING_CAPACITY)]

audit_enqueue_LateNumber(r, slot_idx, result, bus_kind, prefix) ==
  [r EXCEPT !.events[r.head] =
              EnrollEvent((r.total + 1) % TOTAL_MOD, slot_idx, result, bus_kind, prefix),
            !.head = (@ + 1) % AUDIT_RING_CAPACITY,
            !.total = (@ + 1) % TOTAL_MOD]

audit_enqueue_StopWhenFull(r, slot_idx, result, bus_kind, prefix) ==
  IF r.total >= AUDIT_RING_CAPACITY THEN r
  ELSE [r EXCEPT !.events[r.head] =
                   EnrollEvent(r.total, slot_idx, result, bus_kind, prefix),
                 !.head = (@ + 1) % AUDIT_RING_CAPACITY, !.total = @ + 1]

Start_Zero(r) == 0

audit_enqueue(r, slot_idx, result, bus_kind, prefix) ==
  [events |-> [r.events EXCEPT ![r.head % AUDIT_RING_CAPACITY] =
                 EnrollEvent(r.total, slot_idx, result, bus_kind, prefix)],
   head   |-> (r.head + 1) % AUDIT_RING_CAPACITY,
   total  |-> (r.total + 1) % TOTAL_MOD]

(* The number of events a snapshot may report, and where the oldest is.    *)
Valid(r) == Lesser(r.total, AUDIT_RING_CAPACITY)
Start(r) == IF r.total > AUDIT_RING_CAPACITY THEN r.head ELSE 0

(* What the caller's buffer of out_len events holds afterwards.            *)
audit_snapshot(r, out_len) ==
  [i \in 1 .. Lesser(Valid(r), Lesser(out_len, AUDIT_RING_CAPACITY)) |->
     r.events[(Start(r) + i - 1) % AUDIT_RING_CAPACITY]]
(* The newest event in the ring.                                          *)
Newest(r) == r.events[(r.head - 1) % AUDIT_RING_CAPACITY]
=============================================================================
