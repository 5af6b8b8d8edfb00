---------------------------- MODULE AuditTrail -----------------------------
(***************************************************************************)
(* The audit ring in use: kernel components report events, an auditor with *)
(* a buffer of the ring's size (sys_hsm_status, wire Status) polls it.     *)
(***************************************************************************)
EXTENDS AuditRing

CONSTANTS
  Reports,   \* what components pass to audit_enqueue, without the number
  MaxLog     \* bound on the number of events of a behaviour

ASSUME AuditTrailAssumption == MaxLog \in Nat

VARIABLES
  ring,      \* AUDIT_RING
  seen,      \* the total the auditor got with its last snapshot
  log,       \* history: every report so far
  mark       \* history: Len(log) at the auditor's last snapshot

vars == <<ring, seen, log, mark>>

Stamp(e, seq) ==
  EnrollEvent(seq, e.slot_idx, e.result, e.bus_kind, e.pk_hash_prefix)

Events == {Stamp(e, seq) : e \in Reports, seq \in 0 .. TOTAL_MOD - 1}

Init ==
  /\ ring = AUDIT_RING
  /\ seen = 0
  /\ log = <<>>
  /\ mark = 0

Enqueue(e) ==
  /\ Len(log) < MaxLog
  /\ ring' = audit_enqueue(ring, e.slot_idx, e.result, e.bus_kind,
                           e.pk_hash_prefix)
  /\ log' = Append(log, e)
  /\ UNCHANGED <<seen, mark>>

Poll ==
  /\ seen' = ring.total
  /\ mark' = Len(log)
  /\ UNCHANGED <<ring, log>>

Next == (\E e \in Reports : Enqueue(e)) \/ Poll

Spec == Init /\ [][Next]_vars
-----------------------------------------------------------------------------
(* The ring's fields stay in range: head never leaves the array.           *)
TypeOK ==
  /\ ring.events \in [RingIndex -> Events \cup {EnrollEvent(0, 0, 0, 0, 0)}]
  /\ ring.head \in RingIndex
  /\ ring.total \in 0 .. TOTAL_MOD - 1
  /\ DOMAIN ring = {"events", "head", "total"}
  /\ seen \in 0 .. TOTAL_MOD - 1
  /\ log \in Seq(Reports)
  /\ mark \in 0 .. Len(log)

(* A snapshot into a buffer of any size lists events that were reported    *)
(* one after the other, each under its own number, from the oldest that    *)
(* the ring still counts: also when the ring has gone round, at exactly a  *)
(* full ring, and after total has wrapped.                                 *)
SnapshotFaithful ==
  \A out_len \in 0 .. AUDIT_RING_CAPACITY + 1 :
    LET s == audit_snapshot(ring, out_len)
        skipped == Len(log) - Valid(ring)
    IN  \A i \in 1 .. Len(s) :
          s[i] = Stamp(log[skipped + i], (skipped + i - 1) % TOTAL_MOD)

(* total is the "loss hint" audit_snapshot documents.  It moves by the     *)
(* number of events since the auditor's last snapshot, and if that is no   *)
(* more than the events returned, the newest ones are all the events since *)
(* then, none missing.                                                     *)
LossIsDetectable ==
  LET s == audit_snapshot(ring, AUDIT_RING_CAPACITY)
      moved == (ring.total - seen) % TOTAL_MOD
  IN  Len(log) - mark < TOTAL_MOD =>
        /\ moved = Len(log) - mark
        /\ moved <= Len(s) =>
             \A i \in 1 .. moved :
               s[Len(s) - moved + i] = Stamp(log[mark + i], (mark + i - 1) % TOTAL_MOD)

(* The ring is a sliding window: each event enters at the young end, and   *)
(* once the ring is full each one pushes out the oldest.                   *)
Window == INSTANCE AuditLog WITH
            Capacity <- AUDIT_RING_CAPACITY,
            CountMod <- TOTAL_MOD,
            window   <- audit_snapshot(ring, AUDIT_RING_CAPACITY),
            count    <- ring.total

RingIsSlidingWindow == Window!Spec
=============================================================================
