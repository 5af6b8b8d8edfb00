----------------------------- MODULE AuditLog ------------------------------
(***************************************************************************)
(* What the audit ring promises a reader: a window on the newest events,   *)
(* oldest first, that slides by one event at a time, and a counter.  The   *)
(* counter is a u32; when it comes round to 0 the window starts again.     *)
(***************************************************************************)
EXTENDS Integers, Sequences

CONSTANTS
  Capacity,   \* events the window can show
  CountMod,   \* the counter's modulus
  Events      \* the events, each with the value of the counter at that time

VARIABLES window, count

vars == <<window, count>>

Init == window = <<>> /\ count = 0

(* The newest Capacity events of the window followed by e.                 *)
Slide(e) ==
  IF Len(window) < Capacity THEN Append(window, e)
                            ELSE Append(Tail(window), e)

Record(e) ==
  /\ e.seq = count
  /\ count' = (count + 1) % CountMod
  /\ window' = IF count' = 0 THEN <<>> ELSE Slide(e)

Next == \E e \in Events : Record(e)

Spec == Init /\ [][Next]_vars
=============================================================================
