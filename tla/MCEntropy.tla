------------------------------ MODULE MCEntropy ------------------------------
(***************************************************************************)
(* Instance for TLC.                                                       *)
(***************************************************************************)
EXTENDS Entropy, HealthReference

(* At most two of the sources answer, with and without a timer.            *)
MCMachines ==
  [sources : {{1, 2}}, timer : {"none", "rtc"}]
    \cup [sources : {{0, 2}}, timer : {"tsc"}]

(* On every stream the counters of StreamHealth::check give the verdicts   *)
(* that the repetition and the proportion test define, and a source is     *)
(* disabled exactly for REENTRY_THRESHOLD samples after a failure.  A      *)
(* statement about values: it holds before anything has run, where TLC     *)
(* evaluates it, and does not depend on it.                                *)
HealthAsDefined == task = "Off" => VerdictsAsDefined
=============================================================================
