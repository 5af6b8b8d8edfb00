--------------------------- MODULE HealthReference ---------------------------
(***************************************************************************)
(* What the two health tests are to say of a whole stream of samples, as   *)
(* health.rs describes them, against what StreamHealth computes sample by  *)
(* sample.                                                                 *)
(***************************************************************************)
EXTENDS Health, Sequences, FiniteSets

CONSTANTS
  StreamSample,   \* the octets of the streams compared
  StreamLength    \* their length

ASSUME HealthReferenceAssumption == StreamLength \in Nat

Streams == [1 .. StreamLength -> StreamSample]

(* The evaluator after each sample of stream w.                            *)
Evaluated(w) ==
  LET run[n \in 0 .. StreamLength] ==
        IF n = 0 THEN [v |-> "NeedMoreData", h |-> NewHealth]
        ELSE check(run[n - 1].h, w[n])
  IN  run

(* RCT: the last RCT_CUTOFF samples are the same.                          *)
Repeats(w, n) ==
  n >= RCT_CUTOFF /\ \A i \in n - RCT_CUTOFF + 1 .. n : w[i] = w[n]

(* APT: of the samples the RCT let pass, cut into windows of APT_WINDOW, n *)
(* completes one in which the first sample occurs APT_CUTOFF times.        *)
Kept(w, n) == {i \in 1 .. n : ~Repeats(w, i)}
Rank(w, n) == Cardinality(Kept(w, n))
WindowOf(w, n) == {i \in Kept(w, n) : Rank(w, i) > Rank(w, n) - APT_WINDOW}
FirstOf(W) == CHOOSE i \in W : \A j \in W : i <= j

Biased(w, n) ==
  /\ ~Repeats(w, n) /\ Rank(w, n) % APT_WINDOW = 0
  /\ LET W == WindowOf(w, n)
     IN  Cardinality({i \in W : w[i] = w[FirstOf(W)]}) >= APT_CUTOFF

Fails(w, n) == Repeats(w, n) \/ Biased(w, n)

(* The running counters of StreamHealth::check give the verdicts that the  *)
(* two tests define over the whole stream, and a source is disabled        *)
(* exactly for REENTRY_THRESHOLD samples after its latest failure.         *)
VerdictsAsDefined ==
  \A w \in Streams :
    LET e == Evaluated(w)
    IN  \A n \in 1 .. StreamLength :
          /\ e[n].v = "Fail" <=> Fails(w, n)
          /\ is_disabled(e[n].h) <=>
               \E f \in 1 .. n : Fails(w, f) /\ n - f < REENTRY_THRESHOLD
=============================================================================
