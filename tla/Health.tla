------------------------------- MODULE Health -------------------------------
(***************************************************************************)
(* StreamHealth of health.rs: the repetition count test (RCT) and the      *)
(* adaptive proportion test (APT) on the samples of one entropy source, as *)
(* values.  apt_window and apt_idx are never used by the code.             *)
(***************************************************************************)
EXTENDS Integers, Common

CONSTANTS
  RCT_CUTOFF,          \* 41
  APT_WINDOW,          \* 1024
  APT_CUTOFF,          \* 793
  REENTRY_THRESHOLD,   \* 16
  U32_MAX              \* 2^32 - 1: the counters are u32 and saturate

ASSUME HealthAssumption ==
  /\ RCT_CUTOFF \in Nat \ {0, 1} /\ APT_WINDOW \in Nat \ {0} /\ APT_CUTOFF \in Nat \ {0}
  /\ REENTRY_THRESHOLD \in Nat \ {0}
  /\ U32_MAX \in Nat /\ U32_MAX >= REENTRY_THRESHOLD /\ U32_MAX >= RCT_CUTOFF
  /\ U32_MAX >= APT_WINDOW

StreamHealth(last, count, initial, observed, filled, pass, disabled) ==
  [rct_last |-> last, rct_count |-> count, apt_initial |-> initial,
   apt_observed_count |-> observed, apt_filled |-> filled,
   consecutive_pass |-> pass, disabled |-> disabled]

NewHealth == StreamHealth(0, 0, 0, 0, 0, 0, FALSE)

SatIncr(n) == Lesser(n + 1, U32_MAX)

(* Faulty variant: the APT disables the source and does not say so.        *)
Proportion_Silent(h, x, count) ==
  LET pass == SatIncr(h.consecutive_pass)
      initial == IF h.apt_filled = 0 THEN x ELSE h.apt_initial
      observed == IF h.apt_filled = 0 THEN 1
                  ELSE IF x = h.apt_initial THEN SatIncr(h.apt_observed_count)
                  ELSE h.apt_observed_count
      full == h.apt_filled + 1 >= APT_WINDOW
  IN  IF full /\ observed >= APT_CUTOFF
        THEN [v |-> "Pass", h |-> StreamHealth(x, count, initial, 0, 0, 0, TRUE)]
      ELSE [v |-> IF full THEN "Pass" ELSE "NeedMoreData",
            h |-> StreamHealth(x, count, initial,
                               IF full THEN 0 ELSE observed,
                               IF full THEN 0 ELSE h.apt_filled + 1, pass,
                               h.disabled /\ pass < REENTRY_THRESHOLD)]

(* The part of check after the RCT: re-entry, then the APT.  A sample that *)
(* fails the RCT does not come here.                                       *)
Proportion(h, x, count) ==
  LET pass == SatIncr(h.consecutive_pass)
      initial == IF h.apt_filled = 0 THEN x ELSE h.apt_initial
      observed == IF h.apt_filled = 0 THEN 1
                  ELSE IF x = h.apt_initial THEN SatIncr(h.apt_observed_count)
                  ELSE h.apt_observed_count
      full == h.apt_filled + 1 >= APT_WINDOW
  IN  IF full /\ observed >= APT_CUTOFF
        THEN [v |-> "Fail", h |-> StreamHealth(x, count, initial, 0, 0, 0, TRUE)]
      ELSE [v |-> IF full THEN "Pass" ELSE "NeedMoreData",
            h |-> StreamHealth(x, count, initial,
                               IF full THEN 0 ELSE observed,
                               IF full THEN 0 ELSE h.apt_filled + 1, pass,
                               h.disabled /\ pass < REENTRY_THRESHOLD)]

(* Faulty variant: a source that fails the RCT keeps its passes.           *)
check_Lenient(h, x) ==
  LET count == IF x = h.rct_last THEN SatIncr(h.rct_count) ELSE 1
  IN  IF x = h.rct_last /\ count >= RCT_CUTOFF
        THEN [v |-> "Fail",
              h |-> StreamHealth(x, count, h.apt_initial, h.apt_observed_count, h.apt_filled,
                                 h.consecutive_pass, TRUE)]
      ELSE Proportion(h, x, count)

(* The sample's verdict v and the evaluator after it.                      *)
check(h, x) ==
  LET count == IF x = h.rct_last THEN SatIncr(h.rct_count) ELSE 1
  IN  IF x = h.rct_last /\ count >= RCT_CUTOFF
        THEN [v |-> "Fail",
              h |-> StreamHealth(x, count, h.apt_initial, h.apt_observed_count, h.apt_filled,
                                 0, TRUE)]
      ELSE Proportion(h, x, count)

is_disabled(h) == h.disabled
=============================================================================
