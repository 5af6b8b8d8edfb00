--------------------------- MODULE EntropyProofs ---------------------------
(***************************************************************************)
(* For every number of samples, thresholds, timers and machines: a source  *)
(* that counts is not disabled, the DRBG is only ever seeded by a quorum   *)
(* of one attempt, and every source that does not count is in the audit.   *)
(* For every stream, the verdicts of the health tests are those their      *)
(* definitions give.                                                       *)
(***************************************************************************)
EXTENDS MCEntropy, TLAPS, FiniteSetTheorems, WellFoundedInduction

(* What the argument needs of one evaluator: a disabled source has not yet *)
(* passed as many samples as re-entry takes.                               *)
HealthOK(h) ==
  /\ h.consecutive_pass \in Nat /\ h.disabled \in BOOLEAN
  /\ h.disabled => h.consecutive_pass < REENTRY_THRESHOLD

(* The evaluator has let n samples in a row pass, or as many as re-entry   *)
(* takes.                                                                  *)
Passing(h, n) == h.consecutive_pass >= n \/ h.consecutive_pass >= REENTRY_THRESHOLD

SlotsOf(t) == {t[i][1] : i \in DOMAIN t}
Before(n) == {s \in Source : s < n}
SubCode == {"ATTEMPT", "SOURCE_MISSING", "RCT_FAIL", "QUORUM_MIN", "POLLING", "RECOVERED"}
Entries == (Source \cup {QUORUM}) \X SubCode

HealthInv ==
  /\ DOMAIN health = Source
  /\ \A s \in Source : HealthOK(health[s])

AttemptInv ==
  /\ src \in 0 .. SOURCE_COUNT /\ pos \in 0 .. SAMPLE_BYTES - 1
  /\ passed \subseteq Before(src)
  /\ live = Cardinality(passed)
  /\ trail \in Seq(Entries)
  /\ buf = NoBuffer => pos = 0
  /\ task \in Fill => SlotsOf(trail) \cap Source = Before(src) \ passed
  /\ src \in Source => Passing(health[src], pos)

SeedInv ==
  /\ task \in {"Off", "Entropy", "Nonce", "Reseed", "Up", "Panic"}
  /\ task \in {"Off", "Entropy", "Nonce"} => drbg = NoDrbg
  /\ task \in {"Up", "Reseed"} => drbg # NoDrbg
  /\ task = "Nonce" => Cardinality(entropy) >= QUORUM_MIN
  /\ drbg # NoDrbg => /\ Cardinality(drbg.entropy) >= QUORUM_MIN
                      /\ Cardinality(drbg.nonce) >= QUORUM_MIN

(* The inductive invariant.                                                *)
IInv == HealthInv /\ AttemptInv /\ SeedInv /\ LiveNotDisabled
-----------------------------------------------------------------------------
(* What StreamHealth::check does to an evaluator that has let n samples in *)
(* a row pass.                                                             *)
Accepted(h, n) == HealthOK(h) /\ Passing(h, n) /\ (n >= REENTRY_THRESHOLD => ~h.disabled)
Checked(c, n) == HealthOK(c.h) /\ (c.v # "Fail" => Accepted(c.h, n + 1))

LEMMA CheckResult ==
  ASSUME NEW h, NEW x, NEW n \in Nat, HealthOK(h), Passing(h, n)
  PROVE  Checked(check(h, x), n)
<1> DEFINE pass == SatIncr(h.consecutive_pass)
           dis == h.disabled /\ pass < REENTRY_THRESHOLD
<1>1. pass \in Nat /\ (pass >= n + 1 \/ pass >= REENTRY_THRESHOLD)
  BY HealthAssumption DEF SatIncr, Lesser, HealthOK, Passing
<1>2. ASSUME NEW a, NEW b, NEW c, NEW d, NEW e
      PROVE  HealthOK(StreamHealth(a, b, c, d, e, 0, TRUE))
  <2>1. PICK m : m = StreamHealth(a, b, c, d, e, 0, TRUE)
    BY Zenon
  <2>2. m.consecutive_pass = 0 /\ m.disabled = TRUE
    BY <2>1, Zenon DEF StreamHealth
  <2>3. m.disabled \in BOOLEAN
    BY <2>2, Zenon
  <2>4. HealthOK(m)
    BY <2>2, <2>3, HealthAssumption DEF HealthOK
  <2> QED BY <2>1, <2>4, Zenon
<1>3. ASSUME NEW a, NEW b, NEW c, NEW d, NEW e
      PROVE  Accepted(StreamHealth(a, b, c, d, e, pass, dis), n + 1)
  <2>0. PICK m : m = StreamHealth(a, b, c, d, e, pass, dis)
    OBVIOUS
  <2>1. m.consecutive_pass = pass /\ m.disabled = dis
    BY <2>0, Zenon DEF StreamHealth
  <2>2. m.disabled \in BOOLEAN
    BY <2>1, Zenon
  <2>3. m.disabled => pass < REENTRY_THRESHOLD
    BY <2>1, Zenon
  <2>4. m.consecutive_pass = pass
    BY <2>1
  <2> HIDE DEF pass, dis
  <2>5. Accepted(m, n + 1)
    BY <1>1, <2>2, <2>3, <2>4, HealthAssumption DEF HealthOK, Passing, Accepted
  <2> QED BY <2>0, <2>5
<1>4. ASSUME NEW count
      PROVE  Checked(Proportion(h, x, count), n)
  <2> DEFINE initial == IF h.apt_filled = 0 THEN x ELSE h.apt_initial
             observed == IF h.apt_filled = 0 THEN 1
                         ELSE IF x = h.apt_initial THEN SatIncr(h.apt_observed_count)
                         ELSE h.apt_observed_count
             full == h.apt_filled + 1 >= APT_WINDOW
             bad == StreamHealth(x, count, initial, 0, 0, 0, TRUE)
             good == StreamHealth(x, count, initial, IF full THEN 0 ELSE observed,
                                  IF full THEN 0 ELSE h.apt_filled + 1, pass, dis)
             verdict == IF full THEN "Pass" ELSE "NeedMoreData"
  <2>1. Proportion(h, x, count) = IF full /\ observed >= APT_CUTOFF
                                    THEN [v |-> "Fail", h |-> bad]
                                  ELSE [v |-> verdict, h |-> good]
    BY DEF Proportion
  <2>2. HealthOK(bad)
    BY <1>2, Zenon
  <2>3. Accepted(good, n + 1)
    BY <1>3
  <2> HIDE DEF bad, good, full, observed, verdict
  <2> QED BY <2>1, <2>2, <2>3 DEF Checked, Accepted
<1> DEFINE count == IF x = h.rct_last THEN SatIncr(h.rct_count) ELSE 1
           rep == StreamHealth(x, count, h.apt_initial, h.apt_observed_count, h.apt_filled, 0, TRUE)
<1>5. check(h, x) = IF x = h.rct_last /\ count >= RCT_CUTOFF THEN [v |-> "Fail", h |-> rep]
                    ELSE Proportion(h, x, count)
  BY DEF check
<1>6. HealthOK(rep)
  BY <1>2, Zenon
<1> HIDE DEF rep, count
<1>7. CASE x = h.rct_last /\ count >= RCT_CUTOFF
  BY <1>5, <1>6, <1>7 DEF Checked
<1>8. CASE ~(x = h.rct_last /\ count >= RCT_CUTOFF)
  BY <1>4, <1>5, <1>8
<1> QED BY <1>7, <1>8

-----------------------------------------------------------------------------
(* The audit entries and the sources behind the current one.               *)
LEMMA AppendSlots ==
  ASSUME NEW t \in Seq(Entries), NEW e \in Entries
  PROVE  Append(t, e) \in Seq(Entries) /\ SlotsOf(Append(t, e)) = SlotsOf(t) \cup {e[1]}
<1> DEFINE u == Append(t, e)
<1>1. /\ u \in Seq(Entries) /\ DOMAIN t = 1 .. Len(t) /\ DOMAIN u = 1 .. Len(t) + 1 /\ Len(t) \in Nat
      /\ \A i \in 1 .. Len(t) : u[i] = t[i]
      /\ u[Len(t) + 1] = e
  OBVIOUS
<1> HIDE DEF u
<1>2. SlotsOf(u) = SlotsOf(t) \cup {e[1]}
  <2>1. ASSUME NEW y \in SlotsOf(u) PROVE y \in SlotsOf(t) \cup {e[1]}
    BY <1>1, <2>1 DEF SlotsOf
  <2>2. ASSUME NEW y \in SlotsOf(t) PROVE y \in SlotsOf(u)
    BY <1>1, <2>2 DEF SlotsOf
  <2>3. e[1] \in SlotsOf(u)
    BY <1>1 DEF SlotsOf
  <2> QED BY <2>1, <2>2, <2>3
<1> QED BY <1>1, <1>2 DEF u

LEMMA NextSource ==
  ASSUME NEW s \in Source
  PROVE  /\ s + 1 \in 0 .. SOURCE_COUNT
         /\ Before(s + 1) = Before(s) \cup {s} /\ s \notin Before(s)
         /\ s # QUORUM /\ s \in Int
BY DEF Source, SOURCE_COUNT, Before, QUORUM

LEMMA FiniteSources ==
  ASSUME NEW S, S \subseteq Source
  PROVE  IsFiniteSet(S)
<1>1. IsFiniteSet(0 .. 2)
  <2>1. 0 \in Int /\ 2 \in Int OBVIOUS
  <2> QED BY <2>1, FS_Interval, Zenon
<1> QED BY <1>1, FS_Subset, Zenon DEF Source

(* A new attempt, with only entries of the quorum in the trail.            *)
Fresh(t) == t \in Seq(Entries) /\ SlotsOf(t) \cap Source = {}

LEMMA FreshEntries ==
  /\ Fresh(<<<<QUORUM, "ATTEMPT">>>>)
  /\ Fresh(<<<<QUORUM, "QUORUM_MIN">>, <<QUORUM, "POLLING">>>>)
<1>1. ASSUME NEW x \in SubCode PROVE <<QUORUM, x>> \in Entries /\ <<QUORUM, x>>[1] = QUORUM
  BY DEF Entries
<1>2. QUORUM \notin Source
  BY DEF QUORUM, Source
<1>3. ASSUME NEW a \in Entries, NEW b \in Entries, a[1] = QUORUM, b[1] = QUORUM
      PROVE  Fresh(<<a>>) /\ Fresh(<<a, b>>)
  <2>1. <<a>> \in Seq(Entries) /\ <<a, b>> \in Seq(Entries)
    OBVIOUS
  <2>2. SlotsOf(<<a>>) \subseteq {QUORUM}
    BY <1>3 DEF SlotsOf
  <2>3. SlotsOf(<<a, b>>) \subseteq {QUORUM}
    BY <1>3 DEF SlotsOf
  <2> QED BY <1>2, <2>1, <2>2, <2>3 DEF Fresh
<1>4. ASSUME NEW x \in SubCode, NEW y \in SubCode
      PROVE  Fresh(<<<<QUORUM, x>>>>) /\ Fresh(<<<<QUORUM, x>>, <<QUORUM, y>>>>)
  BY <1>1, <1>3, Zenon
<1>5. "ATTEMPT" \in SubCode /\ "QUORUM_MIN" \in SubCode /\ "POLLING" \in SubCode
  BY DEF SubCode
<1> QED BY <1>4, <1>5, Zenon

LEMMA AttemptBegun ==
  ASSUME NEW t, Fresh(t), BeginAttempt(t), HealthInv'
  PROVE  AttemptInv' /\ LiveNotDisabled'
<1>1. /\ src' = 0 /\ buf' = NoBuffer /\ pos' = 0 /\ live' = 0 /\ passed' = {} /\ trail' = t
  BY DEF BeginAttempt
<1>2. Cardinality({}) = 0
  BY FS_EmptySet
<1>3. Before(0) = {} /\ 0 \in Source /\ 0 \in 0 .. SOURCE_COUNT
  BY DEF Before, Source, SOURCE_COUNT
<1>4. Passing(health'[0], 0)
  BY <1>3 DEF HealthInv, HealthOK, Passing
<1>5. 0 \in 0 .. SAMPLE_BYTES - 1
  BY EntropyAssumption
<1>6. passed' \subseteq Before(src') /\ live' = Cardinality(passed')
  BY <1>1, <1>2
<1>7. SlotsOf(trail') \cap Source = Before(src') \ passed' /\ trail' \in Seq(Entries)
  BY <1>1, <1>3 DEF Fresh
<1>8. LiveNotDisabled'
  BY <1>1 DEF LiveNotDisabled
<1> QED BY <1>1, <1>3, <1>4, <1>5, <1>6, <1>7, <1>8 DEF AttemptInv

-----------------------------------------------------------------------------
(* A source that does not count.                                           *)
LEMMA SourceLost ==
  ASSUME AttemptInv, HealthInv', task \in Fill, src \in Source,
         NEW sub \in SubCode, Lost(src, sub)
  PROVE  AttemptInv'
<1>1. /\ trail' = Append(trail, <<src, sub>>) /\ src' = src + 1 /\ buf' = NoBuffer /\ pos' = 0
      /\ live' = live /\ passed' = passed
  BY DEF Lost
<1>2. <<src, sub>> \in Entries /\ <<src, sub>>[1] = src
  BY DEF Entries
<1>3. trail' \in Seq(Entries) /\ SlotsOf(trail') = SlotsOf(trail) \cup {src}
  BY <1>1, <1>2, AppendSlots, Zenon DEF AttemptInv
<1>4. /\ src' \in 0 .. SOURCE_COUNT /\ Before(src') = Before(src) \cup {src} /\ src \notin Before(src)
  BY <1>1, NextSource
<1>5. passed' \subseteq Before(src') /\ live' = Cardinality(passed')
  BY <1>1, <1>4 DEF AttemptInv
<1>6. SlotsOf(trail') \cap Source = Before(src') \ passed'
  BY <1>1, <1>3, <1>4, Zenon DEF AttemptInv
<1>7. pos' \in 0 .. SAMPLE_BYTES - 1
  BY <1>1, EntropyAssumption
<1>8. src' \in Source => Passing(health'[src'], pos')
  BY <1>1 DEF HealthInv, HealthOK, Passing
<1> QED BY <1>1, <1>3, <1>4, <1>5, <1>6, <1>7, <1>8 DEF AttemptInv

LEMMA GatherIInv ==
  ASSUME IInv, Gather
  PROVE  IInv'
<1>1. task \in Fill /\ src \in Source /\ task' = task /\ health' = health /\ entropy' = entropy
      /\ drbg' = drbg
  BY DEF Gather
<1>2. HealthInv' /\ SeedInv'
  BY <1>1 DEF IInv, HealthInv, SeedInv
<1>3. PICK a \in Adapter(src) :
        \/ Lost(src, "SOURCE_MISSING")
        \/ buf' = a.buf /\ UNCHANGED <<src, pos, live, passed, trail>>
  BY DEF Gather
<1>4. CASE Lost(src, "SOURCE_MISSING")
  <2>1. AttemptInv'
    BY <1>1, <1>2, <1>4, SourceLost DEF IInv, SubCode
  <2>2. LiveNotDisabled'
    BY <1>1, <1>4 DEF IInv, LiveNotDisabled, Lost
  <2> QED BY <1>2, <2>1, <2>2 DEF IInv
<1>5. CASE buf' = a.buf /\ UNCHANGED <<src, pos, live, passed, trail>>
  <2>1. pos = 0
    BY DEF Gather, IInv, AttemptInv
  <2>2. AttemptInv'
    BY <1>1, <1>5, <2>1 DEF IInv, AttemptInv
  <2>3. LiveNotDisabled'
    BY <1>1, <1>5 DEF IInv, LiveNotDisabled
  <2> QED BY <1>2, <2>2, <2>3 DEF IInv
<1> QED BY <1>3, <1>4, <1>5

LEMMA ExamineIInv ==
  ASSUME IInv, Examine
  PROVE  IInv'
<1> DEFINE c == check(health[src], buf[pos + 1])
<1>1. /\ task \in Fill /\ src \in Source /\ task' = task /\ entropy' = entropy /\ drbg' = drbg
      /\ health' = [health EXCEPT ![src] = c.h]
  BY DEF Examine
<1>2. \/ /\ c.v = "Fail" /\ Lost(src, "RCT_FAIL")
      \/ /\ c.v # "Fail" /\ pos + 1 < SAMPLE_BYTES
         /\ pos' = pos + 1 /\ UNCHANGED <<src, buf, live, passed, trail>>
      \/ /\ c.v # "Fail" /\ ~(pos + 1 < SAMPLE_BYTES)
         /\ live' = live + 1 /\ passed' = passed \cup {src}
         /\ src' = src + 1 /\ buf' = NoBuffer /\ pos' = 0 /\ UNCHANGED trail
  BY DEF Examine
<1>3. pos \in Nat /\ pos \in 0 .. SAMPLE_BYTES - 1 /\ HealthOK(health[src]) /\ Passing(health[src], pos)
      /\ DOMAIN health = Source
  BY <1>1 DEF IInv, HealthInv, AttemptInv
<1>4. Checked(c, pos)
  BY <1>3, CheckResult
<1> HIDE DEF c
<1>5. /\ DOMAIN health' = Source /\ health'[src] = c.h
      /\ \A s \in Source : s # src => health'[s] = health[s]
  BY <1>1, <1>3
<1>6. HealthInv' /\ SeedInv'
  <2>1. HealthInv'
    BY <1>4, <1>5 DEF IInv, HealthInv, Checked
  <2>2. SeedInv'
    BY <1>1 DEF IInv, SeedInv
  <2> QED BY <2>1, <2>2
<1>7. src \notin passed /\ passed \subseteq Source
  BY NextSource, <1>1 DEF IInv, AttemptInv, Before
<1>8. \A s \in passed : ~is_disabled(health'[s])
  BY <1>5, <1>7 DEF IInv, LiveNotDisabled
<1>9. CASE c.v = "Fail" /\ Lost(src, "RCT_FAIL")
  <2>1. AttemptInv'
    BY <1>1, <1>6, <1>9, SourceLost DEF IInv, SubCode
  <2>2. LiveNotDisabled'
    BY <1>8, <1>9 DEF LiveNotDisabled, Lost
  <2> QED BY <1>6, <2>1, <2>2 DEF IInv
<1>10. CASE /\ c.v # "Fail" /\ pos + 1 < SAMPLE_BYTES
            /\ pos' = pos + 1 /\ UNCHANGED <<src, buf, live, passed, trail>>
  <2>1. Passing(health'[src'], pos')
    BY <1>4, <1>5, <1>10 DEF Checked, Accepted
  <2>2. pos' \in 0 .. SAMPLE_BYTES - 1 /\ buf' # NoBuffer
    BY <1>3, <1>10, EntropyAssumption DEF Examine
  <2>3. AttemptInv'
    BY <1>1, <1>10, <2>1, <2>2 DEF IInv, AttemptInv
  <2>4. LiveNotDisabled'
    BY <1>8, <1>10 DEF LiveNotDisabled
  <2> QED BY <1>6, <2>3, <2>4 DEF IInv
<1>11. CASE /\ c.v # "Fail" /\ ~(pos + 1 < SAMPLE_BYTES)
            /\ live' = live + 1 /\ passed' = passed \cup {src}
            /\ src' = src + 1 /\ buf' = NoBuffer /\ pos' = 0 /\ UNCHANGED trail
  <2>1. pos + 1 >= REENTRY_THRESHOLD
    BY <1>3, <1>11, EntropyAssumption, HealthAssumption
  <2>2. ~is_disabled(health'[src])
    BY <1>4, <1>5, <1>11, <2>1 DEF Checked, Accepted, is_disabled
  <2>3. LiveNotDisabled'
    BY <1>8, <1>11, <2>2 DEF LiveNotDisabled
  <2>4. live' = Cardinality(passed')
    BY <1>7, <1>11, FiniteSources, FS_AddElement, Zenon DEF IInv, AttemptInv
  <2>5. src' \in 0 .. SOURCE_COUNT /\ Before(src') = Before(src) \cup {src} /\ src \notin Before(src)
    BY <1>1, <1>11, NextSource
  <2>6. passed' \subseteq Before(src') /\ SlotsOf(trail') \cap Source = Before(src') \ passed'
    BY <1>1, <1>11, <2>5 DEF IInv, AttemptInv
  <2>7. pos' \in 0 .. SAMPLE_BYTES - 1
    BY <1>11, EntropyAssumption
  <2>8. src' \in Source => Passing(health'[src'], pos')
    BY <1>6, <1>11 DEF HealthInv, HealthOK, Passing
  <2>9. AttemptInv'
    BY <1>11, <2>4, <2>5, <2>6, <2>7, <2>8 DEF IInv, AttemptInv
  <2> QED BY <1>6, <2>3, <2>9 DEF IInv
<1> QED BY <1>2, <1>9, <1>10, <1>11

-----------------------------------------------------------------------------
LEMMA BootIInv ==
  ASSUME IInv, Boot
  PROVE  IInv'
<1>1. /\ task = "Off" /\ task' = "Entropy" /\ BeginAttempt(<<<<QUORUM, "ATTEMPT">>>>)
      /\ health' = health /\ entropy' = entropy /\ drbg' = drbg
  BY DEF Boot, BeginFill
<1>2. HealthInv' /\ SeedInv'
  BY <1>1 DEF IInv, HealthInv, SeedInv
<1> QED BY <1>1, <1>2, FreshEntries, AttemptBegun DEF IInv

LEMMA QuorumFailedIInv ==
  ASSUME IInv, QuorumFailed
  PROVE  IInv'
<1> DEFINE refused == <<<<QUORUM, "QUORUM_MIN">>, <<QUORUM, "POLLING">>>>
           last == <<<<QUORUM, "QUORUM_MIN">>>>
<1>1. task \in Fill /\ health' = health /\ entropy' = entropy /\ drbg' = drbg
  BY DEF QuorumFailed, Decided
<1>2. \/ task' = "Panic" /\ trail' = trail \o refused \o last /\ UNCHANGED <<src, buf, pos, live, passed>>
      \/ BeginAttempt(refused) /\ task' = task
  BY Zenon DEF QuorumFailed
<1>3. HealthInv'
  BY <1>1 DEF IInv, HealthInv
<1>4. CASE /\ task' = "Panic" /\ trail' = trail \o refused \o last
           /\ UNCHANGED <<src, buf, pos, live, passed>>
  <2>1. refused \in Seq(Entries) /\ last \in Seq(Entries)
    <3>1. <<QUORUM, "QUORUM_MIN">> \in Entries /\ <<QUORUM, "POLLING">> \in Entries
      BY DEF Entries, SubCode
    <3> QED BY <3>1
  <2> HIDE DEF refused, last
  <2>2. trail' \in Seq(Entries)
    BY <1>4, <2>1 DEF IInv, AttemptInv
  <2>3. AttemptInv'
    BY <1>1, <1>4, <2>2 DEF IInv, AttemptInv, Fill
  <2>4. SeedInv' /\ LiveNotDisabled'
    BY <1>1, <1>4 DEF IInv, SeedInv, LiveNotDisabled
  <2> QED BY <1>3, <2>3, <2>4 DEF IInv
<1>5. CASE BeginAttempt(refused) /\ task' = task
  <2>1. AttemptInv' /\ LiveNotDisabled'
    BY <1>3, <1>5, FreshEntries, AttemptBegun
  <2>2. SeedInv'
    BY <1>1, <1>5 DEF IInv, SeedInv
  <2> QED BY <1>3, <2>1, <2>2 DEF IInv
<1> QED BY <1>2, <1>4, <1>5, Zenon

LEMMA RecoveredAttempt ==
  ASSUME IInv, Recovered, health' = health, task' = "Up"
  PROVE  AttemptInv' /\ LiveNotDisabled'
<1>1. /\ trail' = Append(trail, <<QUORUM, "RECOVERED">>)
      /\ src' = src /\ buf' = buf /\ pos' = pos /\ live' = live /\ passed' = passed
  BY DEF Recovered
<1>2. <<QUORUM, "RECOVERED">> \in Entries
  BY DEF Entries, SubCode
<1>3. trail' \in Seq(Entries)
  BY <1>1, <1>2, AppendSlots DEF IInv, AttemptInv
<1>4. task' \notin Fill
  BY DEF Fill
<1>5. AttemptInv'
  BY <1>1, <1>3, <1>4 DEF IInv, AttemptInv
<1>6. LiveNotDisabled'
  BY <1>1 DEF IInv, LiveNotDisabled
<1> QED BY <1>5, <1>6

LEMMA SeededIInv ==
  ASSUME IInv, Seeded
  PROVE  IInv'
<1>1. live >= QUORUM_MIN /\ health' = health /\ live = Cardinality(passed)
  BY DEF Seeded, IInv, AttemptInv
<1>2. HealthInv'
  BY <1>1 DEF IInv, HealthInv
<1>3. CASE task = "Entropy" /\ task' = "Nonce" /\ entropy' = passed /\ BeginFill /\ drbg' = drbg
  <2>1. AttemptInv' /\ LiveNotDisabled'
    BY <1>2, <1>3, FreshEntries, AttemptBegun DEF BeginFill
  <2>2. SeedInv'
    BY <1>1, <1>3 DEF IInv, SeedInv
  <2> QED BY <1>2, <2>1, <2>2 DEF IInv
<1>4. CASE /\ task = "Nonce" /\ task' = "Up" /\ Recovered
           /\ drbg' = [entropy |-> entropy, nonce |-> passed, counter |-> 0]
  <2>1. AttemptInv' /\ LiveNotDisabled'
    BY <1>1, <1>4, RecoveredAttempt
  <2>2. drbg'.entropy = entropy /\ drbg'.nonce = passed /\ drbg' # NoDrbg
    BY <1>4 DEF NoDrbg
  <2>3. SeedInv'
    BY <1>1, <1>4, <2>2 DEF IInv, SeedInv
  <2> QED BY <1>2, <2>1, <2>3 DEF IInv
<1>5. CASE /\ task = "Reseed" /\ task' = "Up" /\ Recovered
           /\ drbg' = [entropy |-> passed, nonce |-> drbg.nonce, counter |-> 0]
  <2>1. AttemptInv' /\ LiveNotDisabled'
    BY <1>1, <1>5, RecoveredAttempt
  <2>2. drbg'.entropy = passed /\ drbg'.nonce = drbg.nonce /\ drbg' # NoDrbg
    BY <1>5 DEF NoDrbg
  <2>3. SeedInv'
    BY <1>1, <1>5, <2>2 DEF IInv, SeedInv
  <2> QED BY <1>2, <2>1, <2>3 DEF IInv
<1> QED BY <1>3, <1>4, <1>5 DEF Seeded

(* Steps that leave the attempt alone.                                     *)
LEMMA AttemptKept ==
  ASSUME IInv, UNCHANGED <<health, attempt>>, task' \in Fill => task \in Fill
  PROVE  HealthInv' /\ AttemptInv' /\ LiveNotDisabled'
BY DEF IInv, HealthInv, AttemptInv, LiveNotDisabled, attempt

LEMMA GenerateIInv ==
  ASSUME IInv, Generate
  PROVE  IInv'
<1>1. task = "Up" /\ drbg # NoDrbg /\ health' = health /\ entropy' = entropy
  BY DEF Generate, IInv, SeedInv
<1>2. CASE task' = "Reseed" /\ BeginFill /\ drbg' = drbg
  <2>1. HealthInv' /\ SeedInv'
    BY <1>1, <1>2 DEF IInv, HealthInv, SeedInv
  <2> QED BY <1>2, <2>1, FreshEntries, AttemptBegun DEF IInv, BeginFill
<1>3. CASE /\ drbg' = [entropy |-> drbg.entropy, nonce |-> drbg.nonce, counter |-> drbg.counter + 1]
           /\ task' = task /\ attempt' = attempt
  <2>1. drbg'.entropy = drbg.entropy /\ drbg'.nonce = drbg.nonce /\ drbg' # NoDrbg
    BY <1>3 DEF NoDrbg
  <2>2. SeedInv'
    BY <1>1, <1>3, <2>1 DEF IInv, SeedInv
  <2> QED BY <1>1, <1>3, <2>2, AttemptKept DEF IInv
<1> QED BY <1>2, <1>3 DEF Generate

LEMMA SeedRefusedIInv ==
  ASSUME IInv, SeedRefused
  PROVE  IInv'
<1>1. /\ UNCHANGED <<health, attempt>> /\ entropy' = entropy /\ drbg' = drbg
      /\ task' = IF task = "Reseed" THEN "Up" ELSE "Panic"
  BY DEF SeedRefused
<1>2. task' \notin Fill
  BY <1>1 DEF Fill
<1>3. SeedInv'
  BY <1>1 DEF IInv, SeedInv
<1> QED BY <1>1, <1>2, <1>3, AttemptKept DEF IInv
-----------------------------------------------------------------------------
LEMMA InitIInv ==
  ASSUME Init
  PROVE  IInv
<1>1. /\ task = "Off" /\ health = [s \in Source |-> NewHealth] /\ src = 0 /\ buf = NoBuffer
      /\ pos = 0 /\ live = 0 /\ passed = {} /\ trail = << >> /\ drbg = NoDrbg
  BY DEF Init
<1>2. HealthOK(NewHealth)
  <2>1. NewHealth.consecutive_pass = 0 /\ NewHealth.disabled = FALSE
    BY Zenon DEF NewHealth, StreamHealth
  <2>2. NewHealth.disabled \in BOOLEAN /\ ~NewHealth.disabled
    BY <2>1, Zenon
  <2> QED BY <2>1, <2>2 DEF HealthOK
<1>3. HealthInv
  BY <1>1, <1>2 DEF HealthInv
<1>4. 0 \in Source /\ Passing(health[0], 0)
  BY <1>3 DEF Source, HealthInv, HealthOK, Passing
<1>5. AttemptInv
  <2>1. Cardinality({}) = 0
    BY FS_EmptySet
  <2>2. src \in 0 .. SOURCE_COUNT /\ pos \in 0 .. SAMPLE_BYTES - 1
    BY <1>1, EntropyAssumption DEF SOURCE_COUNT
  <2>3. trail \in Seq(Entries) /\ task \notin Fill
    BY <1>1 DEF Fill
  <2> QED BY <1>1, <1>4, <2>1, <2>2, <2>3 DEF AttemptInv
<1>6. SeedInv /\ LiveNotDisabled
  BY <1>1 DEF SeedInv, LiveNotDisabled
<1> QED BY <1>3, <1>5, <1>6 DEF IInv

LEMMA NextIInv ==
  ASSUME IInv, [Next]_vars
  PROVE  IInv'
<1>1. CASE UNCHANGED vars
  <2>1. UNCHANGED <<health, attempt>> /\ task' = task /\ entropy' = entropy /\ drbg' = drbg
    BY <1>1 DEF vars, attempt
  <2>2. SeedInv'
    BY <2>1 DEF IInv, SeedInv
  <2> QED BY <2>1, <2>2, AttemptKept DEF IInv
<1>2. CASE Halted
  BY <1>1, <1>2 DEF Halted
<1> QED BY <1>1, <1>2, BootIInv, GatherIInv, ExamineIInv, QuorumFailedIInv, SeededIInv,
           SeedRefusedIInv, GenerateIInv DEF Next

LEMMA Invariance == Spec => []IInv
BY InitIInv, NextIInv, PTL DEF Spec

(* A source that collect counts among live_sources is one that its health  *)
(* test has not disabled, whatever the samples, because a buffer has at    *)
(* least REENTRY_THRESHOLD samples.                                        *)
THEOREM CountedNotDisabled == Spec => []LiveNotDisabled
<1>1. IInv => LiveNotDisabled
  BY DEF IInv
<1> QED BY <1>1, Invariance, PTL

(* rand_bytes and gen_token_u64 run only on a DRBG both of whose seeds     *)
(* init_prng and reseed_drbg got from QUORUM_MIN sources of one attempt.   *)
THEOREM SeedsHonest == Spec => []SeedHonest
<1>1. IInv => SeedHonest
  BY DEF IInv, SeedInv, SeedHonest
<1> QED BY <1>1, Invariance, PTL

(* When collect decides, the audit entries of the attempt name exactly the *)
(* sources that were not counted, and live_sources is the number of those  *)
(* that were.                                                              *)
THEOREM AttemptsAudited == Spec => []AttemptAudited
<1>1. ASSUME IInv, Decided
      PROVE  {trail[i][1] : i \in DOMAIN trail} \cap Source = Source \ passed
  <2>1. Before(src) = Source
    BY <1>1 DEF Decided, Before, Source, SOURCE_COUNT
  <2> QED BY <1>1, <2>1 DEF IInv, AttemptInv, Decided, SlotsOf
<1>2. IInv => AttemptAudited
  BY <1>1 DEF AttemptAudited, IInv, AttemptInv
<1> QED BY <1>2, Invariance, PTL
-----------------------------------------------------------------------------
(* A set of naturals has a least element: the induction over streams.      *)
LEMMA Least ==
  ASSUME NEW S, S \subseteq Nat, S # {}
  PROVE  \E i \in S : \A j \in S : i <= j
<1>1. \A i, j \in Nat : j < i => <<j, i>> \in OpToRel(<, Nat)
  BY DEF OpToRel
<1>2. \E i \in S : \A j \in S : ~(<<j, i>> \in OpToRel(<, Nat))
  BY NatLessThanWellFounded, WFMin, Zenon
<1>3. \E i \in S : \A j \in S : ~(j < i)
  BY <1>1, <1>2, Zenon
<1> QED
  BY <1>3

(* The repetition test: count is the length of the run of equal samples    *)
(* that ends at sample n, as far as 32 bits count it.                      *)
RctInv(w, n, count, last) ==
  /\ count \in 0 .. U32_MAX /\ count <= n
  /\ n > 0 => count >= 1 /\ last = w[n]
  /\ \A i \in n - count + 1 .. n : w[i] = w[n]
  /\ count < U32_MAX /\ count < n => w[n - count] # w[n]

RunCount(count, last, x) == IF x = last THEN SatIncr(count) ELSE 1

LEMMA RctStep ==
  ASSUME NEW w, NEW n \in Nat, NEW count, NEW last, RctInv(w, n, count, last),
         NEW x, x = w[n + 1], NEW c, c = RunCount(count, last, x)
  PROVE  RctInv(w, n + 1, c, x)
<1>0. U32_MAX \in Nat /\ U32_MAX >= 2
  BY HealthAssumption
<1>1. CASE n = 0
  <2>1. count = 0
    BY <1>1 DEF RctInv
  <2>2. c = 1
    BY <1>0, <2>1 DEF RunCount, SatIncr, Lesser
  <2> QED
    BY <1>0, <1>1, <2>2 DEF RctInv
<1>2. CASE n > 0 /\ x = last
  <2>1. w[n + 1] = w[n] /\ count \in 1 .. U32_MAX /\ count <= n
    BY <1>2 DEF RctInv
  <2>2. c = IF count + 1 < U32_MAX THEN count + 1 ELSE U32_MAX
    BY <1>2 DEF RunCount, SatIncr, Lesser
  <2>3. c \in 1 .. U32_MAX /\ c <= count + 1 /\ (c < U32_MAX => c = count + 1)
    BY <1>0, <2>1, <2>2
  <2>4. ASSUME NEW i \in (n + 1) - c + 1 .. n + 1 PROVE w[i] = w[n + 1]
    <3>1. i = n + 1 \/ i \in n - count + 1 .. n
      BY <2>1, <2>3
    <3> QED
      BY <2>1, <3>1 DEF RctInv
  <2>5. c < U32_MAX /\ c < n + 1 => w[(n + 1) - c] # w[n + 1]
    <3> SUFFICES ASSUME c < U32_MAX, c < n + 1 PROVE w[(n + 1) - c] # w[n + 1]
      OBVIOUS
    <3>1. c = count + 1 /\ count < U32_MAX /\ count < n /\ (n + 1) - c = n - count
      BY <1>0, <2>1, <2>3
    <3> QED
      BY <2>1, <3>1 DEF RctInv
  <2> QED
    BY <1>0, <1>2, <2>1, <2>3, <2>4, <2>5 DEF RctInv
<1>3. CASE n > 0 /\ x # last
  <2>1. c = 1 /\ w[n + 1] # w[n]
    BY <1>3 DEF RunCount, RctInv
  <2>2. (n + 1) - c = n /\ (n + 1) - c + 1 = n + 1
    BY <2>1
  <2> QED
    BY <1>0, <1>3, <2>1, <2>2 DEF RctInv
<1> QED
  BY <1>1, <1>2, <1>3

LEMMA RctVerdict ==
  ASSUME NEW w, NEW n \in Nat \ {0}, NEW count, NEW last, RctInv(w, n, count, last)
  PROVE  Repeats(w, n) <=> count >= RCT_CUTOFF
<1>0. U32_MAX \in Nat /\ RCT_CUTOFF \in Nat /\ RCT_CUTOFF <= U32_MAX /\ RCT_CUTOFF >= 2
  BY HealthAssumption
<1>1. count \in Nat /\ count <= n /\ count <= U32_MAX /\ count >= 1
  BY <1>0 DEF RctInv
<1>2. ASSUME count >= RCT_CUTOFF PROVE Repeats(w, n)
  <2>1. \A i \in n - RCT_CUTOFF + 1 .. n : i \in n - count + 1 .. n
    BY <1>0, <1>1, <1>2
  <2> QED
    BY <1>0, <1>1, <1>2, <2>1 DEF Repeats, RctInv
<1>3. ASSUME ~(count >= RCT_CUTOFF), Repeats(w, n) PROVE FALSE
  <2>1. count < U32_MAX /\ count < n /\ n - count \in n - RCT_CUTOFF + 1 .. n
    BY <1>0, <1>1, <1>3 DEF Repeats
  <2> QED
    BY <1>3, <2>1 DEF Repeats, RctInv
<1> QED
  BY <1>2, <1>3
-----------------------------------------------------------------------------
(* Re-entry: pass is the number of samples since the latest failure, or    *)
(* since the beginning, as far as 32 bits count it.                        *)
PassInv(w, n, pass, disabled) ==
  /\ pass \in 0 .. U32_MAX /\ pass <= n
  /\ \A f \in 1 .. n : Fails(w, f) => f <= n - pass
  /\ pass < U32_MAX /\ pass < n => Fails(w, n - pass)
  /\ disabled <=> pass < REENTRY_THRESHOLD /\ pass < n

LEMMA PassFails ==
  ASSUME NEW w, NEW n \in Nat, Fails(w, n + 1), NEW disabled, disabled = TRUE
  PROVE  PassInv(w, n + 1, 0, disabled)
<1>1. (n + 1) - 0 = n + 1
  OBVIOUS
<1>2. disabled <=> 0 < REENTRY_THRESHOLD /\ 0 < n + 1
  <2>1. 0 < REENTRY_THRESHOLD /\ 0 < n + 1
    BY HealthAssumption
  <2> QED BY <2>1, Zenon
<1> QED
  BY <1>1, <1>2, HealthAssumption DEF PassInv

LEMMA PassPasses ==
  ASSUME NEW w, NEW n \in Nat, ~Fails(w, n + 1), NEW pass, NEW disabled,
         PassInv(w, n, pass, disabled), NEW p, p = SatIncr(pass),
         NEW d, d = (disabled /\ p < REENTRY_THRESHOLD)
  PROVE  PassInv(w, n + 1, p, d)
<1>0. /\ U32_MAX \in Nat /\ REENTRY_THRESHOLD \in Nat /\ REENTRY_THRESHOLD <= U32_MAX
      /\ REENTRY_THRESHOLD > 0
  BY HealthAssumption
<1>1. pass \in Nat /\ pass <= n /\ pass <= U32_MAX
  BY <1>0 DEF PassInv
<1>2. p = IF pass + 1 < U32_MAX THEN pass + 1 ELSE U32_MAX
  BY DEF SatIncr, Lesser
<1>3. p \in 0 .. U32_MAX /\ p <= pass + 1 /\ (p < U32_MAX => p = pass + 1)
  BY <1>0, <1>1, <1>2
<1>4. ASSUME NEW f \in 1 .. n + 1, Fails(w, f) PROVE f <= (n + 1) - p
  <2>1. f \in 1 .. n
    BY <1>4
  <2>2. f <= n - pass
    BY <1>4, <2>1 DEF PassInv
  <2> QED
    BY <1>1, <1>3, <2>1, <2>2
<1>5. ASSUME p < U32_MAX, p < n + 1 PROVE Fails(w, (n + 1) - p)
  <2>1. p = pass + 1 /\ pass < n /\ pass < U32_MAX /\ (n + 1) - p = n - pass
    BY <1>0, <1>1, <1>3, <1>5
  <2> QED
    BY <2>1 DEF PassInv
<1>6. d <=> p < REENTRY_THRESHOLD /\ p < n + 1
  <2>1. disabled <=> pass < REENTRY_THRESHOLD /\ pass < n
    BY DEF PassInv
  <2>2. /\ pass < REENTRY_THRESHOLD /\ pass < n /\ p < REENTRY_THRESHOLD
             => p < n + 1
        /\ p < REENTRY_THRESHOLD /\ p < n + 1 => pass < REENTRY_THRESHOLD /\ pass < n
    BY <1>0, <1>1, <1>3
  <2>3. d <=> disabled /\ p < REENTRY_THRESHOLD
    BY Zenon
  <2> QED
    BY <2>1, <2>2, <2>3, Zenon
<1> QED
  BY <1>0, <1>1, <1>3, <1>4, <1>5, <1>6 DEF PassInv

LEMMA PassVerdict ==
  ASSUME NEW w, NEW n \in Nat, NEW pass, NEW disabled, PassInv(w, n, pass, disabled)
  PROVE  disabled <=> \E f \in 1 .. n : Fails(w, f) /\ n - f < REENTRY_THRESHOLD
<1>0. /\ U32_MAX \in Nat /\ REENTRY_THRESHOLD \in Nat /\ REENTRY_THRESHOLD <= U32_MAX
  BY HealthAssumption
<1>1. pass \in Nat /\ pass <= n /\ (disabled <=> pass < REENTRY_THRESHOLD /\ pass < n)
  BY <1>0 DEF PassInv
<1>2. ASSUME pass < REENTRY_THRESHOLD, pass < n
      PROVE  \E f \in 1 .. n : Fails(w, f) /\ n - f < REENTRY_THRESHOLD
  <2>1. n - pass \in 1 .. n /\ n - (n - pass) < REENTRY_THRESHOLD /\ pass < U32_MAX
    BY <1>0, <1>1, <1>2
  <2>2. Fails(w, n - pass)
    BY <1>2, <2>1 DEF PassInv
  <2> QED
    BY <2>1, <2>2
<1>3. ASSUME NEW f \in 1 .. n, Fails(w, f), n - f < REENTRY_THRESHOLD
      PROVE  pass < REENTRY_THRESHOLD /\ pass < n
  <2>1. f <= n - pass
    BY <1>3 DEF PassInv
  <2> QED
    BY <1>0, <1>1, <1>3, <2>1
<1> QED
  BY <1>1, <1>2, <1>3
-----------------------------------------------------------------------------
(* The proportion test: the samples of the window that is being filled.    *)
LEMMA FirstOfIs ==
  ASSUME NEW S, S \subseteq Nat, S # {}
  PROVE  FirstOf(S) \in S /\ \A j \in S : FirstOf(S) <= j
BY Least, Zenon DEF FirstOf

LEMMA FirstOfKept ==
  ASSUME NEW S, S \subseteq Nat, S # {}, NEW m \in Nat, \A j \in S : j < m
  PROVE  FirstOf(S \cup {m}) = FirstOf(S)
<1>1. FirstOf(S) \in S /\ \A j \in S : FirstOf(S) <= j
  BY FirstOfIs, Zenon
<1> DEFINE T == S \cup {m}
<1>2. T \subseteq Nat /\ T # {}
  OBVIOUS
<1>3. FirstOf(T) \in T /\ \A j \in T : FirstOf(T) <= j
  BY <1>2, FirstOfIs, Zenon
<1>4. FirstOf(S) \in Nat /\ FirstOf(T) \in Nat
  BY <1>1, <1>2, <1>3, Zenon
<1>5. FirstOf(T) <= FirstOf(S)
  BY <1>1, <1>3, Zenon
<1>6. FirstOf(T) \in S
  BY <1>1, <1>3, <1>4, <1>5
<1> QED
  BY <1>1, <1>4, <1>5, <1>6

LEMMA KeptFinite ==
  ASSUME NEW w, NEW n \in Nat
  PROVE  /\ Kept(w, n) \subseteq 1 .. n /\ IsFiniteSet(Kept(w, n)) /\ Rank(w, n) \in Nat
<1>1. Kept(w, n) \subseteq 1 .. n
  BY DEF Kept
<1>2. IsFiniteSet(1 .. n)
  BY FS_Interval
<1>3. IsFiniteSet(Kept(w, n))
  BY <1>1, <1>2, FS_Subset
<1> QED
  BY <1>1, <1>3, FS_CardinalityType DEF Rank

LEMMA RankMono ==
  ASSUME NEW w, NEW n \in Nat, NEW i \in 0 .. n
  PROVE  Rank(w, i) <= Rank(w, n)
<1>1. Kept(w, i) \subseteq Kept(w, n)
  BY DEF Kept
<1>2. IsFiniteSet(Kept(w, n))
  BY KeptFinite
<1> QED
  BY <1>1, <1>2, FS_Subset DEF Rank

LEMMA KeptStep ==
  ASSUME NEW w, NEW n \in Nat
  PROVE  IF Repeats(w, n + 1)
         THEN Kept(w, n + 1) = Kept(w, n) /\ Rank(w, n + 1) = Rank(w, n)
         ELSE Kept(w, n + 1) = Kept(w, n) \cup {n + 1} /\ Rank(w, n + 1) = Rank(w, n) + 1
<1>1. CASE Repeats(w, n + 1)
  <2>1. Kept(w, n + 1) = Kept(w, n)
    BY <1>1 DEF Kept
  <2> QED
    BY <1>1, <2>1 DEF Rank
<1>2. CASE ~Repeats(w, n + 1)
  <2>1. Kept(w, n + 1) = Kept(w, n) \cup {n + 1}
    BY <1>2 DEF Kept
  <2>2. n + 1 \notin Kept(w, n) /\ IsFiniteSet(Kept(w, n))
    BY KeptFinite
  <2>3. Cardinality(Kept(w, n) \cup {n + 1}) = Cardinality(Kept(w, n)) + 1
    BY <2>2, FS_AddElement
  <2> QED
    BY <1>2, <2>1, <2>3 DEF Rank
<1> QED
  BY <1>1, <1>2

(* The latest k of the samples kept.                                       *)
Latest(w, n, k) == {i \in Kept(w, n) : Rank(w, i) > Rank(w, n) - k}
Alike(w, S) == {i \in S : w[i] = w[FirstOf(S)]}

AptInv(w, n, initial, observed, filled) ==
  LET S == Latest(w, n, filled)
  IN  /\ filled \in 0 .. APT_WINDOW - 1 /\ filled = Rank(w, n) % APT_WINDOW
      /\ filled > 0 => /\ S # {} /\ initial = w[FirstOf(S)]
                       /\ observed = Cardinality(Alike(w, S))
                       /\ observed \in 0 .. filled

LEMMA LatestNone ==
  ASSUME NEW w, NEW n \in Nat
  PROVE  Latest(w, n, 0) = {}
<1>1. \A i \in Kept(w, n) : i \in 0 .. n /\ Rank(w, i) \in Nat
  BY KeptFinite
<1>2. \A i \in Kept(w, n) : Rank(w, i) <= Rank(w, n)
  BY <1>1, RankMono
<1> QED
  BY <1>1, <1>2, KeptFinite DEF Latest

LEMMA LatestStep ==
  ASSUME NEW w, NEW n \in Nat, ~Repeats(w, n + 1), NEW k \in Nat
  PROVE  Latest(w, n + 1, k + 1) = Latest(w, n, k) \cup {n + 1}
<1>1. Kept(w, n + 1) = Kept(w, n) \cup {n + 1} /\ Rank(w, n + 1) = Rank(w, n) + 1
  BY KeptStep
<1>2. Rank(w, n) \in Nat /\ Rank(w, n + 1) - (k + 1) = Rank(w, n) - k
  BY <1>1, KeptFinite
<1>3. Rank(w, n + 1) > Rank(w, n) - k
  BY <1>1, <1>2
<1> QED
  BY <1>1, <1>2, <1>3 DEF Latest

LEMMA LatestFinite ==
  ASSUME NEW w, NEW n \in Nat, NEW k
  PROVE  /\ Latest(w, n, k) \subseteq 1 .. n /\ IsFiniteSet(Latest(w, n, k))
         /\ Latest(w, n, k) \subseteq Nat /\ n + 1 \notin Latest(w, n, k)
<1>1. Latest(w, n, k) \subseteq Kept(w, n)
  BY DEF Latest
<1>2. Latest(w, n, k) \subseteq 1 .. n
  BY <1>1, KeptFinite
<1>3. IsFiniteSet(Latest(w, n, k))
  BY <1>1, KeptFinite, FS_Subset
<1> QED
  BY <1>2, <1>3

LEMMA ModNext ==
  ASSUME NEW a \in Nat, NEW C \in Nat \ {0}
  PROVE  (a + 1) % C = IF (a % C) + 1 >= C THEN 0 ELSE (a % C) + 1
<1> DEFINE q == a \div C
           r == a % C
<1>1. r \in 0 .. C - 1 /\ q \in Nat /\ a = C * q + r
  OBVIOUS
<1>2. \A b \in Int, p \in Int, s \in 0 .. C - 1 : b = C * p + s => b % C = s
  OBVIOUS
<1> HIDE DEF q, r
<1>3. CASE r + 1 >= C
  <2>1. a + 1 = C * q + C
    BY <1>1, <1>3
  <2>2. C * q + C = C * (q + 1) + 0
    BY <1>1
  <2>3. q + 1 \in Int /\ a + 1 \in Int /\ 0 \in 0 .. C - 1
    BY <1>1
  <2>4. (a + 1) % C = 0
    BY <1>2, <2>1, <2>2, <2>3, Zenon
  <2> QED
    BY <1>3, <2>4 DEF r
<1>4. CASE ~(r + 1 >= C)
  <2>1. a + 1 = C * q + (r + 1)
    BY <1>1
  <2>2. q \in Int /\ a + 1 \in Int /\ r + 1 \in 0 .. C - 1
    BY <1>1, <1>4
  <2>3. (a + 1) % C = r + 1
    BY <1>2, <2>1, <2>2, Zenon
  <2> QED
    BY <1>4, <2>3 DEF r
<1> QED
  BY <1>3, <1>4

(* A sample that fails the RCT leaves the window alone.                    *)
LEMMA AptSkips ==
  ASSUME NEW w, NEW n \in Nat, Repeats(w, n + 1), NEW initial, NEW observed, NEW filled,
         AptInv(w, n, initial, observed, filled)
  PROVE  AptInv(w, n + 1, initial, observed, filled)
<1>1. Kept(w, n + 1) = Kept(w, n) /\ Rank(w, n + 1) = Rank(w, n)
  BY KeptStep
<1>2. Latest(w, n + 1, filled) = Latest(w, n, filled)
  BY <1>1 DEF Latest
<1> QED
  BY <1>1, <1>2 DEF AptInv

(* The window with one more sample: its first sample and how often it      *)
(* occurs.                                                                 *)
Initial(initial, filled, x) == IF filled = 0 THEN x ELSE initial
Observed(initial, observed, filled, x) ==
  IF filled = 0 THEN 1 ELSE IF x = initial THEN SatIncr(observed) ELSE observed

LEMMA AptGrows ==
  ASSUME NEW w, NEW n \in Nat, ~Repeats(w, n + 1), NEW initial, NEW observed, NEW filled,
         AptInv(w, n, initial, observed, filled), NEW x, x = w[n + 1],
         NEW i, i = Initial(initial, filled, x),
         NEW o, o = Observed(initial, observed, filled, x),
         NEW S, S = Latest(w, n + 1, filled + 1)
  PROVE  /\ S # {} /\ i = w[FirstOf(S)] /\ o = Cardinality(Alike(w, S))
         /\ o \in 0 .. filled + 1
<1> DEFINE T == Latest(w, n, filled)
<1>1. filled \in Nat /\ filled < APT_WINDOW /\ APT_WINDOW <= U32_MAX
      /\ APT_WINDOW \in Nat /\ U32_MAX \in Nat
  BY HealthAssumption DEF AptInv
<1>2. S = T \cup {n + 1}
  BY <1>1, LatestStep
<1>3. T \subseteq Nat /\ IsFiniteSet(T) /\ n + 1 \notin T /\ \A j \in T : j < n + 1
  BY LatestFinite
<1>4. S # {} /\ S \subseteq Nat
  BY <1>2, <1>3
<1>5. CASE filled = 0
  <2>1. S = {n + 1}
    BY <1>2, <1>5, LatestNone
  <2>2. FirstOf(S) = n + 1
    BY <1>4, <2>1, FirstOfIs
  <2>3. Alike(w, S) = {n + 1}
    BY <2>1, <2>2 DEF Alike
  <2>4. Cardinality({n + 1}) = 1
    BY FS_Singleton, Zenon
  <2> QED
    BY <1>4, <1>5, <2>2, <2>3, <2>4 DEF Initial, Observed
<1>6. CASE filled > 0
  <2> DEFINE A == Alike(w, T)
  <2>1. /\ T # {} /\ initial = w[FirstOf(T)] /\ observed = Cardinality(A)
        /\ observed \in 0 .. filled
    BY <1>6 DEF AptInv
  <2>2. FirstOf(S) = FirstOf(T)
    BY <1>2, <1>3, <2>1, FirstOfKept
  <2>3. A \subseteq T /\ IsFiniteSet(A) /\ n + 1 \notin A
    <3>1. A \subseteq T
      BY DEF Alike
    <3> QED BY <1>3, <3>1, FS_Subset
  <2>4. i = initial
    BY <1>6 DEF Initial
  <2>5. o = IF x = initial THEN SatIncr(observed) ELSE observed
    BY <1>1, <1>6 DEF Observed
  <2>6. SatIncr(observed) = observed + 1
    BY <1>1, <2>1 DEF SatIncr, Lesser
  <2>7. CASE x = initial
    <3>1. Alike(w, S) = A \cup {n + 1}
      BY <1>2, <2>1, <2>2, <2>7, Zenon DEF Alike
    <3>2. Cardinality(A \cup {n + 1}) = Cardinality(A) + 1
      BY <2>3, FS_AddElement, Zenon
    <3> QED
      BY <1>1, <1>4, <2>1, <2>2, <2>4, <2>5, <2>6, <2>7, <3>1, <3>2
  <2>8. CASE x # initial
    <3>1. Alike(w, S) = A
      BY <1>2, <2>1, <2>2, <2>8 DEF Alike
    <3> QED
      BY <1>1, <1>4, <2>1, <2>2, <2>4, <2>5, <2>8, <3>1
  <2> QED
    BY <2>7, <2>8
<1> QED
  BY <1>1, <1>5, <1>6

LEMMA AptStep ==
  ASSUME NEW w, NEW n \in Nat, ~Repeats(w, n + 1), NEW initial, NEW observed, NEW filled,
         AptInv(w, n, initial, observed, filled), NEW x, x = w[n + 1],
         NEW i, i = Initial(initial, filled, x),
         NEW o, o = Observed(initial, observed, filled, x)
  PROVE  IF filled + 1 >= APT_WINDOW
         THEN /\ Biased(w, n + 1) <=> o >= APT_CUTOFF
              /\ \A a, b : AptInv(w, n + 1, a, b, 0)
         ELSE ~Biased(w, n + 1) /\ AptInv(w, n + 1, i, o, filled + 1)
<1> DEFINE S == Latest(w, n + 1, filled + 1)
<1>1. /\ S # {} /\ i = w[FirstOf(S)] /\ o = Cardinality(Alike(w, S))
      /\ o \in 0 .. filled + 1
  BY AptGrows
<1>2. /\ filled \in 0 .. APT_WINDOW - 1 /\ filled = Rank(w, n) % APT_WINDOW
      /\ APT_WINDOW \in Nat \ {0}
  BY HealthAssumption DEF AptInv
<1>3. Rank(w, n) \in Nat /\ Rank(w, n + 1) = Rank(w, n) + 1
  BY KeptFinite, KeptStep
<1>4. Rank(w, n + 1) % APT_WINDOW = IF filled + 1 >= APT_WINDOW THEN 0 ELSE filled + 1
  BY <1>2, <1>3, ModNext, Zenon
<1>5. CASE filled + 1 >= APT_WINDOW
  <2>1. filled + 1 = APT_WINDOW
    BY <1>2, <1>5
  <2>2. WindowOf(w, n + 1) = S
    BY <2>1 DEF WindowOf, Latest
  <2>3. Rank(w, n + 1) % APT_WINDOW = 0
    BY <1>4, <1>5
  <2>4. Biased(w, n + 1) <=> o >= APT_CUTOFF
    BY <1>1, <2>2, <2>3 DEF Biased, Alike
  <2>5. \A a, b : AptInv(w, n + 1, a, b, 0)
    BY <1>2, <2>3 DEF AptInv
  <2> QED
    BY <1>5, <2>4, <2>5
<1>6. CASE ~(filled + 1 >= APT_WINDOW)
  <2>1. Rank(w, n + 1) % APT_WINDOW = filled + 1
    BY <1>4, <1>6
  <2>2. ~Biased(w, n + 1)
    BY <1>2, <2>1 DEF Biased
  <2>3. AptInv(w, n + 1, i, o, filled + 1)
    <3>1. filled + 1 \in 0 .. APT_WINDOW - 1
      BY <1>2, <1>6
    <3> QED
      BY <1>1, <2>1, <3>1 DEF AptInv
  <2> QED
    BY <1>6, <2>2, <2>3
<1> QED
  BY <1>5, <1>6
-----------------------------------------------------------------------------
(* The evaluator after n samples of w, and one step of check.              *)
Tracks(w, n, h) ==
  /\ RctInv(w, n, h.rct_count, h.rct_last)
  /\ AptInv(w, n, h.apt_initial, h.apt_observed_count, h.apt_filled)
  /\ PassInv(w, n, h.consecutive_pass, h.disabled)

LEMMA Fields ==
  ASSUME NEW a, NEW b, NEW c, NEW d, NEW e, NEW f, NEW g,
         NEW h, h = StreamHealth(a, b, c, d, e, f, g)
  PROVE  /\ h.rct_last = a /\ h.rct_count = b /\ h.apt_initial = c
         /\ h.apt_observed_count = d /\ h.apt_filled = e
         /\ h.consecutive_pass = f /\ h.disabled = g
BY Zenon DEF StreamHealth

LEMMA NewTracks ==
  ASSUME NEW w
  PROVE  Tracks(w, 0, NewHealth)
<1> DEFINE h == NewHealth
<1>1. /\ h.rct_last = 0 /\ h.rct_count = 0 /\ h.apt_initial = 0
      /\ h.apt_observed_count = 0 /\ h.apt_filled = 0
      /\ h.consecutive_pass = 0
  BY DEF NewHealth, StreamHealth
<1>2. h.disabled = FALSE
  BY Zenon DEF NewHealth, StreamHealth
<1> HIDE DEF h
<1>3. RctInv(w, 0, 0, 0)
  BY HealthAssumption DEF RctInv
<1>4. Rank(w, 0) = 0
  BY FS_EmptySet DEF Rank, Kept
<1>5. AptInv(w, 0, 0, 0, 0)
  BY <1>4, HealthAssumption DEF AptInv
<1>6. PassInv(w, 0, 0, h.disabled)
  BY <1>2, HealthAssumption DEF PassInv
<1> QED
  BY <1>1, <1>3, <1>5, <1>6 DEF Tracks, h

LEMMA CheckTracks ==
  ASSUME NEW w, NEW n \in Nat, NEW h, Tracks(w, n, h), NEW c, c = check(h, w[n + 1])
  PROVE  Tracks(w, n + 1, c.h) /\ (c.v = "Fail" <=> Fails(w, n + 1))
<1>a. PICK x, count, initial, observed :
        /\ x = w[n + 1] /\ count = RunCount(h.rct_count, h.rct_last, x)
        /\ initial = Initial(h.apt_initial, h.apt_filled, x)
        /\ observed = Observed(h.apt_initial, h.apt_observed_count, h.apt_filled, x)
  BY Zenon
<1> DEFINE pass == SatIncr(h.consecutive_pass)
           full == h.apt_filled + 1 >= APT_WINDOW
           dis == h.disabled /\ pass < REENTRY_THRESHOLD
<1>b. PICK verdict, o, f : /\ verdict = (IF full THEN "Pass" ELSE "NeedMoreData")
                           /\ o = (IF full THEN 0 ELSE observed)
                           /\ f = (IF full THEN 0 ELSE h.apt_filled + 1)
  BY Zenon
<1>c. PICK rep, bad, good :
        /\ rep = StreamHealth(x, count, h.apt_initial, h.apt_observed_count, h.apt_filled, 0, TRUE)
        /\ bad = StreamHealth(x, count, initial, 0, 0, 0, TRUE)
        /\ good = StreamHealth(x, count, initial, o, f, pass, dis)
  BY Zenon
<1>1. c = IF x = h.rct_last /\ count >= RCT_CUTOFF THEN [v |-> "Fail", h |-> rep]
          ELSE IF full /\ observed >= APT_CUTOFF THEN [v |-> "Fail", h |-> bad]
          ELSE [v |-> verdict, h |-> good]
  BY <1>a, <1>b, <1>c, Zenon DEF check, Proportion, RunCount, Initial, Observed
<1>2. /\ RctInv(w, n, h.rct_count, h.rct_last)
      /\ AptInv(w, n, h.apt_initial, h.apt_observed_count, h.apt_filled)
      /\ PassInv(w, n, h.consecutive_pass, h.disabled)
  BY DEF Tracks
<1> HIDE DEF pass, dis
<1>3. RctInv(w, n + 1, count, x)
  BY <1>a, <1>2, RctStep, Zenon
<1>4. Repeats(w, n + 1) <=> count >= RCT_CUTOFF
  BY <1>3, RctVerdict
<1>5. x # h.rct_last => ~(count >= RCT_CUTOFF)
  BY <1>a, HealthAssumption DEF RunCount
<1>6. CASE Repeats(w, n + 1)
  <2>1. c = [v |-> "Fail", h |-> rep]
    BY <1>1, <1>4, <1>5, <1>6
  <2>2. c.v = "Fail" /\ c.h = rep /\ Fails(w, n + 1)
    BY <1>6, <2>1 DEF Fails
  <2>3. AptInv(w, n + 1, h.apt_initial, h.apt_observed_count, h.apt_filled)
    BY <1>2, <1>6, AptSkips
  <2>4. /\ rep.rct_last = x /\ rep.rct_count = count /\ rep.apt_initial = h.apt_initial
        /\ rep.apt_observed_count = h.apt_observed_count /\ rep.apt_filled = h.apt_filled
        /\ rep.consecutive_pass = 0 /\ rep.disabled = TRUE
    BY <1>c, Zenon DEF StreamHealth
  <2>5. PassInv(w, n + 1, 0, rep.disabled)
    BY <2>2, <2>4, PassFails, Zenon
  <2>6. Tracks(w, n + 1, rep)
    BY <1>3, <2>3, <2>4, <2>5, Zenon DEF Tracks
  <2> QED
    BY <2>2, <2>6
<1>7. CASE ~Repeats(w, n + 1)
  <2>0. c = IF full /\ observed >= APT_CUTOFF THEN [v |-> "Fail", h |-> bad]
            ELSE [v |-> verdict, h |-> good]
    BY <1>1, <1>4, <1>7
  <2>1. IF full
        THEN /\ Biased(w, n + 1) <=> observed >= APT_CUTOFF
             /\ \A a, b : AptInv(w, n + 1, a, b, 0)
        ELSE ~Biased(w, n + 1) /\ AptInv(w, n + 1, initial, observed, h.apt_filled + 1)
    BY <1>a, <1>2, <1>7, AptStep
  <2>2. Fails(w, n + 1) <=> full /\ observed >= APT_CUTOFF
    BY <1>7, <2>1 DEF Fails
  <2>3. CASE full /\ observed >= APT_CUTOFF
    <3>1. c.v = "Fail" /\ c.h = bad /\ Fails(w, n + 1)
      <4>1. c = [v |-> "Fail", h |-> bad]
        BY <2>0, <2>3, Zenon
      <4>2. c.v = "Fail" /\ c.h = bad
        BY <4>1
      <4> QED BY <2>2, <2>3, <4>2, Zenon
    <3>2. /\ bad.rct_last = x /\ bad.rct_count = count /\ bad.apt_initial = initial
          /\ bad.apt_observed_count = 0 /\ bad.apt_filled = 0
          /\ bad.consecutive_pass = 0 /\ bad.disabled = TRUE
      BY <1>c, Zenon DEF StreamHealth
    <3>3. PassInv(w, n + 1, 0, bad.disabled)
      BY <3>1, <3>2, PassFails, Zenon
    <3>4. AptInv(w, n + 1, initial, 0, 0)
      BY <2>1, <2>3
    <3>5. Tracks(w, n + 1, bad)
      BY <1>3, <3>2, <3>3, <3>4, Zenon DEF Tracks
    <3> QED
      BY <3>1, <3>5
  <2>4. CASE ~(full /\ observed >= APT_CUTOFF)
    <3>1. c.v # "Fail" /\ c.h = good /\ ~Fails(w, n + 1)
      BY <1>b, <2>0, <2>2, <2>4
    <3>2. /\ good.rct_last = x /\ good.rct_count = count /\ good.apt_initial = initial
          /\ good.apt_observed_count = o /\ good.apt_filled = f
          /\ good.consecutive_pass = pass /\ good.disabled = dis
      BY <1>c, Zenon DEF StreamHealth
    <3>3. PassInv(w, n + 1, pass, dis)
      BY <1>2, <3>1, PassPasses, Zenon DEF pass, dis
    <3>4. PassInv(w, n + 1, pass, good.disabled)
      BY <3>2, <3>3, Zenon
    <3>5. AptInv(w, n + 1, initial, o, f)
      BY <1>b, <2>1
    <3>6. Tracks(w, n + 1, good)
      BY <1>3, <3>2, <3>4, <3>5, Zenon DEF Tracks
    <3> QED
      BY <3>1, <3>6
  <2> QED
    BY <2>3, <2>4
<1> QED
  BY <1>6, <1>7
-----------------------------------------------------------------------------
(* The evaluators along the first n samples of a stream.                   *)
Verdict(f, w, k) ==
  IF k = 0 THEN [v |-> "NeedMoreData", h |-> NewHealth] ELSE check(f[k - 1].h, w[k])
IsStreamRun(w, f, n) == f = [k \in 0 .. n |-> Verdict(f, w, k)]

LEMMA StreamRunExists ==
  ASSUME NEW w, NEW n \in Nat
  PROVE  \E f : IsStreamRun(w, f, n)
<1> DEFINE S == {k \in Nat : ~\E f : IsStreamRun(w, f, k)}
<1> SUFFICES ASSUME S # {} PROVE FALSE
  OBVIOUS
<1>0. S \subseteq Nat
  OBVIOUS
<1>1. PICK k \in S : \A j \in S : k <= j
  BY <1>0, Least, Zenon
<1>2. CASE k = 0
  <2> DEFINE g == [j \in 0 .. 0 |-> [v |-> "NeedMoreData", h |-> NewHealth]]
  <2>1. \A j \in 0 .. 0 : g[j] = Verdict(g, w, j)
    BY DEF Verdict
  <2>2. g = [j \in 0 .. 0 |-> g[j]]
    OBVIOUS
  <2> HIDE DEF g
  <2>3. IsStreamRun(w, g, 0)
    BY <2>1, <2>2 DEF IsStreamRun
  <2> QED
    BY <1>2, <2>3
<1>3. CASE k # 0
  <2>1. k - 1 \in Nat /\ k - 1 \notin S
    BY <1>1, <1>3
  <2>2. PICK f : IsStreamRun(w, f, k - 1)
    BY <2>1
  <2> DEFINE g == [j \in 0 .. k |-> IF j = k THEN check(f[k - 1].h, w[k]) ELSE f[j]]
  <2>3. \A j \in 0 .. k - 1 : f[j] = Verdict(f, w, j)
    BY <2>2 DEF IsStreamRun
  <2>4. ASSUME NEW j \in 0 .. k PROVE g[j] = Verdict(g, w, j)
    <3>1. CASE j = 0
      <4>1. 0 \in 0 .. k - 1 /\ g[0] = f[0]
        BY <1>3, <2>1
      <4> HIDE DEF g
      <4>2. Verdict(f, w, 0) = Verdict(g, w, 0)
        BY Zenon DEF Verdict
      <4> QED
        BY <2>3, <3>1, <4>1, <4>2, Zenon
    <3>2. CASE j # 0
      <4>1. j - 1 \in 0 .. k - 1 /\ g[j - 1] = f[j - 1]
        BY <3>2
      <4>2. g[j] = check(f[j - 1].h, w[j])
        <5>1. CASE j = k
          BY <5>1
        <5>2. CASE j # k
          <6>1. j \in 0 .. k - 1 /\ g[j] = f[j]
            BY <5>2
          <6> QED BY <2>3, <3>2, <6>1, Zenon DEF Verdict
        <5> QED BY <5>1, <5>2
      <4> HIDE DEF g
      <4> QED
        BY <3>2, <4>1, <4>2 DEF Verdict
    <3> QED
      BY <3>1, <3>2
  <2>5. g = [j \in 0 .. k |-> g[j]]
    OBVIOUS
  <2> HIDE DEF g
  <2>6. IsStreamRun(w, g, k)
    BY <2>4, <2>5 DEF IsStreamRun
  <2> QED
    BY <2>6
<1> QED
  BY <1>2, <1>3

LEMMA EvaluatedTracks ==
  ASSUME NEW w, NEW n \in 1 .. StreamLength
  PROVE  LET c == Evaluated(w)[n]
         IN  Tracks(w, n, c.h) /\ (c.v = "Fail" <=> Fails(w, n))
<1> DEFINE e == Evaluated(w)
<1>0. StreamLength \in Nat
  BY HealthReferenceAssumption
<1>1. e = CHOOSE f : IsStreamRun(w, f, StreamLength)
  BY DEF Evaluated, IsStreamRun, Verdict
<1>2. IsStreamRun(w, e, StreamLength)
  BY <1>0, <1>1, StreamRunExists
<1> HIDE DEF e
<1>3. \A k \in 0 .. StreamLength : e[k] = Verdict(e, w, k)
  BY <1>2, Zenon DEF IsStreamRun
<1>4. Tracks(w, 0, e[0].h)
  <2>1. e[0] = [v |-> "NeedMoreData", h |-> NewHealth]
    <3>1. 0 \in 0 .. StreamLength
      BY <1>0
    <3>2. e[0] = Verdict(e, w, 0)
      BY <1>3, <3>1, Zenon
    <3> QED BY <3>2, Zenon DEF Verdict
  <2>2. e[0].h = NewHealth
    BY <2>1
  <2> QED
    BY <2>2, NewTracks
<1>5. ASSUME NEW k \in 1 .. StreamLength, Tracks(w, k - 1, e[k - 1].h)
      PROVE  Tracks(w, k, e[k].h) /\ (e[k].v = "Fail" <=> Fails(w, k))
  <2> DEFINE m == k - 1
  <2>1. m \in Nat /\ m + 1 = k
    BY <1>5
  <2>2. e[k] = check(e[m].h, w[m + 1])
    <3>1. k \in 0 .. StreamLength /\ k # 0
      BY <1>0, <1>5
    <3>2. e[k] = Verdict(e, w, k)
      BY <1>3, <3>1, Zenon
    <3>3. e[k] = check(e[k - 1].h, w[k])
      BY <3>1, <3>2, Zenon DEF Verdict
    <3> QED
      BY <2>1, <3>3, Zenon
  <2> HIDE DEF m
  <2>3. Tracks(w, m, e[m].h)
    BY <1>5 DEF m
  <2>4. Tracks(w, m + 1, e[k].h) /\ (e[k].v = "Fail" <=> Fails(w, m + 1))
    BY <2>1, <2>2, <2>3, CheckTracks
  <2> QED
    BY <2>1, <2>4
<1> DEFINE S == {k \in 0 .. StreamLength : ~Tracks(w, k, e[k].h)}
<1>6. S = {}
  <2> SUFFICES ASSUME S # {} PROVE FALSE
    OBVIOUS
  <2>0. S \subseteq Nat
    BY <1>0
  <2>1. PICK k \in S : \A j \in S : k <= j
    BY <2>0, Least, Zenon
  <2>2. k # 0
    BY <1>4, <2>1
  <2>3. k \in 1 .. StreamLength /\ k - 1 \in 0 .. StreamLength /\ ~(k <= k - 1)
    BY <1>0, <2>1, <2>2
  <2>4. Tracks(w, k - 1, e[k - 1].h)
    BY <2>1, <2>3
  <2> QED
    BY <1>5, <2>1, <2>3, <2>4
<1>7. n - 1 \in 0 .. StreamLength
  BY <1>0
<1> QED
  BY <1>5, <1>6, <1>7 DEF e

LEMMA VerdictsHold == VerdictsAsDefined
<1> SUFFICES ASSUME NEW w \in Streams, NEW n \in 1 .. StreamLength, NEW c, c = Evaluated(w)[n]
             PROVE  /\ c.v = "Fail" <=> Fails(w, n)
                    /\ is_disabled(c.h) <=>
                         \E f \in 1 .. n : Fails(w, f) /\ n - f < REENTRY_THRESHOLD
  BY Zenon DEF VerdictsAsDefined
<1>1. Tracks(w, n, c.h) /\ (c.v = "Fail" <=> Fails(w, n))
  BY EvaluatedTracks
<1>2. n \in Nat
  BY HealthReferenceAssumption
<1> DEFINE d == c.h.disabled
           p == c.h.consecutive_pass
<1>3. PassInv(w, n, p, d)
  BY <1>1, Zenon DEF Tracks
<1> HIDE DEF d, p
<1>4. d <=> \E f \in 1 .. n : Fails(w, f) /\ n - f < REENTRY_THRESHOLD
  BY <1>2, <1>3, PassVerdict
<1> QED
  BY <1>1, <1>4, Zenon DEF is_disabled, d

(* THEOREM HealthVerdicts: for all thresholds and streams of any length,   *)
(* the counters of StreamHealth::check fail a sample exactly when the      *)
(* repetition test or the proportion test, defined over the whole stream,  *)
(* fails it, and a source is disabled exactly for REENTRY_THRESHOLD        *)
(* samples after its latest failure.                                       *)
THEOREM HealthVerdicts == Spec => []HealthAsDefined
<1>1. HealthAsDefined
  BY VerdictsHold DEF HealthAsDefined
<1> QED
  BY <1>1, PTL
=============================================================================
