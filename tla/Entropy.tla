------------------------------ MODULE Entropy ------------------------------
(***************************************************************************)
(* The entropy of the kernel: three sources, each under its own health     *)
(* test, the quorum over one attempt, the retry loop with its window and   *)
(* its spin ceiling, and the DRBG they seed at boot and reseed on demand   *)
(* (entropy/quorum.rs, virtio_rng.rs, jitter.rs, hw.rs, capability.rs).    *)
(* It runs on one core without preemption: the steps below follow each     *)
(* other; what varies is what the devices, the timer and the libraries do. *)
(***************************************************************************)
EXTENDS Integers, Sequences, FiniteSets, Health

CONSTANTS
  Sample,              \* the octets a source may deliver; 0 and SENTINEL are two of them
  SENTINEL,            \* 0xFE
  SAMPLE_BYTES,        \* 32
  QUORUM_MIN,          \* 2 (1 in the entropy-degraded-ok build)
  RETRY_SPIN_CEILING,  \* 10_000_000
  MAX_WAIT,            \* 60_000 ms
  UPTIME,              \* the time of boot at which a fill starts
  TIME_MOD,            \* 2^64: times are u64 and subtracted with wrapping_sub
  RESEED_INTERVAL,     \* outputs of the DRBG before it asks for a reseed
  Machines             \* the [sources, timer] the boot may find

Source == 0 .. 2       \* hw, virtio, jitter
SOURCE_COUNT == 3
QUORUM == 254          \* slot_idx 0xFE of an audit entry: the quorum as a whole
Buffer == [1 .. SAMPLE_BYTES -> Sample]
ZeroBuffer == [i \in 1 .. SAMPLE_BYTES |-> 0]
Timer == {"none", "tsc", "rtc"}

ASSUME EntropyAssumption ==
  /\ {0, SENTINEL} \subseteq Sample
  /\ SAMPLE_BYTES \in Nat \ {0} /\ SAMPLE_BYTES >= REENTRY_THRESHOLD
  /\ QUORUM_MIN \in 1 .. SOURCE_COUNT
  /\ RETRY_SPIN_CEILING \in Nat /\ MAX_WAIT \in Nat /\ UPTIME \in Nat
  /\ TIME_MOD \in Nat /\ TIME_MOD > UPTIME + MAX_WAIT + 1
  /\ RESEED_INTERVAL \in Nat \ {0}
  /\ \A m \in Machines : m.sources \subseteq Source /\ m.timer \in Timer

VARIABLES
  task,        \* what the kernel is doing: "Off", a fill, "Up" or "Panic"
  machine,     \* the sources that are there and the timer
  health,      \* HW_HEALTH, VIRTIO_HEALTH, JITTER_HEALTH
  src, buf, pos,     \* the source being collected, its buffer, the samples checked
  live,        \* live_sources of this attempt
  passed,      \* the sources whose every sample of this attempt was accepted
  trail,       \* the audit entries since the last attempt was decided
  spins, start, waited,   \* collect_with_retry: spins, first clock reading, time since
  latched,     \* SOURCES_AVAILABLE_AT_BOOT, once SOURCES_LATCHED
  entropy,     \* the first of init_prng's two seeds: the sources it is from
  drbg         \* CAP_DRBG: [entropy, nonce, counter], or none

attempt == <<src, buf, pos, live, passed, trail>>
retry == <<spins, start, waited>>
vars == <<task, machine, health, src, buf, pos, live, passed, trail, spins, start, waited,
          latched, entropy, drbg>>

Fill == {"Entropy", "Nonce", "Reseed"}
NoBuffer == <<>>
NoDrbg == <<>>

Init ==
  /\ task = "Off" /\ machine \in Machines
  /\ health = [s \in Source |-> NewHealth]
  /\ src = 0 /\ buf = NoBuffer /\ pos = 0 /\ live = 0 /\ passed = {} /\ trail = <<>>
  /\ spins = 0 /\ start = 0 /\ waited = 0
  /\ latched = -1 /\ entropy = {} /\ drbg = NoDrbg

(* elapsed_since_boot_ms.  Without a timer it is 0; the calibration of the *)
(* RTC may fail at any one reading.                                        *)
Reading(t) ==
  IF machine.timer = "none" THEN {0}
  ELSE IF machine.timer = "tsc" THEN {UPTIME + t}
  ELSE {0, UPTIME + t}

(* Faulty variant: the live sources of the attempts add up.                *)
BeginAttempt_Carry(entries) ==
  /\ src' = 0 /\ buf' = NoBuffer /\ pos' = 0
  /\ UNCHANGED live /\ passed' = {} /\ trail' = entries

(* A new collect: fresh scratches and counts.                              *)
BeginAttempt(entries) ==
  /\ src' = 0 /\ buf' = NoBuffer /\ pos' = 0
  /\ live' = 0 /\ passed' = {} /\ trail' = entries

(* A new collect_with_retry.                                               *)
BeginFill ==
  /\ BeginAttempt(<<<<QUORUM, "ATTEMPT">>>>)
  /\ spins' = 0 /\ waited' = 0 /\ start' \in Reading(0)

(* Step 12 of the boot: the probe of virtio-rng and the self-test of the   *)
(* jitter source have said which sources there are; init_prng starts.      *)
Boot ==
  /\ task = "Off"
  /\ task' = "Entropy"
  /\ BeginFill
  /\ UNCHANGED <<machine, health, latched, entropy, drbg>>
-----------------------------------------------------------------------------
(* The adapters: whether the source delivered, and what.  What a source    *)
(* that failed has left in its scratch is mixed in too, and is counted for *)
(* nothing: here it is no buffer at all.                                   *)
NotThere == [ok |-> FALSE, buf |-> NoBuffer]
Delivered(b) == [ok |-> TRUE, buf |-> b]

(* RDSEED or, when it runs dry, RDRAND; either may run dry at any word.    *)
collect_hw_into == {Delivered(b) : b \in Buffer} \cup {NotThere}

(* The device says it wrote n octets.  A scratch that still is the         *)
(* sentinel throughout is refused; a short answer leaves zeros behind it.  *)
sentinel_collect_with ==
  {IF n = 0 \/ \A i \in 1 .. SAMPLE_BYTES : b[i] = SENTINEL THEN NotThere
   ELSE Delivered([i \in 1 .. SAMPLE_BYTES |-> IF i <= n THEN b[i] ELSE 0])
     : b \in Buffer, n \in 0 .. SAMPLE_BYTES}

(* Any byte may be one that the debiasing does not complete.               *)
jitter_collect == {Delivered(b) : b \in Buffer} \cup {NotThere}

Adapter(s) ==
  IF s \notin machine.sources THEN {NotThere}
  ELSE IF s = 0 THEN collect_hw_into
  ELSE IF s = 1 THEN sentinel_collect_with
  ELSE jitter_collect

Lost(s, sub) ==
  /\ trail' = Append(trail, <<s, sub>>)
  /\ src' = src + 1 /\ buf' = NoBuffer /\ pos' = 0
  /\ UNCHANGED <<live, passed>>

(* Faulty variant: a buffer of zeros is dropped without an audit entry.    *)
Gather_Unaudited ==
  /\ task \in Fill /\ src \in Source /\ buf = NoBuffer
  /\ \E a \in Adapter(src) :
       IF ~a.ok THEN Lost(src, "SOURCE_MISSING")
       ELSE IF a.buf = ZeroBuffer THEN src' = src + 1 /\ UNCHANGED <<buf, pos, live, passed, trail>>
       ELSE buf' = a.buf /\ UNCHANGED <<src, pos, live, passed, trail>>
  /\ UNCHANGED <<task, machine, health, retry, latched, entropy, drbg>>

(* collect_from_source up to the health test.                              *)
Gather ==
  /\ task \in Fill /\ src \in Source /\ buf = NoBuffer
  /\ \E a \in Adapter(src) :
       IF ~a.ok \/ a.buf = ZeroBuffer THEN Lost(src, "SOURCE_MISSING")
       ELSE buf' = a.buf /\ UNCHANGED <<src, pos, live, passed, trail>>
  /\ UNCHANGED <<task, machine, health, retry, latched, entropy, drbg>>

(* One sample of its health test, up to the end of collect_from_source.    *)
Examine ==
  /\ task \in Fill /\ src \in Source /\ buf # NoBuffer
  /\ LET c == check(health[src], buf[pos + 1])
     IN  /\ health' = [health EXCEPT ![src] = c.h]
         /\ IF c.v = "Fail" THEN Lost(src, "RCT_FAIL")
            ELSE IF pos + 1 < SAMPLE_BYTES
              THEN pos' = pos + 1 /\ UNCHANGED <<src, buf, live, passed, trail>>
            ELSE /\ live' = live + 1 /\ passed' = passed \cup {src}
                 /\ src' = src + 1 /\ buf' = NoBuffer /\ pos' = 0
                 /\ UNCHANGED trail
  /\ UNCHANGED <<task, machine, retry, latched, entropy, drbg>>
-----------------------------------------------------------------------------
(* The end of collect, and what its callers do with it.  The mix is made   *)
(* of this attempt's buffers.                                              *)
Decided == task \in Fill /\ src = SOURCE_COUNT
Latch == latched' = IF latched = -1 THEN live ELSE latched

(* Faulty variant: no spin ceiling.                                        *)
Expired_Unbounded(reading, n) == (reading - start) % TIME_MOD > MAX_WAIT

Expired(reading, n) ==
  \/ (reading - start) % TIME_MOD > MAX_WAIT
  \/ n > RETRY_SPIN_CEILING

(* Too few: collect_with_retry polls again, or gives up.  The time since   *)
(* its start has moved on by any amount.                                   *)
QuorumFailed ==
  LET refused == <<<<QUORUM, "QUORUM_MIN">>, <<QUORUM, "POLLING">>>>
      n == Lesser(spins + 1, TIME_MOD - 1)
  IN  /\ Decided /\ live < QUORUM_MIN
      /\ Latch
      /\ spins' = n
      /\ waited' \in waited .. MAX_WAIT + 1
      /\ \E reading \in Reading(waited') :
           IF Expired(reading, n)
             THEN /\ task' = "Panic"
                  /\ trail' = trail \o refused \o <<<<QUORUM, "QUORUM_MIN">>>>
                  /\ UNCHANGED <<src, buf, pos, live, passed>>
           ELSE BeginAttempt(refused) /\ UNCHANGED task
      /\ UNCHANGED <<machine, health, start, entropy, drbg>>

(* Enough, and the seed goes where it was asked for: the second fill of    *)
(* init_prng instantiates the DRBG, a reseed resets its counter.           *)
Recovered ==
  /\ trail' = Append(trail, <<QUORUM, "RECOVERED">>)
  /\ UNCHANGED <<src, buf, pos, live, passed, retry>>

Seeded ==
  /\ Decided /\ live >= QUORUM_MIN
  /\ Latch
  /\ \/ /\ task = "Entropy" /\ task' = "Nonce"
        /\ entropy' = passed /\ BeginFill /\ UNCHANGED drbg
     \/ /\ task = "Nonce" /\ task' = "Up" /\ Recovered
        /\ drbg' = [entropy |-> entropy, nonce |-> passed, counter |-> 0]
        /\ entropy' = {}
     \/ /\ task = "Reseed" /\ task' = "Up" /\ Recovered
        /\ drbg' = [entropy |-> passed, nonce |-> drbg.nonce, counter |-> 0]
        /\ UNCHANGED entropy
  /\ UNCHANGED <<machine, health>>

(* BLAKE3 or the DRBG refuses the seed: the boot stops, and a reseed ends  *)
(* with an error and the DRBG as it was.                                   *)
SeedRefused ==
  /\ Decided /\ live >= QUORUM_MIN
  /\ Latch
  /\ task' = IF task = "Reseed" THEN "Up" ELSE "Panic"
  /\ UNCHANGED <<machine, health, attempt, retry, entropy, drbg>>

(* One turn of the loop of rand_bytes or gen_token_u64: an output (one     *)
(* more turn if the token is 0), or a reseed first.  A library error       *)
(* changes nothing here.                                                   *)
Generate ==
  /\ task = "Up"
  /\ IF drbg.counter >= RESEED_INTERVAL
       THEN task' = "Reseed" /\ BeginFill /\ UNCHANGED drbg
     ELSE /\ drbg' = [entropy |-> drbg.entropy, nonce |-> drbg.nonce, counter |-> drbg.counter + 1]
          /\ UNCHANGED <<task, attempt, retry>>
  /\ UNCHANGED <<machine, health, latched, entropy>>

(* The panic handler halts for good.                                       *)
Halted == task = "Panic" /\ UNCHANGED vars

Next == Boot \/ Gather \/ Examine \/ QuorumFailed \/ Seeded \/ SeedRefused \/ Generate \/ Halted

Spec == Init /\ [][Next]_vars

(* The kernel is alone on its core: while it can go on, it does.           *)
FairSpec == Spec /\ WF_vars(Next)
-----------------------------------------------------------------------------
(* A source that counts towards the quorum is not one its health test has  *)
(* disabled.  quorum.rs never asks is_disabled; the mirror of it in        *)
(* tests/entropy_quorum_fault_inject.rs does.  They agree because a buffer *)
(* has at least as many samples as re-entry takes.                         *)
LiveNotDisabled == \A s \in passed : ~is_disabled(health[s])

(* The kernel is up only with a DRBG whose seeds each came from a quorum   *)
(* of sources that passed in one and the same attempt: retries do not add  *)
(* up the sources of different attempts, and a failure never leaves a      *)
(* half-seeded DRBG behind.                                                *)
SeedHonest ==
  /\ task \in {"Up", "Reseed"} <=> drbg # NoDrbg /\ task # "Panic"
  /\ drbg # NoDrbg => /\ Cardinality(drbg.entropy) >= QUORUM_MIN
                      /\ Cardinality(drbg.nonce) >= QUORUM_MIN

(* When an attempt is decided, the audit ring holds one entry for every    *)
(* source that was not counted and none for those that were.               *)
AttemptAudited ==
  Decided => /\ {trail[i][1] : i \in DOMAIN trail} \cap Source = Source \ passed
             /\ live = Cardinality(passed)

(* A fill ends, with a seed, an error or a panic: with no timer at all the *)
(* spin ceiling ends it.                                                   *)
FillEnds == task \in Fill ~> task \in {"Up", "Panic"}
=============================================================================
