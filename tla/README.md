# iso-light-k0: a TLA+ model of the microkernel

TLA+ modules, TLC runs and TLAPS proofs for the stateful core of iso-light-k0
(`src/src/`): HSM slots and their buses, the audit ring, the key store with TLS,
the IPC rendezvous and the services behind it, the entropy quorum, the frame
allocator, page tables and the process loader. Every definition is translated
from the Rust source; `PROJECT.json` maps each one to its lines.

## The system

The kernel runs on one core. A syscall enters with interrupts masked and is not
re-entered, so a handler runs to its end before the next starts. Concurrency is
between *calls*: clients hold capabilities, handles and unread responses while
other clients attach, detach, close and write. The one place where a call is
suspended is the loop of `ipc_call`, which waits for an interrupt. Nothing is
persistent; a restart is a fresh boot. What makes the code hard is therefore order and leftovers:
stale tokens and handles, a step that fails after an earlier one took effect,
counters at the end of their range, small fixed tables that fill up.

| Part | State | Operations | Model |
|---|---|---|---|
| audit ring (`hsm_attest.rs`) | 32 events, head, wrapping counter | enqueue, snapshot | `AuditRing`, `AuditTrail` |
| attestation (`hsm_attest.rs`) | trust root, boot challenge | verify | `Slots` (what was signed) |
| buses (`bus.rs`) | ring and cursor, role, AES key and nonce counter, response | open, close, read, write, poll, zeroize | `Bus`, `SoftwareBus` |
| wire protocol (`bus.rs`) | pending response | Ping, Status, Blake3Hash, AttestSubmit | `Wire` |
| slot registry (`hsm_registry.rs`) | slots, tokens, rights | attach, detach, enumerate, write, read, relay | `Slots`, `HsmRegistry` |
| air gap (`air_gap.rs`) | two one-shot capabilities | take, status | `HsmRegistry` |
| frame allocator (`allocator.rs`, `boot/memory_map.rs`) | bitmap, hint, counter | reserve, alloc, free | `Frames`, `FrameAllocator` |
| key store (`keystore.rs`) | 8 PSK slots | provision, destroy, wipe | `Keystore` |
| TLS (`tls/`) | 4 connections, keys, record counters | handshake, send, close, wipe | `TlsConn`, `TlsService` |
| IPC (`ipc.rs`) | endpoints: state, message, sequence number | call, receive, reply | `Ipc`, `Services` |
| crypto service (`crypto_service.rs`) | none | AEAD, hash, KDF, sign, verify, DH | `CryptoService`, `Services` |
| signature service (`sign_service.rs`) | one session and its buffers | begin, chunks, execute, output, end | `SignService`, `Services` |
| entropy quorum (`arch/common/entropy/`) | health of three sources, retries | gather, examine, decide | `Health`, `Entropy` |
| tokens, DRBG (`capability.rs`) | DRBG, capability spaces | seed, draw, reseed; mint, derive, revoke | `Entropy`, `CapabilitySpace` |
| page tables, x86_64 (`arch/x86_64/mmu.rs`) | tables in frames | walk, map, linear map | `PageTables`, `Loader` |
| page tables, aarch64 (`arch/aarch64/mmu.rs`) | table pool | boot map, self test | `Stage1` |
| process loader (`process.rs`, `elf.rs`) | process slots, address spaces | parse, spawn, enter Ring 3 | `Elf`, `Loader` |
| platform, panic, user programs | hardware | | not modelled |

How they interact: attach verifies an attestation, draws a token, opens the bus
driver (which may draw a key) and reports to the audit ring. A write to a
Ring3Process bus is a wire request, whose Blake3Hash command authenticates a
second capability and writes to that slot's bus, possibly the same one. Status
requests and `sys_hsm_status` read the ring. A handshake looks a PSK up in the
key store and draws ephemeral keys. Every DRBG draw may fail, and may itself
report events. A call to a kernel service posts a request, runs the service in
the same call and takes the reply; at the wire endpoint a server outside the
kernel polls. Boot seeds the DRBG from the quorum twice (entropy and nonce) and
panics if it cannot; a reseed collects again. Boot maps the kernel out of the
frames the allocator has left, and a spawn takes its tables, pages and stack
from the same allocator.

## Modules

**Values and state machines.** `AuditRing`, `Bus`, `Wire`, `Slots`, `Frames`,
`Keystore`, `TlsConn`, `Ipc`, `CryptoService`, `SignService`, `Health`,
`CapabilitySpace`, `PageTables`, `Elf` and `Stage1` define structures and
functions of the code as operators on values. `AuditTrail`, `SoftwareBus`,
`HsmRegistry`, `FrameAllocator`, `TlsService`, `Services`, `Entropy` and
`Loader` are the state machines built from them, one action per operation; a
handler is one step because nothing can run in between.
`HsmRegistry` composes registry, buses, wire protocol, audit ring, air gap and
DRBG draws. `TlsService` composes key store and TLS. `Services` composes the
rendezvous with both services: `Call` is a whole `ipc_call` up to its first look
for the reply, `Poll` one turn of its waiting loop, `Recv` and `Reply` the
server at the wire endpoint. `Entropy` follows one fill at the grain of its
loop: `Gather` asks a source for a buffer, `Examine` feeds one sample to the
health test, and an attempt ends in `QuorumFailed`, `Seeded` or `SeedRefused`;
boot and reseed share it. `Loader` runs boot (`initialize`, the linear map, the
sections) and then any spawns on `Frames` and `PageTables`; a spawn is one step.

**Abstract specifications.** `AuditLog` (a sliding window), `Channel` (a stream
or a box that holds one item) and `FramePool` (a set of clean frames) say what
a component promises; the detailed modules implement them. `HealthReference`
defines the two health tests over whole streams, `NeverAmplified` what a history
of a capability space may leave, and `StageExact` which address the aarch64 map
translates to what: the code's algorithms are compared with these.

**Abstractions.**
- Octets are cells that say what they are (`Bus`); lengths count cells.
- Cryptography is symbolic. A digest, a sealed item, a traffic key is the tuple
  of what it is computed from. A signature is what was signed.
- A draw yields a value not drawn before, or fails.
- Error codes are kept where callers or properties tell them apart.
- The hint and bitmap of the allocator keep words and bits; contents of a frame
  are clean or used.
- The X25519/ML-KEM exchange is one shared-secret term per handshake; the
  transcript keeps the order of messages.
- Services: lengths of the crypto payload are the real ones; those of ML-DSA are
  constants. Of an input buffer of the session the model keeps which octets hold
  request data.
- Callers of IPC are tasks that interleave where a call waits. The present
  kernel has one such caller at a time (the boot code); the rendezvous is written
  for several, and the comment at its loop expects a scheduler.
- Entropy: samples are two values. Sources that are absent deliver nothing, the
  others anything or nothing. What a source that failed has left in its scratch
  is mixed in by the code and counts for nothing; the model does not follow it. A
  timer is absent, good, or fails at some readings.
- The flags of a program header are the set of its letters; addresses of segments
  stay octets. Only PF_W is read (`process.rs:450`).
- Addresses are those of a small machine with its own page and table size;
  memory holds one number per octet, so that copied, zeroed and old contents
  differ. That user access needs the user bit at every level of the walk, and
  that NO_EXECUTE at any level counts, is the processor's rule (external).
- `process.rs` is modelled as its public interface, called in any order up to
  `MAX_SPAWNS`; boot itself calls `spawn_elf` and then enters Ring 3, and
  `spawn_flat` has no caller.

`call`, `log`, `sealed`, `got` and other variables marked "history" in the
modules are not in the code. They record what happened so that properties can
speak of it. `handed` in `HsmRegistry` also stands for what clients hold: a
client presents a token that was handed out or a wrong one.

Operators with an underscore suffix after a source name (`take_reply_Kept`)
are faulty variants. Each checked property is tested against one of them: with
the variant in place of the real operator TLC must find the property violated.

## Runs

Passing runs:

- **audit** (`MCAuditTrail`). Ring of 3, counter modulo 6, up to 13 events:
  four turns of the ring, two of the counter. A snapshot of any size lists
  consecutive reports under their numbers; the counter reveals losses; the ring
  refines `AuditLog`. The real sizes are 32 and 2^32: like 3 and 6 the capacity
  divides the modulus, which is the assumption the code rests on.
- **bus** (`MCSoftwareBus`). One software bus in its three roles, closed,
  reopened, renewed, with a nonce counter that ends at 3. No nonce twice under a
  key, `poll` is truthful, the ring refines `Channel`.
- **hsm_caps** (`MCHsmCaps`). Two slots; good, wrongly signed and unsupported attach
  requests; draws that fail or report events; slot arguments out of range; both
  air-gap capabilities. Slots and drivers agree, what is attached was attested,
  a detached token never works again, attach succeeds or leaves nothing.
- **hsm_wire** (`MCHsmWire`). The data path with requests nested two levels
  deep, also into the bus that is executing them; relays between two slots and
  from a slot to itself. A bus changes only for a holder of the right, a
  response is delivered whole and once, each request is answered under its
  number, a successful relay moves exactly what was asked. `RelayExact` says that
  a Software source keeps what lay behind the moved data, except when that data
  is itself a request with a capability for the source: the destination then
  executes it and writes to the source. With the run's rings of 3 cells this does
  not happen; the proof, for rings of any size, needs the exception.
- **frames** (`MCFrameAllocator`). Eight frames in four words, six memory maps
  with unaligned, overlapping, tiny, out-of-range and surplus regions, three
  kernel ends. Hint and counter are exact, only usable memory is handed out, the
  allocator refines `FramePool`. Before boot TLC also compares the capability
  table with its definition on all histories of 4 operations.
- **tls** (`MCTlsService`). Two PSK slots, three connections, two completed
  handshakes, three records, counters that end at 2. Three connections are the
  least with both ways to run out (no slot, one slot); two handshakes are the
  least that reuse a slot; two records of one direction after a loss show that
  nothing is skipped, and a third that the counter stops. A destroyed PSK is
  unusable; a handshake leaves two agreeing ends or no
  key; delivery happens exactly between the ends of one handshake that are in
  step; nonces are fresh. Policy and suite only enter the key terms, so the run
  uses one pair.

- **services** (`MCServices`). Two callers, one with fewer capabilities, every
  request kind around its limits, libraries that fail, sequence numbers that wrap
  after 2, a server that may be slow and replies too long. The shared signing
  session and its buffers agree after every call and it only moves forward; an
  endpoint nobody waits at is idle; a caller nobody crossed is answered with its
  own reply; encryption and decryption are inverse through the whole call path;
  a reply once posted reaches a caller, under fairness of the callers' loops alone.
- **entropy** (`MCEntropy`). Three machines (no, good and unreliable timer; two
  sources answer), cutoffs, window and sample buffer of 2 and 3, one retry before the
  ceiling, a reseed after one draw. Two sources are the least that reach the
  quorum of 2, so each failure matters. A counted source is not disabled, both
  seeds of a DRBG come from a quorum of one attempt, every source that does not
  count is audited, every fill ends. Before boot TLC also compares the health
  test with its definition on all 512 streams of 9 samples.
- **loader** (`MCLoader`). Six memory sizes, from more than the bitmap covers to
  too little for the kernel's tables; two KASLR offsets; two good files, with
  segments of code, constants, variables and one that asks to be both written and
  executed; three files whose segments clash with each other, the boot stack or
  the user stack, and one for each way `parse` refuses; up to three spawns into
  two slots. A process has exactly the pages and contents its file asks for. Of
  the permissions the property claims what the leaves say: a page is writable
  just where its segment is, and then not executable. It does not claim that only
  PF_X makes a page executable, which is not so (below). Each frame has one owner.
  The kernel's pages and the linear map translate as meant, completely if boot did
  not run out of frames (it goes on when it does); through the whole walk they
  can be written just where the section allows it, and never be reached from
  Ring 3. That `.text` can be executed is not claimed (below). A spawn changes
  nothing but its own slot and free frames, fails when it must and says why. The
  aarch64 boot map is compared with its definition for 8 layouts of page-aligned
  sections (the linker script aligns them) and 3 offsets, with a pool that is too
  small for some; the base of its upper half is computed once by
  `build_stage1_map` and once by `initialize`, and the property reads the tables
  through the second.

Runs that show a disagreement between the code and its comments (one property
each, described in `findings`):

- **tls_pool**: a handshake that finds one free slot keeps it; the comment says
  it is reclaimed (`tls/handshake.rs:125`).
- **psk_destroy**: destroying the all-zero identifier may hit a slot wiped
  before and leave the provisioned one (`hsm.rs:65` promises erasure).
- **user_pages**: the tables above a user page lack the user bit and forbid
  execution (`arch/x86_64/mmu.rs:493`), so the page cannot be reached from Ring 3
  as `mmu.rs:298` and `process.rs:215` say. The kernel's `.text` is mapped by the
  same function: its leaf is executable and the tables above it forbid execution,
  against `arch/x86_64/kernel_start.rs:412` ("R+X").

Other disagreements met while modelling, in which the model follows the code:

- A relay that fails has already drained its source, though it is called atomic
  (`hsm_registry.rs:997`, `1014`).
- Of the results of attach only success and AttestFailed are reported, though
  "success and failure are both recorded" (`hsm_registry.rs:667`).
- A destroyed PSK identifier can be provisioned again, which `keystore.rs:179`
  rules out.
- `docs/wire-protocol.md` says a Tier 1 or Tier 2 refusal of a wire request
  returns BadArg or Denied; `handle_write` turns every bus error into Internal.
- A segment without PF_W gets a leaf without NO_EXECUTE even if it has no PF_X:
  `load_segment` asks for `is_writable` only, and nothing calls `is_executable`.
  The comment at `process.rs:449` reserves R+X pages for PF_X, both user programs
  have a read-only segment (`linker.ld:13`, `FLAGS(4)`), and `CRITICAL.md` lists it
  (M8). The leaves of `AddressSpaceExact` are those of the code.
- Step 4 of `ipc_call` says that at a kernel service the first look for the reply
  succeeds (`ipc.rs:646`). `EP_SYSTEM` is a kernel service without a handler: its
  first caller waits for good, and later ones are refused as busy.
- `derive` copies the token of its parent (`capability.rs:156`): by their token
  the two cannot be told apart, `find_by_token` answers with whichever has the
  lower slot, and revoking one leaves the token good for the other (`CRITICAL.md`,
  CAP-02/04). `RightsAttenuate` bounds the rights of both by what was minted.
- A source that is not available contributes a zero buffer, says `quorum.rs:244`;
  one that fails half way contributes what it had written.
- The test mirror of the quorum asks whether a source is disabled; `quorum.rs`
  never does. `LiveNotDisabled` shows when this makes no difference: a buffer has at
  least as many samples as re-entry takes.

The HSM, TLS and loader runs use a VIEW that leaves out history no action reads.
Properties of steps are evaluated on every transition TLC generates, so the view
hides no step from them.

**Bounds.** `MaxLog`, `MaxDrawn`, `MaxHandshakes`, `MaxRecords`, `MAX_SPAWNS` cap
counters in the guards of actions; `SEQ_MOD`, `U32_MAX` and `TIME_MOD` stand for
widths, `RETRY_SPIN_CEILING` and `RESEED_INTERVAL` for the code's own limits.
`Shallow` in `Wire` bounds nesting; the buffer of the code bounds it too, at a depth TLC cannot reach, and an ASSUME of `MCHsmWire`
checks that no request of the run exceeds it.

**Liveness and fairness.** `ReplyReachesCaller` assumes weak fairness of the
waiting loop of each caller: a caller that waits does nothing but look again at
every interrupt. Nothing is assumed of the server, and nothing is claimed of when
it answers: no code of the kernel runs one (the receive and reply syscalls are
stubs), and the comment at step 3 of `ipc_call` says that without synchronous
dispatch the round trip would deadlock. What the kernel's half of the rendezvous
owes is that a posted reply is neither lost, whoever polls the endpoint in the
meantime, nor left in the endpoint, where `post_reply` would refuse the next one.
A caller that another one crossed is exempt: the endpoint holds one message, and
the reply to one of them may go to the other. `FillEnds` assumes weak fairness of
the next step: a fill runs alone on the core. It needs the spin ceiling when the
timer is absent. The other operations return in their own step and wait for
nobody. TLC checks for deadlock except in the **loader** runs, where the number
of spawns is bounded.

## Proofs

For every value of the constants that satisfies the named ASSUMEs. Each module
proves `Init => IInv`, that every action keeps `IInv`, and the listed properties
from it; the runs check the same properties on their instances.

- `RingProofs`, on `AuditTrail` and `SoftwareBus`, with lemmas on `%` and on
  sequences. Assumption: the capacity divides the modulus of the counter. For the
  audit ring `IInv` adds to the types that head and total are the number of
  reports modulo their ranges, and that each of the newest *capacity* reports sits
  at its number modulo the capacity: the properties speak of snapshots and say
  nothing of entries outside them, which the next step needs. Proved:
  `SnapshotFaithful`, `LossIsDetectable`, and that the ring implements `AuditLog`.
  For the bus `BusIInv` adds that every nonce sealed under the present key is at
  most the counter, and every key sealed under was drawn. Proved:
  `NonceNeverReused`, `PollTruthful`, and that the bus implements `Channel`.
- `WireProofs` (lemmas only): what a call on a bus may do to all buses, with
  requests inside requests. No write changes a bus's kind or whether it is open
  (`Keeps`, `AllKept`). Whatever a write does to any bus is one relation between
  the bus before and after (`Change`), which composes along the nesting of the
  dispatcher (`Served`, `Wrote`): one lemma goes from a level to the next, and
  `BusWrite` unrolls as many levels as `Shallow` data has.
- `HsmRegistryProofs`, on `WireProofs`. Assumptions: there is a slot, buffers
  are long enough for a digest, what clients write is well formed. `IInv` has
  `SlotConsistency` and `AttachedIsAttested` and adds the shape of the buses and
  that every token in a slot or handed out was drawn before, so that a fresh one
  is new. `DataInv` adds the shape of the audit ring and of the data in the buses.
  Proved: `SlotConsistency`, `AttachedIsAttested`, `DetachedIsDead`,
  `AttachOutcome`, `OnlyAuthorised`, `ResponseDelivered`, `WireAnswer`,
  `RelayExact`, and that each air-gap capability is handed out once (proved
  only, no run checks it).
- `FrameAllocatorProofs`. Assumptions: memory maps are sequences of regions, whole
  words of bits, the kernel ends above the low area. `IInv` adds that free
  frames lie inside usable regions and outside what was reserved, disjoint from
  held ones. Proved: `HintAndCountExact`, `OnlyUsableMemory`, that the
  allocator implements `FramePool`; and `RightsAttenuate` for histories of a
  capability space of any length.
- `ServicesProofs`, on `ServiceLemmas` (what the handlers make of a session, what
  the rendezvous returns, the outcomes of a call). Assumptions: the lengths are
  naturals, seeds and public keys fit the key buffer, the crypto payload fits a
  message, there is room for the four endpoints. `IInv` is `SessionConsistent`
  with types, with `Accounted` (an endpoint that is not idle, or a request in the
  server's hands, has a caller that waits for it) and `Uncrossed` (where the
  exchange of an uncrossed caller stands, and that it is the only one waiting):
  that nobody else's request can be in the endpoint is what `ReplyAnswersCall`
  needs and does not say. Proved: `SessionConsistent`, `RendezvousClean`,
  `ReplyAnswersCall`, `SessionForward`, `AeadRoundTrip`, for all callers,
  capabilities, requests and lengths.
- `EntropyProofs`. Assumptions: windows are positive and the repetition cutoff is
  at least 2, counters reach the window, a sample buffer is at least as long as
  re-entry takes. `IInv` adds how many samples in a row the source under
  examination has passed, which sources of the attempt are behind it with their
  audit entries, and that a stored seed came from a quorum. Proved:
  `LiveNotDisabled`, `SeedHonest`, `AttemptAudited`; and `HealthAsDefined` for
  streams of any length.
- `TlsProofs`. Assumptions: sizes and limits are naturals, key material and
  plaintexts sequences of them. `IInv` says that a key has one
  writer and one reader and that these are the two ends of one handshake
  (`KeyInv`, `PairInv`), that the counters of an end are the lengths of what was
  written and delivered under its keys (`EndInv`), that under a key the counters
  ran 0, 1, 2 without a gap and what was delivered is a prefix (`LogInv`), and
  the shapes of store and pool. That keys of different handshakes differ rests on
  the number of the handshake in their draws. Proved: `RecordNonceFresh`,
  `StreamPrefix`, `DestroyTakesEffect`, `HandshakeOutcome`, `SendOutcome`, for any
  number of connections, handshakes and records.

Only model-checked: the liveness properties `ReplyReachesCaller` and `FillEnds`
(fairness and ENABLED are out of the prover's reach); of `Loader` all
properties, `AddressSpaceExact`, `FramesOwned`, `KernelMapped`, `SpawnContained`
and `SpawnOutcome`, whose operations are folds over segments, pages and four
levels of tables; and `Stage1Exact`, a fold as well. What a fold or a recursive
definition computes for every input takes induction over data, which the prover
cannot instantiate. Two proofs needed it, for histories of a capability space and
streams of samples. There the definition is a function of the position; the proof
shows that a run of every length exists, each from the one before, and a least
counterexample takes the place of the induction.

## Plan

1. **Proofs** for `Loader`: that a frame has one owner, from a lemma about what
   one mapping may change, with each fold restated as a function of its position.
2. **Processes on aarch64**, once the code spawns them there.
3. **The virtio queue** of the entropy device, if it is ever shared: today it has
   one user and one request.

## Not modelled

Boot tables, descriptor tables, traps, consoles, interrupt controllers and entry
code are hardware setup without protocol state. The panic path halts; `Entropy`
has it as `Halted`. The virtio device, its queue and transport are a source that
delivers or does not. Of the aarch64 MMU the part for processes (user mappings,
activation) is left out: user programs are spawned on x86_64 only. The KASLR
offset is only checked for alignment (`arch/x86_64/multiboot2.rs:250`); the model takes
offsets that are disjoint from image and user half, which the comment at
`kernel_start.rs:406` takes for granted (different root entries).
`gap_self_check` compares link-time symbols. Arithmetic of the cryptographic
primitives belongs to a library. User programs are clients; the model lets
clients make any call in any order. `attach_kernel_side` and the smoke tests of
`main.rs` run in debug builds only. `provision_trust_root_pk` is a stub with no
caller.
