---------------------------- MODULE HsmRegistry ----------------------------
(***************************************************************************)
(* The HSM service of the kernel: the slot registry, the buses behind it,  *)
(* the audit ring and the two one-shot capabilities of the air gap, driven *)
(* by the syscalls of any number of ring-3 clients.                        *)
(*                                                                         *)
(* A syscall runs to its end before the next one starts (one core, FMASK   *)
(* masks interrupts), so one action is one syscall, and the interleaving   *)
(* is that of the clients' calls.  A client is not named: it is known by   *)
(* the capabilities it presents.  Tokens are 64-bit DRBG outputs; a client *)
(* can present only a token the kernel has handed out, or zero, with any   *)
(* slot and any rights beside it.                                          *)
(***************************************************************************)
EXTENDS Wire

CONSTANTS
  TlsExternal,    \* the tls-external feature
  SlotArgs,       \* slot numbers clients put into capabilities
  Masks,          \* rights clients put into capabilities
  Attaches,       \* what clients pass to sys_hsm_attach
  Writes(_),      \* data clients pass to sys_hsm_write, given the known tokens
  ByteLens,       \* lengths passed to sys_hsm_relay
  OutLens,        \* lengths of the buffers passed to sys_hsm_read
  Counts,         \* buffer sizes passed to sys_hsm_enumerate
  GapCalls,       \* whether clients use the syscalls of air_gap.rs
  Draws,          \* outcomes of gen_token_u64 and rand_bytes
  MaxDrawn        \* bound on the values drawn from the DRBG

VARIABLES
  slots,     \* REGISTRY.slots without the buses
  bus,       \* the bus of each slot
  ring,      \* AUDIT_RING
  auditCap,  \* AUDIT_CAP_STATE
  netCap,    \* NETWORK_CAP_STATE
  drawn,     \* values drawn so far, tokens and keys; no value comes twice
  handed,    \* history: the tokens clients have been given
  call       \* history: the last syscall

vars == <<slots, bus, ring, auditCap, netCap, drawn, handed, call>>

(* AUDIT_READ_CAP and NETWORK_ATTACH_CAP, drawn at boot.                   *)
AUDIT_TOKEN == 1
NETWORK_TOKEN == 2

ASSUME HsmRegistryAssumption ==
  /\ TlsExternal \in BOOLEAN /\ GapCalls \in BOOLEAN
  /\ SlotArgs \subseteq Nat
  /\ Masks \subseteq SUBSET HsmRights
  /\ ByteLens \subseteq Nat /\ OutLens \subseteq Nat
  /\ MaxDrawn \in Nat /\ MaxDrawn >= NETWORK_TOKEN
  /\ \A d \in Draws : d.ok \in BOOLEAN /\ d.events \in Seq(Nat)

ASSUME WritesAssumption ==
  \A tokens \in SUBSET (1 .. MaxDrawn) : \A data \in Writes(tokens) : WellFormed(data)

(* collect_with_retry records its attempt (9) and its success (11); a      *)
(* missing source would add events of its own, which no property here      *)
(* tells apart.                                                            *)
EntropyEvent(r, code) == audit_enqueue(r, 254, code, 0, 0)
EntropyEvents(r, codes) ==
  LET after[n \in 0 .. Len(codes)] ==
        IF n = 0 THEN r ELSE EntropyEvent(after[n - 1], codes[n])
  IN  after[Len(codes)]

(* After boot: init_prng has collected entropy twice, and air_gap.rs has   *)
(* drawn its two tokens.                                                   *)
Init ==
  /\ slots = [i \in SlotIdx |-> EmptySlot]
  /\ bus = [i \in SlotIdx |-> BusEmpty]
  /\ ring = EntropyEvents(AUDIT_RING, <<9, 11, 9, 11>>)
  /\ auditCap = "Provisioned"
  /\ netCap = "Provisioned"
  /\ drawn = 2
  /\ handed = {}
  /\ call = [op |-> "boot", rax |-> "Ok", caps |-> <<>>, data |-> <<>>]

State == [slots |-> slots, bus |-> bus, ring |-> ring]
Caps == {Cap(t, s, r) : t \in handed \cup {0}, s \in SlotArgs, r \in Masks}
Live(right) == {cap \in Caps : authenticate(slots, cap, {right})}

(* The history of a call.  Of a refused call only the result is kept.      *)
Returns(op, rax, caps, data) ==
  call' = IF rax \in {"Ok", "Internal"}
          THEN [op |-> op, rax |-> rax, caps |-> caps, data |-> data]
          ELSE [op |-> op, rax |-> rax, caps |-> <<>>, data |-> <<>>]

(* A call that ends without touching anything.                             *)
Fails(op, rax) ==
  /\ Returns(op, rax, <<>>, <<>>)
  /\ UNCHANGED <<slots, bus, ring, auditCap, netCap, drawn, handed>>

(* Ill-formed arguments: lengths, then addresses.                          *)
BadArgs == {"BadArg", "BadAddress"}
-----------------------------------------------------------------------------
(* sys_hsm_attach.                                                         *)

(* A Network bus is refused unless the network capability was taken.       *)
AttachNetworkDenied(a) ==
  /\ a.kind = "Network" /\ ~(TlsExternal /\ netCap = "Taken")
  /\ ring' = audit_enqueue(ring, 255, 2, KindOctet["Network"], 0)
  /\ Returns("attach", "Denied", <<>>, <<>>)
  /\ UNCHANGED <<slots, bus, auditCap, netCap, drawn, handed>>

KindAccepted(a) ==
  \/ a.kind \in {"Software", "Ring3Process"}
  \/ a.kind = "Network" /\ TlsExternal /\ netCap = "Taken"

AttachBadArgs(a) ==
  \/ /\ a.kind \in {"Usb", "Spi", "Serial", "SmartCard"}
     /\ Fails("attach", "BadArg")
  \/ /\ KindAccepted(a)
     /\ \E rax \in BadArgs : Fails("attach", rax)

AttachNotAttested(a) ==
  /\ KindAccepted(a)
  /\ ~verify_attest(a.pk, KindOctet[a.kind], a.signed)
  /\ ring' = audit_enqueue(ring, 255, 1, KindOctet[a.kind], a.pk)
  /\ Returns("attach", "Denied", <<>>, <<>>)
  /\ UNCHANGED <<slots, bus, auditCap, netCap, drawn, handed>>

AttachAllowed(a) ==
  KindAccepted(a) /\ verify_attest(a.pk, KindOctet[a.kind], a.signed)

AttachFull(a) ==
  /\ AttachAllowed(a)
  /\ EmptySlots(slots) = {}
  /\ Fails("attach", "BadArg")

(* gen_token_u64 and rand_bytes may reseed, which leaves entropy events    *)
(* in the ring, and may fail.                                              *)
DrawEvents(r, d) == EntropyEvents(r, d.events)

AttachNoToken(a, d) ==
  /\ AttachAllowed(a)
  /\ EmptySlots(slots) # {}
  /\ ~d.ok
  /\ ring' = DrawEvents(ring, d)
  /\ Returns("attach", "Internal", <<>>, <<>>)
  /\ UNCHANGED <<slots, bus, auditCap, netCap, drawn, handed>>

(* The bus is opened before the slot is touched.                           *)
NeedsKey(a) == a.kind = "Software" /\ InitRole(a.init) = "AesGcm"
Opened(a, key) == BusOpen(BusNew(a.kind), a.init, key)

(* What gen_token_u64 yields, when it succeeds.  (And a faulty variant for *)
(* the mutation checks: a generator that does not advance.)                *)
gen_token_u64_Stuck == 3
gen_token_u64 == drawn + 1

AttachOpen(a, d, k) ==
  LET token == gen_token_u64
      key   == IF NeedsKey(a) /\ k.ok THEN drawn + 2 ELSE 0
      after == IF NeedsKey(a) THEN DrawEvents(DrawEvents(ring, d), k)
               ELSE DrawEvents(ring, d)
      b     == Opened(a, key)
  IN  /\ AttachAllowed(a) /\ d.ok
      /\ drawn' = IF key = 0 THEN token ELSE key
      /\ drawn' <= MaxDrawn
      /\ UNCHANGED <<auditCap, netCap>>
      /\ \E i \in SlotIdx :
           /\ IsFirst(i, EmptySlots(slots))
           /\ \/ /\ ~b.ok
                 /\ ring' = after
                 /\ Returns("attach", "BadArg", <<>>, <<>>)
                 /\ UNCHANGED <<slots, bus, handed>>
              \/ /\ b.ok
                 /\ bus' = [bus EXCEPT ![i] = b.bus]
                 /\ slots' = [slots EXCEPT ![i] =
                      [state |-> "Attached", token |-> token,
                       rights |-> HsmRights, pk_hash_prefix |-> a.pk]]
                 /\ ring' = audit_enqueue(after, i, 0, KindOctet[a.kind], a.pk)
                 /\ handed' = handed \cup {token}
                 /\ Returns("attach", "Ok", <<Cap(token, i, HsmRights)>>, <<>>)

handle_attach(a) ==
  \/ AttachNetworkDenied(a)
  \/ AttachBadArgs(a)
  \/ AttachNotAttested(a)
  \/ AttachFull(a)
  \/ \E d \in Draws : AttachNoToken(a, d)
  \/ \E d \in Draws : \E k \in Draws : AttachOpen(a, d, k)
-----------------------------------------------------------------------------
(* The syscalls that present capabilities.                                 *)

(* Each call may present any capability of Caps; `Caps # Live(right)` says *)
(* that one of them is refused.                                            *)

(* Faulty variant, for the mutation checks: the driver is left behind.     *)
handle_detach_BusLeft ==
  \E cap \in Live("REVOKE") :
    /\ slots' = [slots EXCEPT ![cap.slot] = EmptySlot]
    /\ Returns("detach", "Ok", <<cap>>, <<>>)
    /\ UNCHANGED <<bus, ring, auditCap, netCap, drawn, handed>>

(* close is best effort; zeroize then wipes bus and slot together.         *)
handle_detach ==
  \/ \E rax \in BadArgs : Fails("detach", rax)
  \/ Caps # Live("REVOKE") /\ Fails("detach", "Denied")
  \/ \E cap \in Live("REVOKE") :
       /\ bus' = [bus EXCEPT ![cap.slot] = BusZeroize(BusClose(@).bus)]
       /\ slots' = [slots EXCEPT ![cap.slot] = EmptySlot]
       /\ Returns("detach", "Ok", <<cap>>, <<>>)
       /\ UNCHANGED <<ring, auditCap, netCap, drawn, handed>>

(* The output buffer is checked only after the capability.                 *)
handle_enumerate ==
  \/ Fails("enumerate", "BadAddress")
  \/ Caps # Live("ENUMERATE") /\ Fails("enumerate", "Denied")
  \/ \E cap \in Live("ENUMERATE"), count \in Counts :
       \/ count > HSM_MAX_SLOTS /\ Fails("enumerate", "BadArg")
       \/ /\ count <= HSM_MAX_SLOTS
          /\ Returns("enumerate", "Ok", <<cap>>, enumerate(slots, bus, count))
          /\ UNCHANGED <<slots, bus, ring, auditCap, netCap, drawn, handed>>

handle_write ==
  \/ \E rax \in BadArgs : Fails("write", rax)
  \/ Caps # Live("USE") /\ Fails("write", "Denied")
  \/ \E cap \in Live("USE") : \E data \in Writes(handed) :
       LET w == BusWrite(State, cap.slot, data) IN
       /\ bus' = w.bus
       /\ ring' = w.ring
       /\ Returns("write", IF w.ok THEN "Ok" ELSE "Internal", <<cap>>, data)
       /\ UNCHANGED <<slots, auditCap, netCap, drawn, handed>>

(* Read from the source, then write to the destination.  What was read is  *)
(* gone from the source when the write does not take all of it.            *)
Relayed(src, dst, byte_len) ==
  LET r  == BusRead(bus[src.slot], byte_len)
      m  == [State EXCEPT !.bus[src.slot] = r.bus]
      w  == BusWrite(m, dst.slot, r.data)
      go == r.ok /\ r.n = byte_len
  IN  /\ bus' = IF go THEN w.bus ELSE m.bus
      /\ ring' = IF go THEN w.ring ELSE ring
      /\ Returns("relay",
                 IF go /\ w.ok /\ w.n = byte_len THEN "Ok" ELSE "Internal",
                 <<src, dst>>, r.data)
      /\ UNCHANGED <<slots, auditCap, netCap, drawn, handed>>

handle_relay ==
  \/ \E rax \in BadArgs : Fails("relay", rax)
  \/ /\ Caps # Live("RELAY_SRC") \/ Caps # Live("RELAY_DST")
     /\ Fails("relay", "Denied")
  \/ \E src \in Live("RELAY_SRC"), dst \in Live("RELAY_DST"), byte_len \in ByteLens :
       Relayed(src, dst, byte_len)

handle_read ==
  \/ \E rax \in BadArgs : Fails("read", rax)
  \/ Caps # Live("USE") /\ Fails("read", "Denied")
  \/ \E cap \in Live("USE"), out_len \in OutLens :
       LET r == BusRead(bus[cap.slot], out_len) IN
       /\ out_len >= WIRE_HEADER_LEN
       /\ bus' = [bus EXCEPT ![cap.slot] = r.bus]
       /\ Returns("read", IF r.ok THEN "Ok" ELSE "Internal", <<cap>>, r.data)
       /\ UNCHANGED <<slots, ring, auditCap, netCap, drawn, handed>>
-----------------------------------------------------------------------------
(* The air gap.  Each capability is given to the first caller.             *)

take_network_cap ==
  /\ GapCalls /\ TlsExternal
  /\ \/ Fails("take_network_cap", "Denied")
     \/ /\ netCap # "Provisioned"
        /\ ring' = audit_enqueue(ring, 254, 2, KindOctet["Network"], 0)
        /\ Returns("take_network_cap", "Denied", <<>>, <<>>)
        /\ UNCHANGED <<slots, bus, auditCap, netCap, drawn, handed>>
     \/ /\ netCap = "Provisioned"
        /\ netCap' = "Taken"
        /\ ring' = audit_enqueue(ring, 254, 3, KindOctet["Network"], 0)
        /\ handed' = handed \cup {NETWORK_TOKEN}
        /\ Returns("take_network_cap", "Ok", <<>>, <<>>)
        /\ UNCHANGED <<slots, bus, auditCap, drawn>>

take_audit_read_cap ==
  /\ GapCalls
  /\ \/ Fails("take_audit_read_cap", "Denied")
     \/ /\ auditCap # "Provisioned"
        /\ ring' = audit_enqueue(ring, 253, 2, KindOctet["Software"], 0)
        /\ Returns("take_audit_read_cap", "Denied", <<>>, <<>>)
        /\ UNCHANGED <<slots, bus, auditCap, netCap, drawn, handed>>
     \/ /\ auditCap = "Provisioned"
        /\ auditCap' = "Taken"
        /\ ring' = audit_enqueue(ring, 253, 3, KindOctet["Software"], 0)
        /\ handed' = handed \cup {AUDIT_TOKEN}
        /\ Returns("take_audit_read_cap", "Ok", <<>>, <<>>)
        /\ UNCHANGED <<slots, bus, netCap, drawn>>

(* sys_hsm_status: a snapshot of slots and audit ring for the holder of    *)
(* the audit capability.  Only a wrong token is recorded.                  *)
handle_status(token) ==
  /\ GapCalls
  /\ \/ Fails("status", "Denied")
     \/ /\ token # AUDIT_TOKEN
        /\ ring' = audit_enqueue(ring, 255, 2, KindOctet["Software"], 0)
        /\ Returns("status", "Denied", <<>>, <<>>)
        /\ UNCHANGED <<slots, bus, auditCap, netCap, drawn, handed>>
     \/ token = AUDIT_TOKEN /\ Fails("status", "BadAddress")
     \/ /\ token = AUDIT_TOKEN
        /\ Returns("status", "Ok", <<Cap(token, HSM_MAX_SLOTS, {})>>,
                   audit_snapshot(ring, AUDIT_RING_CAPACITY))
        /\ UNCHANGED <<slots, bus, ring, auditCap, netCap, drawn, handed>>
-----------------------------------------------------------------------------
Next ==
  \/ \E a \in Attaches : handle_attach(a)
  \/ handle_detach
  \/ handle_enumerate
  \/ handle_write
  \/ handle_relay
  \/ handle_read
  \/ take_network_cap
  \/ take_audit_read_cap
  \/ \E token \in handed \cup {0} : handle_status(token)

Spec == Init /\ [][Next]_vars
-----------------------------------------------------------------------------
(* Between calls a slot is either wiped, table entry and driver both, or   *)
(* attached with an open driver and a token no other slot has.  A stub     *)
(* (Usb .. Network) is never behind an attached slot, and the tokens of    *)
(* the air gap never open a slot.                                          *)
SlotConsistency ==
  \A i \in SlotIdx :
    \/ slots[i] = EmptySlot /\ bus[i] = BusEmpty
    \/ /\ slots[i].state = "Attached"
       /\ bus[i].kind \in {"Software", "Ring3Process"} /\ bus[i].open_state
       /\ slots[i].token \in handed \ {AUDIT_TOKEN, NETWORK_TOKEN}
       /\ \A j \in SlotIdx \ {i} : slots[j].token # slots[i].token

(* A detached token is dead: no later attach, to this slot or another,     *)
(* makes an old capability authenticate again.                             *)
DetachedIsDead ==
  [][\A t \in handed : (\A i \in SlotIdx : slots[i].token # t) =>
                           \A i \in SlotIdx : slots'[i].token # t]_vars

(* Isolation: an attached slot and its bus change only in a call that      *)
(* carries the slot's token, also when the wire dispatcher of one slot     *)
(* acts on another.                                                        *)
OnlyAuthorised ==
  [][\A i \in SlotIdx :
       slots[i].state = "Attached" /\ (slots'[i] # slots[i] \/ bus'[i] # bus[i])
         => \E cap \in Carried(call') :
              cap.slot = i /\ cap.token = slots[i].token]_vars

(* attach is all or nothing.  It fails and leaves slots, buses and tokens  *)
(* as they were; or it fills one empty slot, the capability it returns     *)
(* works at once with a token never seen before, and the newest record of  *)
(* the audit ring names the slot and the device.                           *)
AttachOutcome ==
  [][call'.op = "attach" =>
       \/ call'.rax # "Ok" /\ UNCHANGED <<slots, bus, handed>>
       \/ /\ call'.rax = "Ok"
          /\ LET cap == call'.caps[1]
             IN  /\ authenticate(slots', cap, HsmRights)
                 /\ slots[cap.slot].state = "Empty"
                 /\ \A i \in SlotIdx \ {cap.slot} :
                      slots'[i] = slots[i] /\ bus'[i] = bus[i]
                 /\ cap.token \notin handed
                 /\ Newest(ring').slot_idx = cap.slot /\ Newest(ring').result = 0
                 /\ Newest(ring').pk_hash_prefix = slots'[cap.slot].pk_hash_prefix]_vars

(* Whatever is attached was attested: the trust root signed this device    *)
(* key for this kind of bus.                                               *)
AttachedIsAttested ==
  \A i \in SlotIdx : slots[i].state = "Attached" =>
    <<slots[i].pk_hash_prefix, KindOctet[bus[i].kind]>> \in {a.signed : a \in Attaches}

(* The air gap's capabilities are handed out once, and a status report is  *)
(* given only after the audit capability was taken.                        *)
OneShotCaps ==
  /\ [][call'.op = "take_audit_read_cap" /\ call'.rax = "Ok"
          => AUDIT_TOKEN \notin handed]_vars
  /\ [][call'.op = "take_network_cap" /\ call'.rax = "Ok"
          => NETWORK_TOKEN \notin handed]_vars
  /\ [][call'.op = "status" /\ call'.rax = "Ok" => auditCap = "Taken"]_vars
-----------------------------------------------------------------------------
(* Properties of the data path.                                            *)

(* A response waiting in a Ring3Process bus is never overwritten: it       *)
(* leaves the bus whole, in a read or a relay from the slot, or is wiped   *)
(* by detach.                                                              *)
ResponseDelivered ==
  [][\A i \in SlotIdx :
       bus[i].response # <<>> /\ bus'[i].response # bus[i].response =>
         /\ bus'[i].response = <<>>
         /\ \/ /\ call'.op \in {"read", "relay"}
               /\ call'.caps[1].slot = i
               /\ call'.data = bus[i].response
            \/ call'.op = "detach"]_vars

(* A Ring3Process bus answers each request it accepts, at once and with    *)
(* the number of that request; a response that appears in another slot     *)
(* answers a request carried inside the data.                              *)
WireAnswer ==
  [][/\ call'.op \in {"write", "relay"} /\ call'.rax = "Ok" =>
          LET i == call'.caps[Len(call'.caps)].slot IN
          bus[i].kind = "Ring3Process" =>
            /\ bus'[i].response # <<>>
            /\ bus'[i].response[1][1][3] = call'.data[1][1][3]
            /\ bus'[i].response[1][1][2] \in {call'.data[1][1][2], "Error"}
     /\ \A i \in SlotIdx : bus'[i].response \notin {<<>>, bus[i].response} =>
          \E k \in DOMAIN call'.data :
            /\ call'.data[k][1][1] = "req"
            /\ call'.data[k][1][3] = bus'[i].response[1][1][3]]_vars

(* A relay that reports success moved exactly what it read: it is gone     *)
(* from the source, and an Echo destination holds it behind its old data.  *)
(* Behind the data a Software source keeps what it had, unless the data is *)
(* a request that carries a capability for the source itself.              *)
RelayExact ==
  [][call'.op = "relay" /\ call'.rax = "Ok" =>
       LET s == call'.caps[1].slot
           d == call'.caps[2].slot
       IN  /\ bus[s].kind = "Ring3Process" /\ s # d =>
                 bus[s].response = call'.data /\ bus'[s].response = <<>>
           /\ bus[s].kind = "Software" /\ s \notin {d} \cup {cap.slot : cap \in Inside(call'.data)} =>
                 Unread(bus[s]) = call'.data \o Unread(bus'[s])
           /\ bus[d].kind = "Software" /\ bus[d].role = "Echo" =>
                 IF s # d THEN Unread(bus'[d]) = Unread(bus[d]) \o call'.data
                 ELSE call'.data \o Unread(bus'[d]) = Unread(bus[d]) \o call'.data]_vars
=============================================================================
