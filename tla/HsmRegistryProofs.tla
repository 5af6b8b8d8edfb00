------------------------- MODULE HsmRegistryProofs -------------------------
(***************************************************************************)
(* For any number of slots, any requests and any data: a slot is wiped or  *)
(* consistently attached, what is attached passed attestation, attach is   *)
(* all or nothing, a detached token never works again, the air gap's       *)
(* capabilities are handed out once, a call changes only the slots its     *)
(* tokens name, every request is answered and no response is lost, and a   *)
(* relay is exact.                                                         *)
(*                                                                         *)
(* The slot table.  It is changed by attach, with a token above all that   *)
(* were drawn before, and by detach; every other call leaves kinds and     *)
(* open_state of the buses alone (AllKept), which is all that IInv says of *)
(* them.                                                                   *)
(*                                                                         *)
(* The data path.  Behind every slot the stored data is well formed, the   *)
(* cursor is inside it, and only a Ring3Process bus holds a response; the  *)
(* audit ring has its shape (DataInv).  From a state like this a read, a   *)
(* write or a relay keeps DataInv and has the effect that the properties   *)
(* describe (CallKept and MovedBy); the other calls change no bus that is  *)
(* attached, or wipe the one they name.                                    *)
(***************************************************************************)
EXTENDS HsmRegistry, WireProofs, WellFoundedInduction

(* The inductive invariant.                                                *)
Tokens ==
  /\ drawn \in Nat /\ drawn >= 2
  /\ \A t \in handed : t \in Nat /\ 1 <= t /\ t <= drawn
  /\ auditCap = "Provisioned" => AUDIT_TOKEN \notin handed
  /\ netCap = "Provisioned" => NETWORK_TOKEN \notin handed
  /\ AUDIT_TOKEN \in handed => auditCap = "Taken"

IInv ==
  /\ IsFcn(slots) /\ DOMAIN slots = SlotIdx
  /\ Buses(bus)
  /\ Tokens
  /\ SlotConsistency
  /\ AttachedIsAttested
-----------------------------------------------------------------------------
(* The inductive invariant: one lemma for each way a step changes state.   *)

LEMMA InitIInv == Init => IInv
<1> SUFFICES ASSUME Init PROVE IInv
  OBVIOUS
<1>1. IsFcn(slots) /\ DOMAIN slots = SlotIdx
  BY DEF Init, IsFcn
<1>2. BusShape(BusEmpty)
  BY DEF BusShape, BusEmpty, BusNew, BusFields
<1>3. Buses(bus)
  BY <1>2 DEF Init, Buses, IsFcn
<1>4. Tokens
  BY DEF Init, Tokens, AUDIT_TOKEN, NETWORK_TOKEN
<1>5. SlotConsistency
  BY DEF Init, SlotConsistency
<1>6. AttachedIsAttested
  BY DEF Init, AttachedIsAttested, EmptySlot
<1> QED
  BY <1>1, <1>3, <1>4, <1>5, <1>6 DEF IInv

(* Steps that change neither the table nor the buses.                      *)
LEMMA Quiet ==
  ASSUME IInv, UNCHANGED <<slots, bus, handed, auditCap, netCap>>,
         drawn' \in Nat, drawn' >= drawn
  PROVE  IInv'
<1>1. Tokens'
  BY DEF IInv, Tokens
<1>2. SlotConsistency'
  BY DEF IInv, SlotConsistency
<1>3. AttachedIsAttested'
  BY DEF IInv, AttachedIsAttested
<1> QED
  BY <1>1, <1>2, <1>3 DEF IInv, Buses

(* Steps of the data path.                                                 *)
LEMMA DataStep ==
  ASSUME IInv, AllKept(bus, bus'), UNCHANGED <<slots, auditCap, netCap, drawn, handed>>
  PROVE  IInv'
<1>1. Tokens'
  BY DEF IInv, Tokens
<1>2. SlotConsistency'
  <2> SUFFICES ASSUME NEW i \in SlotIdx
               PROVE  \/ slots'[i] = EmptySlot /\ bus'[i] = BusEmpty
                      \/ /\ slots'[i].state = "Attached"
                         /\ bus'[i].kind \in {"Software", "Ring3Process"}
                         /\ bus'[i].open_state
                         /\ slots'[i].token \in handed' \ {AUDIT_TOKEN, NETWORK_TOKEN}
                         /\ \A j \in SlotIdx \ {i} : slots'[j].token # slots'[i].token
    BY DEF SlotConsistency
  <2>1. Keeps(bus[i], bus'[i])
    BY DEF AllKept
  <2>2. BusEmpty.kind = "Empty"
    BY DEF BusEmpty, BusNew
  <2> QED
    BY <2>1, <2>2 DEF IInv, SlotConsistency, Keeps
<1>3. AttachedIsAttested'
  BY DEF IInv, AttachedIsAttested, AllKept, Keeps
<1> QED
  BY <1>1, <1>2, <1>3 DEF IInv, AllKept

LEMMA WipeStep ==
  ASSUME IInv, NEW i \in SlotIdx,
         slots' = [slots EXCEPT ![i] = EmptySlot],
         bus' = [bus EXCEPT ![i] = BusEmpty],
         UNCHANGED <<auditCap, netCap, drawn, handed>>
  PROVE  IInv'
<1>1. Tokens'
  BY DEF IInv, Tokens
<1>2. \A j \in SlotIdx : /\ slots'[j] = IF j = i THEN EmptySlot ELSE slots[j]
                         /\ bus'[j] = IF j = i THEN BusEmpty ELSE bus[j]
  BY DEF IInv, Buses
<1>3. EmptySlot.token = 0 /\ 0 \notin handed
  BY DEF EmptySlot, IInv, Tokens
<1>4. SlotConsistency'
  BY <1>2, <1>3 DEF IInv, SlotConsistency
<1>5. IsFcn(slots') /\ DOMAIN slots' = SlotIdx
  BY Zenon DEF IInv, IsFcn
<1>6. IsFcn(bus') /\ DOMAIN bus' = SlotIdx
  BY Zenon DEF IInv, IsFcn, Buses
<1>7. Buses(bus')
  BY <1>2, <1>6, EmptyShape DEF IInv, Buses
<1>8. AttachedIsAttested'
  BY <1>2, Zenon DEF IInv, AttachedIsAttested, EmptySlot
<1> QED
  BY <1>1, <1>4, <1>5, <1>7, <1>8 DEF IInv

(* Attach: the token is above every token drawn before, and the trust root *)
(* signed the key for the kind of bus.                                     *)
LEMMA FillStep ==
  ASSUME IInv, NEW i \in SlotIdx, slots[i].state = "Empty",
         NEW s, s.state = "Attached", s.token = drawn + 1,
         NEW b, BusShape(b), b.kind \in {"Software", "Ring3Process"}, b.open_state,
         <<s.pk_hash_prefix, KindOctet[b.kind]>> \in {a.signed : a \in Attaches},
         slots' = [slots EXCEPT ![i] = s], bus' = [bus EXCEPT ![i] = b],
         handed' = handed \cup {drawn + 1},
         drawn' \in Nat, drawn' >= drawn + 1,
         UNCHANGED <<auditCap, netCap>>
  PROVE  IInv'
<1>0. drawn \in Nat /\ drawn >= 2
  BY DEF IInv, Tokens
<1>1. Tokens'
  BY <1>0 DEF IInv, Tokens, AUDIT_TOKEN, NETWORK_TOKEN
<1>2. \A j \in SlotIdx : /\ slots'[j] = IF j = i THEN s ELSE slots[j]
                         /\ bus'[j] = IF j = i THEN b ELSE bus[j]
  BY DEF IInv, Buses
<1>3. \A j \in SlotIdx : slots[j].token # drawn + 1
  <2>1. drawn + 1 \notin handed /\ drawn + 1 # 0
    BY <1>0 DEF IInv, Tokens
  <2> QED
    BY <2>1 DEF IInv, SlotConsistency, EmptySlot
<1>4. drawn + 1 \notin {AUDIT_TOKEN, NETWORK_TOKEN}
  BY <1>0 DEF AUDIT_TOKEN, NETWORK_TOKEN
<1>5. SlotConsistency'
  BY <1>2, <1>3, <1>4 DEF IInv, SlotConsistency
<1>6. IsFcn(slots') /\ DOMAIN slots' = SlotIdx
  BY Zenon DEF IInv, IsFcn
<1>7. IsFcn(bus') /\ DOMAIN bus' = SlotIdx
  BY Zenon DEF IInv, IsFcn, Buses
<1>8. Buses(bus')
  BY <1>2, <1>7 DEF IInv, Buses
<1>9. AttachedIsAttested'
  <2> SUFFICES ASSUME NEW j \in SlotIdx, slots'[j].state = "Attached"
               PROVE  <<slots'[j].pk_hash_prefix, KindOctet[bus'[j].kind]>>
                        \in {a.signed : a \in Attaches}
    BY Zenon DEF AttachedIsAttested
  <2>1. CASE j = i
    BY <1>2, <2>1
  <2>2. CASE j # i
    BY <1>2, <2>2, Zenon DEF IInv, AttachedIsAttested
  <2> QED
    BY <2>1, <2>2
<1> QED
  BY <1>1, <1>5, <1>6, <1>8, <1>9 DEF IInv

(* A bus that opens is one of the two that exist, and is open.             *)
LEMMA OpenedShape ==
  ASSUME NEW a, NEW key, Opened(a, key).ok
  PROVE  LET b == Opened(a, key).bus IN
         BusShape(b) /\ b.kind \in {"Software", "Ring3Process"} /\ b.open_state
         /\ b.kind = a.kind
<1> DEFINE n == BusNew(a.kind)
<1>1. n.kind = a.kind /\ DOMAIN n = BusFields /\ n.role = "Echo"
  BY DEF BusNew, BusFields
<1>2. CASE a.kind = "Software"
  <2>1. Opened(a, key) = SoftwareOpen(n, a.init, key)
    BY <1>1, <1>2 DEF Opened, BusOpen
  <2> DEFINE role == InitRole(a.init)
  <2>2. role \in {"Echo", "Blake3", "AesGcm"}
    BY <2>1 DEF SoftwareOpen, Err, InitRole
  <2> DEFINE x == IF role = "AesGcm" THEN key ELSE 0
  <2>4. Opened(a, key).bus =
          [n EXCEPT !.role = role, !.open_state = TRUE, !.ring = <<>>, !.read_pos = 0,
                    !.key = x, !.nonce_counter = 0]
    BY <2>1 DEF SoftwareOpen, Err, Ok
  <2> HIDE DEF n, role, x
  <2> DEFINE b == Opened(a, key).bus
  <2>5. DOMAIN b = BusFields
    BY <1>1, <2>4
  <2>6. b.kind = "Software" /\ b.open_state = TRUE /\ b.role = role
    BY <1>1, <1>2, <2>4 DEF BusFields
  <2> HIDE DEF b
  <2>7. BusShape(b) /\ b.kind \in {"Software", "Ring3Process"} /\ b.open_state
        /\ b.kind = a.kind
    BY <1>2, <2>2, <2>5, <2>6 DEF BusShape
  <2> QED
    BY <2>7 DEF b
<1>3. CASE a.kind = "Ring3Process"
  <2>1. Opened(a, key) = Ring3Open(n, a.init)
    BY <1>1, <1>3 DEF Opened, BusOpen
  <2> DEFINE x == InitEndpoint(a.init)
  <2>2. Opened(a, key).bus = [n EXCEPT !.endpoint = x, !.open_state = TRUE]
    BY <2>1 DEF Ring3Open, Err, Ok
  <2> HIDE DEF n, x
  <2> DEFINE b == Opened(a, key).bus
  <2>3. DOMAIN b = BusFields
    BY <1>1, <2>2
  <2>4. b.kind = "Ring3Process" /\ b.open_state = TRUE /\ b.role = "Echo"
    BY <1>1, <1>3, <2>2 DEF BusFields
  <2> HIDE DEF b
  <2>5. BusShape(b) /\ b.kind \in {"Software", "Ring3Process"} /\ b.open_state
        /\ b.kind = a.kind
    BY <1>3, <2>3, <2>4 DEF BusShape
  <2> QED
    BY <2>5 DEF b
<1>4. CASE a.kind \notin {"Software", "Ring3Process"}
  BY <1>1, <1>4 DEF Opened, BusOpen, Err
<1> QED
  BY <1>2, <1>3, <1>4

LEMMA AttachIInv ==
  ASSUME IInv, NEW a \in Attaches, handle_attach(a)
  PROVE  IInv'
<1>0. drawn \in Nat
  BY DEF IInv, Tokens
<1>1. CASE AttachNetworkDenied(a)
  BY <1>0, <1>1, Quiet DEF AttachNetworkDenied
<1>2. CASE AttachBadArgs(a)
  BY <1>0, <1>2, Quiet DEF AttachBadArgs, Fails
<1>3. CASE AttachNotAttested(a)
  BY <1>0, <1>3, Quiet DEF AttachNotAttested
<1>4. CASE AttachFull(a)
  BY <1>0, <1>4, Quiet DEF AttachFull, Fails
<1>5. ASSUME NEW d \in Draws, AttachNoToken(a, d) PROVE IInv'
  BY <1>0, <1>5, Quiet DEF AttachNoToken
<1>6. ASSUME NEW d \in Draws, NEW k \in Draws, AttachOpen(a, d, k) PROVE IInv'
  <2> DEFINE token == drawn + 1
             key   == IF NeedsKey(a) /\ k.ok THEN drawn + 2 ELSE 0
             b     == Opened(a, key)
             s     == [state |-> "Attached", token |-> token,
                       rights |-> HsmRights, pk_hash_prefix |-> a.pk]
  <2>1. drawn' \in Nat /\ drawn' >= drawn + 1
    <3>1. drawn' = IF key = 0 THEN token ELSE key
      BY <1>6 DEF AttachOpen, gen_token_u64
    <3>2. key = 0 \/ key = drawn + 2
      OBVIOUS
    <3> QED
      BY <1>0, <3>1, <3>2
  <2>2. UNCHANGED <<auditCap, netCap>>
    BY <1>6 DEF AttachOpen, gen_token_u64
  <2>3. \/ UNCHANGED <<slots, bus, handed>>
        \/ \E i \in SlotIdx :
             /\ IsFirst(i, EmptySlots(slots))
             /\ b.ok
             /\ bus' = [bus EXCEPT ![i] = b.bus]
             /\ slots' = [slots EXCEPT ![i] = s]
             /\ handed' = handed \cup {token}
    BY <1>6 DEF AttachOpen, gen_token_u64
  <2>4. CASE UNCHANGED <<slots, bus, handed>>
    <3>1. drawn' >= drawn
      BY <1>0, <2>1
    <3> QED
      BY <2>1, <2>2, <2>4, <3>1, Quiet
  <2>5. ASSUME NEW i \in SlotIdx,
               IsFirst(i, EmptySlots(slots)),
               b.ok,
               bus' = [bus EXCEPT ![i] = b.bus],
               slots' = [slots EXCEPT ![i] = s],
               handed' = handed \cup {token}
        PROVE  IInv'
    <3>1. BusShape(b.bus) /\ b.bus.kind \in {"Software", "Ring3Process"} /\ b.bus.open_state
          /\ b.bus.kind = a.kind
      BY <2>5, OpenedShape
    <3>2. slots[i].state = "Empty"
      BY <2>5 DEF IsFirst, EmptySlots
    <3>3. s.state = "Attached" /\ s.token = drawn + 1 /\ s.pk_hash_prefix = a.pk
      OBVIOUS
    <3>4. a.signed = <<a.pk, KindOctet[a.kind]>>
      BY <1>6 DEF AttachOpen, AttachAllowed, verify_attest
    <3> HIDE DEF b, s
    <3>5. <<s.pk_hash_prefix, KindOctet[b.bus.kind]>> \in {x.signed : x \in Attaches}
      BY <3>1, <3>3, <3>4
    <3> QED
      BY <2>1, <2>2, <2>5, <3>1, <3>2, <3>3, <3>5, FillStep, Zenon
  <2> QED
    BY <2>3, <2>4, <2>5
<1> QED
  BY <1>1, <1>2, <1>3, <1>4, <1>5, <1>6 DEF handle_attach

LEMMA DetachIInv ==
  ASSUME IInv, handle_detach
  PROVE  IInv'
<1>0. drawn \in Nat
  BY DEF IInv, Tokens
<1>1. ASSUME NEW rax, Fails("detach", rax) PROVE IInv'
  BY <1>0, <1>1, Quiet DEF Fails
<1>2. ASSUME NEW cap \in Live("REVOKE"),
             bus' = [bus EXCEPT ![cap.slot] = BusZeroize(BusClose(@).bus)],
             slots' = [slots EXCEPT ![cap.slot] = EmptySlot],
             UNCHANGED <<ring, auditCap, netCap, drawn, handed>>
      PROVE  IInv'
  <2>1. cap.slot \in SlotIdx
    BY DEF Live, authenticate
  <2>2. bus' = [bus EXCEPT ![cap.slot] = BusEmpty]
    BY <1>2 DEF BusZeroize
  <2> QED
    BY <1>2, <2>1, <2>2, WipeStep, Zenon
<1> QED
  BY <1>1, <1>2, Zenon DEF handle_detach

LEMMA StateMachine ==
  ASSUME IInv
  PROVE  Machine(State) /\ State.bus = bus
BY DEF IInv, Machine, State

LEMMA EnumerateIInv ==
  ASSUME IInv, handle_enumerate
  PROVE  IInv'
<1>1. drawn \in Nat
  BY DEF IInv, Tokens
<1>2. UNCHANGED <<slots, bus, auditCap, netCap, drawn, handed>>
  BY Zenon DEF handle_enumerate, Fails
<1> QED
  BY <1>1, <1>2, Quiet

LEMMA WriteIInv ==
  ASSUME IInv, handle_write
  PROVE  IInv'
<1>0. drawn \in Nat
  BY DEF IInv, Tokens
<1>1. ASSUME NEW rax, Fails("write", rax) PROVE IInv'
  BY <1>0, <1>1, Quiet DEF Fails
<1>2. ASSUME NEW cap \in Live("USE"), NEW data \in Writes(handed),
             bus' = BusWrite(State, cap.slot, data).bus,
             UNCHANGED <<slots, auditCap, netCap, drawn, handed>>
      PROVE  IInv'
  <2>1. cap.slot \in SlotIdx
    BY DEF Live, authenticate
  <2>2. AllKept(bus, bus')
    BY <1>2, <2>1, StateMachine, WriteKeeps DEF Written
  <2> QED
    BY <1>2, <2>2, DataStep
<1> QED
  BY <1>1, <1>2, Zenon DEF handle_write

LEMMA ReadIInv ==
  ASSUME IInv, handle_read
  PROVE  IInv'
<1>0. drawn \in Nat
  BY DEF IInv, Tokens
<1>1. ASSUME NEW rax, Fails("read", rax) PROVE IInv'
  BY <1>0, <1>1, Quiet DEF Fails
<1>2. ASSUME NEW cap \in Live("USE"), NEW out_len \in OutLens,
             bus' = [bus EXCEPT ![cap.slot] = BusRead(bus[cap.slot], out_len).bus],
             UNCHANGED <<slots, auditCap, netCap, drawn, handed>>
      PROVE  IInv'
  <2>1. cap.slot \in SlotIdx
    BY DEF Live, authenticate
  <2>2. Keeps(bus[cap.slot], BusRead(bus[cap.slot], out_len).bus)
    BY <2>1, ReadKeeps DEF IInv, Buses
  <2>3. AllKept(bus, bus')
    BY <1>2, <2>1, <2>2, AllKeptOne, Zenon DEF IInv
  <2> QED
    BY <1>2, <2>3, DataStep
<1> QED
  BY <1>1, <1>2, Zenon DEF handle_read

LEMMA RelayIInv ==
  ASSUME IInv, handle_relay
  PROVE  IInv'
<1>0. drawn \in Nat
  BY DEF IInv, Tokens
<1>1. ASSUME NEW rax, Fails("relay", rax) PROVE IInv'
  BY <1>0, <1>1, Quiet DEF Fails
<1>2. ASSUME NEW src \in Live("RELAY_SRC"), NEW dst \in Live("RELAY_DST"),
             NEW byte_len \in ByteLens, Relayed(src, dst, byte_len)
      PROVE  IInv'
  <2> DEFINE r == BusRead(bus[src.slot], byte_len)
             m == [State EXCEPT !.bus[src.slot] = r.bus]
  <2>1. src.slot \in SlotIdx /\ dst.slot \in SlotIdx
    BY DEF Live, authenticate
  <2>2. Keeps(bus[src.slot], r.bus)
    BY <2>1, ReadKeeps DEF IInv, Buses
  <2>3. m.bus = [bus EXCEPT ![src.slot] = r.bus]
    BY StateMachine DEF Machine
  <2>4. AllKept(bus, m.bus)
    BY <2>1, <2>2, <2>3, AllKeptOne DEF IInv
  <2>5. Machine(m)
    <3>1. DOMAIN m = {"slots", "bus", "ring"}
      BY StateMachine DEF Machine
    <3> QED
      BY <2>4, <3>1 DEF Machine, AllKept
  <2>6. /\ bus' = m.bus \/ bus' = BusWrite(m, dst.slot, r.data).bus
        /\ UNCHANGED <<slots, auditCap, netCap, drawn, handed>>
    BY <1>2 DEF Relayed
  <2> HIDE DEF m
  <2>7. AllKept(m.bus, BusWrite(m, dst.slot, r.data).bus)
    BY <2>1, <2>5, WriteKeeps DEF Written
  <2>8. AllKept(bus, bus')
    BY <2>4, <2>6, <2>7, AllKeptTrans
  <2> QED
    BY <2>6, <2>8, DataStep
<1> QED
  BY <1>1, <1>2 DEF handle_relay

LEMMA GapIInv ==
  ASSUME IInv, take_network_cap \/ take_audit_read_cap
  PROVE  IInv'
<1>0. drawn \in Nat /\ drawn >= 2
  BY DEF IInv, Tokens
<1>1. CASE UNCHANGED <<slots, bus, auditCap, netCap, drawn, handed>>
  BY <1>0, <1>1, Quiet
<1>2. CASE /\ UNCHANGED <<slots, bus, drawn>>
           /\ \/ /\ netCap' = "Taken" /\ auditCap' = auditCap
                 /\ handed' = handed \cup {NETWORK_TOKEN}
              \/ /\ auditCap' = "Taken" /\ netCap' = netCap
                 /\ handed' = handed \cup {AUDIT_TOKEN}
  <2>1. Tokens'
    BY <1>0, <1>2 DEF IInv, Tokens, AUDIT_TOKEN, NETWORK_TOKEN
  <2>2. SlotConsistency'
    BY <1>2 DEF IInv, SlotConsistency
  <2>3. AttachedIsAttested'
    BY <1>2, Zenon DEF IInv, AttachedIsAttested
  <2> QED
    BY <1>2, <2>1, <2>2, <2>3 DEF IInv, Buses
<1> QED
  BY <1>1, <1>2 DEF take_network_cap, take_audit_read_cap, Fails

LEMMA StatusIInv ==
  ASSUME IInv, NEW token, handle_status(token)
  PROVE  IInv'
<1>1. drawn \in Nat
  BY DEF IInv, Tokens
<1>2. UNCHANGED <<slots, bus, auditCap, netCap, drawn, handed>>
  BY DEF handle_status, Fails
<1> QED
  BY <1>1, <1>2, Quiet

LEMMA NextIInv == IInv /\ [Next]_vars => IInv'
<1> SUFFICES ASSUME IInv, [Next]_vars PROVE IInv'
  OBVIOUS
<1>1. CASE UNCHANGED vars
  <2>1. drawn \in Nat
    BY DEF IInv, Tokens
  <2> QED
    BY <1>1, <2>1, Quiet DEF vars
<1>2. CASE Next
  <2>1. ASSUME NEW a \in Attaches, handle_attach(a) PROVE IInv'
    BY <2>1, AttachIInv
  <2>2. CASE handle_detach
    BY <2>2, DetachIInv
  <2>3. CASE handle_enumerate
    BY <2>3, EnumerateIInv
  <2>4. CASE handle_write
    BY <2>4, WriteIInv
  <2>5. CASE handle_relay
    BY <2>5, RelayIInv
  <2>6. CASE handle_read
    BY <2>6, ReadIInv
  <2>7. CASE take_network_cap \/ take_audit_read_cap
    BY <2>7, GapIInv
  <2>8. ASSUME NEW token, handle_status(token) PROVE IInv'
    BY <2>8, StatusIInv
  <2> QED
    BY <1>2, <2>1, <2>2, <2>3, <2>4, <2>5, <2>6, <2>7, <2>8 DEF Next
<1> QED
  BY <1>1, <1>2

(* The invariant holds of every reachable state.                           *)
THEOREM Inductive == Spec => []IInv
BY InitIInv, NextIInv, PTL DEF Spec

(* In every reachable state a slot is wiped or consistently attached, for  *)
(* any number of slots: what handle_attach, handle_detach and the wire     *)
(* dispatcher of bus.rs leave behind.                                      *)
THEOREM SlotsAreConsistent == Spec => []SlotConsistency
<1>1. IInv => SlotConsistency
  BY DEF IInv
<1> QED
  BY <1>1, Inductive, PTL

(* Whatever the clients pass to sys_hsm_attach, an attached slot holds a   *)
(* device key that the trust root signed for the kind of its bus: only     *)
(* handle_attach fills a slot, after verify_attest, and no write, relay or *)
(* wire command turns a bus into one of another kind.                      *)
THEOREM AttachedAreAttested == Spec => []AttachedIsAttested
<1>1. IInv => AttachedIsAttested
  BY DEF IInv
<1> QED
  BY <1>1, Inductive, PTL

(* No step brings a token back to life: detach stores 0, attach stores a   *)
(* token that was never handed out, and no other handler writes the table. *)
LEMMA DeadStep ==
  ASSUME IInv, [Next]_vars, NEW t \in handed, \A i \in SlotIdx : slots[i].token # t
  PROVE  \A i \in SlotIdx : slots'[i].token # t
<1>1. t \in Nat /\ t <= drawn /\ t >= 1 /\ drawn \in Nat
  BY DEF IInv, Tokens
<1>2. CASE slots' = slots
  BY <1>2
<1>3. ASSUME NEW a \in Attaches, handle_attach(a), slots' # slots
      PROVE  \E i \in SlotIdx : slots' = [slots EXCEPT ![i] =
               [state |-> "Attached", token |-> drawn + 1,
                rights |-> HsmRights, pk_hash_prefix |-> a.pk]]
  BY <1>3, Zenon DEF handle_attach, AttachNetworkDenied, AttachBadArgs, AttachNotAttested,
     AttachFull, AttachNoToken, AttachOpen, gen_token_u64, Fails
<1>4. ASSUME NEW a \in Attaches, handle_attach(a), slots' # slots
      PROVE  \A i \in SlotIdx : slots'[i].token # t
  BY <1>1, <1>3, <1>4 DEF IInv
<1>5. CASE handle_detach /\ slots' # slots
  <2>1. \E i \in SlotIdx : slots' = [slots EXCEPT ![i] = EmptySlot]
    BY <1>5, Zenon DEF handle_detach, Fails, Live, authenticate
  <2>2. EmptySlot.token = 0
    BY DEF EmptySlot
  <2> QED
    BY <1>1, <2>1, <2>2 DEF IInv
<1>6. handle_enumerate => slots' = slots
  BY Zenon DEF handle_enumerate, Fails
<1>7. handle_write => slots' = slots
  BY Zenon DEF handle_write, Fails
<1>8. handle_relay => slots' = slots
  <2>1. \A src, dst, byte_len : Relayed(src, dst, byte_len) => slots' = slots
    BY ZenonT(60) DEF Relayed
  <2>2. \A op, rax : Fails(op, rax) => slots' = slots
    BY DEF Fails
  <2> QED
    BY <2>1, <2>2 DEF handle_relay
<1>9. handle_read => slots' = slots
  BY Zenon DEF handle_read, Fails
<1>10. take_network_cap \/ take_audit_read_cap => slots' = slots
  BY DEF take_network_cap, take_audit_read_cap, Fails
<1>11. \A token : handle_status(token) => slots' = slots
  BY DEF handle_status, Fails
<1>12. CASE UNCHANGED vars
  BY <1>2, <1>12 DEF vars
<1>13. CASE Next
  BY <1>2, <1>4, <1>5, <1>6, <1>7, <1>8, <1>9, <1>10, <1>11, <1>13 DEF Next
<1> QED
  BY <1>12, <1>13

(* A capability that was detached never authenticates again, whatever is   *)
(* attached later and wherever.                                            *)
THEOREM DetachedStaysDead == Spec => DetachedIsDead
<1>1. IInv /\ [Next]_vars =>
        [\A t \in handed : (\A i \in SlotIdx : slots[i].token # t) =>
                             \A i \in SlotIdx : slots'[i].token # t]_vars
  BY DeadStep
<1> QED
  BY <1>1, Inductive, PTL DEF Spec, DetachedIsDead

(* The history variable names the handler that ran.                        *)
LEMMA ReturnsOp ==
  ASSUME NEW op, NEW rax, NEW caps, NEW data, Returns(op, rax, caps, data)
  PROVE  call'.op = op /\ call'.rax = rax
BY DEF Returns

LEMMA FailsOp ==
  ASSUME NEW op, NEW rax, Fails(op, rax)
  PROVE  call'.op = op /\ call'.rax = rax
BY ReturnsOp DEF Fails

LEMMA HandlerOps ==
  /\ \A a \in Attaches : handle_attach(a) => call'.op = "attach"
  /\ handle_detach => call'.op = "detach"
  /\ handle_enumerate => call'.op = "enumerate"
  /\ handle_write => call'.op = "write"
  /\ handle_relay => call'.op = "relay"
  /\ handle_read => call'.op = "read"
  /\ take_network_cap => call'.op = "take_network_cap"
  /\ take_audit_read_cap => call'.op = "take_audit_read_cap"
  /\ \A token : handle_status(token) => call'.op = "status"
<1>1. ASSUME NEW a \in Attaches, handle_attach(a) PROVE call'.op = "attach"
  BY <1>1, ReturnsOp, FailsOp, Zenon DEF handle_attach, AttachNetworkDenied, AttachBadArgs,
     AttachNotAttested, AttachFull, AttachNoToken, AttachOpen, gen_token_u64
<1>2. handle_detach => call'.op = "detach"
  BY ReturnsOp, FailsOp, Zenon DEF handle_detach
<1>3. handle_enumerate => call'.op = "enumerate"
  BY ReturnsOp, FailsOp, Zenon DEF handle_enumerate
<1>4. handle_write => call'.op = "write"
  BY ReturnsOp, FailsOp, Zenon DEF handle_write
<1>5. handle_relay => call'.op = "relay"
  <2>1. ASSUME NEW src, NEW dst, NEW byte_len, Relayed(src, dst, byte_len)
        PROVE  call'.op = "relay"
    BY <2>1, ReturnsOp DEF Relayed
  <2> QED
    BY <2>1, FailsOp DEF handle_relay
<1>6. handle_read => call'.op = "read"
  BY ReturnsOp, FailsOp, Zenon DEF handle_read
<1>7. take_network_cap => call'.op = "take_network_cap"
  BY ReturnsOp, FailsOp DEF take_network_cap
<1>8. take_audit_read_cap => call'.op = "take_audit_read_cap"
  BY ReturnsOp, FailsOp DEF take_audit_read_cap
<1>9. \A token : handle_status(token) => call'.op = "status"
  BY ReturnsOp, FailsOp DEF handle_status
<1> QED
  BY <1>1, <1>2, <1>3, <1>4, <1>5, <1>6, <1>7, <1>8, <1>9

LEMMA GapStep ==
  ASSUME IInv, Next
  PROVE  /\ call'.op = "take_audit_read_cap" /\ call'.rax = "Ok" => AUDIT_TOKEN \notin handed
         /\ call'.op = "take_network_cap" /\ call'.rax = "Ok" => NETWORK_TOKEN \notin handed
         /\ call'.op = "status" /\ call'.rax = "Ok" => auditCap = "Taken"
<1>1. take_audit_read_cap => /\ call'.op = "take_audit_read_cap"
                             /\ call'.rax = "Ok" => auditCap = "Provisioned"
  BY ReturnsOp, FailsOp DEF take_audit_read_cap
<1>2. take_network_cap => /\ call'.op = "take_network_cap"
                          /\ call'.rax = "Ok" => netCap = "Provisioned"
  BY ReturnsOp, FailsOp DEF take_network_cap
<1>3. \A token : handle_status(token) => /\ call'.op = "status"
                                         /\ call'.rax = "Ok" => token = AUDIT_TOKEN
  BY ReturnsOp, FailsOp DEF handle_status
<1>4. CASE take_audit_read_cap
  BY <1>1, <1>4 DEF IInv, Tokens
<1>5. CASE take_network_cap
  BY <1>2, <1>5 DEF IInv, Tokens
<1>6. ASSUME NEW token \in handed \cup {0}, handle_status(token)
      PROVE  call'.op = "status" /\ (call'.rax = "Ok" => auditCap = "Taken")
  BY <1>3, <1>6 DEF IInv, Tokens, AUDIT_TOKEN
<1>7. \/ call'.op \in {"attach", "detach", "enumerate", "write", "relay", "read"}
      \/ take_audit_read_cap \/ take_network_cap
      \/ \E token \in handed \cup {0} : handle_status(token)
  BY HandlerOps DEF Next
<1> QED
  BY <1>4, <1>5, <1>6, <1>7

(* air_gap.rs hands each of its capabilities out once, and handle_status   *)
(* reports only after the audit capability was taken.                      *)
THEOREM GapCapsOnce == Spec => OneShotCaps
<1>1. IInv /\ [Next]_vars =>
        /\ [call'.op = "take_audit_read_cap" /\ call'.rax = "Ok"
              => AUDIT_TOKEN \notin handed]_vars
        /\ [call'.op = "take_network_cap" /\ call'.rax = "Ok"
              => NETWORK_TOKEN \notin handed]_vars
        /\ [call'.op = "status" /\ call'.rax = "Ok" => auditCap = "Taken"]_vars
  BY GapStep
<1> QED
  BY <1>1, Inductive, PTL DEF Spec, OneShotCaps

-----------------------------------------------------------------------------
(* The audit ring along the entropy events of a draw.                      *)

(* A set of naturals has a least element.                                  *)
LEMMA Least ==
  ASSUME NEW S, S \subseteq Nat, S # {}
  PROVE  \E i \in S : \A j \in S : i <= j
<1>1. \A i, j \in Nat : j < i => <<j, i>> \in OpToRel(<, Nat)
  BY DEF OpToRel
<1>2. \E i \in S : \A j \in S : ~(<<j, i>> \in OpToRel(<, Nat))
  BY NatLessThanWellFounded, WFMin, Zenon
<1>3. \E i \in S : \A j \in S : ~(j < i)
  BY <1>1, <1>2, Zenon
<1> QED
  BY <1>3

IsRun(r, codes, f, n) ==
  f = [k \in 0 .. n |-> IF k = 0 THEN r ELSE EntropyEvent(f[k - 1], codes[k])]

LEMMA RunExists ==
  ASSUME NEW r, NEW codes, NEW n \in Nat
  PROVE  \E f : IsRun(r, codes, f, n)
<1> DEFINE S == {k \in Nat : ~\E f : IsRun(r, codes, f, k)}
<1> SUFFICES ASSUME S # {} PROVE FALSE
  OBVIOUS
<1>1. PICK k \in S : \A j \in S : k <= j
  BY Least, Zenon
<1>2. CASE k = 0
  <2>1. IsRun(r, codes, [j \in 0 .. 0 |-> r], 0)
    BY DEF IsRun
  <2> QED
    BY <1>2, <2>1
<1>3. CASE k # 0
  <2>1. k - 1 \in Nat /\ k - 1 \notin S
    BY <1>1, <1>3
  <2>2. PICK f : IsRun(r, codes, f, k - 1)
    BY <2>1
  <2> DEFINE g == [j \in 0 .. k |-> IF j = k THEN EntropyEvent(f[k - 1], codes[k]) ELSE f[j]]
  <2>3. \A j \in 0 .. k - 1 : f[j] = IF j = 0 THEN r ELSE EntropyEvent(f[j - 1], codes[j])
    BY <2>2 DEF IsRun
  <2>4. \A j \in 0 .. k : g[j] = IF j = 0 THEN r ELSE EntropyEvent(g[j - 1], codes[j])
    <3> SUFFICES ASSUME NEW j \in 0 .. k
                 PROVE  g[j] = IF j = 0 THEN r ELSE EntropyEvent(g[j - 1], codes[j])
      OBVIOUS
    <3>1. CASE j = 0
      BY <1>3, <2>3, <3>1
    <3>2. CASE j # 0
      <4>1. j - 1 \in 0 .. k - 1 /\ g[j - 1] = f[j - 1]
        BY <3>2
      <4>2. g[j] = EntropyEvent(f[j - 1], codes[j])
        BY <2>3, <3>2
      <4> HIDE DEF g
      <4> QED
        BY <3>2, <4>1, <4>2
    <3> QED
      BY <3>1, <3>2
  <2>5. g = [j \in 0 .. k |-> g[j]]
    OBVIOUS
  <2> HIDE DEF g
  <2>6. IsRun(r, codes, g, k)
    BY <2>4, <2>5, Zenon DEF IsRun
  <2> QED
    BY <2>6
<1> QED
  BY <1>2, <1>3

LEMMA EntropyEventsOK ==
  ASSUME NEW r, RingOK(r), NEW codes, Len(codes) \in Nat
  PROVE  RingOK(EntropyEvents(r, codes))
<1> DEFINE n == Len(codes)
           f == CHOOSE g : IsRun(r, codes, g, n)
<1>1. IsRun(r, codes, f, n)
  BY RunExists
<1>2. EntropyEvents(r, codes) = f[n]
  BY DEF EntropyEvents, IsRun
<1> HIDE DEF f
<1>3. \A k \in 0 .. n : f[k] = IF k = 0 THEN r ELSE EntropyEvent(f[k - 1], codes[k])
  BY <1>1 DEF IsRun
<1> DEFINE S == {k \in 0 .. n : ~RingOK(f[k])}
<1>4. S = {}
  <2> SUFFICES ASSUME S # {} PROVE FALSE
    OBVIOUS
  <2>0. S \subseteq Nat
    OBVIOUS
  <2>1. PICK k \in S : \A j \in S : k <= j
    BY <2>0, Least, Zenon
  <2>2. k # 0
    BY <1>3, <2>1
  <2>3. k - 1 \in 0 .. n /\ k - 1 < k
    BY <2>1, <2>2
  <2>4. RingOK(f[k - 1])
    BY <2>1, <2>3
  <2>5. RingOK(EntropyEvent(f[k - 1], codes[k]))
    BY <2>4, EnqueueOK DEF EntropyEvent
  <2>6. f[k] = EntropyEvent(f[k - 1], codes[k])
    BY <1>3, <2>1, <2>2
  <2> QED
    BY <2>1, <2>5, <2>6
<1>5. n \in 0 .. n
  OBVIOUS
<1> QED
  BY <1>2, <1>4, <1>5

LEMMA DrawEventsOK ==
  ASSUME NEW r, RingOK(r), NEW d \in Draws
  PROVE  RingOK(DrawEvents(r, d))
<1>1. Len(d.events) \in Nat
  BY HsmRegistryAssumption
<1> QED
  BY <1>1, EntropyEventsOK DEF DrawEvents
-----------------------------------------------------------------------------
(* The invariant of the data path, and what every step keeps.              *)

DataInv ==
  /\ RingOK(ring)
  /\ \A i \in SlotIdx : Contents(bus[i])
  /\ drawn <= MaxDrawn

(* The steps of OnlyAuthorised, ResponseDelivered and WireAnswer.          *)
Authorised ==
  \A i \in SlotIdx :
    slots[i].state = "Attached" /\ (slots'[i] # slots[i] \/ bus'[i] # bus[i])
      => \E cap \in Carried(call') : cap.slot = i /\ cap.token = slots[i].token

Delivered == DeliveredBy(bus, bus', call')
Answered == AnsweredBy(bus, bus', call')
Moved == MovedBy(bus, bus', call')

Kept == DataInv' /\ Authorised /\ Delivered /\ Answered

LEMMA InitData == Init => DataInv
<1> SUFFICES ASSUME Init PROVE DataInv
  OBVIOUS
<1>1. RingOK(AUDIT_RING)
  <2>1. 0 \in RingIndex
    BY AuditRingAssumption DEF RingIndex
  <2> QED
    BY <2>1 DEF RingOK, AUDIT_RING, IsFcn
<1>2. RingOK(ring)
  <2>1. Len(<<9, 11, 9, 11>>) \in Nat
    OBVIOUS
  <2> QED
    BY <1>1, <2>1, EntropyEventsOK DEF Init
<1>3. \A i \in SlotIdx : Contents(bus[i])
  BY EmptyContents DEF Init
<1>4. drawn <= MaxDrawn
  BY HsmRegistryAssumption DEF Init, NETWORK_TOKEN
<1> QED
  BY <1>2, <1>3, <1>4 DEF DataInv

(* Of a call that was not refused the history keeps everything.            *)
LEMMA ReturnsAll ==
  ASSUME NEW op, NEW rax, NEW caps, NEW data, Returns(op, rax, caps, data),
         rax \in {"Ok", "Internal"}
  PROVE  call' = [op |-> op, rax |-> rax, caps |-> caps, data |-> data]
BY DEF Returns

(* Steps that change neither the table nor the buses.                      *)
LEMMA QuietKept ==
  ASSUME DataInv, UNCHANGED <<slots, bus>>, RingOK(ring'), drawn' <= MaxDrawn,
         call'.op \notin {"write", "relay"} \/ call'.rax # "Ok"
  PROVE  Kept
<1>1. DataInv'
  BY DEF DataInv
<1>2. Authorised /\ Delivered /\ Answered
  BY Zenon DEF Authorised, Delivered, Answered, DeliveredBy, AnsweredBy
<1> QED
  BY <1>1, <1>2 DEF Kept

LEMMA FailsKept ==
  ASSUME DataInv, NEW op, NEW rax, Fails(op, rax), rax # "Ok"
  PROVE  Kept
<1>1. call'.rax = rax
  BY FailsOp
<1>2. RingOK(ring') /\ drawn' <= MaxDrawn /\ UNCHANGED <<slots, bus>>
  BY DEF Fails, DataInv
<1> QED
  BY <1>1, <1>2, QuietKept

(* A bus that was opened holds nothing.                                    *)
LEMMA OpenedContents ==
  ASSUME NEW a, NEW key, Opened(a, key).ok
  PROVE  Contents(Opened(a, key).bus) /\ Opened(a, key).bus.response = <<>>
<1> DEFINE n == BusNew(a.kind)
           b == Opened(a, key).bus
<1>1. /\ n.kind = a.kind /\ DOMAIN n = BusFields
      /\ n.ring = <<>> /\ n.read_pos = 0 /\ n.response = <<>>
  BY DEF BusNew, BusFields
<1>2. b.ring = <<>> /\ b.read_pos = 0 /\ b.response = <<>>
  <2>1. CASE a.kind = "Software"
    <3>1. Opened(a, key) = SoftwareOpen(n, a.init, key)
      BY <1>1, <2>1 DEF Opened, BusOpen
    <3> DEFINE role == InitRole(a.init)
               x    == IF role = "AesGcm" THEN key ELSE 0
    <3>2. b = [n EXCEPT !.role = role, !.open_state = TRUE, !.ring = <<>>, !.read_pos = 0,
                        !.key = x, !.nonce_counter = 0]
      BY <3>1 DEF SoftwareOpen, Err, Ok
    <3> HIDE DEF n, role, x, b
    <3> QED
      BY <1>1, <3>2 DEF BusFields
  <2>2. CASE a.kind = "Ring3Process"
    <3>1. Opened(a, key) = Ring3Open(n, a.init)
      BY <1>1, <2>2 DEF Opened, BusOpen
    <3> DEFINE x == InitEndpoint(a.init)
    <3>2. b = [n EXCEPT !.endpoint = x, !.open_state = TRUE]
      BY <3>1 DEF Ring3Open, Err, Ok
    <3> HIDE DEF n, x, b
    <3> QED
      BY <1>1, <3>2 DEF BusFields
  <2>3. CASE a.kind \notin {"Software", "Ring3Process"}
    BY <1>1, <2>3 DEF Opened, BusOpen, Err
  <2> QED
    BY <2>1, <2>2, <2>3
<1>3. Len(<<>>) = 0
  OBVIOUS
<1> HIDE DEF b
<1>4. Contents(b)
  BY <1>2, <1>3, WellFormedEmpty DEF Contents
<1> QED
  BY <1>2, <1>4 DEF b

(* The step of AttachOutcome.                                              *)
AllOrNothing ==
  call'.op = "attach" =>
    \/ call'.rax # "Ok" /\ UNCHANGED <<slots, bus, handed>>
    \/ /\ call'.rax = "Ok"
       /\ LET cap == call'.caps[1]
          IN  /\ authenticate(slots', cap, HsmRights)
              /\ slots[cap.slot].state = "Empty"
              /\ \A i \in SlotIdx \ {cap.slot} :
                   slots'[i] = slots[i] /\ bus'[i] = bus[i]
              /\ cap.token \notin handed
              /\ Newest(ring').slot_idx = cap.slot /\ Newest(ring').result = 0
              /\ Newest(ring').pk_hash_prefix = slots'[cap.slot].pk_hash_prefix

LEMMA FillOutcome ==
  ASSUME NEW i \in SlotIdx, slots[i].state = "Empty", slots'[i].state = "Attached",
         slots'[i].token # 0, slots'[i].token \notin handed, slots'[i].rights = HsmRights,
         \A j \in SlotIdx \ {i} : slots'[j] = slots[j] /\ bus'[j] = bus[j],
         Newest(ring').slot_idx = i, Newest(ring').result = 0,
         Newest(ring').pk_hash_prefix = slots'[i].pk_hash_prefix,
         call'.rax = "Ok", call'.caps[1].slot = i, call'.caps[1].token = slots'[i].token,
         call'.caps[1].rights = HsmRights
  PROVE  AllOrNothing
<1>1. authenticate(slots', call'.caps[1], HsmRights)
  BY DEF authenticate
<1> QED
  BY <1>1, Zenon DEF AllOrNothing

(* The writes of a successful attach.                                      *)
Filled(i, pk, b, before, octet) ==
  /\ bus' = [bus EXCEPT ![i] = b]
  /\ slots' = [slots EXCEPT ![i] = [state |-> "Attached", token |-> drawn + 1,
                                   rights |-> HsmRights, pk_hash_prefix |-> pk]]
  /\ ring' = audit_enqueue(before, i, 0, octet, pk)
  /\ Returns("attach", "Ok", <<Cap(drawn + 1, i, HsmRights)>>, <<>>)

LEMMA FillKept ==
  ASSUME IInv, DataInv, NEW i \in SlotIdx, slots[i].state = "Empty", NEW pk,
         NEW b, Contents(b), b.response = <<>>, NEW before, RingOK(before),
         NEW octet, Filled(i, pk, b, before, octet), drawn' <= MaxDrawn
  PROVE  Kept /\ AllOrNothing
<1> DEFINE t == drawn + 1
           s == [state |-> "Attached", token |-> t,
                 rights |-> HsmRights, pk_hash_prefix |-> pk]
<1>0. t # 0 /\ t \notin handed
  BY DEF IInv, Tokens
<1>1. \A j \in SlotIdx : /\ slots'[j] = IF j = i THEN s ELSE slots[j]
                         /\ bus'[j] = IF j = i THEN b ELSE bus[j]
  BY DEF IInv, Buses, Filled
<1>2. bus[i].response = <<>>
  <2>1. bus[i] = BusEmpty
    BY DEF IInv, SlotConsistency
  <2> QED
    BY <2>1 DEF BusEmpty, BusNew
<1>3. /\ RingOK(ring') /\ Newest(ring').slot_idx = i /\ Newest(ring').result = 0
      /\ Newest(ring').pk_hash_prefix = pk
  <2>1. ring' = audit_enqueue(before, i, 0, octet, pk)
    BY DEF Filled
  <2> QED
    BY <2>1, EnqueueOK
<1>4. DataInv'
  BY <1>1, <1>3, Zenon DEF DataInv
<1>5. Authorised
  BY <1>1, Zenon DEF Authorised
<1>6. Delivered
  BY <1>1, <1>2, Zenon DEF Delivered, DeliveredBy
<1>7. /\ call'.op = "attach" /\ call'.rax = "Ok" /\ call'.caps[1].slot = i
      /\ call'.caps[1].token = t /\ call'.caps[1].rights = HsmRights
  <2>1. call' = [op |-> "attach", rax |-> "Ok",
                 caps |-> <<Cap(t, i, HsmRights)>>, data |-> <<>>]
    BY ReturnsAll, Zenon DEF Filled
  <2> HIDE DEF t, s
  <2>2. call'.op = "attach" /\ call'.rax = "Ok" /\ call'.caps[1] = Cap(t, i, HsmRights)
    BY <2>1
  <2>3. /\ Cap(t, i, HsmRights).slot = i /\ Cap(t, i, HsmRights).token = t
        /\ Cap(t, i, HsmRights).rights = HsmRights
    BY DEF Cap
  <2> QED
    BY <2>2, <2>3, Zenon
<1>8. Answered
  BY <1>1, <1>7, Zenon DEF Answered, AnsweredBy
<1>9. AllOrNothing
  <2>1. slots'[i] = s
    BY <1>1, Zenon
  <2>2. \A j \in SlotIdx \ {i} : slots'[j] = slots[j] /\ bus'[j] = bus[j]
    BY <1>1
  <2> HIDE DEF t
  <2>3. /\ slots'[i].state = "Attached" /\ slots'[i].token = t
        /\ slots'[i].rights = HsmRights /\ slots'[i].pk_hash_prefix = pk
    BY <2>1
  <2> HIDE DEF s
  <2> QED
    BY <1>0, <1>3, <1>7, <2>2, <2>3, FillOutcome, Zenon
<1> QED
  BY <1>4, <1>5, <1>6, <1>8, <1>9 DEF Kept

LEMMA AttachKept ==
  ASSUME IInv, DataInv, NEW a \in Attaches, handle_attach(a)
  PROVE  Kept /\ AllOrNothing
<1>0. RingOK(ring) /\ drawn <= MaxDrawn
  BY DEF DataInv
<1>1. ASSUME NEW rax, rax # "Ok", Fails("attach", rax) PROVE Kept /\ AllOrNothing
  <2>1. call'.rax = rax /\ UNCHANGED <<slots, bus, handed>>
    BY <1>1, FailsOp DEF Fails
  <2> QED
    BY <1>1, <2>1, FailsKept, Zenon DEF AllOrNothing
<1>2. ASSUME NEW rax, rax # "Ok", Returns("attach", rax, <<>>, <<>>), RingOK(ring'),
             drawn' <= MaxDrawn, UNCHANGED <<slots, bus, handed>>
      PROVE  Kept /\ AllOrNothing
  <2>1. call'.op = "attach" /\ call'.rax = rax
    BY <1>2, ReturnsOp
  <2> QED
    BY <1>2, <2>1, QuietKept, Zenon DEF AllOrNothing
<1>3. CASE AttachNetworkDenied(a)
  <2>1. RingOK(ring')
    <3>1. ring' = audit_enqueue(ring, 255, 2, KindOctet["Network"], 0)
      BY <1>3 DEF AttachNetworkDenied
    <3> QED
      BY <1>0, <3>1, EnqueueOK
  <2> QED
    BY <1>0, <1>2, <1>3, <2>1 DEF AttachNetworkDenied
<1>4. CASE AttachBadArgs(a)
  BY <1>1, <1>4 DEF AttachBadArgs, BadArgs
<1>5. CASE AttachNotAttested(a)
  <2>1. RingOK(ring')
    <3>1. ring' = audit_enqueue(ring, 255, 1, KindOctet[a.kind], a.pk)
      BY <1>5 DEF AttachNotAttested
    <3> QED
      BY <1>0, <3>1, EnqueueOK
  <2> QED
    BY <1>0, <1>2, <1>5, <2>1, Zenon DEF AttachNotAttested
<1>6. CASE AttachFull(a)
  BY <1>1, <1>6 DEF AttachFull
<1>7. ASSUME NEW d \in Draws, AttachNoToken(a, d) PROVE Kept /\ AllOrNothing
  <2>1. RingOK(ring')
    BY <1>0, <1>7, DrawEventsOK DEF AttachNoToken
  <2> QED
    BY <1>0, <1>2, <1>7, <2>1 DEF AttachNoToken
<1>8. ASSUME NEW d \in Draws, NEW k \in Draws, AttachOpen(a, d, k)
      PROVE  Kept /\ AllOrNothing
  <2> DEFINE key   == IF NeedsKey(a) /\ k.ok THEN drawn + 2 ELSE 0
             after == IF NeedsKey(a) THEN DrawEvents(DrawEvents(ring, d), k)
                      ELSE DrawEvents(ring, d)
             b     == Opened(a, key)
             fills(i) == Filled(i, a.pk, b.bus, after, KindOctet[a.kind])
  <2>1. RingOK(after)
    BY <1>0, DrawEventsOK
  <2>2. /\ drawn' <= MaxDrawn
        /\ \E i \in SlotIdx :
             /\ IsFirst(i, EmptySlots(slots))
             /\ \/ /\ ring' = after
                   /\ Returns("attach", "BadArg", <<>>, <<>>)
                   /\ UNCHANGED <<slots, bus, handed>>
                \/ b.ok /\ fills(i)
    BY <1>8, Zenon DEF AttachOpen, gen_token_u64, Filled
  <2>3. b.ok => Contents(b.bus) /\ b.bus.response = <<>>
    BY OpenedContents
  <2> HIDE DEF after, b, fills
  <2>4. PICK i \in SlotIdx :
          /\ IsFirst(i, EmptySlots(slots))
          /\ \/ /\ ring' = after
                /\ Returns("attach", "BadArg", <<>>, <<>>)
                /\ UNCHANGED <<slots, bus, handed>>
             \/ b.ok /\ fills(i)
    BY <2>2, Zenon
  <2>5. CASE /\ ring' = after
             /\ Returns("attach", "BadArg", <<>>, <<>>)
             /\ UNCHANGED <<slots, bus, handed>>
    BY <1>2, <2>1, <2>2, <2>5, Zenon
  <2>6. CASE b.ok /\ fills(i)
    <3>1. slots[i].state = "Empty"
      BY <2>4, Zenon DEF IsFirst, EmptySlots
    <3> QED
      BY <2>1, <2>2, <2>3, <2>6, <3>1, FillKept, Zenon DEF fills
  <2> QED
    BY <2>4, <2>5, <2>6, Zenon
<1> QED
  BY <1>3, <1>4, <1>5, <1>6, <1>7, <1>8 DEF handle_attach

LEMMA DetachKept ==
  ASSUME IInv, DataInv, handle_detach
  PROVE  Kept
<1>1. ASSUME NEW rax, rax # "Ok", Fails("detach", rax) PROVE Kept
  BY <1>1, FailsKept
<1>2. ASSUME NEW cap \in Live("REVOKE"),
             bus' = [bus EXCEPT ![cap.slot] = BusZeroize(BusClose(@).bus)],
             slots' = [slots EXCEPT ![cap.slot] = EmptySlot],
             Returns("detach", "Ok", <<cap>>, <<>>),
             UNCHANGED <<ring, auditCap, netCap, drawn, handed>>
      PROVE  Kept
  <2>1. cap.slot \in SlotIdx /\ cap.token = slots[cap.slot].token
    BY DEF Live, authenticate
  <2>2. \A j \in SlotIdx : /\ slots'[j] = IF j = cap.slot THEN EmptySlot ELSE slots[j]
                           /\ bus'[j] = IF j = cap.slot THEN BusEmpty ELSE bus[j]
    BY <1>2, <2>1 DEF IInv, Buses, BusZeroize
  <2>3. call' = [op |-> "detach", rax |-> "Ok", caps |-> <<cap>>, data |-> <<>>]
    BY <1>2, ReturnsAll
  <2>4. call'.op = "detach" /\ cap \in Carried(call')
    BY <2>3 DEF Carried
  <2>5. DataInv'
    BY <1>2, <2>2, EmptyContents DEF DataInv
  <2>6. Authorised
    BY <2>1, <2>2, <2>4 DEF Authorised
  <2>7. BusEmpty.response = <<>>
    BY DEF BusEmpty, BusNew
  <2>8. Delivered
    BY <2>2, <2>4, <2>7 DEF Delivered, DeliveredBy
  <2>9. Answered
    BY <2>2, <2>4, <2>7, Zenon DEF Answered, AnsweredBy
  <2> QED
    BY <2>5, <2>6, <2>8, <2>9 DEF Kept
<1> QED
  BY <1>1, <1>2, Zenon DEF handle_detach, BadArgs

LEMMA EnumerateKept ==
  ASSUME DataInv, handle_enumerate
  PROVE  Kept
<1>1. call'.op = "enumerate"
  BY ReturnsOp, FailsOp, Zenon DEF handle_enumerate
<1>2. UNCHANGED <<slots, bus, ring, drawn>>
  BY Zenon DEF handle_enumerate, Fails
<1> QED
  BY <1>1, <1>2, QuietKept DEF DataInv

LEMMA GapKept ==
  ASSUME DataInv, take_network_cap \/ take_audit_read_cap
  PROVE  Kept
<1>1. call'.op \in {"take_network_cap", "take_audit_read_cap"}
  BY ReturnsOp, FailsOp DEF take_network_cap, take_audit_read_cap
<1>2. UNCHANGED <<slots, bus, drawn>>
  BY DEF take_network_cap, take_audit_read_cap, Fails
<1>3. ring' = ring \/ \E x, y, z, u : ring' = audit_enqueue(ring, x, y, z, u)
  BY DEF take_network_cap, take_audit_read_cap, Fails
<1>4. RingOK(ring')
  BY <1>3, EnqueueOK DEF DataInv
<1> QED
  BY <1>1, <1>2, <1>4, QuietKept DEF DataInv

LEMMA StatusKept ==
  ASSUME DataInv, NEW token, handle_status(token)
  PROVE  Kept
<1>1. call'.op = "status"
  BY ReturnsOp, FailsOp DEF handle_status
<1>2. UNCHANGED <<slots, bus, drawn>>
  BY DEF handle_status, Fails
<1>3. ring' = ring \/ \E x, y, z, u : ring' = audit_enqueue(ring, x, y, z, u)
  BY DEF handle_status, Fails
<1>4. RingOK(ring')
  BY <1>3, EnqueueOK DEF DataInv
<1> QED
  BY <1>1, <1>2, <1>4, QuietKept DEF DataInv

LEMMA StateSound ==
  ASSUME IInv, DataInv
  PROVE  Sound(State) /\ State.bus = bus /\ State.slots = slots /\ State.ring = ring
<1>1. Machine(State) /\ State.bus = bus /\ State.slots = slots /\ State.ring = ring
  BY StateMachine DEF State
<1> QED
  BY <1>1 DEF Sound, DataInv

(* A call that leaves the table alone and does what CallKept says.         *)
LEMMA CallIsKept ==
  ASSUME DataInv, CallKept(State, bus', ring', call'), UNCHANGED <<slots, drawn>>
  PROVE  Kept
<1>1. State.bus = bus /\ State.slots = slots
  BY DEF State
<1>2. DataInv'
  BY Zenon DEF CallKept, DataInv
<1>3. Authorised
  BY <1>1 DEF CallKept, AuthorisedBy, Authorised
<1> QED
  BY <1>1, <1>2, <1>3 DEF CallKept, Kept, Delivered, Answered

LEMMA LiveSlot ==
  ASSUME NEW right, NEW cap \in Live(right)
  PROVE  cap.slot \in SlotIdx /\ cap.token = State.slots[cap.slot].token
BY DEF Live, authenticate, State

LEMMA ReadKept ==
  ASSUME IInv, DataInv, handle_read
  PROVE  Kept
<1>1. ASSUME NEW rax, rax # "Ok", Fails("read", rax) PROVE Kept
  BY <1>1, FailsKept
<1>2. ASSUME NEW cap \in Live("USE"), NEW out_len \in OutLens, NEW r,
             r = BusRead(bus[cap.slot], out_len),
             bus' = [bus EXCEPT ![cap.slot] = r.bus],
             Returns("read", IF r.ok THEN "Ok" ELSE "Internal", <<cap>>, r.data),
             UNCHANGED <<slots, ring, auditCap, netCap, drawn, handed>>
      PROVE  Kept
  <2>1. out_len \in Nat
    BY HsmRegistryAssumption
  <2>2. PICK rax : call' = [op |-> "read", rax |-> rax, caps |-> <<cap>>, data |-> r.data]
    BY <1>2, ReturnsAll, Zenon
  <2>3. call'.op = "read" /\ call'.data = r.data /\ call'.caps = <<cap>>
    BY <2>2
  <2>4. Sound(State) /\ State.bus = bus /\ State.ring = ring
    BY StateSound
  <2>5. r = BusRead(State.bus[cap.slot], out_len)
    BY <1>2, <2>4
  <2>6. cap.slot \in SlotIdx /\ cap.token = State.slots[cap.slot].token
    BY LiveSlot
  <2>7. CallKept(State, [State.bus EXCEPT ![cap.slot] = r.bus], State.ring, call')
    BY <2>1, <2>3, <2>4, <2>5, <2>6, ReadCall
  <2>8. CallKept(State, bus', ring', call')
    BY <1>2, <2>4, <2>7, Zenon
  <2> QED
    BY <1>2, <2>8, CallIsKept
<1> QED
  BY <1>1, <1>2, Zenon DEF handle_read, BadArgs

LEMMA WriteKept ==
  ASSUME IInv, DataInv, handle_write
  PROVE  Kept
<1>1. ASSUME NEW rax, rax # "Ok", Fails("write", rax) PROVE Kept
  BY <1>1, FailsKept
<1>2. ASSUME NEW cap \in Live("USE"), NEW data \in Writes(handed), NEW w,
             w = BusWrite(State, cap.slot, data),
             bus' = w.bus, ring' = w.ring,
             Returns("write", IF w.ok THEN "Ok" ELSE "Internal", <<cap>>, data),
             UNCHANGED <<slots, auditCap, netCap, drawn, handed>>
      PROVE  Kept
  <2>1. WellFormed(data)
    <3>1. handed \in SUBSET (1 .. MaxDrawn)
      BY HsmRegistryAssumption DEF IInv, Tokens, DataInv
    <3> QED
      BY <3>1, WritesAssumption
  <2>2. call' = [op |-> "write", rax |-> IF w.ok THEN "Ok" ELSE "Internal",
                 caps |-> <<cap>>, data |-> data]
    BY <1>2, ReturnsAll
  <2>3. /\ call'.op = "write" /\ call'.data = data /\ call'.caps = <<cap>>
        /\ call'.rax = "Ok" => w.ok
    BY <2>2
  <2>4. Sound(State)
    BY StateSound
  <2>5. cap.slot \in SlotIdx /\ cap.token = State.slots[cap.slot].token
    BY LiveSlot
  <2>6. CallKept(State, w.bus, w.ring, call')
    BY <1>2, <2>1, <2>3, <2>4, <2>5, WriteCall, Zenon
  <2> QED
    BY <1>2, <2>6, CallIsKept
<1>3. \/ \E rax : rax # "Ok" /\ Fails("write", rax)
      \/ \E cap \in Live("USE") : \E data \in Writes(handed) : \E w :
           /\ w = BusWrite(State, cap.slot, data)
           /\ bus' = w.bus /\ ring' = w.ring
           /\ Returns("write", IF w.ok THEN "Ok" ELSE "Internal", <<cap>>, data)
           /\ UNCHANGED <<slots, auditCap, netCap, drawn, handed>>
  BY Zenon DEF handle_write, BadArgs
<1> QED
  BY <1>1, <1>2, <1>3, Zenon

LEMMA RelayKept ==
  ASSUME IInv, DataInv, NEW src \in Live("RELAY_SRC"), NEW dst \in Live("RELAY_DST"),
         NEW n \in ByteLens, Relayed(src, dst, n)
  PROVE  Kept /\ Moved
<1> DEFINE r == BusRead(bus[src.slot], n)
           mm == [State EXCEPT !.bus[src.slot] = r.bus]
           w == BusWrite(mm, dst.slot, r.data)
           go == r.ok /\ r.n = n
           rax == IF go /\ w.ok /\ w.n = n THEN "Ok" ELSE "Internal"
<1>1. Sound(State) /\ State.bus = bus /\ State.ring = ring
  BY StateSound
<1>2. /\ bus' = IF go THEN w.bus ELSE mm.bus
      /\ ring' = IF go THEN w.ring ELSE ring
      /\ Returns("relay", rax, <<src, dst>>, r.data)
      /\ UNCHANGED <<slots, drawn>>
  BY Zenon DEF Relayed
<1>3. /\ src.slot \in SlotIdx /\ src.token = State.slots[src.slot].token
      /\ dst.slot \in SlotIdx /\ dst.token = State.slots[dst.slot].token
      /\ n \in Nat
  BY LiveSlot, HsmRegistryAssumption
<1>4. r = BusRead(State.bus[src.slot], n)
  BY <1>1
<1> HIDE DEF r
<1>5. mm = [State EXCEPT !.bus[src.slot] = r.bus] /\ mm.ring = ring
  BY <1>1 DEF State
<1> HIDE DEF mm
<1>6. w = BusWrite(mm, dst.slot, r.data)
  OBVIOUS
<1> HIDE DEF w
<1>7. call' = [op |-> "relay", rax |-> rax, caps |-> <<src, dst>>, data |-> r.data]
  BY <1>2, ReturnsAll
<1>8. /\ call'.op = "relay" /\ call'.data = r.data /\ call'.caps = <<src, dst>>
      /\ call'.rax = rax
  BY <1>7
<1>9. IsRelay(State, src, dst, n, r, mm, w, call')
  BY <1>3, <1>4, <1>5, <1>6, <1>8 DEF IsRelay
<1>10. /\ call'.rax # "Ok" => CallKept(State, mm.bus, mm.ring, call')
       /\ (call'.rax = "Ok" => w.ok) => CallKept(State, w.bus, w.ring, call')
  BY <1>1, <1>9, RelayCall, Zenon
<1>11. CallKept(State, bus', ring', call')
  BY <1>2, <1>5, <1>8, <1>10
<1>12. (call'.rax = "Ok" => bus' = w.bus /\ r.ok /\ w.ok) => MovedBy(bus, bus', call')
  BY <1>1, <1>9, RelayMoves, Zenon
<1>13. call'.rax = "Ok" => bus' = w.bus /\ r.ok /\ w.ok
  BY <1>2, <1>8
<1> QED
  BY <1>2, <1>11, <1>12, <1>13, CallIsKept, Zenon DEF Moved

(* A step of each handler keeps all five.                                  *)
LEMMA NextKept ==
  ASSUME IInv, DataInv, Next
  PROVE  Kept /\ Moved /\ AllOrNothing
<1>1. ASSUME NEW op, call'.op = op, op \notin {"relay", "attach"}
      PROVE  Moved /\ AllOrNothing
  BY <1>1, Zenon DEF Moved, MovedBy, AllOrNothing
<1>2. ASSUME NEW a \in Attaches, handle_attach(a) PROVE Kept /\ Moved /\ AllOrNothing
  <2>1. call'.op = "attach"
    BY <1>2, HandlerOps
  <2> QED
    BY <1>2, <2>1, AttachKept, Zenon DEF Moved, MovedBy
<1>3. CASE handle_detach
  BY <1>1, <1>3, HandlerOps, DetachKept
<1>4. CASE handle_enumerate
  BY <1>1, <1>4, HandlerOps, EnumerateKept
<1>5. CASE handle_write
  BY <1>1, <1>5, HandlerOps, WriteKept
<1>6. CASE handle_relay
  <2>1. call'.op = "relay"
    BY <1>6, HandlerOps
  <2>2. ASSUME NEW rax, rax # "Ok", Fails("relay", rax) PROVE Kept /\ Moved
    <3>1. call'.rax = rax
      BY <2>2, FailsOp
    <3> QED
      BY <2>2, <3>1, FailsKept, Zenon DEF Moved, MovedBy
  <2>3. ASSUME NEW src \in Live("RELAY_SRC"), NEW dst \in Live("RELAY_DST"),
               NEW n \in ByteLens, Relayed(src, dst, n)
        PROVE  Kept /\ Moved
    BY <2>3, RelayKept
  <2>4. Kept /\ Moved
    BY <1>6, <2>2, <2>3 DEF handle_relay, BadArgs
  <2> QED
    BY <2>1, <2>4, Zenon DEF AllOrNothing
<1>7. CASE handle_read
  BY <1>1, <1>7, HandlerOps, ReadKept
<1>8. CASE take_network_cap \/ take_audit_read_cap
  BY <1>1, <1>8, HandlerOps, GapKept
<1>9. ASSUME NEW token, handle_status(token) PROVE Kept /\ Moved /\ AllOrNothing
  BY <1>1, <1>9, HandlerOps, StatusKept
<1> QED
  BY <1>2, <1>3, <1>4, <1>5, <1>6, <1>7, <1>8, <1>9 DEF Next

LEMMA DataStutter == DataInv /\ UNCHANGED vars => DataInv'
BY DEF DataInv, vars

(* Between calls the audit ring's head is a position of the ring, a bus    *)
(* holds well-formed data with the cursor inside it, and only a            *)
(* Ring3Process bus has a response, which is a response frame.             *)
THEOREM DataInductive == Spec => []DataInv
<1>1. IInv /\ DataInv /\ [Next]_vars => DataInv'
  BY NextKept, DataStutter DEF Kept
<1> QED
  BY <1>1, InitData, Inductive, PTL DEF Spec

(* handle_attach is all or nothing: it fails without a trace in slots,     *)
(* buses and tokens, or fills one empty slot under a fresh token and puts  *)
(* a record of it at the head of the audit ring.                           *)
THEOREM AttachIsAllOrNothing == Spec => AttachOutcome
<1>1. IInv /\ DataInv /\ [Next]_vars => [AllOrNothing]_vars
  BY NextKept
<1> QED
  BY <1>1, Inductive, DataInductive, PTL DEF Spec, AttachOutcome, AllOrNothing

(* Isolation: whatever requests are nested in the data, the dispatcher of  *)
(* bus.rs touches the bus of an attached slot only when the call carries   *)
(* the token of that slot.                                                 *)
THEOREM OnlyAuthorisedChange == Spec => OnlyAuthorised
<1>1. IInv /\ DataInv /\ [Next]_vars => [Authorised]_vars
  BY NextKept DEF Kept
<1> QED
  BY <1>1, Inductive, DataInductive, PTL DEF Spec, OnlyAuthorised, Authorised

(* No response is lost: Ring3ProcessBus::write never overwrites one, in    *)
(* whichever slot a nested request puts it, and a read or a relay takes it *)
(* whole.                                                                  *)
THEOREM ResponsesAreDelivered == Spec => ResponseDelivered
<1>1. IInv /\ DataInv /\ [Next]_vars => [Delivered]_vars
  BY NextKept DEF Kept
<1> QED
  BY <1>1, Inductive, DataInductive, PTL DEF Spec, ResponseDelivered, Delivered, DeliveredBy

(* Every request that a Ring3Process bus accepts is answered in the same   *)
(* call and under its own number, and no response appears that nobody      *)
(* asked for.                                                              *)
THEOREM RequestsAreAnswered == Spec => WireAnswer
<1>1. IInv /\ DataInv /\ [Next]_vars => [Answered]_vars
  BY NextKept DEF Kept
<1> QED
  BY <1>1, Inductive, DataInductive, PTL DEF Spec, WireAnswer, Answered, AnsweredBy

(* A relay that handle_relay reports as done lost and added nothing, for   *)
(* every size of the ring of a Software bus.                               *)
THEOREM RelaysAreExact == Spec => RelayExact
<1>1. IInv /\ DataInv /\ [Next]_vars => [Moved]_vars
  BY NextKept
<1> QED
  BY <1>1, Inductive, DataInductive, PTL DEF Spec, RelayExact, Moved, MovedBy
=============================================================================

