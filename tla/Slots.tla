------------------------------- MODULE Slots -------------------------------
(***************************************************************************)
(* The slot table of hsm_registry.rs and what its methods compute from it. *)
(* A slot's bus is kept beside the table, in a function of the same        *)
(* domain.  verify_result_code is left out: no path stores anything but 0. *)
(***************************************************************************)
EXTENDS Bus, FiniteSets

CONSTANT HSM_MAX_SLOTS   \* 8 in the code

ASSUME SlotsAssumption == HSM_MAX_SLOTS \in Nat \ {0}

SlotIdx == 0 .. HSM_MAX_SLOTS - 1

HsmRights == {"USE", "ENUMERATE", "REVOKE", "RELAY_SRC", "RELAY_DST"}

(* HsmCapability, and HsmCapability::invalid.                              *)
Cap(token, slot, rights) == [token |-> token, slot |-> slot, rights |-> rights]
NoCap == Cap(0, HSM_MAX_SLOTS, {})

(* HsmSlot::new, which is also what Zeroize for HsmSlot leaves.            *)
EmptySlot == [state |-> "Empty", token |-> 0, rights |-> {}, pk_hash_prefix |-> 0]

(* Faulty variant, for the mutation checks: any token opens the slot.      *)
authenticate_AnyToken(slots, cap, required) ==
  /\ cap.slot \in SlotIdx
  /\ cap.token # 0
  /\ slots[cap.slot].state = "Attached"
  /\ required \subseteq slots[cap.slot].rights
  /\ required \subseteq cap.rights

(* A capability is checked against the slot it names: the stored token,    *)
(* the stored rights and its own rights must all agree.                    *)
authenticate(slots, cap, required) ==
  /\ cap.slot \in SlotIdx
  /\ cap.token # 0
  /\ slots[cap.slot].state = "Attached"
  /\ slots[cap.slot].token = cap.token
  /\ required \subseteq slots[cap.slot].rights
  /\ required \subseteq cap.rights

EmptySlots(slots) == {i \in SlotIdx : slots[i].state = "Empty"}
IsFirst(i, S) == i \in S /\ \A j \in S : i <= j

(* What enumerate writes into a buffer of out_len entries: the attached    *)
(* slots with an index below out_len, in order.                            *)
enumerate(slots, bus, out_len) ==
  LET listed == {i \in SlotIdx : i < out_len /\ slots[i].state = "Attached"}
      info(i) == [slot |-> i, bus_kind |-> bus[i].kind,
                  pk_hash_prefix |-> slots[i].pk_hash_prefix]
      nth(n) == CHOOSE i \in listed : Cardinality({j \in listed : j <= i}) = n
  IN  [n \in 1 .. Cardinality(listed) |-> info(nth(n))]

(* Faulty variant, for the mutation checks: the bus kind is not covered.   *)
verify_attest_KeyOnly(pk, octet, signed) == signed[1] = pk

(* The trust root's signature covers the device key and the bus kind.      *)
verify_attest(pk, octet, signed) == signed = <<pk, octet>>
=============================================================================
