------------------------------ MODULE Keystore ------------------------------
(***************************************************************************)
(* SoftKeystore of keystore.rs as operators on a value: an array of PSK    *)
(* slots.  Key material is a sequence of cells; an identifier is a number  *)
(* and PskId::ZERO is 0.  An operation that can fail returns the error and *)
(* the slots.                                                              *)
(***************************************************************************)
EXTENDS Integers, Sequences

CONSTANTS
  MAX_PSK_SLOTS,   \* 8
  MAX_PSK_LEN      \* 64 octets

ASSUME KeystoreAssumption == MAX_PSK_SLOTS \in Nat \ {0} /\ MAX_PSK_LEN \in Nat \ {0}

ZERO == 0
PskIndex == 1 .. MAX_PSK_SLOTS

PskSlotEmpty == [state |-> "Empty", id |-> ZERO, material |-> <<>>]
PskSlotWiped == [state |-> "Wiped", id |-> ZERO, material |-> <<>>]

SoftKeystoreNew == [i \in PskIndex |-> PskSlotEmpty]

(* The lowest index of a set, as a set: empty when there is none.          *)
First(S) == {i \in S : \A j \in S : i <= j}

find_provisioned(slots, id) ==
  First({i \in PskIndex : slots[i].state = "Provisioned" /\ slots[i].id = id})

find_any_with_id(slots, id) ==
  First({i \in PskIndex : slots[i].state # "Empty" /\ slots[i].id = id})

(* The material goes into the first empty slot.                            *)
Fill(slots, id, material) ==
  LET free == First({i \in PskIndex : slots[i].state = "Empty"})
      slot == [state |-> "Provisioned", id |-> id, material |-> material]
  IN  IF free = {} THEN [res |-> "Full", slots |-> slots]
      ELSE [res |-> "Ok",
            slots |-> [i \in PskIndex |-> IF i \in free THEN slot ELSE slots[i]]]

(* Faulty variant of provision, for the mutation checks: an identifier in  *)
(* use is not noticed.                                                     *)
provision_NoDuplicateCheck(slots, id, material) ==
  IF material = <<>> \/ Len(material) > MAX_PSK_LEN
  THEN [res |-> "InvalidLength", slots |-> slots]
  ELSE Fill(slots, id, material)

provision(slots, id, material) ==
  IF material = <<>> \/ Len(material) > MAX_PSK_LEN
  THEN [res |-> "InvalidLength", slots |-> slots]
  ELSE IF find_any_with_id(slots, id) # {}
  THEN [res |-> "Duplicate", slots |-> slots]
  ELSE Fill(slots, id, material)

(* Every slot is wiped, those that were never used included.               *)
wipe_all(slots) == [i \in PskIndex |-> PskSlotWiped]

psk_exists(slots, id) ==
  \E i \in PskIndex : slots[i].state = "Provisioned" /\ slots[i].id = id

(* HMAC(salt 0, PSK) of the slot found, when it has material.              *)
psk_hkdf_extract(slots, id) ==
  LET found == find_provisioned(slots, id) IN
  IF found = {} THEN [res |-> "PskNotFound", prk |-> <<>>]
  ELSE LET material == slots[CHOOSE i \in found : TRUE].material
       IN  IF material = <<>> THEN [res |-> "Internal", prk |-> <<>>]
           ELSE [res |-> "Ok", prk |-> <<"early", material>>]

(* The slot loses its identifier with its material.  An identifier that is *)
(* not in the store is no error.                                           *)
psk_destroy(slots, id) ==
  [i \in PskIndex |-> IF i \in find_any_with_id(slots, id) THEN PskSlotWiped
                      ELSE slots[i]]
=============================================================================
