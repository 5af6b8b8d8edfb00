--------------------------- MODULE CapabilitySpace ---------------------------
(***************************************************************************)
(* Capability and CapabilitySpace of capability.rs as values: the slots of *)
(* one process, and every short history of minting, deriving and revoking. *)
(***************************************************************************)
EXTENDS Integers, Sequences, FiniteSets, Common

CONSTANTS
  MAX_CAPS_PER_SPACE,   \* 32
  Right,                \* the rights; "GRANT" is one
  Token,                \* the tokens the DRBG gave out: naturals other than 0
  HistoryLength         \* the length of the histories looked at

ASSUME CapabilitySpaceAssumption ==
  /\ MAX_CAPS_PER_SPACE \in Nat
  /\ Token \subseteq Nat \ {0}
  /\ HistoryLength \in Nat

Slot == 0 .. MAX_CAPS_PER_SPACE - 1
NoCap == <<>>

Cap(token, rights) == [token |-> token, rights |-> rights]
SpaceEmpty == [slots |-> [i \in Slot |-> NoCap], count |-> 0]

(* Faulty variant: the rights are those asked for.                         *)
derive_Whole(cap, subset) ==
  IF "GRANT" \notin cap.rights THEN NoCap ELSE Cap(cap.token, subset)

(* derive: the rights are cut to the subset asked for, the token is kept.  *)
derive(cap, subset) ==
  IF "GRANT" \notin cap.rights THEN NoCap ELSE Cap(cap.token, cap.rights \cap subset)

Occupied(s) == {i \in Slot : s.slots[i] # NoCap}
Lowest(S) == CHOOSE i \in S : \A j \in S : i <= j

insert(s, cap) ==
  LET free == Slot \ Occupied(s)
  IN  IF free = {} THEN s
      ELSE [slots |-> [s.slots EXCEPT ![Lowest(free)] = cap], count |-> s.count + 1]

find_by_token(s, token) ==
  LET found == {i \in Occupied(s) : s.slots[i].token = token /\ token # 0}
  IN  IF found = {} THEN -1 ELSE Lowest(found)

(* The count goes down for a slot that was empty already, too.             *)
revoke(s, idx) ==
  IF idx \notin Slot THEN s
  ELSE [slots |-> [s.slots EXCEPT ![idx] = NoCap], count |-> SatSub(s.count, 1)]
-----------------------------------------------------------------------------
(* A history: mint a token with rights, derive from a slot, revoke a slot. *)
Step ==
  [op : {"mint"}, token : Token, rights : SUBSET Right]
    \cup [op : {"derive"}, idx : Slot, rights : SUBSET Right]
    \cup [op : {"revoke"}, idx : 0 .. MAX_CAPS_PER_SPACE]

After(s, e) ==
  IF e.op = "mint" THEN insert(s, Cap(e.token, e.rights))
  ELSE IF e.op = "revoke" THEN revoke(s, e.idx)
  ELSE IF s.slots[e.idx] = NoCap \/ derive(s.slots[e.idx], e.rights) = NoCap THEN s
  ELSE insert(s, derive(s.slots[e.idx], e.rights))

Replay(history) ==
  LET run[n \in 0 .. HistoryLength] ==
        IF n = 0 THEN SpaceEmpty ELSE After(run[n - 1], history[n])
  IN  run[HistoryLength]

(* Rights only ever shrink: whatever was derived and revoked, a capability *)
(* in the space has no right that no minting of its token granted.  The    *)
(* count never exceeds the capabilities there are, and a token is found    *)
(* exactly when a slot holds it, at its lowest slot.                       *)
NeverAmplified ==
  \A history \in [1 .. HistoryLength -> Step] :
    LET s == Replay(history)
        minted(t) == UNION {history[n].rights :
                              n \in {m \in 1 .. HistoryLength :
                                       history[m].op = "mint" /\ history[m].token = t}}
    IN  /\ \A i \in Occupied(s) : s.slots[i].rights \subseteq minted(s.slots[i].token)
        /\ s.count <= Cardinality(Occupied(s))
        /\ \A t \in Token :
             LET i == find_by_token(s, t)
             IN  IF i = -1 THEN \A j \in Occupied(s) : s.slots[j].token # t
                 ELSE s.slots[i].token = t /\ \A j \in 0 .. i - 1 : s.slots[j] = NoCap
                                                                 \/ s.slots[j].token # t
=============================================================================
