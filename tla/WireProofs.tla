---------------------------- MODULE WireProofs ----------------------------
(***************************************************************************)
(* What a call on a bus does, for any number of slots and any data, with   *)
(* requests inside requests.  Two arguments about BusWrite and BusRead:    *)
(*                                                                         *)
(* No operation on a bus changes its kind or whether it is open, except    *)
(* open and close, and a bus of kind Empty refuses everything (Keeps).     *)
(* This carries over to the wire dispatcher, which writes to the buses of  *)
(* other slots (AllKept).                                                  *)
(*                                                                         *)
(* A request carries tokens and data, and the data may hold further        *)
(* requests.  What is inside a part of a request is inside the request; so *)
(* whatever one write does to any bus is described by one relation between *)
(* the bus before and after (Change), which composes along the nesting of  *)
(* the dispatcher (Served, Wrote).  Ring3Wrote passes from any level of    *)
(* nesting to the next; BusWrite unrolls as many as Shallow data has.      *)
(*                                                                         *)
(* The last section draws the consequences for a whole call (CallKept,     *)
(* MovedBy), in the form in which HsmRegistry states its properties.       *)
(***************************************************************************)
EXTENDS Wire, TLAPS

BusFields == {"kind", "open_state", "role", "ring", "read_pos", "key",
              "nonce_counter", "endpoint", "response"}

BusShape(b) == DOMAIN b = BusFields /\ b.role \in {"Echo", "Blake3", "AesGcm"}

(* c is a later value of bus b: same kind, same open_state, and an Empty   *)
(* bus is untouched.                                                       *)
Keeps(b, c) ==
  /\ BusShape(c)
  /\ c.kind = b.kind
  /\ c.open_state = b.open_state
  /\ b.kind = "Empty" => c = b

IsFcn(f) == f = [x \in DOMAIN f |-> f[x]]

Buses(B) ==
  /\ IsFcn(B) /\ DOMAIN B = SlotIdx
  /\ \A i \in SlotIdx : BusShape(B[i])

AllKept(B, C) == Buses(C) /\ \A i \in SlotIdx : Keeps(B[i], C[i])

-----------------------------------------------------------------------------
(* No operation of a bus changes its kind or closes it.                    *)

LEMMA KeepsSelf ==
  ASSUME NEW b, BusShape(b)
  PROVE  Keeps(b, b)
BY DEF Keeps

LEMMA SoftwareWriteKeeps ==
  ASSUME NEW b, BusShape(b), b.kind = "Software", NEW data
  PROVE  Keeps(b, SoftwareWrite(b, data).bus)
<1>1. CASE ~b.open_state
  BY <1>1 DEF Keeps, SoftwareWrite, Err
<1>2. EchoWrite(b, data).bus = b \/ \E x : EchoWrite(b, data).bus = [b EXCEPT !.ring = x]
  BY Zenon DEF EchoWrite, Err, Ok
<1>3. \E x, y : Blake3Write(b, data).bus = [b EXCEPT !.ring = x, !.read_pos = y]
  BY Zenon DEF Blake3Write, Err, Ok
<1>4. \/ AesGcmWrite(b, data).bus = b
      \/ \E x, y, z : AesGcmWrite(b, data).bus =
                        [b EXCEPT !.nonce_counter = z, !.ring = x, !.read_pos = y]
  BY Zenon DEF AesGcmWrite, Err, Ok
<1>5. Keeps(b, EchoWrite(b, data).bus)
  BY <1>2, Zenon DEF Keeps, BusShape, BusFields
<1>6. Keeps(b, Blake3Write(b, data).bus)
  BY <1>3 DEF Keeps, BusShape, BusFields
<1>7. Keeps(b, AesGcmWrite(b, data).bus)
  BY <1>4, Zenon DEF Keeps, BusShape, BusFields
<1> QED
  BY <1>1, <1>5, <1>6, <1>7 DEF SoftwareWrite, BusShape

LEMMA ReadKeeps ==
  ASSUME NEW b, BusShape(b), NEW n
  PROVE  Keeps(b, BusRead(b, n).bus)
<1>1. \/ SoftwareRead(b, n).bus = b
      \/ \E x : SoftwareRead(b, n).bus = [b EXCEPT !.read_pos = x]
  BY Zenon DEF SoftwareRead, Err, Ok
<1>2. \/ Ring3Read(b, n).bus = b
      \/ Ring3Read(b, n).bus = [b EXCEPT !.response = <<>>]
  BY DEF Ring3Read, Err, Ok
<1>3. b.kind = "Software" => Keeps(b, SoftwareRead(b, n).bus)
  BY <1>1, Zenon DEF Keeps, BusShape, BusFields
<1>4. b.kind = "Ring3Process" => Keeps(b, Ring3Read(b, n).bus)
  BY <1>2 DEF Keeps, BusShape, BusFields
<1>5. Keeps(b, Err(b).bus)
  BY DEF Keeps, Err
<1> QED
  BY <1>3, <1>4, <1>5 DEF BusRead

LEMMA ResponseKeeps ==
  ASSUME NEW b, BusShape(b), b.kind = "Ring3Process", NEW x
  PROVE  Keeps(b, [b EXCEPT !.response = x])
BY DEF Keeps, BusShape, BusFields

LEMMA KeepsTrans ==
  ASSUME NEW b, NEW c, NEW d, Keeps(b, c), Keeps(c, d)
  PROVE  Keeps(b, d)
BY DEF Keeps

(* The same for the buses of all slots when one of them changes.           *)
LEMMA AllKeptSelf ==
  ASSUME NEW B, Buses(B)
  PROVE  AllKept(B, B)
BY KeepsSelf DEF AllKept, Buses

LEMMA AllKeptTrans ==
  ASSUME NEW B, NEW C, NEW D, AllKept(B, C), AllKept(C, D)
  PROVE  AllKept(B, D)
BY KeepsTrans DEF AllKept

LEMMA AllKeptOne ==
  ASSUME NEW B, Buses(B), NEW i \in SlotIdx, NEW c, Keeps(B[i], c)
  PROVE  AllKept(B, [B EXCEPT ![i] = c])
<1> DEFINE C == [B EXCEPT ![i] = c]
<1>1. DOMAIN C = SlotIdx /\ IsFcn(C)
  BY Zenon DEF Buses, IsFcn
<1>2. \A j \in SlotIdx : C[j] = IF j = i THEN c ELSE B[j]
  BY DEF Buses
<1>3. \A j \in SlotIdx : Keeps(B[j], C[j])
  BY <1>2, KeepsSelf DEF Buses
<1>4. \A j \in SlotIdx : BusShape(C[j])
  BY <1>3 DEF Keeps
<1> QED
  BY <1>1, <1>3, <1>4 DEF AllKept, Buses
-----------------------------------------------------------------------------
(* What a write to a bus does to the buses of all slots.                   *)

Machine(m) == DOMAIN m = {"slots", "bus", "ring"} /\ Buses(m.bus)

LEMMA WriteSoftwareKeeps ==
  ASSUME NEW m, Machine(m), NEW i \in SlotIdx, m.bus[i].kind = "Software", NEW data
  PROVE  AllKept(m.bus, WriteSoftware(m, i, data).bus)
<1>1. BusShape(m.bus[i])
  BY DEF Machine, Buses
<1>2. Keeps(m.bus[i], SoftwareWrite(m.bus[i], data).bus)
  BY <1>1, SoftwareWriteKeeps
<1> QED
  BY <1>2, AllKeptOne DEF WriteSoftware, Machine

LEMMA RefusedKeeps ==
  ASSUME NEW m, Machine(m)
  PROVE  AllKept(m.bus, Refused(m).bus)
BY AllKeptSelf DEF Refused, Machine

(* The result of a write that started from m.                              *)
Written(m, w) == "bus" \in DOMAIN w /\ AllKept(m.bus, w.bus)

LEMMA Write2Keeps ==
  ASSUME NEW m, Machine(m), NEW i \in SlotIdx, NEW data
  PROVE  Written(m, WriteNested2(m, i, data))
<1>1. AllKept(m.bus, WriteNested2(m, i, data).bus)
  BY WriteSoftwareKeeps, RefusedKeeps DEF WriteNested2
<1>2. "bus" \in DOMAIN WriteNested2(m, i, data)
  BY DEF WriteNested2, WriteSoftware, Refused
<1> QED
  BY <1>1, <1>2 DEF Written

(* Blake3Hash: the write to the target, then the read of the digest.       *)
LEMMA HashedKeeps ==
  ASSUME NEW m, NEW i \in SlotIdx, NEW w, Written(m, w), NEW n
  PROVE  AllKept(m.bus, [w EXCEPT !.bus[i] = BusRead(w.bus[i], n).bus].bus)
<1> DEFINE r == BusRead(w.bus[i], n).bus
<1>1. Buses(w.bus) /\ AllKept(m.bus, w.bus)
  BY DEF Written, AllKept
<1>2. Keeps(w.bus[i], r)
  BY <1>1, ReadKeeps DEF Buses
<1>3. AllKept(w.bus, [w.bus EXCEPT ![i] = r])
  BY <1>1, <1>2, AllKeptOne
<1>4. [w EXCEPT !.bus[i] = r].bus = [w.bus EXCEPT ![i] = r]
  BY DEF Written
<1> HIDE DEF r
<1>5. AllKept(m.bus, [w EXCEPT !.bus[i] = r].bus)
  BY <1>1, <1>3, <1>4, AllKeptTrans
<1> QED
  BY <1>5 DEF r

LEMMA Blake3Keeps ==
  ASSUME NEW m, Machine(m), NEW id, NEW payload, NEW w,
         PayloadCap(payload).slot \in SlotIdx => Written(m, w)
  PROVE  AllKept(m.bus, handle_blake3(m, id, payload, w).bus)
<1> DEFINE cap == PayloadCap(payload)
           r   == BusRead(w.bus[cap.slot], BLAKE3_OUT_LEN)
           m2  == IF w.ok THEN [w EXCEPT !.bus[cap.slot] = r.bus] ELSE w
           out == handle_blake3(m, id, payload, w)
<1>1. \/ out.bus = m.bus
      \/ authenticate(m.slots, cap, {"USE"}) /\ out.bus = m2.bus
  BY DEF handle_blake3, Answer
<1>2. CASE out.bus = m.bus
  BY <1>2, AllKeptSelf DEF Machine
<1>3. CASE authenticate(m.slots, cap, {"USE"}) /\ out.bus = m2.bus
  <2>1. cap.slot \in SlotIdx
    BY <1>3 DEF authenticate
  <2>2. Written(m, w)
    BY <2>1
  <2>3. AllKept(m.bus, [w EXCEPT !.bus[cap.slot] = r.bus].bus)
    BY <2>1, <2>2, HashedKeeps
  <2> QED
    BY <1>3, <2>2, <2>3 DEF Written
<1> QED
  BY <1>1, <1>2, <1>3

(* The other commands leave the buses alone.                               *)
LEMMA PlainKeeps ==
  ASSUME NEW m, Machine(m), NEW id, NEW payload
  PROVE  /\ AllKept(m.bus, handle_ping(m, id).bus)
         /\ AllKept(m.bus, handle_attest_submit(m, id, payload).bus)
         /\ AllKept(m.bus, handle_status_wire(m, id, payload).bus)
         /\ AllKept(m.bus, Answer(m, ErrorFrame(id, "UnknownCmd")).bus)
<1>1. handle_ping(m, id).bus = m.bus
  BY DEF handle_ping, Answer
<1>2. handle_attest_submit(m, id, payload).bus = m.bus
  BY DEF handle_attest_submit, Answer, Machine
<1>3. handle_status_wire(m, id, payload).bus = m.bus
  BY DEF handle_status_wire, Answer
<1>4. Answer(m, ErrorFrame(id, "UnknownCmd")).bus = m.bus
  BY DEF Answer
<1> QED
  BY <1>1, <1>2, <1>3, <1>4, AllKeptSelf DEF Machine

(* The frame is stored in the bus that was written.                        *)
LEMMA StoredKeeps ==
  ASSUME NEW B, NEW C, AllKept(B, C), NEW i \in SlotIdx,
         B[i].kind = "Ring3Process", NEW x
  PROVE  AllKept(B, [C EXCEPT ![i].response = x])
<1>1. Buses(C) /\ BusShape(C[i]) /\ C[i].kind = "Ring3Process"
  BY DEF AllKept, Buses, Keeps
<1>2. Keeps(C[i], [C[i] EXCEPT !.response = x])
  BY <1>1, ResponseKeeps
<1>3. AllKept(C, [C EXCEPT ![i] = [C[i] EXCEPT !.response = x]])
  BY <1>1, <1>2, AllKeptOne
<1>4. [C EXCEPT ![i].response = x] = [C EXCEPT ![i] = [C[i] EXCEPT !.response = x]]
  OBVIOUS
<1> QED
  BY <1>3, <1>4, AllKeptTrans

LEMMA DispatchKeeps ==
  ASSUME NEW m, Machine(m), NEW hdr, NEW payload, NEW w,
         PayloadCap(payload).slot \in SlotIdx => Written(m, w)
  PROVE  AllKept(m.bus, Dispatch(m, hdr, payload, w).bus)
BY PlainKeeps, Blake3Keeps DEF Dispatch

LEMMA Ring3Keeps ==
  ASSUME NEW m, Machine(m), NEW i \in SlotIdx, m.bus[i].kind = "Ring3Process",
         NEW data, NEW w, InnerSlot(data) \in SlotIdx => Written(m, w)
  PROVE  Written(m, Ring3Write(m, i, data, w))
<1> DEFINE d   == Dispatch(m, data[1][1], Payload(data), w)
           out == Ring3Write(m, i, data, w)
<1>1. "bus" \in DOMAIN out
  BY DEF Ring3Write, Refused
<1>2. out.bus = m.bus \/ out.bus = [d.bus EXCEPT ![i].response = d.response]
  BY DEF Ring3Write, Refused
<1>3. AllKept(m.bus, d.bus)
  BY DispatchKeeps DEF InnerSlot
<1>4. AllKept(m.bus, [d.bus EXCEPT ![i].response = d.response])
  BY <1>3, StoredKeeps
<1> QED
  BY <1>1, <1>2, <1>4, AllKeptSelf DEF Written, Machine

LEMMA Write1Keeps ==
  ASSUME NEW m, Machine(m), NEW i \in SlotIdx, NEW data
  PROVE  Written(m, WriteNested1(m, i, data))
<1>1. CASE m.bus[i].kind = "Software"
  <2>1. WriteNested1(m, i, data) = WriteSoftware(m, i, data)
    BY <1>1 DEF WriteNested1
  <2>2. "bus" \in DOMAIN WriteSoftware(m, i, data)
    BY DEF WriteSoftware
  <2> QED
    BY <1>1, <2>1, <2>2, WriteSoftwareKeeps DEF Written
<1>2. CASE m.bus[i].kind = "Ring3Process"
  <2> DEFINE w == WriteNested2(m, InnerSlot(data), InnerData(data))
  <2>1. InnerSlot(data) \in SlotIdx => Written(m, w)
    BY Write2Keeps
  <2>2. WriteNested1(m, i, data) = Ring3Write(m, i, data, w)
    BY <1>2 DEF WriteNested1
  <2> HIDE DEF w
  <2> QED
    BY <1>2, <2>1, <2>2, Ring3Keeps
<1>3. CASE m.bus[i].kind \notin {"Software", "Ring3Process"}
  <2>1. WriteNested1(m, i, data) = Refused(m)
    BY <1>3 DEF WriteNested1
  <2>2. "bus" \in DOMAIN Refused(m)
    BY DEF Refused
  <2> QED
    BY <2>1, <2>2, RefusedKeeps DEF Written
<1> QED
  BY <1>1, <1>2, <1>3

LEMMA WriteKeeps ==
  ASSUME NEW m, Machine(m), NEW i \in SlotIdx, NEW data
  PROVE  Written(m, BusWrite(m, i, data))
<1>1. CASE m.bus[i].kind = "Software"
  <2>1. BusWrite(m, i, data) = WriteSoftware(m, i, data)
    BY <1>1 DEF BusWrite
  <2>2. "bus" \in DOMAIN WriteSoftware(m, i, data)
    BY DEF WriteSoftware
  <2> QED
    BY <1>1, <2>1, <2>2, WriteSoftwareKeeps DEF Written
<1>2. CASE m.bus[i].kind = "Ring3Process"
  <2> DEFINE w == WriteNested1(m, InnerSlot(data), InnerData(data))
  <2>1. InnerSlot(data) \in SlotIdx => Written(m, w)
    BY Write1Keeps
  <2>2. BusWrite(m, i, data) = Ring3Write(m, i, data, w)
    BY <1>2 DEF BusWrite
  <2> HIDE DEF w
  <2> QED
    BY <1>2, <2>1, <2>2, Ring3Keeps
<1>3. CASE m.bus[i].kind \notin {"Software", "Ring3Process"}
  <2>1. BusWrite(m, i, data) = Refused(m)
    BY <1>3 DEF BusWrite
  <2>2. "bus" \in DOMAIN Refused(m)
    BY DEF Refused
  <2> QED
    BY <2>1, <2>2, RefusedKeeps DEF Written
<1> QED
  BY <1>1, <1>2, <1>3
LEMMA EmptyShape == BusShape(BusEmpty)
BY DEF BusShape, BusEmpty, BusNew, BusFields

-----------------------------------------------------------------------------
(* Sequences.                                                              *)

LEMMA SeqEqual ==
  ASSUME NEW S, NEW s \in Seq(S), NEW t \in Seq(S),
         Len(s) = Len(t), \A i \in 1 .. Len(s) : s[i] = t[i]
  PROVE  s = t
OBVIOUS

LEMMA ConcatAssociative ==
  ASSUME NEW S, NEW s \in Seq(S), NEW t \in Seq(S), NEW u \in Seq(S)
  PROVE  (s \o t) \o u = s \o (t \o u)
OBVIOUS

LEMMA Concat ==
  ASSUME NEW S, NEW s \in Seq(S), NEW t \in Seq(S)
  PROVE  /\ s \o t \in Seq(S) /\ Len(s \o t) = Len(s) + Len(t)
         /\ \A i \in 1 .. Len(s) + Len(t) :
              (s \o t)[i] = IF i <= Len(s) THEN s[i] ELSE t[i - Len(s)]
OBVIOUS

LEMMA ConcatAdjacent ==
  ASSUME NEW S, NEW s \in Seq(S), NEW m \in 1 .. Len(s) + 1,
         NEW k \in m - 1 .. Len(s), NEW n \in k .. Len(s)
  PROVE  SubSeq(s, m, k) \o SubSeq(s, k + 1, n) = SubSeq(s, m, n)
<1> DEFINE a == SubSeq(s, m, k)
           b == SubSeq(s, k + 1, n)
           c == SubSeq(s, m, n)
<1>1. /\ a \in Seq(S) /\ Len(a) = k - m + 1 /\ \A i \in 1 .. Len(a) : a[i] = s[m + i - 1]
      /\ b \in Seq(S) /\ Len(b) = n - k /\ \A i \in 1 .. Len(b) : b[i] = s[k + i]
      /\ c \in Seq(S) /\ Len(c) = n - m + 1 /\ \A i \in 1 .. Len(c) : c[i] = s[m + i - 1]
  OBVIOUS
<1> HIDE DEF a, b, c
<1>0. /\ a \o b \in Seq(S) /\ Len(a \o b) = Len(a) + Len(b)
      /\ \A i \in 1 .. Len(a) + Len(b) :
           (a \o b)[i] = IF i <= Len(a) THEN a[i] ELSE b[i - Len(a)]
  BY <1>1, Concat, Zenon
<1>2. a \o b \in Seq(S) /\ Len(a \o b) = Len(c) /\ Len(a) + Len(b) = Len(c)
  BY <1>0, <1>1
<1>3. ASSUME NEW i \in 1 .. Len(c) PROVE (a \o b)[i] = c[i]
  <2>1. CASE i <= Len(a)
    BY <1>0, <1>1, <1>2, <2>1
  <2>2. CASE ~(i <= Len(a))
    <3>1. /\ Len(a) = k - m + 1 /\ Len(b) = n - k /\ Len(c) = n - m + 1
          /\ m \in Int /\ k \in Int /\ n \in Int
      BY <1>1
    <3>2. i - Len(a) \in 1 .. Len(b) /\ k + (i - Len(a)) = m + i - 1
      BY <2>2, <3>1
    <3> QED
      BY <1>0, <1>1, <1>2, <2>2, <3>2, Zenon
  <2> QED
    BY <2>1, <2>2, Zenon
<1>4. a \o b = c
  BY <1>1, <1>2, <1>3, SeqEqual, Zenon
<1> QED
  BY <1>4 DEF a, b, c

(* Data is a sequence over some set of cells whose headers are sound.      *)
Cells(S) == \A c \in S : c[1][1] = "req" => c[1][4] \in Nat

LEMMA WellFormedIn ==
  ASSUME NEW S, Cells(S), NEW s \in Seq(S)
  PROVE  WellFormed(s)
<1> DEFINE T == {s[k] : k \in DOMAIN s}
<1>1. DOMAIN s = 1 .. Len(s) /\ \A k \in DOMAIN s : s[k] \in S
  OBVIOUS
<1>2. s \in Seq(T)
  BY <1>1
<1> QED
  BY <1>1, <1>2 DEF WellFormed, Cells

LEMMA WellFormedOver ==
  ASSUME NEW s, WellFormed(s)
  PROVE  \E S : Cells(S) /\ s \in Seq(S)
<1> DEFINE T == {s[k] : k \in DOMAIN s}
<1>1. Cells(T) /\ s \in Seq(T)
  BY DEF WellFormed, Cells
<1> QED
  BY <1>1

LEMMA WellFormedLen ==
  ASSUME NEW s, WellFormed(s)
  PROVE  Len(s) \in Nat /\ DOMAIN s = 1 .. Len(s)
BY WellFormedOver

LEMMA WellFormedEmpty == WellFormed(<<>>)
<1>1. Cells({}) /\ <<>> \in Seq({})
  BY DEF Cells
<1> QED
  BY <1>1, WellFormedIn, Zenon

LEMMA WellFormedConcat ==
  ASSUME NEW s, NEW t, WellFormed(s), WellFormed(t)
  PROVE  WellFormed(s \o t)
<1>1. PICK S : Cells(S) /\ s \in Seq(S)
  BY WellFormedOver
<1>2. PICK T : Cells(T) /\ t \in Seq(T)
  BY WellFormedOver
<1>3. Cells(S \cup T)
  BY <1>1, <1>2 DEF Cells
<1>4. s \o t \in Seq(S \cup T)
  BY <1>1, <1>2
<1> QED
  BY <1>3, <1>4, WellFormedIn, Zenon

LEMMA WellFormedSub ==
  ASSUME NEW s, WellFormed(s), NEW a \in Nat, NEW b \in Nat, a >= 1, b <= Len(s)
  PROVE  /\ WellFormed(SubSeq(s, a, b))
         /\ Len(SubSeq(s, a, b)) = IF a <= b THEN b - a + 1 ELSE 0
         /\ \A k \in 1 .. Len(SubSeq(s, a, b)) : SubSeq(s, a, b)[k] = s[a + k - 1]
<1>1. PICK S : Cells(S) /\ s \in Seq(S)
  BY WellFormedOver
<1>2. SubSeq(s, a, b) \in Seq(S)
  BY <1>1
<1>3. Len(SubSeq(s, a, b)) = IF a <= b THEN b - a + 1 ELSE 0
  BY <1>1
<1>4. \A k \in 1 .. Len(SubSeq(s, a, b)) : SubSeq(s, a, b)[k] = s[a + k - 1]
  BY <1>1, <1>3
<1> QED
  BY <1>1, <1>2, <1>3, <1>4, WellFormedIn, Zenon

LEMMA WellFormedPieces ==
  ASSUME NEW c, c[1] # "req", NEW n \in Nat
  PROVE  WellFormed(Pieces(c, n)) /\ Len(Pieces(c, n)) = n
<1> DEFINE S == {<<c, i>> : i \in 1 .. n}
<1>1. Cells(S)
  BY DEF Cells
<1>2. Pieces(c, n) \in Seq(S) /\ Len(Pieces(c, n)) = n
  BY DEF Pieces
<1> QED
  BY <1>1, <1>2, WellFormedIn

-----------------------------------------------------------------------------
(* What a bus holds: well-formed data, a cursor inside it, and a response  *)
(* frame only behind a Ring3Process bus.                                   *)
Contents(b) ==
  /\ WellFormed(b.ring) /\ b.read_pos \in 0 .. Len(b.ring)
  /\ WellFormed(b.response)
  /\ b.response # <<>> => b.kind = "Ring3Process" /\ b.response[1][1][1] = "rsp"

LEMMA EmptyContents == Contents(BusEmpty)
<1>1. BusEmpty.ring = <<>> /\ BusEmpty.read_pos = 0 /\ BusEmpty.response = <<>>
  BY DEF BusEmpty, BusNew
<1>2. Len(<<>>) = 0
  OBVIOUS
<1> QED
  BY <1>1, <1>2, WellFormedEmpty DEF Contents

(* A write to a Software bus leaves the response field alone.              *)
LEMMA SoftwareWriteContents ==
  ASSUME NEW b, BusShape(b), Contents(b), NEW data, WellFormed(data)
  PROVE  LET c == SoftwareWrite(b, data).bus
         IN  Contents(c) /\ c.response = b.response
<1>0. Len(data) \in Nat /\ Len(b.ring) \in Nat
  BY WellFormedLen DEF Contents
<1>2. LET c == EchoWrite(b, data).bus IN Contents(c) /\ c.response = b.response
  <2>1. CASE EchoWrite(b, data).bus = b
    BY <2>1
  <2>2. CASE EchoWrite(b, data).bus = [b EXCEPT !.ring = b.ring \o data]
    <3>1. WellFormed(b.ring \o data)
      BY WellFormedConcat DEF Contents
    <3>2. Len(b.ring \o data) = Len(b.ring) + Len(data)
      BY WellFormedOver DEF Contents
    <3>3. b.read_pos \in 0 .. Len(b.ring \o data)
      BY <1>0, <3>2 DEF Contents
    <3> QED
      BY <2>2, <3>1, <3>3 DEF Contents, BusShape, BusFields
  <2> QED
    BY <2>1, <2>2 DEF EchoWrite, Err, Ok
<1>3. LET c == Blake3Write(b, data).bus IN Contents(c) /\ c.response = b.response
  <2> DEFINE x == Pieces(<<"digest">>, BLAKE3_OUT_LEN)
  <2>1. Blake3Write(b, data).bus = [b EXCEPT !.ring = x, !.read_pos = 0]
    BY DEF Blake3Write, Ok
  <2>2. WellFormed(x) /\ 0 \in 0 .. Len(x)
    BY WellFormedPieces, BusAssumption
  <2> HIDE DEF x
  <2> QED
    BY <2>1, <2>2 DEF Contents, BusShape, BusFields
<1>4. LET c == AesGcmWrite(b, data).bus IN Contents(c) /\ c.response = b.response
  <2> DEFINE total == Len(data) + GCM_NONCE_SIZE + GCM_TAG_SIZE
             nonce == b.nonce_counter + 1
             x == Pieces(<<"sealed", b.key, nonce>>, total)
  <2>1. \/ AesGcmWrite(b, data).bus = b
        \/ AesGcmWrite(b, data).bus =
             [b EXCEPT !.nonce_counter = nonce, !.ring = x, !.read_pos = 0]
    BY DEF AesGcmWrite, Err, Ok
  <2>2. total \in Nat
    BY <1>0, BusAssumption
  <2>3. WellFormed(x) /\ 0 \in 0 .. Len(x)
    BY <2>2, WellFormedPieces
  <2> HIDE DEF x, nonce
  <2> QED
    BY <2>1, <2>3, Zenon DEF Contents, BusShape, BusFields
<1>5. CASE ~b.open_state
  BY <1>5 DEF SoftwareWrite, Err
<1> QED
  BY <1>2, <1>3, <1>4, <1>5 DEF SoftwareWrite, BusShape

(* A read keeps the response or hands it over whole, and yields well-      *)
(* formed data.                                                            *)
LEMMA ReadContents ==
  ASSUME NEW b, BusShape(b), Contents(b), NEW n \in Nat
  PROVE  LET r == BusRead(b, n)
         IN  /\ Contents(r.bus) /\ WellFormed(r.data)
             /\ r.bus.response \in {b.response, <<>>}
             /\ b.kind # "Ring3Process" => r.bus.response = b.response
             /\ r.bus.response # b.response => r.data = b.response
             /\ r.ok /\ b.kind = "Ring3Process" =>
                  r.data = b.response /\ r.bus.response = <<>> /\ b.response # <<>>
<1>0. Len(b.ring) \in Nat /\ b.read_pos \in Nat /\ b.read_pos <= Len(b.ring)
  BY WellFormedLen DEF Contents
<1>1. CASE BusRead(b, n) = Err(b)
  BY <1>1, WellFormedEmpty DEF Err
<1>2. CASE b.kind = "Software" /\ BusRead(b, n) # Err(b)
  <2> DEFINE k == Lesser(SatSub(Len(b.ring), b.read_pos), n)
             p == b.read_pos
             d == SubSeq(b.ring, p + 1, p + k)
  <2>1. BusRead(b, n) = Ok([b EXCEPT !.read_pos = p + k], k, d)
    BY <1>2 DEF BusRead, SoftwareRead
  <2>2. k \in Nat /\ p + k <= Len(b.ring)
    BY <1>0 DEF Lesser, SatSub
  <2> HIDE DEF k
  <2>3. WellFormed(d)
    <3>1. WellFormed(b.ring) /\ p + 1 \in Nat /\ p + k \in Nat /\ p + 1 >= 1
      BY <1>0, <2>2 DEF Contents
    <3> HIDE DEF p
    <3> QED
      BY <2>2, <3>1, WellFormedSub
  <2>4. p + k \in 0 .. Len(b.ring)
    BY <1>0, <2>2
  <2> HIDE DEF d
  <2>5. /\ BusRead(b, n).bus = [b EXCEPT !.read_pos = p + k]
        /\ BusRead(b, n).data = d
    BY <2>1 DEF Ok
  <2> QED
    BY <1>2, <2>3, <2>4, <2>5 DEF Contents, BusShape, BusFields
<1>3. CASE b.kind = "Ring3Process" /\ BusRead(b, n) # Err(b)
  <2>1. BusRead(b, n) = Ok([b EXCEPT !.response = <<>>], Len(b.response), b.response)
        /\ b.response # <<>>
    BY <1>3 DEF BusRead, Ring3Read
  <2>2. /\ BusRead(b, n).bus = [b EXCEPT !.response = <<>>]
        /\ BusRead(b, n).data = b.response
    BY <2>1 DEF Ok
  <2> QED
    BY <1>3, <2>1, <2>2, WellFormedEmpty DEF Contents, BusShape, BusFields
<1> QED
  BY <1>1, <1>2, <1>3 DEF BusRead
-----------------------------------------------------------------------------
(* What a write to a bus does to the contents of all buses.                *)

(* A token for slot j, or a request under the number id, inside data.      *)
Carries(table, data, j) ==
  \E cap \in Inside(data) : cap.slot = j /\ cap.token = table[j].token
Asked(data, id) ==
  \E k \in DOMAIN data : data[k][1][1] = "req" /\ data[k][1][3] = id

(* A frame that answers the request at the head of data.                   *)
Answers(f, hdr) ==
  /\ WellFormed(f) /\ f # <<>>
  /\ f[1][1][1] = "rsp" /\ f[1][1][3] = hdr[3] /\ f[1][1][2] \in {hdr[2], "Error"}

(* What a write of data to slot i of m may make of the bus of slot j.      *)
Change(mm, i, data, j, c) ==
  /\ Contents(c)
  /\ c # mm.bus[j] => j = i \/ Carries(mm.slots, data, j)
  /\ mm.bus[j].response # <<>> => c.response = mm.bus[j].response
  /\ c.response \notin {<<>>, mm.bus[j].response} => Asked(data, c.response[1][1][3])

RingOK(r) ==
  /\ r.head \in RingIndex /\ r.total \in Nat
  /\ IsFcn(r.events) /\ DOMAIN r.events = RingIndex

Sound(mm) ==
  Machine(mm) /\ RingOK(mm.ring) /\ \A j \in SlotIdx : Contents(mm.bus[j])

Wrote(mm, i, data, w) ==
  /\ Written(mm, w)
  /\ RingOK(w.ring)
  /\ \A j \in SlotIdx : Change(mm, i, data, j, w.bus[j])
  /\ w.ok /\ mm.bus[i].kind = "Ring3Process" =>
       mm.bus[i].response = <<>> /\ Answers(w.bus[i].response, data[1][1])

LEMMA ModRange ==
  ASSUME NEW a \in Int, NEW n \in Nat \ {0}
  PROVE  a % n \in 0 .. n - 1
OBVIOUS

LEMMA EnqueueOK ==
  ASSUME NEW r, RingOK(r), NEW a, NEW b, NEW c, NEW d
  PROVE  LET q == audit_enqueue(r, a, b, c, d)
         IN  /\ RingOK(q) /\ Newest(q).slot_idx = a /\ Newest(q).result = b
             /\ Newest(q).pk_hash_prefix = d
<1> DEFINE q == audit_enqueue(r, a, b, c, d)
           e == EnrollEvent(r.total, a, b, c, d)
           C == AUDIT_RING_CAPACITY
<1>1. C \in Nat \ {0} /\ TOTAL_MOD \in Nat \ {0} /\ RingIndex = 0 .. C - 1
  BY AuditRingAssumption DEF RingIndex
<1>2. r.head \in 0 .. C - 1 /\ r.total \in Nat
  BY <1>1 DEF RingOK
<1>9. r.head % C = r.head
  BY <1>1, <1>2
<1>3. q.events = [r.events EXCEPT ![r.head] = e]
  BY <1>9 DEF audit_enqueue
<1>4. q.head = (r.head + 1) % C /\ q.total = (r.total + 1) % TOTAL_MOD
  BY DEF audit_enqueue
<1>5. q.head \in RingIndex /\ q.total \in Nat
  <2>1. r.head + 1 \in Int /\ r.total + 1 \in Int
    BY <1>1, <1>2
  <2>2. q.head \in 0 .. C - 1 /\ q.total \in 0 .. TOTAL_MOD - 1
    BY <1>1, <1>4, <2>1, ModRange, Zenon
  <2> QED
    BY <1>1, <2>2
<1>6. (q.head - 1) % C = r.head
  <2>1. CASE r.head = C - 1
    <3>1. (r.head + 1) % C = 0
      BY <1>1, <2>1
    <3>2. (0 - 1) % C = C - 1
      BY <1>1
    <3> QED
      BY <1>4, <2>1, <3>1, <3>2
  <2>2. CASE r.head # C - 1
    <3>1. r.head + 1 \in 0 .. C - 1
      BY <1>1, <1>2, <2>2
    <3>2. (r.head + 1) % C = r.head + 1
      BY <1>1, <3>1
    <3> QED
      <4>1. q.head - 1 = r.head
        BY <1>2, <1>4, <3>2
      <4> QED
        BY <1>9, <4>1
  <2> QED
    BY <2>1, <2>2
<1>7. IsFcn(q.events) /\ DOMAIN q.events = RingIndex /\ q.events[r.head] = e
  BY <1>1, <1>2, <1>3 DEF RingOK, IsFcn
<1>10. e.slot_idx = a /\ e.result = b /\ e.pk_hash_prefix = d
  BY DEF EnrollEvent
<1> HIDE DEF q, e
<1>8. RingOK(q) /\ Newest(q) = e
  BY <1>5, <1>6, <1>7 DEF RingOK, Newest
<1> QED
  BY <1>8, <1>10 DEF q

Framed(f, c) == WellFormed(f) /\ f # <<>> /\ f[1][1] = c

LEMMA ReplyAnswers ==
  ASSUME NEW cmd, NEW id, NEW status, NEW payload, WellFormed(payload)
  PROVE  Framed(Reply(cmd, id, status, payload), <<"rsp", cmd, id, status>>)
<1> DEFINE c == <<"rsp", cmd, id, status>>
           h == Pieces(c, WIRE_HEADER_LEN)
<1>1. WIRE_HEADER_LEN \in Nat \ {0}
  BY WireAssumption
<1>2. WellFormed(h) /\ Len(h) = WIRE_HEADER_LEN /\ h[1] = <<c, 1>>
  <2>1. c[1] = "rsp" /\ WIRE_HEADER_LEN \in Nat
    BY <1>1
  <2>2. h[1] = <<c, 1>>
    BY <1>1 DEF Pieces
  <2> HIDE DEF c
  <2> QED
    BY <2>1, <2>2, WellFormedPieces
<1>3. Reply(cmd, id, status, payload) = h \o payload
  BY DEF Reply
<1> HIDE DEF h, c
<1>4. WellFormed(h \o payload)
  BY <1>2, WellFormedConcat
<1>5. (h \o payload)[1] = h[1] /\ h \o payload # <<>>
  <2>1. PICK S : h \in Seq(S)
    BY <1>2, WellFormedOver
  <2>2. PICK T : payload \in Seq(T)
    BY WellFormedOver
  <2>3. Len(h \o payload) = Len(h) + Len(payload) /\ Len(payload) \in Nat
        /\ h \o payload \in Seq(S \cup T)
    BY <2>1, <2>2
  <2>4. Len(h \o payload) # 0
    BY <1>1, <1>2, <2>3
  <2> QED
    BY <1>1, <1>2, <2>1, <2>2, <2>3, <2>4
<1>6. <<c, 1>>[1] = c
  OBVIOUS
<1> QED
  BY <1>2, <1>3, <1>4, <1>5, <1>6 DEF c, Framed

(* The parts of a request that a Ring3Process bus accepts.                 *)
LEMMA RequestParts ==
  ASSUME NEW b, NEW data, WellFormed(data), Accepts(b, data)
  PROVE  /\ Len(data) \in Nat \ {0} /\ DOMAIN data = 1 .. Len(data)
         /\ data[1][1][1] = "req" /\ data[1][1][4] \in Nat
         /\ WellFormed(Payload(data)) /\ Len(Payload(data)) = data[1][1][4]
         /\ WIRE_HEADER_LEN + Len(Payload(data)) <= Len(data)
         /\ \A k \in 1 .. Len(Payload(data)) : Payload(data)[k] = data[WIRE_HEADER_LEN + k]
<1> DEFINE W == WIRE_HEADER_LEN
           n == data[1][1][4]
<1>1. W \in Nat \ {0} /\ Len(data) \in Nat /\ DOMAIN data = 1 .. Len(data)
  BY WireAssumption, WellFormedLen
<1>2. data[1][1][1] = "req" /\ n + W <= Len(data) /\ Len(data) >= W
  BY DEF Accepts, Starts
<1>3. n \in Nat
  BY <1>1, <1>2 DEF WellFormed
<1> HIDE DEF W, n
<1>4. /\ W + 1 \in Nat /\ W + n \in Nat /\ W + 1 >= 1 /\ W + n <= Len(data)
      /\ (IF W + 1 <= W + n THEN (W + n) - (W + 1) + 1 ELSE 0) = n
      /\ \A k \in Nat : (W + 1) + k - 1 = W + k
  BY <1>1, <1>2, <1>3
<1>5. Payload(data) = SubSeq(data, W + 1, W + n)
  BY DEF Payload, W, n
<1>6. WellFormed(Payload(data)) /\ Len(Payload(data)) = n
  BY <1>4, <1>5, WellFormedSub
<1>7. \A k \in 1 .. n : Payload(data)[k] = data[W + k]
  <2>1. ASSUME NEW k \in 1 .. n PROVE Payload(data)[k] = data[W + k]
    <3>1. k \in 1 .. Len(SubSeq(data, W + 1, W + n)) /\ (W + 1) + k - 1 = W + k
      BY <1>1, <1>3, <1>5, <1>6
    <3>2. SubSeq(data, W + 1, W + n)[k] = data[(W + 1) + k - 1]
      <4> DEFINE x == W + 1
                 y == W + n
      <4>1. x \in Nat /\ y \in Nat /\ x >= 1 /\ y <= Len(data)
            /\ k \in 1 .. Len(SubSeq(data, x, y))
        BY <1>4, <3>1
      <4> HIDE DEF x, y
      <4>2. SubSeq(data, x, y)[k] = data[x + k - 1]
        BY <4>1, WellFormedSub
      <4> QED
        BY <4>2, Zenon DEF x, y
    <3> QED
      BY <1>5, <3>1, <3>2, Zenon
  <2> QED
    BY <2>1
<1> QED
  BY <1>1, <1>2, <1>3, <1>6, <1>7 DEF W, n

(* The data of a write inside a request is a part of the request.          *)
LEMMA InnerParts ==
  ASSUME NEW b, NEW data, WellFormed(data), Accepts(b, data)
  PROVE  /\ WellFormed(InnerData(data))
         /\ \A k \in DOMAIN InnerData(data) :
              \E n \in DOMAIN data : InnerData(data)[k] = data[n]
<1> DEFINE p == Payload(data)
           W == WIRE_HEADER_LEN
<1>1. /\ Len(data) \in Nat /\ DOMAIN data = 1 .. Len(data) /\ WellFormed(p)
      /\ W + Len(p) <= Len(data) /\ \A k \in 1 .. Len(p) : p[k] = data[W + k]
  BY RequestParts
<1>2. Len(p) \in Nat /\ W \in Nat /\ CAP_LEN \in Nat
  BY <1>1, WellFormedLen, WireAssumption
<1>3. InnerData(data) = SubSeq(p, CAP_LEN + 1, Len(p))
  BY DEF InnerData, From
<1> HIDE DEF p, W
<1> DEFINE a == CAP_LEN + 1
           s == SubSeq(p, a, Len(p))
<1>4. a \in Nat /\ a >= 1
  BY <1>2
<1>5. /\ WellFormed(s) /\ Len(s) = IF a <= Len(p) THEN Len(p) - a + 1 ELSE 0
      /\ \A k \in 1 .. Len(s) : s[k] = p[a + k - 1]
  <2> HIDE DEF a
  <2> QED
    BY <1>1, <1>2, <1>4, WellFormedSub
<1>6. DOMAIN s = 1 .. Len(s) /\ Len(s) \in Nat
  BY <1>5, WellFormedLen, Zenon
<1>7. ASSUME NEW k \in DOMAIN s PROVE \E n \in DOMAIN data : s[k] = data[n]
  <2> DEFINE h == a + k - 1
  <2>1. k \in Nat /\ k >= 1 /\ k <= Len(s)
    <3> HIDE DEF s
    <3> QED
      BY <1>6
  <2>2. h \in 1 .. Len(p)
    BY <1>2, <1>4, <1>5, <2>1
  <2>3. s[k] = p[h]
    BY <1>5, <1>6, Zenon
  <2> HIDE DEF h, s
  <2>4. W + h \in DOMAIN data
    BY <1>1, <1>2, <2>2
  <2>5. s[k] = data[W + h]
    BY <1>1, <2>2, <2>3
  <2> QED
    BY <2>4, <2>5
<1> QED
  BY <1>3, <1>5, <1>7, Zenon

(* What is inside a part is inside the whole.                              *)
LEMMA PartInside ==
  ASSUME NEW data, NEW part,
         \A k \in DOMAIN part : \E n \in DOMAIN data : part[k] = data[n]
  PROVE  /\ Inside(part) \subseteq Inside(data)
         /\ \A id : Asked(part, id) => Asked(data, id)
<1>1. ASSUME NEW x \in Inside(part) PROVE x \in Inside(data)
  <2>1. PICK k \in DOMAIN part : part[k][1][1] = "cap" /\ x = part[k][1][2]
    BY <1>1 DEF Inside
  <2>2. PICK n \in DOMAIN data : part[k] = data[n]
    OBVIOUS
  <2> QED
    BY <2>1, <2>2 DEF Inside
<1>2. ASSUME NEW id, Asked(part, id) PROVE Asked(data, id)
  BY <1>2 DEF Asked
<1> QED
  BY <1>1, <1>2

(* A capability the dispatcher authenticates is inside the data.           *)
LEMMA CapInside ==
  ASSUME NEW b, NEW data, WellFormed(data), Accepts(b, data), NEW table,
         authenticate(table, PayloadCap(Payload(data)), {"USE"})
  PROVE  /\ PayloadCap(Payload(data)) \in Inside(data)
         /\ Carries(table, data, InnerSlot(data))
<1> DEFINE p == Payload(data)
           c == PayloadCap(p)
           W == WIRE_HEADER_LEN
<1>1. /\ Len(data) \in Nat /\ DOMAIN data = 1 .. Len(data)
      /\ W + Len(p) <= Len(data) /\ \A k \in 1 .. Len(p) : p[k] = data[W + k]
      /\ Len(p) \in Nat
  BY RequestParts, WellFormedLen
<1>2. W \in Nat /\ CAP_LEN \in Nat \ {0}
  BY WireAssumption
<1>3. c.token # 0 /\ c.token = table[c.slot].token
  BY DEF authenticate
<1>4. Starts(p, "cap", CAP_LEN) /\ c = p[1][1][2]
  BY <1>3 DEF PayloadCap, NoCap, Cap
<1>5. 1 \in 1 .. Len(p) /\ p[1][1][1] = "cap"
  BY <1>1, <1>2, <1>4 DEF Starts
<1> HIDE DEF p, c, W
<1>6. W + 1 \in DOMAIN data /\ p[1] = data[W + 1]
  BY <1>1, <1>2, <1>5
<1>7. c \in Inside(data)
  BY <1>4, <1>5, <1>6 DEF Inside
<1>8. Carries(table, data, c.slot)
  BY <1>3, <1>7 DEF Carries
<1> QED
  BY <1>7, <1>8 DEF c, p, InnerSlot
-----------------------------------------------------------------------------
(* Writes, from the inside out.                                            *)

LEMMA ChangeSelf ==
  ASSUME NEW mm, Sound(mm), NEW i, NEW data, NEW j \in SlotIdx
  PROVE  Change(mm, i, data, j, mm.bus[j])
BY DEF Change, Sound

LEMMA RefusedWrote ==
  ASSUME NEW mm, Sound(mm), NEW i, NEW data
  PROVE  Wrote(mm, i, data, Refused(mm))
<1> DEFINE w == Refused(mm)
<1>1. w.bus = mm.bus /\ w.ring = mm.ring /\ w.ok = FALSE /\ "bus" \in DOMAIN w
  BY DEF Refused
<1>2. Written(mm, w)
  BY <1>1, AllKeptSelf DEF Written, Sound, Machine
<1> HIDE DEF w
<1>3. Wrote(mm, i, data, w)
  BY <1>1, <1>2, ChangeSelf DEF Wrote, Sound
<1> QED
  BY <1>3 DEF w

LEMMA SoftwareWrote ==
  ASSUME NEW mm, Sound(mm), NEW i \in SlotIdx, mm.bus[i].kind = "Software",
         NEW data, WellFormed(data)
  PROVE  Wrote(mm, i, data, WriteSoftware(mm, i, data))
<1> DEFINE w == WriteSoftware(mm, i, data)
           c == SoftwareWrite(mm.bus[i], data).bus
<1>1. w.bus = [mm.bus EXCEPT ![i] = c] /\ w.ring = mm.ring /\ "bus" \in DOMAIN w
  BY DEF WriteSoftware
<1>2. Written(mm, w)
  BY <1>1, WriteSoftwareKeeps DEF Written, Sound
<1>3. BusShape(mm.bus[i]) /\ Contents(mm.bus[i]) /\ IsFcn(mm.bus) /\ DOMAIN mm.bus = SlotIdx
  BY DEF Sound, Machine, Buses
<1>4. Contents(c) /\ c.response = mm.bus[i].response
  BY <1>3, SoftwareWriteContents
<1> HIDE DEF w, c
<1>5. \A j \in SlotIdx : w.bus[j] = IF j = i THEN c ELSE mm.bus[j]
  BY <1>1, <1>3
<1>6. Change(mm, i, data, i, c)
  BY <1>4 DEF Change
<1>7. \A j \in SlotIdx : Change(mm, i, data, j, w.bus[j])
  BY <1>5, <1>6, ChangeSelf
<1>8. Wrote(mm, i, data, w)
  BY <1>1, <1>2, <1>7 DEF Wrote, Sound
<1> QED
  BY <1>8 DEF w

(* A change by the write inside a request is one by the request.           *)
LEMMA ChangeLift ==
  ASSUME NEW mm, NEW t, NEW part, NEW i, NEW data, NEW j, NEW c,
         Change(mm, t, part, j, c), Carries(mm.slots, data, t),
         Inside(part) \subseteq Inside(data),
         \A id : Asked(part, id) => Asked(data, id)
  PROVE  Change(mm, i, data, j, c)
<1>1. Carries(mm.slots, part, j) => Carries(mm.slots, data, j)
  BY DEF Carries
<1> QED
  BY <1>1 DEF Change

(* After a write inside a request the target is read.                      *)
LEMMA ChangeRead ==
  ASSUME NEW mm, NEW t, NEW part, NEW c, BusShape(c), c.kind = mm.bus[t].kind,
         Change(mm, t, part, t, c), NEW n \in Nat,
         mm.bus[t].kind = "Ring3Process" => mm.bus[t].response = <<>>
  PROVE  Change(mm, t, part, t, BusRead(c, n).bus) /\ WellFormed(BusRead(c, n).data)
<1> DEFINE r == BusRead(c, n)
<1>1. Contents(c)
  BY DEF Change
<1>2. /\ Contents(r.bus) /\ WellFormed(r.data)
      /\ r.bus.response \in {c.response, <<>>}
      /\ c.kind # "Ring3Process" => r.bus.response = c.response
  BY <1>1, ReadContents
<1> HIDE DEF r
<1>3. Change(mm, t, part, t, r.bus)
  BY <1>2 DEF Change
<1> QED
  BY <1>2, <1>3 DEF r

(* The outcome of a command: what it did, and the frame for the caller.    *)
Served(mm, i, data, d) ==
  /\ RingOK(d.ring)
  /\ \A j \in SlotIdx : Change(mm, i, data, j, d.bus[j])
  /\ Answers(d.response, data[1][1])

LEMMA ReplyServes ==
  ASSUME NEW cmd, NEW status, NEW payload, WellFormed(payload), NEW hdr,
         cmd = hdr[2] \/ cmd = "Error"
  PROVE  Answers(Reply(cmd, hdr[3], status, payload), hdr)
<1> DEFINE f == Reply(cmd, hdr[3], status, payload)
           h == <<"rsp", cmd, hdr[3], status>>
<1>1. Framed(f, h)
  BY ReplyAnswers, Zenon
<1>2. h[1] = "rsp" /\ h[2] = cmd /\ h[3] = hdr[3]
  OBVIOUS
<1> HIDE DEF f, h
<1>3. Answers(f, hdr)
  BY <1>1, <1>2 DEF Answers, Framed
<1> QED
  BY <1>3 DEF f

LEMMA ErrorServes ==
  ASSUME NEW status, NEW hdr
  PROVE  Answers(ErrorFrame(hdr[3], status), hdr)
<1>1. Answers(Reply("Error", hdr[3], status, <<>>), hdr)
  BY ReplyServes, WellFormedEmpty, Zenon
<1> QED
  BY <1>1 DEF ErrorFrame

LEMMA AnswerServed ==
  ASSUME NEW mm, Sound(mm), NEW i, NEW data, NEW f, Answers(f, data[1][1])
  PROVE  Served(mm, i, data, Answer(mm, f))
<1> DEFINE d == Answer(mm, f)
<1>1. d.ring = mm.ring /\ d.bus = mm.bus /\ d.response = f
  BY DEF Answer
<1> HIDE DEF d
<1>2. Served(mm, i, data, d)
  BY <1>1, ChangeSelf DEF Served, Sound
<1> QED
  BY <1>2 DEF d

LEMMA PingServed ==
  ASSUME NEW mm, Sound(mm), NEW i, NEW data, data[1][1][2] = "Ping"
  PROVE  Served(mm, i, data, handle_ping(mm, data[1][1][3]))
<1>1. Answers(Reply("Ping", data[1][1][3], "Ok", <<>>), data[1][1])
  BY ReplyServes, WellFormedEmpty, Zenon
<1> QED
  BY <1>1, AnswerServed DEF handle_ping

LEMMA AttestServed ==
  ASSUME NEW mm, Sound(mm), NEW i, NEW data, NEW payload, data[1][1][2] = "AttestSubmit"
  PROVE  Served(mm, i, data, handle_attest_submit(mm, data[1][1][3], payload))
<1> DEFINE id == data[1][1][3]
           pk == payload[1][1][2]
           octet == payload[1][1][3]
           valid == verify_attest(pk, octet, payload[1][1][4])
           code  == IF valid THEN 5 ELSE 6
           q     == audit_enqueue(mm.ring, 254, code, octet, pk)
           f     == IF valid THEN Reply("AttestSubmit", id, "Ok", <<>>)
                    ELSE ErrorFrame(id, "Denied")
           d     == handle_attest_submit(mm, id, payload)
<1>1. \A status : Answers(ErrorFrame(id, status), data[1][1])
  BY ErrorServes
<1>2. Answers(f, data[1][1])
  <2>1. Answers(Reply("AttestSubmit", id, "Ok", <<>>), data[1][1])
    BY ReplyServes, WellFormedEmpty, Zenon
  <2> QED
    BY <1>1, <2>1, Zenon
<1>3. RingOK(q)
  BY EnqueueOK DEF Sound
<1>4. \/ d = Answer(mm, ErrorFrame(id, "BadFrame"))
      \/ d = Answer([mm EXCEPT !.ring = q], f)
  BY DEF handle_attest_submit
<1>5. CASE d = Answer(mm, ErrorFrame(id, "BadFrame"))
  BY <1>1, <1>5, AnswerServed
<1>6. CASE d = Answer([mm EXCEPT !.ring = q], f)
  <2>1. d.ring = q /\ d.bus = mm.bus /\ d.response = f
    BY <1>6 DEF Answer, Sound, Machine
  <2> HIDE DEF d, q, f
  <2>2. Served(mm, i, data, d)
    BY <1>2, <1>3, <2>1, ChangeSelf DEF Served
  <2> QED
    BY <2>2 DEF d
<1> QED
  BY <1>4, <1>5, <1>6

LEMMA StatusServed ==
  ASSUME NEW mm, Sound(mm), NEW i, NEW data, NEW payload, data[1][1][2] = "Status"
  PROVE  Served(mm, i, data, handle_status_wire(mm, data[1][1][3], payload))
<1> DEFINE id     == data[1][1][3]
           events == audit_snapshot(mm.ring, AUDIT_RING_CAPACITY)
           len    == STATUS_HEADER_LEN + EVENT_LEN * Len(events)
           body   == Pieces(<<"audit", events, mm.ring.total>>, len)
           d      == handle_status_wire(mm, id, payload)
<1>1. Answers(ErrorFrame(id, "BadFrame"), data[1][1])
  BY ErrorServes
<1>2. len \in Nat
  <2>1. mm.ring.total \in Nat /\ AUDIT_RING_CAPACITY \in Nat
    BY AuditRingAssumption DEF Sound, RingOK
  <2> DEFINE n == Lesser(Valid(mm.ring), Lesser(AUDIT_RING_CAPACITY, AUDIT_RING_CAPACITY))
  <2>2. n \in Nat
    BY <2>1 DEF Lesser, Valid
  <2>3. Len(events) = n
    <3> HIDE DEF n
    <3>1. events = [k \in 1 .. n |-> mm.ring.events[(Start(mm.ring) + k - 1) % AUDIT_RING_CAPACITY]]
      BY DEF audit_snapshot, n
    <3> QED
      BY <2>2, <3>1
  <2> HIDE DEF n, events
  <2> QED
    BY <2>2, <2>3, WireAssumption
<1>3. WellFormed(body)
  <2> DEFINE c == <<"audit", events, mm.ring.total>>
  <2>1. c[1] # "req"
    OBVIOUS
  <2> HIDE DEF c, len
  <2>2. WellFormed(Pieces(c, len))
    BY <1>2, <2>1, WellFormedPieces
  <2> QED
    BY <2>2 DEF c
<1> HIDE DEF body
<1>4. Answers(Reply("Status", id, "Ok", body), data[1][1])
  BY <1>3, ReplyServes, Zenon
<1>5. \/ d = Answer(mm, ErrorFrame(id, "BadFrame"))
      \/ d = Answer(mm, Reply("Status", id, "Ok", body))
  BY DEF handle_status_wire, body
<1> QED
  BY <1>1, <1>4, <1>5, AnswerServed

(* Blake3Hash: w is the write to the target inside the request.            *)
LEMMA Blake3Served ==
  ASSUME NEW mm, Sound(mm), NEW i, NEW data, WellFormed(data),
         NEW b, Accepts(b, data), data[1][1][2] = "Blake3Hash", NEW w,
         InnerSlot(data) \in SlotIdx => Wrote(mm, InnerSlot(data), InnerData(data), w)
  PROVE  Served(mm, i, data, handle_blake3(mm, data[1][1][3], Payload(data), w))
<1> DEFINE id   == data[1][1][3]
           p    == Payload(data)
           cap  == PayloadCap(p)
           t    == InnerSlot(data)
           part == InnerData(data)
           r    == BusRead(w.bus[t], BLAKE3_OUT_LEN)
           m2   == IF w.ok THEN [w EXCEPT !.bus[t] = r.bus] ELSE w
           d    == handle_blake3(mm, id, p, w)
<1>0. cap.slot = t
  BY DEF InnerSlot
<1>1. \A status : Answers(ErrorFrame(id, status), data[1][1])
  BY ErrorServes
<1>2. \/ \E status : d = Answer(mm, ErrorFrame(id, status))
      \/ /\ authenticate(mm.slots, cap, {"USE"})
         /\ \/ d = Answer(m2, ErrorFrame(id, "Internal"))
            \/ d = Answer(m2, Reply("Blake3Hash", id, "Ok", r.data)) /\ w.ok
  BY <1>0 DEF handle_blake3
<1>3. CASE \E status : d = Answer(mm, ErrorFrame(id, status))
  BY <1>1, <1>3, AnswerServed
<1>4. CASE /\ authenticate(mm.slots, cap, {"USE"})
           /\ \/ d = Answer(m2, ErrorFrame(id, "Internal"))
              \/ d = Answer(m2, Reply("Blake3Hash", id, "Ok", r.data)) /\ w.ok
  <2>1. t \in SlotIdx /\ Carries(mm.slots, data, t)
    BY <1>0, <1>4, CapInside DEF authenticate
  <2>2. Wrote(mm, t, part, w)
    BY <2>1
  <2>3. Inside(part) \subseteq Inside(data) /\ \A x : Asked(part, x) => Asked(data, x)
    BY InnerParts, PartInside
  <2> HIDE DEF t, part, cap, p
  <2>4. AllKept(mm.bus, w.bus) /\ "bus" \in DOMAIN w
    BY <2>2 DEF Wrote, Written
  <2>5. BusShape(w.bus[t]) /\ w.bus[t].kind = mm.bus[t].kind
        /\ IsFcn(w.bus) /\ DOMAIN w.bus = SlotIdx
    BY <2>1, <2>4 DEF AllKept, Buses, Keeps
  <2>6. w.ok => Change(mm, t, part, t, r.bus) /\ WellFormed(r.data)
    <3>1. BLAKE3_OUT_LEN \in Nat
      BY BusAssumption
    <3>2. Change(mm, t, part, t, w.bus[t])
      BY <2>1, <2>2 DEF Wrote
    <3>3. w.ok => (mm.bus[t].kind = "Ring3Process" => mm.bus[t].response = <<>>)
      BY <2>2 DEF Wrote
    <3> QED
      BY <2>5, <3>1, <3>2, <3>3, ChangeRead
  <2>7. m2.ring = w.ring /\ \A j \in SlotIdx : m2.bus[j] \in {w.bus[j]} \cup
              (IF w.ok /\ j = t THEN {r.bus} ELSE {})
    <3> HIDE DEF r
    <3> QED
      BY <2>1, <2>4, <2>5
  <2> HIDE DEF m2, r
  <2>8. ASSUME NEW j \in SlotIdx PROVE Change(mm, t, part, j, m2.bus[j])
    <3>1. Change(mm, t, part, j, w.bus[j])
      BY <2>2 DEF Wrote
    <3> QED
      BY <2>6, <2>7, <3>1
  <2>9. \A j \in SlotIdx : Change(mm, i, data, j, m2.bus[j])
    BY <2>1, <2>3, <2>8, ChangeLift
  <2>10. RingOK(m2.ring)
    BY <2>2, <2>7 DEF Wrote
  <2>11. d.ring = m2.ring /\ d.bus = m2.bus
    BY <1>4 DEF Answer
  <2>12. Answers(d.response, data[1][1])
    <3>1. w.ok => Answers(Reply("Blake3Hash", id, "Ok", r.data), data[1][1])
      BY <2>6, ReplyServes, Zenon
    <3>2. \/ d.response = ErrorFrame(id, "Internal")
          \/ d.response = Reply("Blake3Hash", id, "Ok", r.data) /\ w.ok
      BY <1>4 DEF Answer
    <3> QED
      BY <1>1, <3>1, <3>2
  <2> HIDE DEF d
  <2>13. Served(mm, i, data, d)
    BY <2>9, <2>10, <2>11, <2>12 DEF Served
  <2> QED
    BY <2>13 DEF d, p
<1> QED
  BY <1>2, <1>3, <1>4

LEMMA DispatchServed ==
  ASSUME NEW mm, Sound(mm), NEW i, NEW data, WellFormed(data),
         NEW b, Accepts(b, data), NEW w,
         InnerSlot(data) \in SlotIdx => Wrote(mm, InnerSlot(data), InnerData(data), w)
  PROVE  Served(mm, i, data, Dispatch(mm, data[1][1], Payload(data), w))
<1> DEFINE cmd == data[1][1][2]
           id  == data[1][1][3]
           p   == Payload(data)
           d   == Dispatch(mm, data[1][1], p, w)
<1>1. CASE cmd = "Ping"
  <2>1. d = handle_ping(mm, id)
    BY <1>1 DEF Dispatch
  <2> QED
    BY <1>1, <2>1, PingServed
<1>2. CASE cmd = "Blake3Hash"
  <2>1. d = handle_blake3(mm, id, p, w)
    BY <1>2 DEF Dispatch
  <2>2. Served(mm, i, data, handle_blake3(mm, id, p, w))
    BY <1>2, Blake3Served, Zenon
  <2> QED
    BY <2>1, <2>2
<1>3. CASE cmd = "AttestSubmit"
  <2>1. d = handle_attest_submit(mm, id, p)
    BY <1>3 DEF Dispatch
  <2> QED
    BY <1>3, <2>1, AttestServed
<1>4. CASE cmd = "Status"
  <2>1. d = handle_status_wire(mm, id, p)
    BY <1>4 DEF Dispatch
  <2> QED
    BY <1>4, <2>1, StatusServed
<1>5. CASE cmd \notin {"Ping", "Blake3Hash", "AttestSubmit", "Status"}
  <2>1. d = Answer(mm, ErrorFrame(id, "UnknownCmd"))
    BY <1>5 DEF Dispatch
  <2>2. Answers(ErrorFrame(id, "UnknownCmd"), data[1][1])
    BY ErrorServes
  <2> QED
    BY <2>1, <2>2, AnswerServed
<1> QED
  BY <1>1, <1>2, <1>3, <1>4, <1>5

(* The frame of the outer command is stored last, over nothing.            *)
LEMMA Ring3Wrote ==
  ASSUME NEW mm, Sound(mm), NEW i \in SlotIdx, mm.bus[i].kind = "Ring3Process",
         NEW data, WellFormed(data), NEW w,
         InnerSlot(data) \in SlotIdx => Wrote(mm, InnerSlot(data), InnerData(data), w)
  PROVE  Wrote(mm, i, data, Ring3Write(mm, i, data, w))
<1> DEFINE d   == Dispatch(mm, data[1][1], Payload(data), w)
           out == Ring3Write(mm, i, data, w)
<1>1. CASE ~Accepts(mm.bus[i], data)
  BY <1>1, RefusedWrote DEF Ring3Write
<1>2. CASE Accepts(mm.bus[i], data)
  <2>1. Served(mm, i, data, d)
    BY <1>2, DispatchServed, Zenon
  <2>2. InnerSlot(data) \in SlotIdx => Written(mm, w)
    BY DEF Wrote
  <2>3. Written(mm, out) /\ AllKept(mm.bus, d.bus)
    BY <2>2, Ring3Keeps, DispatchKeeps DEF Sound, InnerSlot
  <2>4. out.ok /\ out.ring = d.ring /\ out.bus = [d.bus EXCEPT ![i].response = d.response]
    BY <1>2 DEF Ring3Write
  <2>5. data[1][1][1] = "req" /\ 1 \in DOMAIN data /\ mm.bus[i].response = <<>>
    <3>1. data[1][1][1] = "req" /\ Len(data) \in Nat \ {0} /\ DOMAIN data = 1 .. Len(data)
      BY <1>2, RequestParts
    <3>2. mm.bus[i].response = <<>>
      BY <1>2 DEF Accepts
    <3> QED
      BY <3>1, <3>2
  <2> HIDE DEF d, out
  <2>6. /\ IsFcn(d.bus) /\ DOMAIN d.bus = SlotIdx /\ BusShape(d.bus[i])
        /\ d.bus[i].kind = "Ring3Process"
    BY <2>3 DEF AllKept, Buses, Keeps
  <2> DEFINE c == [d.bus[i] EXCEPT !.response = d.response]
  <2>7. \A j \in SlotIdx : out.bus[j] = IF j = i THEN c ELSE d.bus[j]
    BY <2>4, <2>6
  <2>8. /\ c.ring = d.bus[i].ring /\ c.read_pos = d.bus[i].read_pos
        /\ c.kind = "Ring3Process" /\ c.response = d.response
    BY <2>6 DEF BusShape, BusFields
  <2> HIDE DEF c
  <2>9. Answers(d.response, data[1][1]) /\ Change(mm, i, data, i, d.bus[i])
    BY <2>1 DEF Served
  <2>10. Contents(c)
    BY <2>8, <2>9 DEF Change, Contents, Answers
  <2>11. Asked(data, d.response[1][1][3])
    BY <2>5, <2>9 DEF Asked, Answers
  <2>12. Change(mm, i, data, i, c)
    BY <2>5, <2>8, <2>10, <2>11 DEF Change
  <2>13. \A j \in SlotIdx : Change(mm, i, data, j, out.bus[j])
    BY <2>1, <2>7, <2>12 DEF Served
  <2>14. Answers(out.bus[i].response, data[1][1])
    BY <2>7, <2>8, <2>9
  <2>15. RingOK(out.ring)
    BY <2>1, <2>4 DEF Served
  <2>16. Wrote(mm, i, data, out)
    BY <2>3, <2>5, <2>13, <2>14, <2>15 DEF Wrote
  <2> QED
    BY <2>16 DEF out
<1> QED
  BY <1>1, <1>2

LEMMA Write2Wrote ==
  ASSUME NEW mm, Sound(mm), NEW i \in SlotIdx, NEW data, WellFormed(data)
  PROVE  Wrote(mm, i, data, WriteNested2(mm, i, data))
BY SoftwareWrote, RefusedWrote DEF WriteNested2

(* The part of a request that a Ring3Process bus refuses is never used.    *)
LEMMA RefusesRequest ==
  ASSUME NEW mm, NEW i, NEW data, NEW w, ~Accepts(mm.bus[i], data)
  PROVE  Ring3Write(mm, i, data, w) = Refused(mm)
BY DEF Ring3Write

LEMMA Write1Wrote ==
  ASSUME NEW mm, Sound(mm), NEW i \in SlotIdx, NEW data, WellFormed(data)
  PROVE  Wrote(mm, i, data, WriteNested1(mm, i, data))
<1>1. CASE mm.bus[i].kind = "Software"
  <2>1. WriteNested1(mm, i, data) = WriteSoftware(mm, i, data)
    BY <1>1 DEF WriteNested1
  <2> QED
    BY <1>1, <2>1, SoftwareWrote
<1>2. CASE mm.bus[i].kind = "Ring3Process"
  <2> DEFINE w == WriteNested2(mm, InnerSlot(data), InnerData(data))
  <2>1. WriteNested1(mm, i, data) = Ring3Write(mm, i, data, w)
    BY <1>2 DEF WriteNested1
  <2>2. CASE Accepts(mm.bus[i], data)
    <3>1. InnerSlot(data) \in SlotIdx => Wrote(mm, InnerSlot(data), InnerData(data), w)
      BY <2>2, InnerParts, Write2Wrote
    <3> HIDE DEF w
    <3> QED
      BY <1>2, <2>1, <3>1, Ring3Wrote
  <2>3. CASE ~Accepts(mm.bus[i], data)
    BY <2>1, <2>3, RefusesRequest, RefusedWrote
  <2> QED
    BY <2>2, <2>3
<1>3. CASE mm.bus[i].kind \notin {"Software", "Ring3Process"}
  <2>1. WriteNested1(mm, i, data) = Refused(mm)
    BY <1>3 DEF WriteNested1
  <2> QED
    BY <2>1, RefusedWrote
<1> QED
  BY <1>1, <1>2, <1>3

(* BusInstance::write on any slot, with any requests inside requests.      *)
LEMMA WriteWrote ==
  ASSUME NEW mm, Sound(mm), NEW i \in SlotIdx, NEW data, WellFormed(data)
  PROVE  Wrote(mm, i, data, BusWrite(mm, i, data))
<1>1. CASE mm.bus[i].kind = "Software"
  <2>1. BusWrite(mm, i, data) = WriteSoftware(mm, i, data)
    BY <1>1 DEF BusWrite
  <2> QED
    BY <1>1, <2>1, SoftwareWrote
<1>2. CASE mm.bus[i].kind = "Ring3Process"
  <2> DEFINE w == WriteNested1(mm, InnerSlot(data), InnerData(data))
  <2>1. BusWrite(mm, i, data) = Ring3Write(mm, i, data, w)
    BY <1>2 DEF BusWrite
  <2>2. CASE Accepts(mm.bus[i], data)
    <3>1. InnerSlot(data) \in SlotIdx => Wrote(mm, InnerSlot(data), InnerData(data), w)
      BY <2>2, InnerParts, Write1Wrote
    <3> HIDE DEF w
    <3> QED
      BY <1>2, <2>1, <3>1, Ring3Wrote
  <2>3. CASE ~Accepts(mm.bus[i], data)
    BY <2>1, <2>3, RefusesRequest, RefusedWrote
  <2> QED
    BY <2>2, <2>3
<1>3. CASE mm.bus[i].kind \notin {"Software", "Ring3Process"}
  <2>1. BusWrite(mm, i, data) = Refused(mm)
    BY <1>3 DEF BusWrite
  <2> QED
    BY <2>1, RefusedWrote
<1> QED
  BY <1>1, <1>2, <1>3
-----------------------------------------------------------------------------
(* Windows of sequences, and what a relay moves.                           *)

(* The cells of s from p + 1 to q.                                         *)
LEMMA Window ==
  ASSUME NEW S, NEW s \in Seq(S), NEW p \in 0 .. Len(s), NEW q \in p .. Len(s)
  PROVE  /\ SubSeq(s, p + 1, q) \in Seq(S)
         /\ Len(SubSeq(s, p + 1, q)) = q - p
         /\ \A i \in 1 .. q - p : SubSeq(s, p + 1, q)[i] = s[p + i]
<1> DEFINE m == p + 1
<1>1. m \in Int /\ q \in Int /\ p \in Int /\ Len(s) \in Nat /\ p <= q
  OBVIOUS
<1>2. \A i \in m .. q : s[i] \in S
  OBVIOUS
<1>3. q - m + 1 = q - p /\ \A i \in Int : m + i - 1 = p + i
  OBVIOUS
<1> HIDE DEF m
<1>4. /\ SubSeq(s, m, q) \in Seq(S)
      /\ Len(SubSeq(s, m, q)) = IF m <= q THEN q - m + 1 ELSE 0
      /\ \A i \in 1 .. q - m + 1 : SubSeq(s, m, q)[i] = s[m + i - 1]
  BY <1>1, <1>2
<1>5. Len(SubSeq(s, m, q)) = q - p
  BY <1>1, <1>3, <1>4 DEF m
<1>6. ASSUME NEW i \in 1 .. q - p PROVE SubSeq(s, m, q)[i] = s[p + i]
  <2>1. i \in 1 .. q - m + 1 /\ m + i - 1 = p + i
    BY <1>1, <1>3
  <2> QED
    BY <1>4, <2>1, Zenon
<1> QED
  BY <1>4, <1>5, <1>6 DEF m

(* Appending to a sequence appends to its last window.                     *)
LEMMA WindowConcat ==
  ASSUME NEW S, NEW s \in Seq(S), NEW d \in Seq(S), NEW p \in 0 .. Len(s)
  PROVE  SubSeq(s \o d, p + 1, Len(s \o d)) = SubSeq(s, p + 1, Len(s)) \o d
<1> DEFINE t == s \o d
           w == SubSeq(s, p + 1, Len(s))
<1>1. Len(s) \in Nat /\ Len(d) \in Nat /\ p \in Nat /\ Len(s) \in p .. Len(s)
  OBVIOUS
<1>2. /\ t \in Seq(S) /\ Len(t) = Len(s) + Len(d)
      /\ \A i \in 1 .. Len(s) + Len(d) :
           t[i] = IF i <= Len(s) THEN s[i] ELSE d[i - Len(s)]
  OBVIOUS
<1>3. /\ w \in Seq(S) /\ Len(w) = Len(s) - p
      /\ \A i \in 1 .. Len(s) - p : w[i] = s[p + i]
  BY <1>1, Window
<1> HIDE DEF t, w
<1>4. p \in 0 .. Len(t) /\ Len(t) \in p .. Len(t) /\ Len(w) \in Nat
  BY <1>1, <1>2, <1>3
<1>5. /\ SubSeq(t, p + 1, Len(t)) \in Seq(S)
      /\ Len(SubSeq(t, p + 1, Len(t))) = Len(t) - p
      /\ \A i \in 1 .. Len(t) - p : SubSeq(t, p + 1, Len(t))[i] = t[p + i]
  <2>1. t \in Seq(S)
    BY <1>2
  <2> QED
    BY <1>4, <2>1, Window
<1>6. /\ w \o d \in Seq(S) /\ Len(w \o d) = Len(w) + Len(d)
      /\ \A i \in 1 .. Len(w) + Len(d) :
           (w \o d)[i] = IF i <= Len(w) THEN w[i] ELSE d[i - Len(w)]
  BY <1>3, Concat, Zenon
<1>7. Len(t) - p = Len(w) + Len(d)
  BY <1>1, <1>2, <1>3
<1>8. ASSUME NEW i \in 1 .. Len(t) - p
      PROVE  t[p + i] = (w \o d)[i]
  <2>1. p + i \in 1 .. Len(s) + Len(d) /\ i \in 1 .. Len(w) + Len(d)
        /\ (p + i <= Len(s) <=> i <= Len(w)) /\ (p + i) - Len(s) = i - Len(w)
    BY <1>1, <1>2, <1>3, <1>7
  <2>2. CASE i <= Len(w)
    BY <1>2, <1>3, <1>6, <2>1, <2>2
  <2>3. CASE ~(i <= Len(w))
    BY <1>2, <1>6, <2>1, <2>3
  <2> QED
    BY <2>2, <2>3, Zenon
<1>9. SubSeq(t, p + 1, Len(t)) = w \o d
  BY <1>5, <1>6, <1>7, <1>8, SeqEqual, Zenon
<1> QED
  BY <1>9, Zenon DEF t, w

(* What a read takes is the front of what was unread.                      *)
LEMMA ReadSplit ==
  ASSUME NEW b, BusShape(b), Contents(b), b.kind = "Software", NEW n \in Nat,
         BusRead(b, n).ok
  PROVE  /\ Unread(b) = BusRead(b, n).data \o Unread(BusRead(b, n).bus)
         /\ BusRead(b, n).bus.role = b.role
<1> DEFINE k == Lesser(SatSub(Len(b.ring), b.read_pos), n)
           p == b.read_pos
           L == Len(b.ring)
<1>0. L \in Nat /\ p \in Nat /\ p <= L
  BY WellFormedLen DEF Contents
<1>1. BusRead(b, n) = Ok([b EXCEPT !.read_pos = p + k], k, SubSeq(b.ring, p + 1, p + k))
  BY DEF BusRead, SoftwareRead, Err
<1>2. k \in Nat /\ p + k <= L
  BY <1>0 DEF Lesser, SatSub
<1> HIDE DEF k
<1> DEFINE c == [b EXCEPT !.read_pos = p + k]
<1>3. c.ring = b.ring /\ c.read_pos = p + k /\ c.role = b.role
  BY DEF BusShape, BusFields
<1>4. BusRead(b, n).bus = c /\ BusRead(b, n).data = SubSeq(b.ring, p + 1, p + k)
  <2> DEFINE e == SubSeq(b.ring, p + 1, p + k)
  <2>1. BusRead(b, n) = Ok(c, k, e)
    BY <1>1
  <2> HIDE DEF e, c
  <2>2. Ok(c, k, e).bus = c /\ Ok(c, k, e).data = e
    BY DEF Ok
  <2>3. BusRead(b, n).bus = c /\ BusRead(b, n).data = e
    BY <2>1, <2>2
  <2> QED
    BY <2>3 DEF e
<1> HIDE DEF c
<1>5. PICK S : b.ring \in Seq(S)
  BY WellFormedOver DEF Contents
<1> DEFINE q == p + k
           a == p + 1
<1>6. a \in 1 .. L + 1 /\ q \in a - 1 .. L /\ L \in q .. L
  BY <1>0, <1>2
<1> HIDE DEF q, a
<1>7. SubSeq(b.ring, a, q) \o SubSeq(b.ring, q + 1, L) = SubSeq(b.ring, a, L)
  BY <1>5, <1>6, ConcatAdjacent, Zenon
<1> QED
  BY <1>3, <1>4, <1>7, Zenon DEF Unread, q, a

(* An Echo bus takes data behind what is unread.                           *)
LEMMA EchoAppends ==
  ASSUME NEW b, BusShape(b), Contents(b), b.role = "Echo",
         NEW data, WellFormed(data), SoftwareWrite(b, data).ok
  PROVE  Unread(SoftwareWrite(b, data).bus) = Unread(b) \o data
<1> DEFINE c == [b EXCEPT !.ring = b.ring \o data]
<1>1. SoftwareWrite(b, data).bus = c
  BY DEF SoftwareWrite, EchoWrite, Err, Ok
<1>2. c.ring = b.ring \o data /\ c.read_pos = b.read_pos
  BY DEF BusShape, BusFields
<1> HIDE DEF c
<1>3. PICK S : b.ring \in Seq(S)
  BY WellFormedOver DEF Contents
<1>4. PICK T : data \in Seq(T)
  BY WellFormedOver
<1>5. b.ring \in Seq(S \cup T) /\ data \in Seq(S \cup T)
  BY <1>3, <1>4
<1>6. b.read_pos \in 0 .. Len(b.ring)
  BY DEF Contents
<1>7. SubSeq(b.ring \o data, b.read_pos + 1, Len(b.ring \o data))
        = SubSeq(b.ring, b.read_pos + 1, Len(b.ring)) \o data
  BY <1>5, <1>6, WindowConcat, Zenon
<1> QED
  BY <1>1, <1>2, <1>7, Zenon DEF Unread

(* A response frame is no request: nobody's response changes when it is    *)
(* written.                                                                *)
LEMMA ResponseIsNoRequest ==
  ASSUME NEW mm, Sound(mm), NEW i \in SlotIdx, NEW data, WellFormed(data),
         data[1][1][1] = "rsp"
  PROVE  \A j \in SlotIdx : BusWrite(mm, i, data).bus[j].response = mm.bus[j].response
<1>1. CASE mm.bus[i].kind = "Software"
  <2> DEFINE c == SoftwareWrite(mm.bus[i], data).bus
  <2>1. BusWrite(mm, i, data).bus = [mm.bus EXCEPT ![i] = c]
    BY <1>1 DEF BusWrite, WriteSoftware
  <2>2. BusShape(mm.bus[i]) /\ Contents(mm.bus[i]) /\ DOMAIN mm.bus = SlotIdx
    BY DEF Sound, Machine, Buses
  <2>3. c.response = mm.bus[i].response
    BY <2>2, SoftwareWriteContents
  <2> HIDE DEF c
  <2> QED
    BY <2>1, <2>2, <2>3
<1>2. CASE mm.bus[i].kind # "Software"
  <2>1. ~Accepts(mm.bus[i], data)
    BY DEF Accepts, Starts
  <2>2. BusWrite(mm, i, data) = Refused(mm)
    BY <1>2, <2>1, RefusesRequest DEF BusWrite
  <2> QED
    BY <2>2 DEF Refused
<1> QED
  BY <1>1, <1>2

-----------------------------------------------------------------------------
(* What a call c that takes the machine m, or the buses A, to B does.      *)

AuthorisedBy(m, B, c) ==
  \A i \in SlotIdx : B[i] # m.bus[i] =>
    \E cap \in Carried(c) : cap.slot = i /\ cap.token = m.slots[i].token

DeliveredBy(A, B, c) ==
  \A i \in SlotIdx :
    A[i].response # <<>> /\ B[i].response # A[i].response =>
      /\ B[i].response = <<>>
      /\ \/ /\ c.op \in {"read", "relay"}
            /\ c.caps[1].slot = i
            /\ c.data = A[i].response
         \/ c.op = "detach"

AnsweredBy(A, B, c) ==
  /\ c.op \in {"write", "relay"} /\ c.rax = "Ok" =>
       LET i == c.caps[Len(c.caps)].slot IN
       A[i].kind = "Ring3Process" =>
         /\ B[i].response # <<>>
         /\ B[i].response[1][1][3] = c.data[1][1][3]
         /\ B[i].response[1][1][2] \in {c.data[1][1][2], "Error"}
  /\ \A i \in SlotIdx : B[i].response \notin {<<>>, A[i].response} =>
       \E k \in DOMAIN c.data :
         /\ c.data[k][1][1] = "req"
         /\ c.data[k][1][3] = B[i].response[1][1][3]

MovedBy(A, B, c) ==
  c.op = "relay" /\ c.rax = "Ok" =>
    LET s == c.caps[1].slot
        d == c.caps[2].slot
    IN  /\ A[s].kind = "Ring3Process" /\ s # d =>
              A[s].response = c.data /\ B[s].response = <<>>
        /\ A[s].kind = "Software" /\ s \notin {d} \cup {cap.slot : cap \in Inside(c.data)} =>
              Unread(A[s]) = c.data \o Unread(B[s])
        /\ A[d].kind = "Software" /\ A[d].role = "Echo" =>
              IF s # d THEN Unread(B[d]) = Unread(A[d]) \o c.data
              ELSE c.data \o Unread(B[d]) = Unread(A[d]) \o c.data

CallKept(m, B, R, c) ==
  /\ RingOK(R) /\ \A i \in SlotIdx : Contents(B[i])
  /\ AuthorisedBy(m, B, c) /\ DeliveredBy(m.bus, B, c) /\ AnsweredBy(m.bus, B, c)

(* A read.                                                                 *)
LEMMA ReadCall ==
  ASSUME NEW m, Sound(m), NEW cap, cap.slot \in SlotIdx,
         cap.token = m.slots[cap.slot].token, NEW n \in Nat, NEW r,
         r = BusRead(m.bus[cap.slot], n), NEW c, c.op = "read", c.data = r.data,
         c.caps = <<cap>>
  PROVE  CallKept(m, [m.bus EXCEPT ![cap.slot] = r.bus], m.ring, c)
<1> DEFINE i == cap.slot
           B == [m.bus EXCEPT ![i] = r.bus]
<1>1. /\ BusShape(m.bus[i]) /\ Contents(m.bus[i])
      /\ IsFcn(m.bus) /\ DOMAIN m.bus = SlotIdx
  BY DEF Sound, Machine, Buses
<1>2. /\ Contents(r.bus) /\ r.bus.response \in {m.bus[i].response, <<>>}
      /\ r.bus.response # m.bus[i].response => r.data = m.bus[i].response
  BY <1>1, ReadContents
<1>3. \A j \in SlotIdx : B[j] = IF j = i THEN r.bus ELSE m.bus[j]
  BY <1>1
<1>4. cap \in Carried(c) /\ c.caps[1] = cap
  BY DEF Carried
<1> HIDE DEF B
<1>5. RingOK(m.ring) /\ \A j \in SlotIdx : Contents(B[j])
  BY <1>2, <1>3 DEF Sound
<1>6. AuthorisedBy(m, B, c)
  BY <1>3, <1>4 DEF AuthorisedBy
<1>7. DeliveredBy(m.bus, B, c)
  BY <1>2, <1>3, <1>4 DEF DeliveredBy
<1>8. AnsweredBy(m.bus, B, c)
  BY <1>2, <1>3, Zenon DEF AnsweredBy
<1>9. CallKept(m, B, m.ring, c)
  BY <1>5, <1>6, <1>7, <1>8 DEF CallKept
<1> QED
  BY <1>9 DEF B

(* A write to slot i of mm, which is m, or m after the read of a relay.    *)
Entitled(m, mm, i, c) ==
  \A j \in SlotIdx : j = i \/ mm.bus[j] # m.bus[j] =>
    \E cap \in Carried(c) : cap.slot = j /\ cap.token = m.slots[j].token

TookResponse(m, mm, B, c) ==
  \A j \in SlotIdx : mm.bus[j].response # m.bus[j].response =>
    /\ mm.bus[j].response = <<>> /\ B[j].response = <<>>
    /\ c.op = "relay" /\ c.caps[1].slot = j
    /\ c.data = m.bus[j].response

Reported(i, data, w, c) ==
  /\ c.op \in {"write", "relay"} /\ c.data = data
  /\ c.caps[Len(c.caps)].slot = i
  /\ c.rax = "Ok" => w.ok

LEMMA WroteCall ==
  ASSUME NEW m, NEW mm, mm.slots = m.slots, NEW i \in SlotIdx, NEW data, NEW w, NEW c,
         Wrote(mm, i, data, w), Reported(i, data, w, c), mm.bus[i].kind = m.bus[i].kind,
         Entitled(m, mm, i, c), TookResponse(m, mm, w.bus, c)
  PROVE  CallKept(m, w.bus, w.ring, c)
<1> DEFINE B == w.bus
<1>1. RingOK(w.ring) /\ \A j \in SlotIdx : Change(mm, i, data, j, B[j])
  BY DEF Wrote
<1>2. \A j \in SlotIdx : Contents(B[j])
  BY <1>1 DEF Change
<1>3. Inside(data) \subseteq Carried(c)
  BY DEF Carried, Reported
<1>4. AuthorisedBy(m, B, c)
  <2> SUFFICES ASSUME NEW j \in SlotIdx, B[j] # m.bus[j]
               PROVE  \E cap \in Carried(c) : cap.slot = j /\ cap.token = m.slots[j].token
    BY DEF AuthorisedBy
  <2>1. j = i \/ mm.bus[j] # m.bus[j] \/ Carries(m.slots, data, j)
    BY <1>1 DEF Change
  <2> QED
    BY <1>3, <2>1 DEF Carries, Entitled
<1>5. DeliveredBy(m.bus, B, c)
  <2> SUFFICES ASSUME NEW j \in SlotIdx, m.bus[j].response # <<>>,
                      B[j].response # m.bus[j].response
               PROVE  /\ B[j].response = <<>>
                      /\ c.op = "relay" /\ c.caps[1].slot = j
                      /\ c.data = m.bus[j].response
    BY DEF DeliveredBy
  <2>1. mm.bus[j].response # m.bus[j].response
    BY <1>1 DEF Change
  <2> QED
    BY <2>1 DEF TookResponse
<1>6. AnsweredBy(m.bus, B, c)
  <2>1. ASSUME NEW j \in SlotIdx, B[j].response \notin {<<>>, m.bus[j].response}
        PROVE  Asked(data, B[j].response[1][1][3])
    BY <1>1, <2>1 DEF Change, TookResponse
  <2>2. ASSUME c.rax = "Ok", m.bus[i].kind = "Ring3Process"
        PROVE  Answers(B[i].response, data[1][1])
    BY <2>2 DEF Wrote, Reported
  <2> QED
    BY <2>1, <2>2, Zenon DEF AnsweredBy, Asked, Answers, Reported
<1> QED
  BY <1>1, <1>2, <1>4, <1>5, <1>6 DEF CallKept

LEMMA WriteCall ==
  ASSUME NEW m, Sound(m), NEW cap, cap.slot \in SlotIdx,
         cap.token = m.slots[cap.slot].token, NEW data, WellFormed(data), NEW w,
         w = BusWrite(m, cap.slot, data), NEW c, c.op = "write", c.data = data,
         c.caps = <<cap>>, c.rax = "Ok" => w.ok
  PROVE  CallKept(m, w.bus, w.ring, c)
<1> DEFINE i == cap.slot
<1>1. Wrote(m, i, data, w)
  BY WriteWrote
<1>2. cap \in Carried(c) /\ c.caps[Len(c.caps)] = cap
  BY DEF Carried
<1>3. Reported(i, data, w, c) /\ Entitled(m, m, i, c) /\ TookResponse(m, m, w.bus, c)
  BY <1>2 DEF Reported, Entitled, TookResponse
<1> HIDE DEF i
<1>4. i \in SlotIdx
  BY DEF i
<1> QED
  BY <1>1, <1>3, <1>4, WroteCall, Zenon

(* A relay: r is what the read yields, mm the machine after it, and w what *)
(* the write does.                                                         *)
IsRelay(m, s, d, n, r, mm, w, c) ==
  /\ s.slot \in SlotIdx /\ s.token = m.slots[s.slot].token
  /\ d.slot \in SlotIdx /\ d.token = m.slots[d.slot].token
  /\ n \in Nat
  /\ r = BusRead(m.bus[s.slot], n)
  /\ mm = [m EXCEPT !.bus[s.slot] = r.bus]
  /\ w = BusWrite(mm, d.slot, r.data)
  /\ c.op = "relay" /\ c.data = r.data /\ c.caps = <<s, d>>

Put(B, i, b) == [B EXCEPT ![i] = b]

LEMMA RelaySound ==
  ASSUME NEW m, Sound(m), NEW src, NEW dst, NEW n, NEW r, NEW mm, NEW w, NEW c,
         IsRelay(m, src, dst, n, r, mm, w, c)
  PROVE  /\ Sound(mm) /\ mm.slots = m.slots /\ mm.ring = m.ring
         /\ mm.bus = Put(m.bus, src.slot, r.bus)
<1> DEFINE s == src.slot
<1>1. s \in SlotIdx /\ n \in Nat /\ r = BusRead(m.bus[s], n)
  BY DEF IsRelay
<1>2. BusShape(m.bus[s]) /\ Contents(m.bus[s]) /\ Buses(m.bus)
  BY <1>1 DEF Sound, Machine, Buses
<1>3. Keeps(m.bus[s], r.bus) /\ Contents(r.bus)
  BY <1>1, <1>2, ReadKeeps, ReadContents
<1>4. /\ mm.slots = m.slots /\ mm.ring = m.ring /\ DOMAIN mm = {"slots", "bus", "ring"}
      /\ mm.bus = [m.bus EXCEPT ![s] = r.bus]
  BY DEF IsRelay, Sound, Machine
<1> HIDE DEF s
<1>5. AllKept(m.bus, [m.bus EXCEPT ![s] = r.bus])
  BY <1>1, <1>2, <1>3, AllKeptOne, Zenon
<1>6. \A j \in SlotIdx : Contents(mm.bus[j])
  BY <1>1, <1>2, <1>3, <1>4 DEF Sound, Buses
<1>7. Sound(mm)
  BY <1>4, <1>5, <1>6 DEF Sound, Machine, AllKept
<1> QED
  BY <1>4, <1>7 DEF s, Put

LEMMA RelayCall ==
  ASSUME NEW m, Sound(m), NEW src, NEW dst, NEW n, NEW r, NEW mm, NEW w, NEW c,
         IsRelay(m, src, dst, n, r, mm, w, c)
  PROVE  /\ c.rax # "Ok" => CallKept(m, mm.bus, mm.ring, c)
         /\ (c.rax = "Ok" => w.ok) => CallKept(m, w.bus, w.ring, c)
<1>0. Sound(mm) /\ mm.slots = m.slots /\ mm.bus = Put(m.bus, src.slot, r.bus)
  BY RelaySound
<1> DEFINE s == src.slot
           d == dst.slot
<1>1. /\ s \in SlotIdx /\ src.token = m.slots[s].token
      /\ d \in SlotIdx /\ dst.token = m.slots[d].token
      /\ n \in Nat /\ r = BusRead(m.bus[s], n)
      /\ mm.bus = [m.bus EXCEPT ![s] = r.bus]
  BY <1>0 DEF IsRelay, Put
<1>2. d \in SlotIdx /\ Sound(mm)
  BY <1>0 DEF IsRelay
<1>3. w = BusWrite(mm, d, r.data)
  BY DEF IsRelay
<1>4. c.op = "relay" /\ c.data = r.data /\ c.caps = <<src, dst>>
  BY DEF IsRelay
<1>5. BusShape(m.bus[s]) /\ Contents(m.bus[s]) /\ IsFcn(m.bus) /\ DOMAIN m.bus = SlotIdx
  BY <1>1 DEF Sound, Machine, Buses
<1> DEFINE b == m.bus[s]
<1>6. /\ WellFormed(r.data) /\ r.bus.response \in {b.response, <<>>}
      /\ r.bus.response # b.response => r.data = b.response
  <2>1. BusShape(b) /\ Contents(b) /\ n \in Nat /\ r = BusRead(b, n)
    BY <1>1, <1>5
  <2> HIDE DEF s, b
  <2> QED
    BY <2>1, ReadContents
<1>7. WellFormed(r.data)
  BY <1>6
<1>8. Keeps(m.bus[s], r.bus)
  BY <1>1, <1>5, ReadKeeps
<1>9. \A j \in SlotIdx : mm.bus[j] = IF j = s THEN r.bus ELSE m.bus[j]
  BY <1>1, <1>5
<1>10. mm.bus[d].kind = m.bus[d].kind
  BY <1>1, <1>8, <1>9, Zenon DEF Keeps
<1>11. /\ src \in Carried(c) /\ dst \in Carried(c) /\ c.caps[1].slot = s
      /\ c.caps[Len(c.caps)].slot = d
  <2>1. c.caps[1] = src /\ c.caps[2] = dst /\ Len(c.caps) = 2
        /\ DOMAIN c.caps = {1, 2}
    BY <1>4
  <2> QED
    BY <2>1 DEF Carried
<1>12. Entitled(m, mm, d, c)
  BY <1>1, <1>9, <1>11 DEF Entitled
<1>13. ASSUME NEW j \in SlotIdx, mm.bus[j].response # m.bus[j].response
       PROVE  /\ j = s /\ r.data = b.response /\ mm.bus[j].response = <<>>
              /\ w.bus[j].response = <<>>
  <2>1. j = s /\ r.data = b.response /\ mm.bus[j].response = <<>> /\ b.response # <<>>
    BY <1>6, <1>9, <1>13
  <2>2. r.data[1][1][1] = "rsp"
    BY <1>5, <2>1, Zenon DEF Contents
  <2>3. w.bus[j].response = mm.bus[j].response
    <3>1. BusWrite(mm, d, r.data).bus[j].response = mm.bus[j].response
      BY <1>2, <1>7, <2>2, ResponseIsNoRequest, Zenon
    <3> QED
      BY <1>3, <3>1
  <2> QED
    BY <2>1, <2>3
<1> HIDE DEF s, d, b
<1>14. ASSUME c.rax # "Ok" PROVE CallKept(m, mm.bus, mm.ring, c)
  <2> DEFINE x == Refused(mm)
  <2>1. Wrote(mm, d, r.data, x)
    BY <1>2, RefusedWrote
  <2>2. x.bus = mm.bus /\ x.ring = mm.ring
    BY DEF Refused
  <2> HIDE DEF x
  <2>3. TookResponse(m, mm, x.bus, c)
    BY <1>4, <1>11, <1>13, <1>14, <2>2 DEF b, TookResponse
  <2>4. Reported(d, r.data, x, c)
    BY <1>4, <1>11, <1>14 DEF Reported
  <2>5. CallKept(m, x.bus, x.ring, c)
    BY <1>0, <1>2, <1>10, <1>12, <2>1, <2>3, <2>4, WroteCall, Zenon
  <2> QED
    BY <1>14, <2>2, <2>5
<1>15. ASSUME c.rax = "Ok" => w.ok PROVE CallKept(m, w.bus, w.ring, c)
  <2>1. Wrote(mm, d, r.data, w)
    <3>1. Wrote(mm, d, r.data, BusWrite(mm, d, r.data))
      BY <1>2, <1>7, WriteWrote, Zenon
    <3> QED
      BY <1>3, <3>1
  <2>2. TookResponse(m, mm, w.bus, c)
    BY <1>4, <1>11, <1>13 DEF b, TookResponse
  <2>3. Reported(d, r.data, w, c)
    BY <1>4, <1>11, <1>15 DEF Reported
  <2>4. CallKept(m, w.bus, w.ring, c)
    BY <1>0, <1>2, <1>10, <1>12, <2>1, <2>2, <2>3, WroteCall, Zenon
  <2> QED
    BY <1>15, <2>4
<1> QED
  BY <1>14, <1>15

LEMMA RelayMoves ==
  ASSUME NEW m, Sound(m), NEW src, NEW dst, NEW n, NEW r, NEW mm, NEW w, NEW c,
         IsRelay(m, src, dst, n, r, mm, w, c), NEW B
  PROVE  (c.rax = "Ok" => B = w.bus /\ r.ok /\ w.ok) => MovedBy(m.bus, B, c)
<1>15. Sound(mm) /\ mm.bus = Put(m.bus, src.slot, r.bus)
  BY RelaySound
<1>16. c.caps[1] = src /\ c.caps[2] = dst /\ c.data = r.data
  <2>1. c.caps = <<src, dst>> /\ c.data = r.data
    BY DEF IsRelay
  <2> QED
    BY <2>1
<1> DEFINE s == src.slot
           d == dst.slot
           b == m.bus[s]
<1>0. SUFFICES ASSUME c.rax = "Ok", B = w.bus, r.ok, w.ok
               PROVE  /\ b.kind = "Ring3Process" /\ s # d =>
                           b.response = r.data /\ B[s].response = <<>>
                      /\ b.kind = "Software" /\ s \notin {d} \cup {cap.slot : cap \in Inside(r.data)} =>
                           Unread(b) = r.data \o Unread(B[s])
                      /\ m.bus[d].kind = "Software" /\ m.bus[d].role = "Echo" =>
                           IF s # d THEN Unread(B[d]) = Unread(m.bus[d]) \o r.data
                           ELSE r.data \o Unread(B[d]) = Unread(m.bus[d]) \o r.data
  <2>1. c.caps[1].slot = s /\ c.caps[2].slot = d /\ c.data = r.data
    BY <1>16, Zenon
  <2> HIDE DEF s, d
  <2> QED
    BY <2>1, Zenon DEF MovedBy
<1>1. /\ s \in SlotIdx /\ d \in SlotIdx /\ n \in Nat /\ r = BusRead(b, n)
      /\ mm.bus = [m.bus EXCEPT ![s] = r.bus]
  BY <1>15 DEF IsRelay, Put
<1>2. d \in SlotIdx /\ Sound(mm)
  BY <1>15 DEF IsRelay, Put
<1>3. w = BusWrite(mm, d, r.data) /\ B = w.bus
  BY <1>0 DEF IsRelay
<1>4. s \in SlotIdx /\ r.ok /\ w.ok
  BY <1>0 DEF IsRelay
<1>5. BusShape(b) /\ Contents(b) /\ DOMAIN m.bus = SlotIdx
  BY <1>1 DEF Sound, Machine, Buses
<1>6. r.ok /\ b.kind = "Ring3Process" =>
        r.data = b.response /\ r.bus.response = <<>> /\ b.response # <<>>
  BY <1>1, <1>5, ReadContents, Zenon
<1>7. WellFormed(r.data) /\ Keeps(b, r.bus)
  BY <1>1, <1>5, ReadContents, ReadKeeps, Zenon
<1>8. BusWrite(mm, d, r.data) = w
  BY <1>3
<1>9. WellFormed(r.data)
  BY <1>7
<1>10. \A j \in SlotIdx : mm.bus[j] = IF j = s THEN r.bus ELSE m.bus[j]
  BY <1>1, <1>5
<1>11. b.kind = "Software" => Unread(b) = r.data \o Unread(r.bus) /\ r.bus.role = b.role
  <2>1. CASE b.kind = "Software"
    <3> HIDE DEF b
    <3>1. /\ Unread(b) = BusRead(b, n).data \o Unread(BusRead(b, n).bus)
          /\ BusRead(b, n).bus.role = b.role
      <4>1. n \in Nat /\ BusRead(b, n).ok
        BY <1>1, <1>4
      <4> QED
        BY <1>5, <2>1, <4>1, ReadSplit, Zenon
    <3>2. BusRead(b, n) = r
      BY <1>1
    <3> QED
      BY <3>1, <3>2, Zenon
  <2> QED
    BY <2>1, Zenon
<1> HIDE DEF s, d, b
<1>12. ASSUME b.kind = "Ring3Process"
      PROVE  b.response = r.data /\ B[s].response = <<>>
  <2>1. r.data = b.response /\ r.bus.response = <<>> /\ b.response # <<>>
    BY <1>4, <1>6, <1>12, Zenon
  <2>2. r.data[1][1][1] = "rsp"
    BY <1>5, <2>1 DEF Contents
  <2>3. B[s].response = mm.bus[s].response
    <3>1. BusWrite(mm, d, r.data).bus[s].response = mm.bus[s].response
      <4>1. s \in SlotIdx
        BY <1>4
      <4> QED
        BY <1>2, <1>9, <2>2, <4>1, ResponseIsNoRequest, Zenon
    <3> QED
      BY <1>3, <3>1
  <2> QED
    BY <1>4, <1>10, <2>1, <2>3
<1>13. ASSUME b.kind = "Software", s \notin {d} \cup {cap.slot : cap \in Inside(r.data)}
      PROVE  Unread(b) = r.data \o Unread(B[s])
  <2>1. Wrote(mm, d, r.data, w)
    <3>1. Wrote(mm, d, r.data, BusWrite(mm, d, r.data))
      BY <1>2, <1>7, WriteWrote, Zenon
    <3> QED
      BY <1>3, <3>1
  <2>2. Change(mm, d, r.data, s, B[s])
    BY <1>3, <1>4, <2>1, Zenon DEF Wrote
  <2>3. ~Carries(mm.slots, r.data, s) /\ s # d
    BY <1>13 DEF Carries
  <2>4. B[s] = r.bus
    BY <1>4, <1>10, <2>2, <2>3 DEF Change
  <2> QED
    BY <1>11, <1>13, <2>4, Zenon
<1>14. ASSUME m.bus[d].kind = "Software", m.bus[d].role = "Echo"
       PROVE  IF s # d THEN Unread(B[d]) = Unread(m.bus[d]) \o r.data
              ELSE r.data \o Unread(B[d]) = Unread(m.bus[d]) \o r.data
  <2> DEFINE e == mm.bus[d]
  <2>1. BusShape(e) /\ Contents(e) /\ DOMAIN mm.bus = SlotIdx
    BY <1>2 DEF Sound, Machine, Buses
  <2>2. e.kind = "Software" /\ e.role = "Echo"
    BY <1>2, <1>7, <1>10, <1>11, <1>14, Zenon DEF Keeps, b
  <2>3. w = WriteSoftware(mm, d, r.data)
    BY <1>8, <2>2 DEF BusWrite
  <2>4. w.ok = SoftwareWrite(e, r.data).ok /\ w.bus[d] = SoftwareWrite(e, r.data).bus
    <3> DEFINE x == SoftwareWrite(mm.bus[d], r.data)
    <3>1. w.ok = x.ok /\ w.bus = [mm.bus EXCEPT ![d] = x.bus]
      BY <2>3 DEF WriteSoftware
    <3> HIDE DEF x
    <3>2. w.bus[d] = x.bus
      BY <1>2, <2>1, <3>1
    <3> QED
      BY <3>1, <3>2 DEF x
  <2>5. Unread(B[d]) = Unread(e) \o r.data
    <3>1. Unread(SoftwareWrite(e, r.data).bus) = Unread(e) \o r.data
      <4>1. SoftwareWrite(e, r.data).ok
        BY <1>4, <2>4
      <4> HIDE DEF e
      <4> QED
        BY <1>7, <2>1, <2>2, <4>1, EchoAppends, Zenon
    <3> QED
      BY <1>3, <2>4, <3>1, Zenon
  <2>6. CASE s # d
    BY <1>2, <1>10, <2>5, <2>6, Zenon
  <2>7. CASE s = d
    <3>1. e = r.bus /\ Unread(m.bus[d]) = r.data \o Unread(e)
      BY <1>4, <1>10, <1>11, <1>14, <2>7, Zenon DEF b
    <3>2. PICK S : r.data \in Seq(S)
      BY <1>7, WellFormedOver
    <3>3. PICK T : e.ring \in Seq(T)
      BY <2>1, WellFormedOver DEF Contents
    <3>4. e.read_pos \in 0 .. Len(e.ring)
      BY <2>1 DEF Contents
    <3> HIDE DEF e
    <3>5. Unread(e) \in Seq(T)
      <4>1. Len(e.ring) \in e.read_pos .. Len(e.ring)
        BY <3>3, <3>4
      <4> QED
        BY <3>3, <3>4, <4>1, Window DEF Unread
    <3>6. r.data \in Seq(S \cup T) /\ Unread(e) \in Seq(S \cup T)
      BY <3>2, <3>5
    <3>7. (r.data \o Unread(e)) \o r.data = r.data \o (Unread(e) \o r.data)
      BY <3>6, ConcatAssociative
    <3> QED
      BY <2>5, <2>7, <3>1, <3>7
  <2> QED
    BY <2>6, <2>7, Zenon
<1> QED
  BY <1>12, <1>13, <1>14, Zenon
=============================================================================
