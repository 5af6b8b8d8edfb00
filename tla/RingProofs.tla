----------------------------- MODULE RingProofs -----------------------------
(***************************************************************************)
(* The two rings of the kernel, each shown to implement its abstraction.   *)
(*                                                                         *)
(* SoftwareBus for every ring size, every counter limit and all data: no   *)
(* (key, nonce) pair is used twice, and the ring implements Channel.       *)
(*                                                                         *)
(* AuditTrail for every capacity that divides the counter's modulus: the   *)
(* ring implements AuditLog.                                               *)
(***************************************************************************)
EXTENDS SoftwareBus, AuditTrail, SequenceTheorems, TLAPS

-----------------------------------------------------------------------------
(* SoftwareBus.                                                            *)

DataCell == UNION {{data[i] : i \in DOMAIN data} : data \in Data}
Cell ==
  DataCell \cup {<< <<"digest">>, i>> : i \in Nat}
    \cup {<< <<"sealed", k, n>>, i>> : k \in Nat, n \in Nat, i \in Nat}

(* What a bus holds between calls.                                         *)
BusOK(b) ==
  /\ DOMAIN b = {"kind", "open_state", "role", "ring", "read_pos", "key",
                 "nonce_counter", "endpoint", "response"}
  /\ b.kind = "Software"
  /\ b.open_state \in BOOLEAN
  /\ b.role \in {"Echo", "Blake3", "AesGcm"}
  /\ b.ring \in Seq(Cell)
  /\ Len(b.ring) <= SW_BUS_BUF
  /\ b.read_pos \in 0 .. Len(b.ring)
  /\ b.key \in Nat
  /\ b.key # 0 <=> b.role = "AesGcm"
  /\ b.nonce_counter \in 0 .. NONCE_MAX
  /\ ~b.open_state => b.ring = <<>>

(* Keys are numbered in the order they are drawn, so no key of the past is *)
(* drawn again; under the present key all nonces up to the counter may be  *)
(* used up, and none beyond.                                               *)
SealInv ==
  /\ seals \in Seq(Nat \X Nat)
  /\ \A i \in 1 .. Len(seals) :
       /\ seals[i][1] \in 1 .. drawn /\ seals[i][2] \in Nat
       /\ seals[i][1] = bus.key => seals[i][2] <= bus.nonce_counter

BusIInv ==
  /\ BusOK(bus)
  /\ bus.key <= drawn
  /\ drawn \in 0 .. MaxKeys
  /\ SealInv
  /\ NonceNeverReused

-----------------------------------------------------------------------------
(* What the operations of the driver do to a bus.                          *)

LEMMA DataSeq == \A data \in Data : data \in Seq(Cell)
<1> SUFFICES ASSUME NEW data \in Data PROVE data \in Seq(Cell)
  OBVIOUS
<1> DEFINE S == {data[i] : i \in DOMAIN data}
<1>1. data \in Seq(S)
  BY SoftwareBusAssumption
<1>2. S \subseteq Cell
  <2> DEFINE T == {{d[i] : i \in DOMAIN d} : d \in Data}
  <2>1. S \in T
    OBVIOUS
  <2>2. DataCell = UNION T
    BY DEF DataCell
  <2>3. DataCell \subseteq Cell
    BY DEF Cell
  <2> HIDE DEF S, T
  <2> QED
    BY <2>1, <2>2, <2>3
<1> HIDE DEF S
<1> QED
  BY <1>1, <1>2, SeqMonotonic

(* The cells of s from p + 1 to q.                                         *)
LEMMA Slice ==
  ASSUME NEW S, NEW s \in Seq(S), NEW p \in 0 .. Len(s), NEW q \in p .. Len(s)
  PROVE  /\ SubSeq(s, p + 1, q) \in Seq(S)
         /\ Len(SubSeq(s, p + 1, q)) = q - p
         /\ \A i \in 1 .. q - p : SubSeq(s, p + 1, q)[i] = s[p + i]
<1> DEFINE m == p + 1
<1>1. m \in Int /\ q \in Int /\ p \in Int /\ Len(s) \in Nat /\ p <= q
  OBVIOUS
<1>2. \A i \in m .. q : s[i] \in S
  OBVIOUS
<1>3. q - m + 1 = q - p /\ \A i \in Int : m + i - 1 = p + i
  OBVIOUS
<1> HIDE DEF m
<1>4. /\ SubSeq(s, m, q) \in Seq(S)
      /\ Len(SubSeq(s, m, q)) = IF m <= q THEN q - m + 1 ELSE 0
      /\ \A i \in 1 .. q - m + 1 : SubSeq(s, m, q)[i] = s[m + i - 1]
  BY <1>1, <1>2, SubSeqProperties
<1>5. Len(SubSeq(s, m, q)) = q - p
  BY <1>1, <1>3, <1>4 DEF m
<1>6. ASSUME NEW i \in 1 .. q - p PROVE SubSeq(s, m, q)[i] = s[p + i]
  <2>1. i \in 1 .. q - m + 1 /\ m + i - 1 = p + i
    BY <1>1, <1>3
  <2> QED
    BY <1>4, <2>1, Zenon
<1> QED
  BY <1>4, <1>5, <1>6 DEF m

(* Reading n cells of a window moves its lower end by n.                   *)
LEMMA WindowSplit ==
  ASSUME NEW S, NEW s \in Seq(S), NEW p \in 0 .. Len(s),
         NEW n \in 0 .. Len(s) - p
  PROVE  LET w == SubSeq(s, p + 1, Len(s)) IN
         /\ SubSeq(w, 1, n) = SubSeq(s, p + 1, p + n)
         /\ SubSeq(w, n + 1, Len(w)) = SubSeq(s, p + n + 1, Len(s))
<1> DEFINE w == SubSeq(s, p + 1, Len(s))
           q == p + n
<1>1. Len(s) \in Nat /\ p \in Nat /\ n \in Nat /\ q \in Nat
      /\ q \in p .. Len(s) /\ q \in 0 .. Len(s) /\ Len(s) \in p .. Len(s)
      /\ Len(s) \in q .. Len(s) /\ q - p = n
  OBVIOUS
<1>2. /\ w \in Seq(S) /\ Len(w) = Len(s) - p
      /\ \A i \in 1 .. Len(s) - p : w[i] = s[p + i]
  BY <1>1, Slice
<1>3. 0 \in 0 .. Len(w) /\ n \in 0 .. Len(w) /\ Len(w) \in n .. Len(w)
  BY <1>1, <1>2
<1> HIDE DEF w, q
<1>4. /\ SubSeq(w, 1, n) \in Seq(S) /\ Len(SubSeq(w, 1, n)) = n
      /\ \A i \in 1 .. n : SubSeq(w, 1, n)[i] = w[i]
  <2>1. \A i \in 1 .. n : w[i] \in S
    BY <1>2, <1>3
  <2>2. 1 \in Int /\ n \in Int /\ n - 1 + 1 = n
        /\ \A i \in Int : 1 + i - 1 = i
    BY <1>1
  <2> QED
    BY <1>1, <2>1, <2>2, SubSeqProperties
<1>5. /\ SubSeq(w, n + 1, Len(w)) \in Seq(S)
      /\ Len(SubSeq(w, n + 1, Len(w))) = Len(w) - n
      /\ \A i \in 1 .. Len(w) - n : SubSeq(w, n + 1, Len(w))[i] = w[n + i]
  BY <1>2, <1>3, Slice
<1>6. /\ SubSeq(s, p + 1, q) \in Seq(S) /\ Len(SubSeq(s, p + 1, q)) = n
      /\ \A i \in 1 .. n : SubSeq(s, p + 1, q)[i] = s[p + i]
  BY <1>1, Slice
<1>7. /\ SubSeq(s, q + 1, Len(s)) \in Seq(S)
      /\ Len(SubSeq(s, q + 1, Len(s))) = Len(s) - q
      /\ \A i \in 1 .. Len(s) - q : SubSeq(s, q + 1, Len(s))[i] = s[q + i]
  BY <1>1, Slice
<1>8. SubSeq(w, 1, n) = SubSeq(s, p + 1, q)
  <2>1. \A i \in 1 .. n : SubSeq(w, 1, n)[i] = SubSeq(s, p + 1, q)[i]
    BY <1>1, <1>2, <1>4, <1>6
  <2> QED
    BY <1>4, <1>6, <2>1, SeqEqual
<1>9. SubSeq(w, n + 1, Len(w)) = SubSeq(s, q + 1, Len(s))
  <2>1. Len(w) - n = Len(s) - q
    BY <1>1, <1>2 DEF q
  <2>2. ASSUME NEW i \in 1 .. Len(s) - q
        PROVE  w[n + i] = s[q + i]
    <3>1. n + i \in 1 .. Len(s) - p /\ p + (n + i) = q + i
      BY <1>1 DEF q
    <3> QED
      BY <1>2, <3>1
  <2> QED
    BY <1>5, <1>7, <2>1, <2>2, SeqEqual, Zenon
<1> QED
  BY <1>8, <1>9 DEF w, q

(* Appending to a sequence appends to its last window.                     *)
LEMMA WindowConcat ==
  ASSUME NEW S, NEW s \in Seq(S), NEW d \in Seq(S), NEW p \in 0 .. Len(s)
  PROVE  SubSeq(s \o d, p + 1, Len(s \o d)) = SubSeq(s, p + 1, Len(s)) \o d
<1> DEFINE t == s \o d
           w == SubSeq(s, p + 1, Len(s))
<1>1. Len(s) \in Nat /\ Len(d) \in Nat /\ p \in Nat /\ Len(s) \in p .. Len(s)
  OBVIOUS
<1>2. /\ t \in Seq(S) /\ Len(t) = Len(s) + Len(d)
      /\ \A i \in 1 .. Len(s) + Len(d) :
           t[i] = IF i <= Len(s) THEN s[i] ELSE d[i - Len(s)]
  BY ConcatProperties
<1>3. /\ w \in Seq(S) /\ Len(w) = Len(s) - p
      /\ \A i \in 1 .. Len(s) - p : w[i] = s[p + i]
  BY <1>1, Slice
<1> HIDE DEF t, w
<1>4. p \in 0 .. Len(t) /\ Len(t) \in p .. Len(t) /\ Len(w) \in Nat
  BY <1>1, <1>2, <1>3
<1>5. /\ SubSeq(t, p + 1, Len(t)) \in Seq(S)
      /\ Len(SubSeq(t, p + 1, Len(t))) = Len(t) - p
      /\ \A i \in 1 .. Len(t) - p : SubSeq(t, p + 1, Len(t))[i] = t[p + i]
  BY <1>2, <1>4, Slice
<1>6. /\ w \o d \in Seq(S) /\ Len(w \o d) = Len(w) + Len(d)
      /\ \A i \in 1 .. Len(w) + Len(d) :
           (w \o d)[i] = IF i <= Len(w) THEN w[i] ELSE d[i - Len(w)]
  BY <1>3, ConcatProperties, Zenon
<1>7. Len(t) - p = Len(w) + Len(d)
  BY <1>1, <1>2, <1>3
<1>8. ASSUME NEW i \in 1 .. Len(t) - p
      PROVE  t[p + i] = (w \o d)[i]
  <2>1. p + i \in 1 .. Len(s) + Len(d) /\ i \in 1 .. Len(w) + Len(d)
        /\ (p + i <= Len(s) <=> i <= Len(w)) /\ (p + i) - Len(s) = i - Len(w)
    BY <1>1, <1>2, <1>3, <1>7
  <2>2. CASE i <= Len(w)
    BY <1>2, <1>3, <1>6, <2>1, <2>2
  <2>3. CASE ~(i <= Len(w))
    BY <1>2, <1>6, <2>1, <2>3
  <2> QED
    BY <2>2, <2>3, Zenon
<1>9. SubSeq(t, p + 1, Len(t)) = w \o d
  BY <1>5, <1>6, <1>7, <1>8, SeqEqual, Zenon
<1> QED
  BY <1>9, Zenon DEF t, w

LEMMA PiecesSeq ==
  ASSUME NEW c, NEW n \in Nat, \A i \in 1 .. n : <<c, i>> \in Cell
  PROVE  Pieces(c, n) \in Seq(Cell) /\ Len(Pieces(c, n)) = n
  BY DEF Pieces

LEMMA NewBus == BusOK(BusNew("Software"))
  BY BusAssumption DEF BusOK, BusNew

LEMMA OpenBus ==
  ASSUME NEW b, BusOK(b), NEW init, NEW fresh \in Nat,
         SoftwareOpen(b, init, fresh).bus # b
  PROVE  LET c == SoftwareOpen(b, init, fresh).bus IN
         /\ BusOK(c)
         /\ ~b.open_state
         /\ c.open_state
         /\ c.ring = <<>>
         /\ c.read_pos = 0
         /\ c.key \in {0, fresh}
<1> DEFINE role == InitRole(init)
           key == IF role = "AesGcm" THEN fresh ELSE 0
           c == [b EXCEPT !.role = role, !.open_state = TRUE,
                          !.ring = <<>>, !.read_pos = 0,
                          !.key = key, !.nonce_counter = 0]
<1>1. /\ SoftwareOpen(b, init, fresh).bus = c
      /\ ~b.open_state /\ role # "Bad" /\ (role = "AesGcm" => fresh # 0)
  BY DEF SoftwareOpen, Err, Ok
<1>2. role \in {"Echo", "Blake3", "AesGcm"}
  BY <1>1 DEF InitRole
<1>3. key \in Nat /\ key \in {0, fresh} /\ (key # 0 <=> role = "AesGcm")
  BY <1>1
<1> HIDE DEF role, key
<1>4. BusOK(c) /\ c.open_state /\ c.ring = <<>> /\ c.read_pos = 0 /\ c.key = key
  BY <1>2, <1>3, BusAssumption DEF BusOK
<1> QED
  BY <1>1, <1>3, <1>4

LEMMA CloseBus ==
  ASSUME NEW b, BusOK(b)
  PROVE  LET c == SoftwareClose(b).bus IN
         /\ BusOK(c)
         /\ c.key = b.key /\ c.nonce_counter = b.nonce_counter
         /\ ~c.open_state
<1>1. CASE ~b.open_state
  BY <1>1 DEF SoftwareClose, Err, BusOK
<1>2. CASE b.open_state
  <2> DEFINE c == [b EXCEPT !.ring = <<>>, !.read_pos = 0, !.open_state = FALSE]
  <2>1. SoftwareClose(b).bus = c
    BY <1>2 DEF SoftwareClose, Ok
  <2>2. BusOK(c) /\ c.key = b.key /\ c.nonce_counter = b.nonce_counter
        /\ ~c.open_state
    BY BusAssumption DEF BusOK
  <2> QED
    BY <2>1, <2>2
<1> QED
  BY <1>1, <1>2

LEMMA ReadBus ==
  ASSUME NEW b, BusOK(b), b.open_state, NEW out_len \in Nat
  PROVE  LET r == SoftwareRead(b, out_len)
             n == r.n
         IN  /\ n \in 0 .. Len(b.ring) - b.read_pos
             /\ n <= out_len
             /\ r.data = SubSeq(b.ring, b.read_pos + 1, b.read_pos + n)
             /\ r.bus = [b EXCEPT !.read_pos = @ + n]
             /\ BusOK(r.bus)
<1> DEFINE n == Lesser(SatSub(Len(b.ring), b.read_pos), out_len)
           c == [b EXCEPT !.read_pos = @ + n]
<1>1. n \in 0 .. Len(b.ring) - b.read_pos /\ n <= out_len
  BY DEF BusOK, Lesser, SatSub
<1>2. /\ SoftwareRead(b, out_len).bus = c
      /\ SoftwareRead(b, out_len).n = n
      /\ SoftwareRead(b, out_len).data = SubSeq(b.ring, b.read_pos + 1, b.read_pos + n)
  BY Zenon DEF SoftwareRead, Ok
<1> HIDE DEF n
<1>3. BusOK(c)
  <2>1. Len(b.ring) \in Nat /\ b.read_pos + n \in 0 .. Len(b.ring)
    BY <1>1 DEF BusOK
  <2> QED
    BY <2>1, Zenon DEF BusOK
<1> QED
  BY <1>1, <1>2, <1>3

LEMMA EchoBus ==
  ASSUME NEW b, BusOK(b), b.open_state, b.role = "Echo", NEW data \in Data,
         EchoWrite(b, data).ok
  PROVE  LET c == EchoWrite(b, data).bus IN
         /\ c = [b EXCEPT !.ring = b.ring \o data]
         /\ Len(data) <= SW_BUS_BUF - Len(b.ring)
         /\ BusOK(c)
<1> DEFINE cells == b.ring \o data
           c == [b EXCEPT !.ring = cells]
<1>1. EchoWrite(b, data).bus = c /\ Fits(data, SatSub(SW_BUS_BUF, Len(b.ring)))
  BY DEF EchoWrite, Err, Ok
<1>2. SW_BUS_BUF \in Nat /\ Len(b.ring) \in Nat /\ data \in Seq(Cell)
      /\ b.ring \in Seq(Cell) /\ Len(b.ring) <= SW_BUS_BUF /\ Len(data) \in Nat
  BY BusAssumption, DataSeq DEF BusOK
<1>3. Len(data) <= SW_BUS_BUF - Len(b.ring)
  BY <1>1, <1>2 DEF Fits, SatSub
<1>4. cells \in Seq(Cell) /\ Len(cells) = Len(b.ring) + Len(data)
  BY <1>2, ConcatProperties
<1> HIDE DEF cells
<1>5. BusOK(c)
  <2>1. Len(cells) <= SW_BUS_BUF /\ Len(b.ring) <= Len(cells) /\ Len(cells) \in Nat
    BY <1>2, <1>3, <1>4
  <2>2. b.read_pos \in 0 .. Len(cells)
    BY <1>2, <2>1 DEF BusOK
  <2> QED
    BY <1>4, <2>1, <2>2, Zenon DEF BusOK
<1> QED
  BY <1>1, <1>3, <1>5 DEF cells

(* Writing to a Blake3 or AesGcm bus replaces the ring.                    *)
LEMMA ReplaceBus ==
  ASSUME NEW b, BusOK(b), b.open_state, b.role # "Echo", NEW data \in Data,
         SoftwareWrite(b, data).ok
  PROVE  LET c == SoftwareWrite(b, data).bus IN
         /\ BusOK(c)
         /\ c.open_state /\ c.role = b.role /\ c.key = b.key
         /\ c.read_pos = 0 /\ Len(c.ring) > 0
         /\ SoftwareWrite(b, data).n = Len(c.ring)
         /\ c.nonce_counter = IF b.role = "AesGcm" THEN b.nonce_counter + 1
                              ELSE b.nonce_counter
<1>0. /\ SW_BUS_BUF \in Nat /\ BLAKE3_OUT_LEN \in Nat \ {0}
      /\ GCM_NONCE_SIZE \in Nat \ {0} /\ GCM_TAG_SIZE \in Nat \ {0}
      /\ SW_BUS_BUF >= BLAKE3_OUT_LEN /\ NONCE_MAX \in Nat
      /\ data \in Seq(Cell) /\ Len(data) \in Nat
      /\ b.key \in Nat /\ b.nonce_counter \in 0 .. NONCE_MAX
  BY BusAssumption, DataSeq DEF BusOK
<1>1. CASE b.role = "Blake3"
  <2> DEFINE cells == Pieces(<<"digest">>, BLAKE3_OUT_LEN)
             c == [b EXCEPT !.ring = cells, !.read_pos = 0]
  <2>1. SoftwareWrite(b, data).bus = c /\ SoftwareWrite(b, data).n = BLAKE3_OUT_LEN
    BY <1>1 DEF SoftwareWrite, Blake3Write, Ok
  <2>2. cells \in Seq(Cell) /\ Len(cells) = BLAKE3_OUT_LEN
    BY <1>0, PiecesSeq DEF Cell
  <2> HIDE DEF cells
  <2>3. /\ c.open_state = b.open_state /\ c.role = b.role /\ c.key = b.key
        /\ c.read_pos = 0 /\ c.nonce_counter = b.nonce_counter /\ c.ring = cells
        /\ c.kind = b.kind /\ DOMAIN c = DOMAIN b
    BY Zenon DEF BusOK
  <2>4. BusOK(c)
    <3>1. Len(cells) <= SW_BUS_BUF /\ 0 \in 0 .. Len(cells)
      BY <1>0, <2>2
    <3> HIDE DEF c
    <3> QED
      BY <1>0, <2>2, <2>3, <3>1 DEF BusOK
  <2> QED
    BY <1>0, <1>1, <2>1, <2>2, <2>3, <2>4
<1>2. CASE b.role = "AesGcm"
  <2> DEFINE total == Len(data) + GCM_NONCE_SIZE + GCM_TAG_SIZE
             nonce == b.nonce_counter + 1
             cells == Pieces(<<"sealed", b.key, nonce>>, total)
             c == [b EXCEPT !.nonce_counter = nonce, !.ring = cells,
                            !.read_pos = 0]
  <2>1. /\ SoftwareWrite(b, data).bus = c /\ SoftwareWrite(b, data).n = total
        /\ b.nonce_counter # NONCE_MAX
        /\ Fits(data, SW_BUS_BUF - GCM_NONCE_SIZE - GCM_TAG_SIZE)
    BY <1>2 DEF SoftwareWrite, AesGcmWrite, Ok, Err
  <2> HIDE DEF c, cells
  <2>2. nonce \in 0 .. NONCE_MAX /\ nonce \in Nat
    <3>1. b.nonce_counter # NONCE_MAX
      BY <2>1
    <3> QED
      BY <1>0, <3>1
  <2>3. total \in Nat /\ total > 0 /\ total <= SW_BUS_BUF
    <3>1. Len(data) <= SW_BUS_BUF - GCM_NONCE_SIZE - GCM_TAG_SIZE
      BY <2>1 DEF Fits
    <3> QED
      BY <1>0, <3>1
  <2> HIDE DEF nonce, total
  <2>4. cells \in Seq(Cell) /\ Len(cells) = total
    <3> DEFINE h == <<"sealed", b.key, nonce>>
    <3>1. \A i \in 1 .. total : <<h, i>> \in Cell
      BY <1>0, <2>2, <2>3 DEF Cell
    <3>2. cells = Pieces(h, total) /\ total \in Nat
      BY <2>3 DEF cells
    <3> HIDE DEF h
    <3> QED
      BY <3>1, <3>2, PiecesSeq
  <2>5. /\ c.open_state = b.open_state /\ c.role = b.role /\ c.key = b.key
        /\ c.read_pos = 0 /\ c.nonce_counter = nonce /\ c.ring = cells
        /\ c.kind = b.kind /\ DOMAIN c = DOMAIN b
    BY Zenon DEF BusOK, c
  <2>6. BusOK(c)
    <3>1. Len(cells) <= SW_BUS_BUF /\ 0 \in 0 .. Len(cells)
      BY <1>0, <2>2, <2>3, <2>4
    <3> QED
      BY <1>0, <2>2, <2>3, <2>4, <2>5, <3>1 DEF BusOK
  <2> QED
    BY <1>2, <2>1, <2>3, <2>4, <2>5, <2>6 DEF nonce
<1> QED
  BY <1>1, <1>2 DEF BusOK

(* A refused write changes nothing.                                        *)
LEMMA RefusedBus ==
  ASSUME NEW b, BusOK(b), NEW data, ~SoftwareWrite(b, data).ok
  PROVE  SoftwareWrite(b, data).bus = b /\ SoftwareWrite(b, data).n = 0
<1>1. CASE ~b.open_state
  BY <1>1 DEF SoftwareWrite, Err
<1>2. CASE b.open_state /\ b.role = "Echo"
  BY <1>2 DEF SoftwareWrite, EchoWrite, Err, Ok
<1>3. CASE b.open_state /\ b.role = "Blake3"
  BY <1>3 DEF SoftwareWrite, Blake3Write, Ok
<1>4. CASE b.open_state /\ b.role = "AesGcm"
  BY <1>4 DEF SoftwareWrite, AesGcmWrite, Err, Ok
<1> QED
  BY <1>1, <1>2, <1>3, <1>4 DEF BusOK
-----------------------------------------------------------------------------
(* The inductive invariant.                                                *)

LEMMA InitBusIInv == BusInit => BusIInv
<1> SUFFICES ASSUME BusInit PROVE BusIInv
  OBVIOUS
<1>1. BusOK(bus) /\ bus.key = 0
  BY NewBus DEF BusInit, BusNew
<1>2. drawn = 0 /\ seals = <<>> /\ MaxKeys \in Nat
  BY SoftwareBusAssumption DEF BusInit
<1> QED
  BY <1>1, <1>2 DEF BusIInv, SealInv, NonceNeverReused

(* A call that keeps key and counter, draws nothing and seals nothing.     *)
LEMMA KeepSeals ==
  ASSUME BusIInv, UNCHANGED <<drawn, seals>>, BusOK(bus'),
         bus'.key = bus.key, bus'.nonce_counter = bus.nonce_counter
  PROVE  BusIInv'
  BY DEF BusIInv, SealInv, NonceNeverReused, BusOK

LEMMA OpenIInv ==
  ASSUME BusIInv, NEW init \in Inits, Open(init)
  PROVE  BusIInv'
<1>1. PICK fresh \in {0, drawn + 1} :
        /\ fresh <= MaxKeys
        /\ bus' = SoftwareOpen(bus, init, fresh).bus
        /\ drawn' = IF fresh = 0 THEN drawn ELSE fresh
        /\ UNCHANGED seals
  BY DEF Open, BusOpen, BusIInv, BusOK
<1>2. /\ MaxKeys \in Nat /\ drawn \in Nat /\ fresh \in Nat
      /\ drawn' \in 0 .. MaxKeys /\ drawn <= drawn' /\ fresh <= drawn'
      /\ fresh # 0 => fresh > drawn
      /\ BusOK(bus) /\ bus.key <= drawn
  BY <1>1, SoftwareBusAssumption DEF BusIInv
<1>3. CASE bus' = bus
  <2>1. \A i \in 1 .. Len(seals) : seals[i][1] \in 1 .. drawn'
    BY <1>2 DEF BusIInv, SealInv
  <2>2. SealInv' /\ NonceNeverReused'
    BY <1>1, <1>3, <2>1 DEF BusIInv, SealInv, NonceNeverReused
  <2> QED
    BY <1>2, <1>3, <2>2 DEF BusIInv, BusOK
<1>4. CASE bus' # bus
  <2>1. BusOK(bus') /\ bus'.key \in {0, fresh}
    BY <1>1, <1>2, <1>4, OpenBus
  <2>2. \A i \in 1 .. Len(seals) : seals[i][1] # bus'.key
    BY <1>2, <2>1, SMTT(30) DEF BusIInv, SealInv
  <2>3. \A i \in 1 .. Len(seals) : seals[i][1] \in 1 .. drawn'
    BY <1>2 DEF BusIInv, SealInv
  <2>4. SealInv' /\ NonceNeverReused'
    BY <1>1, <2>2, <2>3, Zenon DEF BusIInv, SealInv, NonceNeverReused
  <2> QED
    BY <1>2, <2>1, <2>4 DEF BusIInv, BusOK
<1> QED
  BY <1>3, <1>4

LEMMA WriteIInv ==
  ASSUME BusIInv, NEW data \in Data, Write(data)
  PROVE  BusIInv'
<1> DEFINE r == SoftwareWrite(bus, data)
<1>1. bus' = r.bus /\ UNCHANGED drawn /\ BusOK(bus)
  BY DEF Write, BusIInv
<1>2. CASE ~r.ok
  <2>1. bus' = bus /\ UNCHANGED seals
    BY <1>1, <1>2, RefusedBus DEF Write
  <2> QED
    BY <1>1, <2>1, KeepSeals
<1>3. CASE r.ok /\ bus.role = "Echo"
  <2>1. bus.open_state
    BY <1>3 DEF SoftwareWrite, Err
  <2>2. r = EchoWrite(bus, data)
    BY <1>3, <2>1 DEF SoftwareWrite
  <2>3. BusOK(bus') /\ bus' = [bus EXCEPT !.ring = bus.ring \o data]
    BY <1>1, <1>3, <2>1, <2>2, EchoBus, ZenonT(60)
  <2>4. bus'.key = bus.key /\ bus'.nonce_counter = bus.nonce_counter
    BY <1>1, <2>3 DEF BusOK
  <2>5. UNCHANGED seals
    BY <1>3 DEF Write
  <2> QED
    BY <1>1, <2>3, <2>4, <2>5, KeepSeals
<1>4. CASE r.ok /\ bus.role # "Echo"
  <2>1. bus.open_state
    BY <1>4 DEF SoftwareWrite, Err
  <2>2. /\ BusOK(bus') /\ bus'.key = bus.key
        /\ bus'.nonce_counter = IF bus.role = "AesGcm" THEN bus.nonce_counter + 1
                                ELSE bus.nonce_counter
    BY <1>1, <1>4, <2>1, ReplaceBus
  <2>3. CASE bus.role # "AesGcm"
    <3>1. UNCHANGED seals
      BY <2>3 DEF Write
    <3> QED
      BY <1>1, <2>2, <2>3, <3>1, KeepSeals
  <2>4. CASE bus.role = "AesGcm"
    <3> DEFINE k == bus.key
               n == bus.nonce_counter + 1
    <3>1. seals' = Append(seals, <<k, n>>)
      BY <1>1, <1>4, <2>2, <2>4 DEF Write
    <3>2. k \in 1 .. drawn /\ bus.nonce_counter \in Nat /\ n \in Nat
          /\ drawn \in Nat /\ seals \in Seq(Nat \X Nat)
          /\ bus'.key = k /\ bus'.nonce_counter = n
      BY <1>1, <2>2, <2>4 DEF BusIInv, BusOK, SealInv
    <3>3. \A i \in 1 .. Len(seals) :
            /\ seals[i][1] \in 1 .. drawn /\ seals[i][2] \in Nat
            /\ seals[i][1] = k => seals[i][2] < n
      <4> SUFFICES ASSUME NEW i \in 1 .. Len(seals)
                   PROVE  /\ seals[i][1] \in 1 .. drawn /\ seals[i][2] \in Nat
                          /\ seals[i][1] = k => seals[i][2] < n
        OBVIOUS
      <4>1. /\ seals[i][1] \in 1 .. drawn /\ seals[i][2] \in Nat
            /\ seals[i][1] = k => seals[i][2] <= bus.nonce_counter
        BY DEF BusIInv, SealInv
      <4> QED
        BY <3>2, <4>1
    <3> HIDE DEF n, k
    <3>4. /\ seals' \in Seq(Nat \X Nat)
          /\ Len(seals') = Len(seals) + 1 /\ Len(seals) \in Nat
          /\ \A i \in 1 .. Len(seals) : seals'[i] = seals[i]
          /\ seals'[Len(seals) + 1] = <<k, n>>
      BY <3>1, <3>2
    <3>5. SealInv'
      <4> SUFFICES ASSUME NEW i \in 1 .. Len(seals')
                   PROVE  /\ seals'[i][1] \in 1 .. drawn /\ seals'[i][2] \in Nat
                          /\ seals'[i][1] = k => seals'[i][2] <= n
        BY <1>1, <3>2, <3>4 DEF SealInv
      <4>1. CASE i = Len(seals) + 1
        BY <3>2, <3>4, <4>1
      <4>2. CASE i \in 1 .. Len(seals)
        <5>1. seals'[i] = seals[i]
          BY <3>4, <4>2, Zenon
        <5> QED
          BY <3>2, <3>3, <4>2, <5>1
      <4> QED
        BY <3>4, <4>1, <4>2
    <3>6. \A i \in 1 .. Len(seals) : seals[i] # <<k, n>>
      BY <3>2, <3>3
    <3>7. NonceNeverReused'
      <4> SUFFICES ASSUME NEW i \in 1 .. Len(seals'), NEW j \in 1 .. Len(seals'),
                          seals'[i] = seals'[j]
                   PROVE  i = j
        BY DEF NonceNeverReused
      <4>1. CASE i \in 1 .. Len(seals) /\ j \in 1 .. Len(seals)
        BY <3>4, <4>1 DEF BusIInv, NonceNeverReused
      <4>2. CASE i = Len(seals) + 1 /\ j \in 1 .. Len(seals)
        BY <3>4, <3>6, <4>2, Zenon
      <4>3. CASE j = Len(seals) + 1 /\ i \in 1 .. Len(seals)
        BY <3>4, <3>6, <4>3, Zenon
      <4>4. i \in 1 .. Len(seals) + 1 /\ j \in 1 .. Len(seals) + 1
        BY <3>4
      <4> QED
        BY <3>4, <4>1, <4>2, <4>3, <4>4, SMTT(30)
    <3> QED
      BY <1>1, <2>2, <3>2, <3>5, <3>7 DEF BusIInv
  <2> QED
    BY <2>3, <2>4
<1> QED
  BY <1>2, <1>3, <1>4

LEMMA NextBusIInv == BusIInv /\ [BusNext]_busVars => BusIInv'
<1> SUFFICES ASSUME BusIInv, [BusNext]_busVars PROVE BusIInv'
  OBVIOUS
<1>0. BusOK(bus)
  BY DEF BusIInv
<1>1. ASSUME NEW init \in Inits, Open(init) PROVE BusIInv'
  BY <1>1, OpenIInv
<1>2. ASSUME Close PROVE BusIInv'
  <2>1. BusOK(bus') /\ bus'.key = bus.key /\ bus'.nonce_counter = bus.nonce_counter
    BY <1>0, <1>2, CloseBus DEF Close, BusClose, BusOK
  <2> QED
    BY <1>2, <2>1, KeepSeals DEF Close
<1>3. ASSUME NEW out_len \in OutLens, Read(out_len) PROVE BusIInv'
  <2>1. bus' = SoftwareRead(bus, out_len).bus /\ out_len \in Nat
    BY <1>0, <1>3, SoftwareBusAssumption DEF Read, BusRead, BusOK
  <2>2. CASE bus.open_state
    <3> DEFINE n == SoftwareRead(bus, out_len).n
    <3>1. BusOK(bus') /\ bus' = [bus EXCEPT !.read_pos = @ + n]
      BY <1>0, <2>1, <2>2, ReadBus
    <3> HIDE DEF n
    <3>2. bus'.key = bus.key /\ bus'.nonce_counter = bus.nonce_counter
      BY <1>0, <3>1 DEF BusOK
    <3> QED
      BY <1>3, <3>1, <3>2, KeepSeals DEF Read
  <2>3. CASE ~bus.open_state
    <3>1. bus' = bus
      BY <2>1, <2>3 DEF SoftwareRead, Err
    <3> QED
      BY <1>0, <1>3, <3>1, KeepSeals DEF Read
  <2> QED
    BY <2>2, <2>3
<1>4. ASSUME NEW data \in Data, Write(data) PROVE BusIInv'
  BY <1>4, WriteIInv
<1>5. ASSUME Renew PROVE BusIInv'
  <2>1. BusOK(bus') /\ bus'.key = 0 /\ UNCHANGED <<drawn, seals>>
    BY <1>5, NewBus DEF Renew, BusNew
  <2>2. \A i \in 1 .. Len(seals) : seals[i][1] # bus'.key
    BY <2>1 DEF BusIInv, SealInv
  <2>3. SealInv' /\ NonceNeverReused'
    BY <2>1, <2>2, SMTT(30) DEF BusIInv, SealInv, NonceNeverReused
  <2> QED
    BY <2>1, <2>3 DEF BusIInv
<1>6. CASE UNCHANGED busVars
  BY <1>6 DEF busVars, BusIInv, SealInv, NonceNeverReused
<1> QED
  BY <1>1, <1>2, <1>3, <1>4, <1>5, <1>6 DEF BusNext

THEOREM BusInductive == BusSpec => []BusIInv
<1> QED
  BY InitBusIInv, NextBusIInv, PTL DEF BusSpec

(* The cursors stay inside the ring whatever is written and read: for all  *)
(* sizes of ring, digest, nonce and tag the assertions of bus.rs allow.    *)
THEOREM BusTypeCorrect == BusSpec => []BusTypeOK
<1>1. BusIInv => BusTypeOK
  BY SoftwareBusAssumption DEF BusIInv, BusOK, BusTypeOK
<1> QED
  BY <1>1, BusInductive, PTL

(* AES-GCM is never called twice with the same key and nonce, for every    *)
(* limit of the counter and every order of open, close, write and renew.   *)
THEOREM NoncesAreFresh == BusSpec => []NonceNeverReused
<1>1. BusIInv => NonceNeverReused
  BY DEF BusIInv
<1> QED
  BY <1>1, BusInductive, PTL

(* poll never promises a read or an Echo write that would then fail, nor   *)
(* hides one that would succeed.                                           *)
THEOREM PollIsTruthful == BusSpec => []PollTruthful
<1>1. BusIInv => PollTruthful
  <2> SUFFICES ASSUME BusIInv, bus.open_state PROVE PollTruthful
    BY DEF PollTruthful
  <2>1. /\ bus.ring \in Seq(Cell) /\ bus.read_pos \in 0 .. Len(bus.ring)
        /\ Len(bus.ring) \in Nat /\ SW_BUS_BUF \in Nat
    BY BusAssumption DEF BusIInv, BusOK
  <2>2. SoftwarePoll(bus).readable <=> SoftwareRead(bus, 1).n = 1
    <3>1. SoftwareRead(bus, 1).n = Lesser(SatSub(Len(bus.ring), bus.read_pos), 1)
      BY DEF SoftwareRead, Ok
    <3>2. SoftwarePoll(bus).readable = (Len(bus.ring) > bus.read_pos)
      BY DEF SoftwarePoll
    <3>3. Len(bus.ring) > bus.read_pos
            <=> Lesser(SatSub(Len(bus.ring), bus.read_pos), 1) = 1
      BY <2>1 DEF Lesser, SatSub
    <3> QED
      BY <3>1, <3>2, <3>3, Zenon
  <2> DEFINE d == Pieces(<<"raw", 0>>, 1)
  <2>3. Len(d) = 1 /\ d[1][1][1] = "raw"
    BY DEF Pieces
  <2> HIDE DEF d
  <2>4. Fits(d, SatSub(SW_BUS_BUF, Len(bus.ring))) <=> Len(bus.ring) < SW_BUS_BUF
    BY <2>1, <2>3 DEF Fits, SatSub
  <2>5. EchoWrite(bus, d).ok <=> Len(bus.ring) < SW_BUS_BUF
    BY <2>4 DEF EchoWrite, Ok, Err
  <2>6. SoftwarePoll(bus).writable = (Len(bus.ring) < SW_BUS_BUF)
    BY DEF SoftwarePoll
  <2> QED
    BY <2>2, <2>5, <2>6, Zenon DEF PollTruthful, d
<1> QED
  BY <1>1, BusInductive, PTL
-----------------------------------------------------------------------------
(* The refinement: each call of the driver is a step of the channel.       *)

LEMMA ChannelInit == BusInit => Promise!Init
<1> SUFFICES ASSUME BusInit PROVE Promise!Init
  OBVIOUS
<1>1. bus.open_state = FALSE /\ bus.ring = <<>> /\ bus.read_pos = 0
      /\ got = <<>> /\ took = 0
  BY DEF BusInit, BusNew
<1>2. Unread(bus) = <<>>
  BY <1>1 DEF Unread
<1> QED
  BY <1>1, <1>2 DEF Promise!Init

(* A refused call.                                                         *)
LEMMA ChannelRefuse ==
  ASSUME bus' = bus, got' = <<>>, took' = 0
  PROVE  Promise!Next
<1>1. Promise!Refuse
  BY DEF Promise!Refuse, Unread
<1> QED
  BY <1>1 DEF Promise!Next

LEMMA ChannelOpen ==
  ASSUME BusIInv, NEW init \in Inits, Open(init)
  PROVE  Promise!Next
<1>1. PICK fresh \in {0, drawn + 1} : bus' = SoftwareOpen(bus, init, fresh).bus
  BY DEF Open, BusOpen, BusIInv, BusOK
<1>2. fresh \in Nat /\ BusOK(bus) /\ got' = <<>> /\ took' = 0
  BY <1>1, SoftwareBusAssumption DEF BusIInv, Open
<1>3. CASE bus' = bus
  BY <1>2, <1>3, ChannelRefuse
<1>4. CASE bus' # bus
  <2>1. /\ ~bus.open_state /\ bus'.open_state
        /\ bus'.ring = <<>> /\ bus'.read_pos = 0
    BY <1>1, <1>2, <1>4, OpenBus
  <2>2. Unread(bus)' = <<>> /\ Len(bus'.ring) = 0 /\ SW_BUS_BUF \in Nat
    BY <2>1, BusAssumption DEF Unread
  <2>3. SW_BUS_BUF - 0 = SW_BUS_BUF
    BY <2>2
  <2>4. CASE bus'.role = "Echo"
    <3>1. Promise!Open("stream")
      BY <1>2, <2>1, <2>2, <2>3, <2>4 DEF Promise!Open
    <3> QED
      BY <3>1 DEF Promise!Next
  <2>5. CASE bus'.role # "Echo"
    <3>1. Promise!Open("box")
      BY <1>2, <2>1, <2>2, <2>3, <2>5 DEF Promise!Open
    <3> QED
      BY <3>1 DEF Promise!Next
  <2> QED
    BY <2>4, <2>5
<1> QED
  BY <1>3, <1>4

(* A call that leaves the bus closed and empty.                            *)
LEMMA ChannelClose ==
  ASSUME BusOK(bus'), ~bus'.open_state, got' = <<>>, took' = 0
  PROVE  Promise!Next
<1>1. bus'.ring = <<>> /\ bus'.read_pos = 0
  BY DEF BusOK
<1>2. Unread(bus)' = <<>>
  BY <1>1 DEF Unread
<1>3. Promise!Close
  BY <1>2 DEF Promise!Close
<1> QED
  BY <1>3 DEF Promise!Next

LEMMA ChannelRead ==
  ASSUME BusIInv, NEW out_len \in OutLens, Read(out_len)
  PROVE  Promise!Next
<1>1. /\ BusOK(bus) /\ out_len \in Nat
      /\ bus' = SoftwareRead(bus, out_len).bus
      /\ got' = SoftwareRead(bus, out_len).data /\ took' = 0
  BY SoftwareBusAssumption DEF BusIInv, Read, BusRead, BusOK
<1>2. CASE ~bus.open_state
  <2>1. bus' = bus /\ got' = <<>>
    BY <1>1, <1>2 DEF SoftwareRead, Err
  <2> QED
    BY <1>1, <2>1, ChannelRefuse
<1>3. CASE bus.open_state
  <2> DEFINE n == SoftwareRead(bus, out_len).n
             s == bus.ring
             p == bus.read_pos
  <2>1. /\ n \in 0 .. Len(s) - p
        /\ got' = SubSeq(s, p + 1, p + n)
        /\ bus' = [bus EXCEPT !.read_pos = @ + n]
    BY <1>1, <1>3, ReadBus
  <2>2. s \in Seq(Cell) /\ p \in 0 .. Len(s)
    BY <1>1 DEF BusOK
  <2> HIDE DEF n
  <2>3. /\ bus'.open_state = bus.open_state /\ bus'.role = bus.role
        /\ bus'.ring = s /\ bus'.read_pos = p + n
    BY <1>1, <2>1 DEF BusOK
  <2>4. /\ Unread(bus) = SubSeq(s, p + 1, Len(s))
        /\ Unread(bus)' = SubSeq(s, p + n + 1, Len(s))
    BY <2>3 DEF Unread
  <2>5. /\ SubSeq(Unread(bus), 1, n) = got'
        /\ SubSeq(Unread(bus), n + 1, Len(Unread(bus))) = Unread(bus)'
        /\ n \in 0 .. Len(Unread(bus))
    <3> HIDE DEF s, p
    <3>1. Len(SubSeq(s, p + 1, Len(s))) = Len(s) - p
      <4>1. Len(s) \in p .. Len(s)
        BY <2>2
      <4> QED
        BY <2>2, <4>1, Slice
    <3> QED
      BY <2>1, <2>2, <2>4, <3>1, WindowSplit, Zenon
  <2>6. Promise!Receive(n)
    BY <1>1, <1>3, <2>3, <2>5 DEF Promise!Receive
  <2> QED
    BY <2>5, <2>6 DEF Promise!Next
<1> QED
  BY <1>2, <1>3

LEMMA ChannelWrite ==
  ASSUME BusIInv, NEW data \in Data, Write(data)
  PROVE  Promise!Next
<1> DEFINE r == SoftwareWrite(bus, data)
<1>1. /\ bus' = r.bus /\ got' = <<>> /\ took' = r.n /\ BusOK(bus)
      /\ SW_BUS_BUF \in Nat /\ data \in Seq(Cell)
      /\ bus.ring \in Seq(Cell) /\ bus.read_pos \in 0 .. Len(bus.ring)
  BY BusAssumption, DataSeq DEF Write, BusIInv, BusOK
<1>2. CASE ~r.ok
  <2>1. bus' = bus /\ took' = 0
    BY <1>1, <1>2, RefusedBus
  <2> QED
    BY <1>1, <2>1, ChannelRefuse
<1>3. CASE r.ok /\ bus.role = "Echo"
  <2>1. bus.open_state
    BY <1>3 DEF SoftwareWrite, Err
  <2>2. r = EchoWrite(bus, data) /\ r.n = Len(data)
    BY <1>3, <2>1 DEF SoftwareWrite, EchoWrite, Ok, Err
  <2> DEFINE cells == bus.ring \o data
  <2>3. /\ bus' = [bus EXCEPT !.ring = cells]
        /\ Len(data) <= SW_BUS_BUF - Len(bus.ring)
    BY <1>1, <1>3, <2>1, <2>2, EchoBus, ZenonT(60)
  <2>4. Len(cells) = Len(bus.ring) + Len(data)
    BY <1>1, ConcatProperties
  <2>5. SubSeq(cells, bus.read_pos + 1, Len(cells)) = Unread(bus) \o data
    BY <1>1, WindowConcat, Zenon DEF Unread
  <2> HIDE DEF cells
  <2>6. /\ bus'.open_state = bus.open_state /\ bus'.role = bus.role
        /\ bus'.ring = cells /\ bus'.read_pos = bus.read_pos
    BY <1>1, <2>3 DEF BusOK
  <2>7. /\ Unread(bus)' = Unread(bus) \o data
        /\ SW_BUS_BUF - Len(cells) = (SW_BUS_BUF - Len(bus.ring)) - Len(data)
    <3>1. Unread(bus)' = SubSeq(cells, bus.read_pos + 1, Len(cells))
      BY <2>6 DEF Unread
    <3>2. SW_BUS_BUF - Len(cells) = (SW_BUS_BUF - Len(bus.ring)) - Len(data)
      <4>1. Len(bus.ring) \in Nat /\ Len(data) \in Nat /\ SW_BUS_BUF \in Nat
        BY <1>1
      <4> QED
        BY <2>4, <4>1
    <3> QED
      BY <2>5, <3>1, <3>2, Zenon
  <2>8. Promise!Send(data)
    BY <1>1, <1>3, <2>1, <2>2, <2>3, <2>6, <2>7, Zenon DEF Promise!Send
  <2> QED
    BY <2>8 DEF Promise!Next
<1>4. CASE r.ok /\ bus.role # "Echo"
  <2>1. bus.open_state
    BY <1>4 DEF SoftwareWrite, Err
  <2>2. /\ BusOK(bus') /\ bus'.open_state /\ bus'.role = bus.role
        /\ bus'.read_pos = 0 /\ Len(bus'.ring) > 0 /\ r.n = Len(bus'.ring)
    BY <1>1, <1>4, <2>1, ReplaceBus
  <2>3. bus'.ring \in Seq(Cell) /\ Len(bus'.ring) <= SW_BUS_BUF
    BY <2>2 DEF BusOK
  <2>4. Unread(bus)' = bus'.ring
    <3>1. Unread(bus)' = SubSeq(bus'.ring, 1, Len(bus'.ring))
      BY <2>2 DEF Unread
    <3> QED
      BY <2>3, <3>1
  <2>5. bus'.ring # <<>>
    BY <2>2, <2>3
  <2>6. Promise!Replace
    BY <1>1, <1>4, <2>1, <2>2, <2>3, <2>4, <2>5 DEF Promise!Replace
  <2> QED
    BY <2>6 DEF Promise!Next
<1> QED
  BY <1>2, <1>3, <1>4

LEMMA ChannelNext == BusIInv /\ [BusNext]_busVars => [Promise!Next]_(Promise!vars)
<1> SUFFICES ASSUME BusIInv, [BusNext]_busVars PROVE [Promise!Next]_(Promise!vars)
  OBVIOUS
<1>1. ASSUME NEW init \in Inits, Open(init) PROVE Promise!Next
  BY <1>1, ChannelOpen
<1>2. ASSUME Close PROVE Promise!Next
  <2>1. BusOK(bus') /\ ~bus'.open_state /\ got' = <<>> /\ took' = 0
    BY <1>2, CloseBus DEF Close, BusClose, BusIInv, BusOK
  <2> QED
    BY <2>1, ChannelClose
<1>3. ASSUME NEW out_len \in OutLens, Read(out_len) PROVE Promise!Next
  BY <1>3, ChannelRead
<1>4. ASSUME NEW data \in Data, Write(data) PROVE Promise!Next
  BY <1>4, ChannelWrite
<1>5. ASSUME Renew PROVE Promise!Next
  <2>1. BusOK(bus') /\ ~bus'.open_state /\ got' = <<>> /\ took' = 0
    BY <1>5, NewBus DEF Renew, BusNew
  <2> QED
    BY <2>1, ChannelClose
<1>6. CASE UNCHANGED busVars
  BY <1>6 DEF busVars, Promise!vars, Unread
<1> QED
  BY <1>1, <1>2, <1>3, <1>4, <1>5, <1>6 DEF BusNext

(* SoftwareBus implements Channel: a read hands over exactly what write    *)
(* put into the ring, in order and once, and a stream's room only shrinks. *)
THEOREM RingIsChannel == BusSpec => BusIsChannel
<1> QED
  BY BusInductive, ChannelInit, ChannelNext, PTL DEF BusSpec, BusIsChannel, Promise!Spec
-----------------------------------------------------------------------------
(* AuditTrail.                                                             *)

(* Quotient and remainder of a natural number.                             *)
LEMMA DivMod ==
  ASSUME NEW a \in Nat, NEW C \in Nat \ {0}
  PROVE  /\ a % C \in 0 .. C - 1
         /\ a \div C \in Nat
         /\ a = C * (a \div C) + (a % C)
OBVIOUS

(* The remainder is the only number of its range that fits.                *)
LEMMA ModUnique ==
  ASSUME NEW a \in Int, NEW C \in Nat \ {0}, NEW q \in Int,
         NEW r \in 0 .. C - 1, a = C * q + r
  PROVE  a % C = r
OBVIOUS

(* A number already in range is its own remainder.                         *)
LEMMA ModSmall ==
  ASSUME NEW C \in Nat \ {0}, NEW r \in 0 .. C - 1
  PROVE  r % C = r
OBVIOUS

(* The modulus itself.                                                     *)
LEMMA ModSelf ==
  ASSUME NEW C \in Nat \ {0}
  PROVE  C % C = 0
OBVIOUS

(* A multiple leaves nothing.                                              *)
LEMMA ModZero ==
  ASSUME NEW C \in Nat \ {0}, NEW k \in Nat
  PROVE  (C * k) % C = 0
<1>1. C * k = C * k + 0 /\ C * k \in Int /\ 0 \in 0 .. C - 1
  OBVIOUS
<1> DEFINE a == C * k
           z == 0
<1>2. a = C * k + z /\ a \in Int /\ z \in 0 .. C - 1 /\ k \in Int
  BY <1>1
<1> HIDE DEF a, z
<1>3. a % C = z
  BY <1>2, ModUnique
<1> QED
  BY <1>3 DEF a, z

(* Whole multiples of the modulus do not count.                            *)
LEMMA ModMultiple ==
  ASSUME NEW b \in Nat, NEW C \in Nat \ {0}, NEW k \in Nat
  PROVE  (C * k + b) % C = b % C
<1> DEFINE q == b \div C
<1>1. q \in Nat /\ b % C \in 0 .. C - 1 /\ b = C * q + (b % C)
  BY DivMod, Zenon
<1>2. C * k + b = C * (k + q) + (b % C)
  <2>1. C * (k + q) = C * k + C * q
    BY <1>1
  <2> QED
    BY <1>1, <2>1
<1> HIDE DEF q
<1>3. C * k + b \in Int /\ k + q \in Int
  BY <1>1
<1> QED
  BY <1>1, <1>2, <1>3, ModUnique, Zenon

(* Reducing a summand first changes nothing.                               *)
LEMMA ModAdd ==
  ASSUME NEW a \in Nat, NEW b \in Nat, NEW C \in Nat \ {0}
  PROVE  ((a % C) + b) % C = (a + b) % C
<1> DEFINE q == a \div C
           r == a % C
<1>1. q \in Nat /\ r \in 0 .. C - 1 /\ a = C * q + r
  BY DivMod, Zenon
<1>2. a + b = C * q + (r + b) /\ r + b \in Nat
  BY <1>1
<1> HIDE DEF q, r
<1>3. (C * q + (r + b)) % C = (r + b) % C
  BY <1>1, <1>2, ModMultiple, Zenon
<1> QED
  BY <1>2, <1>3 DEF r

(* The case of a counter that advances by one.                             *)
LEMMA ModSucc ==
  ASSUME NEW a \in Nat, NEW C \in Nat \ {0}
  PROVE  ((a % C) + 1) % C = (a + 1) % C
<1> DEFINE one == 1
<1>1. one \in Nat
  OBVIOUS
<1> HIDE DEF one
<1>2. ((a % C) + one) % C = (a + one) % C
  BY <1>1, ModAdd, Zenon
<1> QED
  BY <1>2 DEF one

(* Going round once.                                                       *)
LEMMA ModRound ==
  ASSUME NEW b \in Nat, NEW C \in Nat \ {0}
  PROVE  (C + b) % C = b % C
<1> DEFINE one == 1
<1>1. one \in Nat /\ C * one = C
  OBVIOUS
<1> HIDE DEF one
<1>2. (C * one + b) % C = b % C
  BY <1>1, ModMultiple, Zenon
<1> QED
  BY <1>1, <1>2

(* Two numbers less than C apart have different remainders.                *)
LEMMA ModDistinct ==
  ASSUME NEW a \in Nat, NEW b \in Nat, NEW C \in Nat \ {0}, a < b, b < a + C
  PROVE  a % C # b % C
<1> DEFINE p == a \div C
           q == b \div C
<1>1. p \in Nat /\ q \in Nat /\ a = C * p + (a % C) /\ b = C * q + (b % C)
  BY DivMod
<1>2. CASE q <= p
  <2>1. C * q <= C * p
    BY <1>1, <1>2
  <2> QED
    BY <2>1, <1>1
<1>3. CASE q >= p + 1
  <2>1. C * q >= C * p + C
    BY <1>1, <1>3
  <2> QED
    BY <2>1, <1>1
<1> QED
  BY <1>1, <1>2, <1>3

(* The distance of two counters is known from their remainders, as long as *)
(* it is less than the modulus.                                            *)
LEMMA ModDistance ==
  ASSUME NEW a \in Nat, NEW b \in Nat, NEW C \in Nat \ {0}, a <= b, b < a + C
  PROVE  ((b % C) - (a % C)) % C = b - a
<1> DEFINE p == a \div C
           q == b \div C
<1>1. p \in Nat /\ q \in Nat /\ a = C * p + (a % C) /\ b = C * q + (b % C)
  BY DivMod
<1>2. (b % C) - (a % C) = C * (p - q) + (b - a)
  <2>1. C * (p - q) = C * p - C * q
    BY <1>1
  <2> QED
    BY <1>1, <2>1
<1>3. p - q \in Int /\ b - a \in 0 .. C - 1 /\ (b % C) - (a % C) \in Int
  BY <1>1
<1> HIDE DEF p, q
<1> QED
  BY <1>2, <1>3, ModUnique, Zenon

(* Reducing by a multiple of the modulus first changes nothing.            *)
LEMMA ModOfMod ==
  ASSUME NEW a \in Nat, NEW C \in Nat \ {0}, NEW M \in Nat \ {0}, M % C = 0
  PROVE  /\ (a % M) % C = a % C
         /\ (a - (a % M)) % C = 0
         /\ a - (a % M) \in Nat
<1> DEFINE m == M \div C
           q == a \div M
           r == a % M
<1>1. m \in Nat /\ M = C * m
  BY DivMod
<1>2. q \in Nat /\ r \in 0 .. M - 1 /\ a = M * q + r
  BY DivMod, Zenon
<1> HIDE DEF m, q, r
<1>3. m * q \in Nat /\ M * q = C * (m * q)
  BY <1>1, <1>2
<1>4. r \in Nat /\ a = C * (m * q) + r
  BY <1>2, <1>3
<1>5. (C * (m * q) + r) % C = r % C
  BY <1>3, <1>4, ModMultiple
<1>6. a - r = C * (m * q) /\ C * (m * q) \in Nat
  BY <1>2, <1>3
<1>7. (C * (m * q)) % C = 0
  BY <1>3, ModZero
<1>8. r % C = a % C
  BY <1>4, <1>5
<1>9. (a - r) % C = 0
  BY <1>6, <1>7
<1> QED
  BY <1>6, <1>8, <1>9 DEF r
-----------------------------------------------------------------------------

(* head and total count the reports, and a report that is one of the       *)
(* newest AUDIT_RING_CAPACITY is in the ring at the place of its number.   *)
RingInv ==
  /\ ring.total = Len(log) % TOTAL_MOD
  /\ ring.head = Len(log) % AUDIT_RING_CAPACITY
  /\ seen = mark % TOTAL_MOD
  /\ \A k \in 1 .. Len(log) :
       k > Len(log) - AUDIT_RING_CAPACITY =>
         ring.events[(k - 1) % AUDIT_RING_CAPACITY] =
           Stamp(log[k], (k - 1) % TOTAL_MOD)

IInv == TypeOK /\ RingInv

(* The static initial value is a ring with nothing in it.                  *)
LEMMA InitIInv == Init => IInv
<1> SUFFICES ASSUME Init PROVE IInv
  OBVIOUS
<1> USE AuditRingAssumption
<1>1. TypeOK
  BY DEF Init, TypeOK, AUDIT_RING, RingIndex
<1>2. Len(log) = 0 /\ mark = 0 /\ seen = 0 /\ ring.total = 0 /\ ring.head = 0
  BY DEF Init, AUDIT_RING
<1>3. 0 % TOTAL_MOD = 0 /\ 0 % AUDIT_RING_CAPACITY = 0
  BY ModSmall
<1>4. RingInv
  BY <1>2, <1>3 DEF RingInv
<1> QED
  BY <1>1, <1>4 DEF IInv

(* Enqueuing writes the slot of the new event and of no newer one.         *)
LEMMA EnqueueIInv ==
  ASSUME IInv, NEW e \in Reports, Enqueue(e)
  PROVE  IInv'
<1> USE AuditRingAssumption
<1> DEFINE C == AUDIT_RING_CAPACITY
           M == TOTAL_MOD
           n == Len(log)
           ev == Stamp(e, ring.total)
<1>1. /\ n \in Nat
      /\ log' = Append(log, e)
      /\ Len(log') = n + 1
      /\ log' \in Seq(Reports)
      /\ \A k \in 1 .. n : log'[k] = log[k]
      /\ log'[n + 1] = e
  BY DEF IInv, TypeOK, Enqueue
<1>2. ring.head = n % C /\ ring.total = n % M
  BY DEF IInv, RingInv
<1>3. /\ ring.head \in 0 .. C - 1
      /\ ring.total \in 0 .. M - 1
  BY DEF IInv, TypeOK, RingIndex
<1>4. ring.head % C = ring.head
  BY <1>3, ModSmall
<1>5. /\ ring'.events = [ring.events EXCEPT ![ring.head] = ev]
      /\ ring'.head = (ring.head + 1) % C
      /\ ring'.total = (ring.total + 1) % M
      /\ DOMAIN ring' = {"events", "head", "total"}
  BY <1>4 DEF Enqueue, audit_enqueue, Stamp
<1>6. ring'.head = (n + 1) % C /\ ring'.total = (n + 1) % M
  <2>1. ((n % C) + 1) % C = (n + 1) % C /\ ((n % M) + 1) % M = (n + 1) % M
    <3> HIDE DEF n
    <3> QED
      BY <1>1, ModSucc, Zenon
  <2> QED
    BY <1>2, <1>5, <2>1
<1>7. TypeOK'
  <2>1. ring'.head \in RingIndex /\ ring'.total \in 0 .. M - 1
    <3>1. n + 1 \in Nat
      BY <1>1
    <3>2. (n + 1) % C \in 0 .. C - 1 /\ (n + 1) % M \in 0 .. M - 1
      BY <3>1, DivMod, Zenon
    <3> QED
      BY <1>6, <3>2 DEF RingIndex
  <2>2. ev \in Events
    BY <1>3 DEF Events
  <2>3. ring'.events \in [RingIndex -> Events \cup {EnrollEvent(0, 0, 0, 0, 0)}]
    <3> HIDE DEF ev
    <3> QED
      BY <1>5, <2>2 DEF IInv, TypeOK
  <2>4. seen' \in 0 .. M - 1 /\ mark' \in 0 .. Len(log')
    BY <1>1 DEF IInv, TypeOK, Enqueue
  <2> QED
    BY <1>1, <1>5, <2>1, <2>3, <2>4 DEF TypeOK
<1>8. \A k \in 1 .. n + 1 :
        k > (n + 1) - C => ring'.events[(k - 1) % C] = Stamp(log'[k], (k - 1) % M)
  <2> SUFFICES ASSUME NEW k \in 1 .. n + 1, k > (n + 1) - C
               PROVE  ring'.events[(k - 1) % C] = Stamp(log'[k], (k - 1) % M)
    OBVIOUS
  <2>0. ring.events \in [RingIndex -> Events \cup {EnrollEvent(0, 0, 0, 0, 0)}]
    BY DEF IInv, TypeOK
  <2>1. CASE k = n + 1
    <3>1. (k - 1) % C = ring.head /\ (k - 1) % M = ring.total /\ log'[k] = e
      BY <1>1, <1>2, <2>1
    <3>2. ring'.events[ring.head] = ev
      BY <1>3, <1>5, <2>0 DEF RingIndex
    <3> QED
      BY <3>1, <3>2
  <2>2. CASE k # n + 1
    <3>1. k \in 1 .. n /\ k > n - C /\ log'[k] = log[k]
      BY <1>1, <2>2
    <3>2. ring.events[(k - 1) % C] = Stamp(log[k], (k - 1) % M)
      BY <3>1 DEF IInv, RingInv
    <3> DEFINE p == k - 1
    <3>0. p \in Nat /\ p < n /\ n < p + C
      BY <1>1, <3>1
    <3>3. (k - 1) % C # n % C
      <4> HIDE DEF p
      <4>1. p % C # n % C
        BY <1>1, <3>0, ModDistinct
      <4> QED
        BY <4>1 DEF p
    <3>4. (k - 1) % C \in RingIndex
      <4> HIDE DEF p
      <4>1. p % C \in 0 .. C - 1
        BY <3>0, DivMod, Zenon
      <4> QED
        BY <4>1 DEF p, RingIndex
    <3>5. ring'.events[(k - 1) % C] = ring.events[(k - 1) % C]
      BY <1>2, <1>5, <2>0, <3>3, <3>4
    <3> QED
      BY <3>1, <3>2, <3>5
  <2> QED
    BY <2>1, <2>2
<1>9. seen' = mark' % M
  BY DEF IInv, RingInv, Enqueue
<1> QED
  BY <1>1, <1>6, <1>7, <1>8, <1>9, Zenon DEF IInv, RingInv

(* A snapshot changes nothing but what the auditor knows.                  *)
LEMMA PollIInv == IInv /\ Poll => IInv'
<1> SUFFICES ASSUME IInv, Poll PROVE IInv'
  OBVIOUS
<1>1. TypeOK'
  BY DEF IInv, TypeOK, Poll
<1>2. RingInv'
  BY DEF IInv, RingInv, Poll
<1> QED
  BY <1>1, <1>2 DEF IInv

(* Every reachable ring holds the newest events at their places.           *)
THEOREM Inductive == Spec => []IInv
<1>1. Init => IInv
  BY InitIInv
<1>2. IInv /\ [Next]_vars => IInv'
  <2> SUFFICES ASSUME IInv, [Next]_vars PROVE IInv'
    OBVIOUS
  <2>1. CASE \E e \in Reports : Enqueue(e)
    BY <2>1, EnqueueIInv
  <2>2. CASE Poll
    BY <2>2, PollIInv
  <2>3. CASE UNCHANGED vars
    BY <2>3 DEF vars, IInv, TypeOK, RingInv
  <2> QED
    BY <2>1, <2>2, <2>3 DEF Next
<1> QED
  BY <1>1, <1>2, PTL DEF Spec

(* The ring's fields stay in range (see TypeOK).                           *)
THEOREM TypeCorrect == Spec => []TypeOK
<1>1. IInv => TypeOK
  BY DEF IInv
<1> QED
  BY <1>1, Inductive, PTL
-----------------------------------------------------------------------------
(* What entry i of a snapshot is, for any buffer.                          *)
LEMMA SnapshotEntry ==
  ASSUME IInv, NEW out_len \in Nat,
         NEW i \in 1 .. Len(audit_snapshot(ring, out_len))
  PROVE  LET skipped == Len(log) - Valid(ring)
         IN  /\ skipped + i \in 1 .. Len(log)
             /\ skipped \in Nat
             /\ audit_snapshot(ring, out_len)[i] =
                  Stamp(log[skipped + i], (skipped + i - 1) % TOTAL_MOD)
<1> USE AuditRingAssumption
<1> DEFINE C == AUDIT_RING_CAPACITY
           M == TOTAL_MOD
           n == Len(log)
           v == Valid(ring)
           w == Lesser(v, Lesser(out_len, C))
           k == (n - v) + i
<1>1. n \in Nat /\ ring.total = n % M /\ ring.head = n % C
  BY DEF IInv, RingInv, TypeOK
<1>2. ring.total \in 0 .. M - 1 /\ ring.total <= n
  <2>1. n % M \in 0 .. M - 1 /\ n - (n % M) \in Nat
    BY <1>1, DivMod, ModOfMod, Zenon
  <2> QED
    BY <1>1, <2>1
<1>3. v \in 0 .. C /\ v <= n /\ v <= ring.total
  BY <1>2 DEF Valid, Lesser
<1>4. w \in 0 .. C /\ w <= v
  BY <1>3 DEF Lesser
<1>5. audit_snapshot(ring, out_len) =
        [j \in 1 .. w |-> ring.events[(Start(ring) + j - 1) % C]]
  BY DEF audit_snapshot
<1>6. i \in 1 .. w
  <2> HIDE DEF w
  <2> QED
    BY <1>4, <1>5
<1>7. k \in 1 .. n /\ k > n - C /\ n - v \in Nat
  BY <1>1, <1>3, <1>4, <1>6
<1>8. ring.events[(k - 1) % C] = Stamp(log[k], (k - 1) % M)
  BY <1>7, Zenon DEF IInv, RingInv
<1>9. (Start(ring) + i - 1) % C = (k - 1) % C
  <2>1. CASE ring.total > C
    <3>1. Start(ring) = n % C /\ v = C
      BY <1>1, <1>2, <2>1 DEF Start, Valid, Lesser
    <3> DEFINE h == i - 1
               p == k - 1
    <3>a. h \in Nat /\ p \in Nat /\ n + h = C + p
      BY <1>1, <1>6, <1>7, <3>1
    <3>b. ((n % C) + h) % C = (n + h) % C /\ (C + p) % C = p % C
      <4> HIDE DEF h, p, k, v
      <4>1. ((n % C) + h) % C = (n + h) % C
        BY <1>1, <3>a, ModAdd, Zenon
      <4>2. (C + p) % C = p % C
        BY <3>a, ModRound, Zenon
      <4> QED
        BY <4>1, <4>2
    <3>5. n % C \in 0 .. C - 1
      BY <1>1, DivMod, Zenon
    <3>6. Start(ring) + i - 1 = (n % C) + h
      BY <1>6, <3>1, <3>5
    <3> QED
      BY <3>a, <3>b, <3>6, Zenon
  <2>2. CASE ~(ring.total > C)
    <3>1. Start(ring) = 0 /\ v = ring.total
      BY <1>2, <2>2 DEF Start, Valid, Lesser
    <3>2. (n - v) % C = 0 /\ n - v \in Nat
      <4> HIDE DEF n, v
      <4>1. (n - (n % M)) % C = 0 /\ n - (n % M) \in Nat
        BY <1>1, ModOfMod, Zenon
      <4> QED
        BY <1>1, <3>1, <4>1
    <3> DEFINE h == i - 1
               b == n - v
    <3>3. h \in Nat /\ b \in Nat /\ b % C = 0
      BY <1>6, <3>2
    <3>4. ((b % C) + h) % C = (b + h) % C
      <4> HIDE DEF h, b, v
      <4> QED
        BY <3>3, ModAdd, Zenon
    <3>5. b + h = k - 1 /\ 0 + h = Start(ring) + i - 1
      BY <1>6, <3>1, <3>3
    <3> QED
      BY <3>3, <3>4, <3>5
  <2> QED
    BY <2>1, <2>2
<1>10. audit_snapshot(ring, out_len)[i] = ring.events[(Start(ring) + i - 1) % C]
  <2> HIDE DEF w
  <2> QED
    BY <1>5, <1>6
<1> QED
  BY <1>7, <1>8, <1>9, <1>10

(* Snapshots into any buffer list consecutive reports (SnapshotFaithful).  *)
THEOREM SnapshotsAreFaithful == Spec => []SnapshotFaithful
<1>1. IInv => SnapshotFaithful
  BY SnapshotEntry, AuditRingAssumption DEF SnapshotFaithful
<1> QED
  BY <1>1, Inductive, PTL

(* A full-size snapshot has Valid(ring) entries.                           *)
LEMMA FullSnapshot ==
  ASSUME IInv
  PROVE  /\ Len(audit_snapshot(ring, AUDIT_RING_CAPACITY)) = Valid(ring)
         /\ Valid(ring) \in 0 .. AUDIT_RING_CAPACITY
<1>1. Valid(ring) \in 0 .. AUDIT_RING_CAPACITY
  BY AuditRingAssumption DEF Valid, Lesser, IInv, TypeOK
<1>2. Lesser(Valid(ring), Lesser(AUDIT_RING_CAPACITY, AUDIT_RING_CAPACITY))
        = Valid(ring)
  BY <1>1, AuditRingAssumption DEF Lesser
<1> QED
  BY <1>1, <1>2 DEF audit_snapshot

(* The counter tells an auditor whether it missed events                   *)
(* (LossIsDetectable).                                                     *)
THEOREM LossDetection == Spec => []LossIsDetectable
<1>1. IInv => LossIsDetectable
  <2> DEFINE s == audit_snapshot(ring, AUDIT_RING_CAPACITY)
             moved == (ring.total - seen) % TOTAL_MOD
  <2> SUFFICES ASSUME IInv, Len(log) - mark < TOTAL_MOD
               PROVE  /\ moved = Len(log) - mark
                      /\ moved <= Len(s) =>
                           \A i \in 1 .. moved :
                             s[Len(s) - moved + i] =
                               Stamp(log[mark + i], (mark + i - 1) % TOTAL_MOD)
    BY DEF LossIsDetectable
  <2> USE AuditRingAssumption
  <2>1. Len(log) \in Nat /\ mark \in Nat /\ mark <= Len(log)
    BY DEF IInv, TypeOK
  <2>2. ring.total = Len(log) % TOTAL_MOD /\ seen = mark % TOTAL_MOD
    BY DEF IInv, RingInv
  <2>3. moved = Len(log) - mark
    <3> DEFINE n == Len(log)
               m == mark
    <3>1. n \in Nat /\ m \in Nat /\ m <= n /\ n < m + TOTAL_MOD
      BY <2>1
    <3> HIDE DEF n, m
    <3>2. ((n % TOTAL_MOD) - (m % TOTAL_MOD)) % TOTAL_MOD = n - m
      BY <3>1, ModDistance, Zenon
    <3> QED
      BY <2>2, <3>2 DEF n, m
  <2>4. Len(s) = Valid(ring) /\ Valid(ring) \in 0 .. AUDIT_RING_CAPACITY
    BY FullSnapshot
  <2> HIDE DEF s, moved
  <2> SUFFICES ASSUME moved <= Len(s), NEW i \in 1 .. moved
               PROVE  s[Len(s) - moved + i] =
                        Stamp(log[mark + i], (mark + i - 1) % TOTAL_MOD)
    BY <2>3
  <2> DEFINE j == Len(s) - moved + i
             k == (Len(log) - Valid(ring)) + j
  <2>5. j \in 1 .. Len(s)
    BY <2>1, <2>3, <2>4
  <2>6. k = mark + i
    BY <2>1, <2>3, <2>4
  <2>7. s[j] = Stamp(log[k], (k - 1) % TOTAL_MOD)
    <3> HIDE DEF j
    <3> QED
      BY <2>5, SnapshotEntry DEF s
  <2> HIDE DEF k
  <2> QED
    BY <2>1, <2>3, <2>6, <2>7
<1> QED
  BY <1>1, Inductive, PTL
-----------------------------------------------------------------------------
(* Append and Tail, entry by entry.                                        *)
LEMMA AppendEntries ==
  ASSUME NEW S, NEW n \in Nat, NEW s \in [1 .. n -> S], NEW e \in S
  PROVE  Append(s, e) = [i \in 1 .. n + 1 |-> IF i = n + 1 THEN e ELSE s[i]]
<1> DEFINE t == [i \in 1 .. n |-> s[i]]
<1>1. t = s /\ t \in Seq(S) /\ Len(t) = n
  OBVIOUS
<1>2. Append(t, e) = [i \in 1 .. n + 1 |-> IF i = n + 1 THEN e ELSE t[i]]
  BY <1>1
<1> QED
  BY <1>1, <1>2, Zenon

LEMMA SlideEntries ==
  ASSUME NEW S, NEW n \in Nat \ {0}, NEW s \in [1 .. n -> S], NEW e \in S
  PROVE  Append(Tail(s), e) = [i \in 1 .. n |-> IF i = n THEN e ELSE s[i + 1]]
<1> DEFINE t == [i \in 1 .. n - 1 |-> s[i + 1]]
<1>1. s \in Seq(S) /\ Len(s) = n
  OBVIOUS
<1>2. t \in Seq(S) /\ Len(t) = n - 1
  OBVIOUS
<1>3. Tail(s) = t
  <2> DEFINE u == [i \in 1 .. n |-> s[i]]
  <2>1. u = s /\ u \in Seq(S) /\ Len(u) = n
    OBVIOUS
  <2>2. Tail(u) = [i \in 1 .. n - 1 |-> u[i + 1]]
    BY <2>1
  <2> QED
    BY <2>1, <2>2, Zenon
<1>4. Append(t, e) = [i \in 1 .. n |-> IF i = n THEN e ELSE s[i + 1]]
  BY <1>2
<1> QED
  BY <1>3, <1>4, Zenon

(* One event recorded in the ring is one step of the sliding window.       *)
LEMMA EnqueueSlides ==
  ASSUME IInv, NEW e \in Reports, Enqueue(e)
  PROVE  Window!Record(Stamp(e, ring.total))
<1> DEFINE C == AUDIT_RING_CAPACITY
           M == TOTAL_MOD
           n == Len(log)
           f == ring.events
           g == ring'.events
           h == ring.head
           t == ring.total
           ev == Stamp(e, t)
           S == Events \cup {EnrollEvent(0, 0, 0, 0, 0)}
           w == audit_snapshot(ring, C)
<1>0. C \in Nat \ {0} /\ M \in Nat \ {0}
  BY AuditRingAssumption
<1>1. n \in Nat /\ h = n % C /\ t = n % M
  BY DEF IInv, TypeOK, RingInv
<1>2. h \in 0 .. C - 1 /\ t \in 0 .. M - 1
  BY DEF IInv, TypeOK, RingIndex
<1>3. f \in [0 .. C - 1 -> S]
  BY DEF IInv, TypeOK, RingIndex
<1>4. h = t % C
  <2> HIDE DEF n, h, t
  <2>1. (n % M) % C = n % C
    BY <1>1, ModOfMod, AuditRingAssumption, Zenon
  <2> QED
    BY <1>1, <2>1
<1>5. ev.seq = t
  BY DEF Stamp, EnrollEvent
<1>6. ev \in S
  <2>1. ev \in Events
    BY <1>2 DEF Events
  <2> QED
    BY <2>1
<1>7. /\ g = [f EXCEPT ![h] = ev]
      /\ ring'.head = (h + 1) % C
      /\ ring'.total = (t + 1) % M
  <2>1. h % C = h
    BY <1>0, <1>2, ModSmall
  <2> QED
    BY <2>1 DEF Enqueue, audit_enqueue, Stamp
<1>8. w = [i \in 1 .. Valid(ring) |-> f[(Start(ring) + i - 1) % C]]
  <2>1. Valid(ring) \in 0 .. C
    BY <1>0, <1>2 DEF Valid, Lesser
  <2>2. Lesser(Valid(ring), Lesser(C, C)) = Valid(ring)
    BY <1>0, <2>1 DEF Lesser
  <2> QED
    BY <2>2 DEF audit_snapshot
<1>9. (t + 1) % M = IF t + 1 = M THEN 0 ELSE t + 1
  <2> HIDE DEF t
  <2>1. CASE t + 1 = M
    BY <2>1, <1>0, ModSelf
  <2>2. CASE t + 1 # M
    <3> DEFINE t1 == t + 1
    <3>1. t1 \in 0 .. M - 1
      BY <1>0, <1>2, <2>2
    <3> HIDE DEF t1
    <3>2. t1 % M = t1
      BY <1>0, <3>1, ModSmall
    <3> QED
      BY <2>2, <3>2 DEF t1
  <2> QED
    BY <2>1, <2>2
<1>10. w' = [i \in 1 .. Valid(ring)' |-> g[(Start(ring)' + i - 1) % C]]
  <2>0. ring'.total \in Nat
    BY <1>2, <1>7, <1>9
  <2>1. Valid(ring)' \in 0 .. C
    BY <1>0, <2>0 DEF Valid, Lesser
  <2>2. Lesser(Valid(ring)', Lesser(C, C)) = Valid(ring)'
    BY <1>0, <2>1 DEF Lesser
  <2> QED
    BY <2>2 DEF audit_snapshot
<1>11. CASE t + 1 = M
  <2>1. ring'.total = 0
    BY <1>7, <1>9, <1>11
  <2>2. Valid(ring)' = 0
    BY <1>0, <2>1 DEF Valid, Lesser
  <2>3. w' = <<>>
    BY <1>10, <2>2
  <2> QED
    BY <1>5, <1>7, <2>1, <2>3 DEF Window!Record
<1>12. CASE t + 1 # M /\ t < C
  <2>1. ring'.total = t + 1 /\ t + 1 # 0
    BY <1>2, <1>7, <1>9, <1>12
  <2>2. h = t
    <3> HIDE DEF h, t
    <3>1. t \in 0 .. C - 1
      BY <1>0, <1>2, <1>12
    <3> QED
      BY <1>0, <1>4, <3>1, ModSmall
  <2>3. Valid(ring) = t /\ Start(ring) = 0
    BY <1>0, <1>2, <1>12 DEF Valid, Start, Lesser
  <2>4. Valid(ring)' = t + 1 /\ Start(ring)' = 0
    BY <1>0, <1>2, <1>12, <2>1 DEF Valid, Start, Lesser
  <2>5. \A i \in 1 .. C : (0 + i - 1) % C = i - 1
    BY <1>0, ModSmall
  <2> HIDE DEF C, M, n, f, g, h, t, ev, S, w
  <2>6. w = [i \in 1 .. t |-> f[i - 1]]
    BY <1>0, <1>2, <1>8, <1>12, <2>3, <2>5
  <2>7. w' = [i \in 1 .. t + 1 |-> g[i - 1]]
    BY <1>0, <1>2, <1>10, <1>12, <2>4, <2>5
  <2>8. \A i \in 1 .. t + 1 : g[i - 1] = IF i = t + 1 THEN ev ELSE f[i - 1]
    BY <1>0, <1>2, <1>3, <1>7, <1>12, <2>2
  <2>9. w \in [1 .. t -> S] /\ Len(w) = t
    BY <1>0, <1>2, <1>3, <1>12, <2>6
  <2>10. w' = [i \in 1 .. t + 1 |-> IF i = t + 1 THEN ev ELSE w[i]]
    BY <1>2, <2>6, <2>7, <2>8
  <2>11. w' = Append(w, ev)
    <3>1. t \in Nat
      BY <1>2
    <3> QED
      BY <1>6, <2>9, <2>10, <3>1, AppendEntries
  <2> QED
    BY <1>2, <1>5, <1>7, <1>12, <2>1, <2>9, <2>11
    DEF Window!Record, Window!Slide, w, t, C, M, ev
<1>13. CASE t + 1 # M /\ t >= C
  <2>1. ring'.total = t + 1 /\ t + 1 # 0
    BY <1>2, <1>7, <1>9, <1>13
  <2>2. Start(ring) = h
    <3>1. CASE t = C
      <4>1. t % C = 0
        BY <1>0, <3>1, ModSelf
      <4> QED
        BY <1>0, <1>4, <3>1, <4>1 DEF Start
    <3>2. CASE t > C
      BY <3>2 DEF Start
    <3> QED
      BY <1>0, <1>2, <1>13, <3>1, <3>2
  <2>3. Valid(ring) = C
    BY <1>0, <1>2, <1>13 DEF Valid, Lesser
  <2>4. Valid(ring)' = C /\ Start(ring)' = (h + 1) % C
    <3>1. ring'.total > C
      BY <1>0, <1>2, <1>13, <2>1
    <3> QED
      BY <1>0, <1>7, <2>1, <1>2, <3>1 DEF Valid, Start, Lesser
  <2> HIDE DEF C, M, n, f, g, h, t, ev, S, w
  <2>5. w = [i \in 1 .. C |-> f[(h + i - 1) % C]]
    BY <1>8, <2>2, <2>3
  <2>6. w' = [i \in 1 .. C |-> g[(((h + 1) % C) + i - 1) % C]]
    BY <1>10, <2>4
  <2>7. ASSUME NEW i \in 1 .. C
        PROVE  /\ (((h + 1) % C) + i - 1) % C = (h + i) % C
               /\ (h + i) % C \in 0 .. C - 1
               /\ (h + i - 1) % C \in 0 .. C - 1
               /\ g[(h + i) % C] = IF i = C THEN ev ELSE f[(h + i) % C]
    <3> DEFINE h1 == h + 1
               j  == i - 1
               a  == h + i
               b  == h + i - 1
    <3>1. /\ h \in Nat /\ h1 \in Nat /\ j \in Nat /\ a \in Nat /\ b \in Nat
          /\ h1 + j = a
      BY <1>0, <1>2
    <3> HIDE DEF h1, j, a, b
    <3>2. ((h1 % C) + j) % C = (h1 + j) % C
      BY <1>0, <3>1, ModAdd, ZenonT(60)
    <3>3. a % C \in 0 .. C - 1 /\ b % C \in 0 .. C - 1 /\ h1 % C \in 0 .. C - 1
      BY <1>0, <3>1, DivMod
    <3>4. (h1 % C) + j = (h1 % C) + i - 1
      BY <3>3 DEF j
    <3>5. h % C = h
      BY <1>0, <1>2, ModSmall
    <3>6. CASE i = C
      <4>1. (C + h) % C = h % C
        BY <1>0, <3>1, ModRound, Zenon
      <4>2. a = C + h
        BY <1>0, <3>1, <3>6 DEF a
      <4>3. a % C = h
        BY <3>5, <4>1, <4>2
      <4> QED
        BY <1>2, <1>3, <1>7, <3>1, <3>2, <3>3, <3>4, <3>6, <4>3, Zenon DEF a, b, h1
    <3>7. CASE i # C
      <4>1. h < a /\ a < h + C
        BY <1>0, <3>1, <3>7 DEF a
      <4>2. h % C # a % C
        BY <1>0, <3>1, <4>1, ModDistinct, Zenon
      <4>3. g[a % C] = f[a % C]
        BY <1>2, <1>3, <1>7, <3>3, <3>5, <4>2
      <4> QED
        BY <3>1, <3>2, <3>3, <3>4, <3>7, <4>3 DEF a, b, h1
    <3> QED
      BY <3>6, <3>7
  <2>8. w \in [1 .. C -> S] /\ Len(w) = C
    <3>1. \A i \in 1 .. C : f[(h + i - 1) % C] \in S
      BY <1>3, <2>7
    <3>2. w \in [1 .. C -> S]
      BY <2>5, <3>1
    <3> QED
      BY <1>0, <2>5, <3>2
  <2>9. w' = [i \in 1 .. C |-> IF i = C THEN ev ELSE w[i + 1]]
    <3>1. ASSUME NEW i \in 1 .. C
          PROVE  g[(((h + 1) % C) + i - 1) % C] = IF i = C THEN ev ELSE w[i + 1]
      <4>1. g[(((h + 1) % C) + i - 1) % C] = IF i = C THEN ev ELSE f[(h + i) % C]
        BY <2>7
      <4>2. CASE i # C
        <5>1. i + 1 \in 1 .. C /\ h + (i + 1) - 1 = h + i
          BY <1>0, <1>2, <4>2
        <5>2. w[i + 1] = f[(h + i) % C]
          BY <2>5, <5>1
        <5> QED
          BY <4>1, <4>2, <5>2
      <4> QED
        BY <4>1, <4>2
    <3> QED
      BY <2>6, <3>1
  <2>10. w' = Append(Tail(w), ev)
    BY <1>0, <1>6, <2>8, <2>9, SlideEntries
  <2> QED
    BY <1>0, <1>5, <1>7, <2>1, <2>8, <2>10
    DEF Window!Record, Window!Slide, w, t, C, M, ev
<1> QED
  BY <1>0, <1>2, <1>11, <1>12, <1>13

(* The ring implements the sliding window of AuditLog                      *)
(* (RingIsSlidingWindow).                                                  *)
THEOREM RingImplementsWindow == Spec => RingIsSlidingWindow
<1>1. Init => Window!Init
  <2> SUFFICES ASSUME Init PROVE Window!Init
    OBVIOUS
  <2>1. ring.total = 0
    BY DEF Init, AUDIT_RING
  <2>2. Valid(ring) = 0
    BY <2>1, AuditRingAssumption DEF Valid, Lesser
  <2>3. Lesser(0, Lesser(AUDIT_RING_CAPACITY, AUDIT_RING_CAPACITY)) = 0
    BY AuditRingAssumption DEF Lesser
  <2>4. audit_snapshot(ring, AUDIT_RING_CAPACITY) = <<>>
    BY <2>2, <2>3 DEF audit_snapshot
  <2> QED
    BY <2>1, <2>4 DEF Window!Init
<1>2. IInv /\ [Next]_vars => [Window!Next]_(Window!vars)
  <2> SUFFICES ASSUME IInv, [Next]_vars PROVE [Window!Next]_(Window!vars)
    OBVIOUS
  <2>1. ASSUME NEW e \in Reports, Enqueue(e) PROVE Window!Next
    <3>1. ring.total \in 0 .. TOTAL_MOD - 1
      BY DEF IInv, TypeOK
    <3>2. Stamp(e, ring.total) \in Events
      BY <3>1 DEF Events
    <3> QED
      BY <2>1, <3>2, EnqueueSlides DEF Window!Next
  <2>2. CASE UNCHANGED ring
    BY <2>2 DEF Window!vars, audit_snapshot, Valid, Start
  <2> QED
    BY <2>1, <2>2 DEF Next, Poll, vars
<1> QED
  BY <1>1, <1>2, Inductive, PTL DEF Spec, RingIsSlidingWindow, Window!Spec
=============================================================================
