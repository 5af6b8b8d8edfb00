-------------------------- MODULE ServiceLemmas --------------------------
(***************************************************************************)
(* What the operators behind the services do, for all buffer sizes and     *)
(* requests.  The handlers of the signing session leave it consistent and  *)
(* move it forward or end it; the functions of ipc.rs on an endpoint; and  *)
(* the three ways a call can go: refused, answered or blocked.             *)
(***************************************************************************)
EXTENDS Services, TLAPS

Phases == {"Idle", "CollectKey", "CollectAux", "CollectMsg", "Ready", "OutputReady"}

SessionType ==
  [phase : Phases, op : SignOp, total : [Section -> Nat], recv : [Section -> Nat],
   out_total : Nat, verify_ok : BOOLEAN, buf : [Section -> SUBSET Nat],
   out : {NoOutput} \cup [op : SignOp, from : [Section -> SUBSET Nat]]]

SignBodyOK(b) == b.offset \in Nat /\ b.chunk_len \in Nat /\ b.total \in [Section -> Nat]

-----------------------------------------------------------------------------
(* Limits and sections.                                                    *)
LEMMA LimitFacts ==
  ASSUME NEW op \in SignOp
  PROVE  /\ Limit(op) \in [Section -> Nat]
         /\ \A k \in Section : Limit(op)[k] <= BufLen[k] /\ BufLen[k] \in Nat
<1>1. CASE op = "Keygen"
  BY <1>1, SignAssumption DEF Limit, Section, BufLen
<1>2. CASE op = "Sign"
  BY <1>2, SignAssumption DEF Limit, Section, BufLen
<1>3. CASE op = "Verify"
  BY <1>3, SignAssumption DEF Limit, Section, BufLen
<1> QED BY <1>1, <1>2, <1>3 DEF SignOp

LEMMA IdleType == SessionIdle \in SessionType
  BY DEF SessionIdle, SessionType, Phases, SignOp, NoLengths, Zeroed, NoOutput

LEMMA IdleConsistent == \A ordered \in BOOLEAN : Consistent(SessionIdle, ordered)
<1> TAKE ordered \in BOOLEAN
<1>1. Limit("Keygen") \in [Section -> Nat]
  BY LimitFacts DEF SignOp
<1> QED BY <1>1 DEF Consistent, SessionIdle, Collecting, SectionOf, NoLengths, Zeroed, NoOutput

(* The phase after section k is that of a later, non-empty section, and    *)
(* the sections between are empty.                                         *)
LEMMA PhaseAfterFacts ==
  ASSUME NEW total \in [Section -> Nat], NEW k \in 0 .. 3,
         NEW p, p = PhaseAfter(total, k)
  PROVE  /\ p \in {"CollectKey", "CollectAux", "CollectMsg", "Ready"}
         /\ p = "Ready" => \A j \in Section : j > k => total[j] = 0
         /\ p # "Ready" => /\ SectionOf(p) \in Section /\ SectionOf(p) > k
                           /\ total[SectionOf(p)] > 0
                           /\ \A j \in Section : j > k /\ j < SectionOf(p) => total[j] = 0
  BY DEF PhaseAfter, SectionOf, Section

(* A session record, and its fields replaced one after the other.          *)
Sess(phase, op, total, recv, out_total, verify_ok, buf, out) ==
  [phase |-> phase, op |-> op, total |-> total, recv |-> recv, out_total |-> out_total,
   verify_ok |-> verify_ok, buf |-> buf, out |-> out]

LEMMA Set_phase ==
  ASSUME NEW a, NEW b, NEW c, NEW d, NEW e, NEW f, NEW g, NEW h, NEW x
  PROVE  [Sess(a, b, c, d, e, f, g, h) EXCEPT !.phase = x] = Sess(x, b, c, d, e, f, g, h)
  BY DEF Sess

LEMMA Set_op ==
  ASSUME NEW a, NEW b, NEW c, NEW d, NEW e, NEW f, NEW g, NEW h, NEW x
  PROVE  [Sess(a, b, c, d, e, f, g, h) EXCEPT !.op = x] = Sess(a, x, c, d, e, f, g, h)
  BY DEF Sess

LEMMA Set_total ==
  ASSUME NEW a, NEW b, NEW c, NEW d, NEW e, NEW f, NEW g, NEW h, NEW x
  PROVE  [Sess(a, b, c, d, e, f, g, h) EXCEPT !.total = x] = Sess(a, b, x, d, e, f, g, h)
  BY DEF Sess

LEMMA Set_recv ==
  ASSUME NEW a, NEW b, NEW c, NEW d, NEW e, NEW f, NEW g, NEW h, NEW x
  PROVE  [Sess(a, b, c, d, e, f, g, h) EXCEPT !.recv = x] = Sess(a, b, c, x, e, f, g, h)
  BY DEF Sess

LEMMA Set_out_total ==
  ASSUME NEW a, NEW b, NEW c, NEW d, NEW e, NEW f, NEW g, NEW h, NEW x
  PROVE  [Sess(a, b, c, d, e, f, g, h) EXCEPT !.out_total = x] = Sess(a, b, c, d, x, f, g, h)
  BY DEF Sess

LEMMA Set_verify_ok ==
  ASSUME NEW a, NEW b, NEW c, NEW d, NEW e, NEW f, NEW g, NEW h, NEW x
  PROVE  [Sess(a, b, c, d, e, f, g, h) EXCEPT !.verify_ok = x] = Sess(a, b, c, d, e, x, g, h)
  BY DEF Sess

LEMMA Set_buf ==
  ASSUME NEW a, NEW b, NEW c, NEW d, NEW e, NEW f, NEW g, NEW h, NEW x
  PROVE  [Sess(a, b, c, d, e, f, g, h) EXCEPT !.buf = x] = Sess(a, b, c, d, e, f, x, h)
  BY DEF Sess

LEMMA Set_out ==
  ASSUME NEW a, NEW b, NEW c, NEW d, NEW e, NEW f, NEW g, NEW h, NEW x
  PROVE  [Sess(a, b, c, d, e, f, g, h) EXCEPT !.out = x] = Sess(a, b, c, d, e, f, g, x)
  BY DEF Sess

LEMMA SessFields ==
  ASSUME NEW s \in SessionType
  PROVE  s = Sess(s.phase, s.op, s.total, s.recv, s.out_total, s.verify_ok, s.buf, s.out)
  BY DEF SessionType, Sess

LEMMA BeginRecord ==
  ASSUME NEW p, NEW op, NEW total
  PROVE  [SessionIdle EXCEPT !.phase = p, !.op = op, !.total = total]
           = Sess(p, op, total, NoLengths, 0, FALSE, Zeroed, NoOutput)
<1> DEFINE i == SessionIdle
           r1 == [i EXCEPT !.phase = p]
           r2 == [r1 EXCEPT !.op = op]
<1>1. i = Sess(i.phase, i.op, i.total, i.recv, i.out_total, i.verify_ok, i.buf, i.out)
  BY IdleType, SessFields
<1>2. /\ i.recv = NoLengths /\ i.out_total = 0 /\ i.verify_ok = FALSE
      /\ i.buf = Zeroed /\ i.out = NoOutput
  BY DEF SessionIdle
<1> HIDE DEF i
<1>3. r1 = Sess(p, i.op, i.total, i.recv, i.out_total, i.verify_ok, i.buf, i.out)
  BY <1>1, Set_phase
<1> HIDE DEF r1
<1>4. r2 = Sess(p, op, i.total, i.recv, i.out_total, i.verify_ok, i.buf, i.out)
  BY <1>3, Set_op
<1> HIDE DEF r2
<1>5. [r2 EXCEPT !.total = total]
        = Sess(p, op, total, i.recv, i.out_total, i.verify_ok, i.buf, i.out)
  BY <1>4, Set_total
<1>6. @ = Sess(p, op, total, NoLengths, 0, FALSE, Zeroed, NoOutput)
  BY <1>2
<1> QED BY <1>5, <1>6 DEF r2, r1, i

ChunkNext(s, x, b, r, p) == [s EXCEPT !.buf[x] = b, !.recv[x] = r, !.phase = p]

LEMMA ChunkRecord ==
  ASSUME NEW s \in SessionType, NEW x \in Section, NEW b, NEW r, NEW p
  PROVE  ChunkNext(s, x, b, r, p)
           = Sess(p, s.op, s.total, [s.recv EXCEPT ![x] = r], s.out_total, s.verify_ok,
                  [s.buf EXCEPT ![x] = b], s.out)
<1> DEFINE bb == [s.buf EXCEPT ![x] = b]
           rr == [s.recv EXCEPT ![x] = r]
           r1 == [s EXCEPT !.buf[x] = b]
           r2 == [r1 EXCEPT !.recv[x] = r]
<1> HIDE DEF bb, rr
<1>1. r1 = Sess(s.phase, s.op, s.total, s.recv, s.out_total, s.verify_ok, bb, s.out)
  BY SessFields, Set_buf DEF bb
<1> HIDE DEF r1
<1>2. r1.recv = s.recv
  BY <1>1 DEF Sess
<1>3. r2 = Sess(s.phase, s.op, s.total, rr, s.out_total, s.verify_ok, bb, s.out)
  BY <1>1, <1>2, Set_recv DEF rr
<1> HIDE DEF r2
<1>4. [r2 EXCEPT !.phase = p] = Sess(p, s.op, s.total, rr, s.out_total, s.verify_ok, bb, s.out)
  BY <1>3, Set_phase
<1> QED BY <1>4 DEF ChunkNext, r2, r1, bb, rr

ExecNext(s, v, o, z, n, p) ==
  [s EXCEPT !.verify_ok = v, !.out = o, !.buf = z, !.out_total = n, !.phase = p]

LEMMA ExecRecord ==
  ASSUME NEW s \in SessionType, NEW v, NEW o, NEW z, NEW n, NEW p
  PROVE  ExecNext(s, v, o, z, n, p)
           = Sess(p, s.op, s.total, s.recv, n, v, z, o)
<1> DEFINE r1 == [s EXCEPT !.verify_ok = v]
           r2 == [r1 EXCEPT !.out = o]
           r3 == [r2 EXCEPT !.buf = z]
           r4 == [r3 EXCEPT !.out_total = n]
<1>1. r1 = Sess(s.phase, s.op, s.total, s.recv, s.out_total, v, s.buf, s.out)
  BY SessFields, Set_verify_ok
<1> HIDE DEF r1
<1>2. r2 = Sess(s.phase, s.op, s.total, s.recv, s.out_total, v, s.buf, o)
  BY <1>1, Set_out
<1> HIDE DEF r2
<1>3. r3 = Sess(s.phase, s.op, s.total, s.recv, s.out_total, v, z, o)
  BY <1>2, Set_buf
<1> HIDE DEF r3
<1>4. r4 = Sess(s.phase, s.op, s.total, s.recv, n, v, z, o)
  BY <1>3, Set_out_total
<1> HIDE DEF r4
<1>5. [r4 EXCEPT !.phase = p] = Sess(p, s.op, s.total, s.recv, n, v, z, o)
  BY <1>4, Set_phase
<1> QED BY <1>5 DEF ExecNext, r4, r3, r2, r1

(* Each handler leaves the session as it was or leaves a consistent one.   *)
LEMMA BeginKeeps ==
  ASSUME NEW s \in SessionType, NEW b, SignBodyOK(b)
  PROVE  LET a == handle_begin(s, b)
         IN  /\ a.s \in SessionType
             /\ a.s = s \/ (s.phase = "Idle" /\ Consistent(a.s, TRUE))
<1> DEFINE a == handle_begin(s, b)
           n == [SessionIdle EXCEPT !.phase = PhaseAfter(b.total, 0),
                                    !.op = b.op, !.total = b.total]
<1>1. CASE a.s = s
  BY <1>1
<1>2. CASE a.s # s
  <2>1. /\ s.phase = "Idle" /\ b.op \in SignOp /\ a.s = n
        /\ \A k \in Section : ~(b.total[k] > Limit(b.op)[k])
    BY <1>2 DEF handle_begin, Answer
  <2> DEFINE p == PhaseAfter(b.total, 0)
  <2>2. n = Sess(p, b.op, b.total, NoLengths, 0, FALSE, Zeroed, NoOutput)
    BY BeginRecord
  <2> HIDE DEF n
  <2>3. b.total \in [Section -> Nat] /\ Limit(b.op) \in [Section -> Nat]
    BY <2>1, LimitFacts DEF SignBodyOK
  <2>4. /\ p \in {"CollectKey", "CollectAux", "CollectMsg", "Ready"}
        /\ p = "Ready" => \A j \in Section : j > 0 => b.total[j] = 0
        /\ p # "Ready" => /\ SectionOf(p) \in Section /\ SectionOf(p) > 0
                          /\ b.total[SectionOf(p)] > 0
                          /\ \A j \in Section : j > 0 /\ j < SectionOf(p) => b.total[j] = 0
    BY <2>3, PhaseAfterFacts
  <2> HIDE DEF p
  <2>5. n \in SessionType
    BY <2>1, <2>2, <2>3, <2>4
    DEF SessionType, Phases, NoLengths, Zeroed, Section, Sess
  <2>6. Consistent(n, TRUE)
    <3> USE DEF Section
    <3>1. p \notin {"Idle", "OutputReady"}
      BY <2>4
    <3>2. p = "Ready" => SectionOf(p) = 0
      BY DEF SectionOf
    <3>3. \A k \in Section :
           /\ NoLengths[k] \in 0 .. b.total[k]
           /\ b.total[k] <= Limit(b.op)[k]
           /\ Zeroed[k] \subseteq 0 .. b.total[k] - 1
           /\ NoLengths[k] = 0 /\ Zeroed[k] = {}
           /\ k < SectionOf(p) \/ p \in {"Ready", "OutputReady"} => NoLengths[k] = b.total[k]
           /\ Zeroed[k] = 0 .. NoLengths[k] - 1
      <4>1. \A k \in Section : NoLengths[k] = 0 /\ Zeroed[k] = {}
        BY DEF NoLengths, Zeroed
      <4>2. \A k \in Section : b.total[k] \in Nat /\ b.total[k] <= Limit(b.op)[k]
        BY <2>1, <2>3
      <4>3. \A k \in Section : k < SectionOf(p) \/ p = "Ready" => b.total[k] = 0
        BY <2>4, <3>2
      <4>4. ASSUME NEW k \in Section
            PROVE  /\ NoLengths[k] \in 0 .. b.total[k]
                   /\ Zeroed[k] \subseteq 0 .. b.total[k] - 1
                   /\ Zeroed[k] = 0 .. NoLengths[k] - 1
        <5>1. 0 \in 0 .. b.total[k] /\ 0 .. 0 - 1 = {}
          BY <4>2
        <5> QED
          BY <4>1, <5>1
      <4> QED
        BY <3>1, <4>1, <4>2, <4>3, <4>4
    <3>4. SectionOf(p) # 0 => NoLengths[SectionOf(p)] < b.total[SectionOf(p)]
      BY <2>3, <2>4, <3>2 DEF NoLengths
    <3> QED BY <2>2, <3>1, <3>3, <3>4 DEF Consistent, Collecting, Sess
  <2> QED BY <2>1, <2>5, <2>6
<1> QED BY <1>1, <1>2

LEMMA Intervals ==
  ASSUME NEW r \in Nat, NEW e \in Nat, r <= e
  PROVE  (0 .. r - 1) \cup (r .. e - 1) = 0 .. e - 1
  OBVIOUS

LEMMA ChunkKeeps ==
  ASSUME NEW s \in SessionType, NEW ordered \in BOOLEAN, Consistent(s, ordered),
         NEW b, SignBodyOK(b)
  PROVE  LET a == handle_in_chunk(s, b)
         IN  /\ a.s \in SessionType
             /\ \/ a.s = s
                \/ /\ Consistent(a.s, ordered /\ b.offset = s.recv[SectionOf(s.phase)])
                   /\ a.s.op = s.op /\ a.s.total = s.total
                   /\ s.phase # "Idle" /\ a.s.phase # "Idle"
                   /\ PhaseOrder[a.s.phase] >= PhaseOrder[s.phase]
<1> DEFINE a == handle_in_chunk(s, b)
           x == SectionOf(s.phase)
           end == b.offset + b.chunk_len
           p == IF end >= s.total[x] THEN PhaseAfter(s.total, x) ELSE s.phase
           bb == s.buf[x] \cup (b.offset .. end - 1)
           n == ChunkNext(s, x, bb, end, p)
           ord == ordered /\ b.offset = s.recv[x]
<1>1. CASE a.s = s
  BY <1>1
<1>2. CASE a.s # s
  <2>1. x # 0 /\ ~(end > s.total[x]) /\ a.s = n
    BY <1>2 DEF handle_in_chunk, Answer, ChunkNext
  <2>2. /\ x \in Section
        /\ s.phase \in {"CollectKey", "CollectAux", "CollectMsg"}
        /\ PhaseOrder[s.phase] = x
    BY <2>1 DEF SectionOf, Section, PhaseOrder
  <2>3. n = Sess(p, s.op, s.total, [s.recv EXCEPT ![x] = end], s.out_total, s.verify_ok,
                 [s.buf EXCEPT ![x] = bb], s.out)
    <3> HIDE DEF x, end, p, bb
    <3> QED BY <2>2, ChunkRecord
  <2>4. /\ s.total \in [Section -> Nat] /\ s.recv \in [Section -> Nat]
        /\ s.buf \in [Section -> SUBSET Nat] /\ s.op \in SignOp /\ s.phase \in Phases
        /\ s.out_total \in Nat /\ s.verify_ok \in BOOLEAN
        /\ s.out \in {NoOutput} \cup [op : SignOp, from : [Section -> SUBSET Nat]]
    BY DEF SessionType
  <2>5. end \in Nat /\ end <= s.total[x] /\ s.total[x] \in Nat
    BY <2>1, <2>2, <2>4 DEF SignBodyOK
  <2>6. /\ p \in {"CollectKey", "CollectAux", "CollectMsg", "Ready"}
        /\ p = "Ready" => /\ end = s.total[x]
                          /\ \A j \in Section : j > x => s.total[j] = 0
        /\ p # "Ready" => /\ SectionOf(p) \in Section
                          /\ \/ p = s.phase /\ end < s.total[x]
                             \/ /\ SectionOf(p) > x /\ s.total[SectionOf(p)] > 0 /\ end = s.total[x]
                                /\ \A j \in Section : j > x /\ j < SectionOf(p) => s.total[j] = 0
    <3>1. CASE end >= s.total[x]
      <4>1. p = PhaseAfter(s.total, x)
        BY <3>1
      <4>2. x \in 0 .. 3
        BY <2>2 DEF Section
      <4> HIDE DEF p
      <4> QED BY <3>1, <4>1, <4>2, <2>4, <2>5, PhaseAfterFacts
    <3>2. CASE ~(end >= s.total[x])
      BY <3>2, <2>2, <2>5
    <3> QED BY <3>1, <3>2
  <2>7. PhaseOrder[p] >= x
    <3>1. p = "Ready" => PhaseOrder[p] = 4
      BY DEF PhaseOrder
    <3>2. p # "Ready" => PhaseOrder[p] = SectionOf(p)
      <4>1. ASSUME NEW q \in {"CollectKey", "CollectAux", "CollectMsg"}
            PROVE  PhaseOrder[q] = SectionOf(q)
        BY DEF PhaseOrder, SectionOf
      <4> HIDE DEF p
      <4> QED BY <2>6, <4>1
    <3>3. p # "Ready" => SectionOf(p) >= x /\ SectionOf(p) \in Section
      BY <2>2, <2>6 DEF Section
    <3> HIDE DEF p, x
    <3> QED BY <2>2, <3>1, <3>2, <3>3 DEF Section
  <2> DEFINE R == [s.recv EXCEPT ![x] = end]
             B == [s.buf EXCEPT ![x] = bb]
  <2>8. R \in [Section -> Nat] /\ R[x] = end /\ \A k \in Section : k # x => R[k] = s.recv[k]
    BY <2>2, <2>4, <2>5
  <2>9. bb \in SUBSET Nat
    BY <2>2, <2>4, <2>5 DEF SignBodyOK
  <2>10. B \in [Section -> SUBSET Nat] /\ B[x] = bb /\ \A k \in Section : k # x => B[k] = s.buf[k]
    BY <2>2, <2>4, <2>9
  <2>11. /\ \A k \in Section :
              /\ s.recv[k] \in 0 .. s.total[k]
              /\ s.total[k] <= Limit(s.op)[k]
              /\ s.buf[k] \subseteq 0 .. s.total[k] - 1
              /\ k > x => s.recv[k] = 0 /\ s.buf[k] = {}
              /\ k < x => s.recv[k] = s.total[k]
              /\ ordered => s.buf[k] = 0 .. s.recv[k] - 1
         /\ s.out = NoOutput
    BY <2>1, <2>2 DEF Consistent, Collecting
  <2>12. /\ bb \subseteq 0 .. s.total[x] - 1
         /\ ord => bb = 0 .. end - 1
    <3>1. /\ s.buf[x] \subseteq 0 .. s.total[x] - 1
          /\ ordered => s.buf[x] = 0 .. s.recv[x] - 1
          /\ s.recv[x] \in Nat
      BY <2>2, <2>4, <2>11
    <3>2. b.offset \in Nat /\ b.offset <= end
      BY DEF SignBodyOK
    <3> HIDE DEF x, end
    <3>3. bb \subseteq 0 .. s.total[x] - 1
      BY <2>5, <3>1, <3>2
    <3>4. ord => bb = 0 .. end - 1
      BY <2>5, <3>1, <3>2, Intervals
    <3> QED BY <3>3, <3>4
  <2> HIDE DEF p, R, B, bb
  <2>13. n \in SessionType
    BY <2>3, <2>4, <2>6, <2>8, <2>10 DEF SessionType, Phases, Sess, R, B
  <2>14. Consistent(n, ord)
    <3> HIDE DEF x, end, n, ord
    <3>1. p = "Ready" => SectionOf(p) = 0
      BY DEF SectionOf
    <3>2. \A k \in Section :
            /\ R[k] \in 0 .. s.total[k]
            /\ s.total[k] <= Limit(s.op)[k]
            /\ B[k] \subseteq 0 .. s.total[k] - 1
      BY <2>4, <2>5, <2>8, <2>10, <2>11, <2>12
    <3>3. \A k \in Section :
            /\ SectionOf(p) # 0 /\ k > SectionOf(p) => R[k] = 0 /\ B[k] = {}
            /\ k < SectionOf(p) \/ p \in {"Ready", "OutputReady"} => R[k] = s.total[k]
      <4> SUFFICES ASSUME NEW k \in Section
                   PROVE  /\ SectionOf(p) # 0 /\ k > SectionOf(p) => R[k] = 0 /\ B[k] = {}
                          /\ k < SectionOf(p) \/ p \in {"Ready", "OutputReady"} => R[k] = s.total[k]
        OBVIOUS
      <4>1. /\ k > x => s.recv[k] = 0 /\ s.buf[k] = {}
            /\ k < x => s.recv[k] = s.total[k]
            /\ s.recv[k] \in 0 .. s.total[k] /\ s.total[k] \in Nat
        BY <2>4, <2>11
      <4>2. p # "Ready" => SectionOf(p) \in Section /\ SectionOf(p) >= x
        BY <2>2, <2>6 DEF Section, x
      <4>3. CASE k > x
        BY <4>3, <4>1, <4>2, <2>2, <2>6, <2>8, <2>10, <3>1 DEF Section, x
      <4>4. CASE k = x
        BY <4>4, <4>1, <4>2, <2>2, <2>5, <2>6, <2>8, <2>10, <3>1 DEF Section, x
      <4>5. CASE k < x
        BY <4>5, <4>1, <4>2, <2>2, <2>6, <2>8, <2>10, <3>1 DEF Section
      <4>6. k > x \/ k = x \/ k < x
        BY <2>2 DEF Section
      <4> QED BY <4>3, <4>4, <4>5, <4>6, Zenon
    <3>4. ord => \A k \in Section : B[k] = 0 .. R[k] - 1
      BY <2>8, <2>10, <2>11, <2>12 DEF ord
    <3>5. SectionOf(p) # 0 => R[SectionOf(p)] < s.total[SectionOf(p)]
      <4>1. CASE p = s.phase /\ end < s.total[x]
        BY <4>1, <2>8 DEF x
      <4>2. CASE p # "Ready" /\ SectionOf(p) > x /\ s.total[SectionOf(p)] > 0
        BY <4>2, <2>2, <2>6, <2>8, <2>11 DEF Section
      <4> QED BY <4>1, <4>2, <2>6, <3>1
    <3>6. p \notin {"Idle", "OutputReady"}
      BY <2>6
    <3> QED BY <2>3, <2>11, <3>2, <3>3, <3>4, <3>5, <3>6
            DEF Consistent, Collecting, Sess, R, B
  <2> QED BY <2>1, <2>2, <2>3, <2>6, <2>7, <2>13, <2>14 DEF Sess
<1> QED BY <1>1, <1>2

LEMMA OutLenNat ==
  ASSUME NEW op \in SignOp
  PROVE  OutLen(op) \in Nat
  BY SignAssumption DEF OutLen, SignOp

LEMMA ExecKeeps ==
  ASSUME NEW s \in SessionType, NEW ordered \in BOOLEAN, Consistent(s, ordered), NEW lib
  PROVE  LET a == handle_exec(s, lib)
         IN  /\ a.s \in SessionType
             /\ \/ a.s = s
                \/ /\ Consistent(a.s, ordered)
                   /\ a.s.op = s.op /\ a.s.total = s.total
                   /\ s.phase = "Ready" /\ a.s.phase \in {"Ready", "OutputReady"}
<1> DEFINE a == handle_exec(s, lib)
           f == [s EXCEPT !.verify_ok = FALSE]
           v == IF s.op = "Verify" THEN TRUE ELSE s.verify_ok
           o == [op |-> s.op, from |-> IF Seeded(s) THEN s.buf ELSE Zeroed]
           n == ExecNext(s, v, o, Zeroed, OutLen(s.op), "OutputReady")
<1>1. a.s = s \/ (s.phase = "Ready" /\ a.s = f) \/ (s.phase = "Ready" /\ a.s = n)
  BY DEF handle_exec, Answer, ExecNext
<1>2. /\ s.total \in [Section -> Nat] /\ s.recv \in [Section -> Nat]
      /\ s.buf \in [Section -> SUBSET Nat] /\ s.op \in SignOp /\ s.phase \in Phases
      /\ s.out_total \in Nat /\ s.verify_ok \in BOOLEAN
      /\ s.out \in {NoOutput} \cup [op : SignOp, from : [Section -> SUBSET Nat]]
  BY DEF SessionType
<1>3. CASE a.s = s
  BY <1>3
<1>4. CASE s.phase = "Ready" /\ a.s = f
  <2>1. f = Sess(s.phase, s.op, s.total, s.recv, s.out_total, FALSE, s.buf, s.out)
    <3>1. ASSUME NEW z
          PROVE  [s EXCEPT !.verify_ok = z]
                   = Sess(s.phase, s.op, s.total, s.recv, s.out_total, z, s.buf, s.out)
      BY SessFields, Set_verify_ok
    <3> QED BY <3>1
  <2> HIDE DEF f
  <2>2. f \in SessionType
    BY <2>1, <1>2 DEF SessionType, Sess
  <2>3. /\ f.phase = s.phase /\ f.op = s.op /\ f.total = s.total /\ f.recv = s.recv
        /\ f.buf = s.buf /\ f.out = s.out
    BY <2>1 DEF Sess
  <2>4. Consistent(f, ordered)
    BY <1>4, <2>3 DEF Consistent, Collecting
  <2> QED BY <1>4, <2>2, <2>3, <2>4
<1>5. CASE s.phase = "Ready" /\ a.s = n
  <2>1. v \in BOOLEAN /\ o \in [op : SignOp, from : [Section -> SUBSET Nat]]
    BY <1>2 DEF Zeroed
  <2>2. o # NoOutput
    BY DEF NoOutput
  <2>3. n = Sess("OutputReady", s.op, s.total, s.recv, OutLen(s.op), v, Zeroed, o)
    BY ExecRecord
  <2> HIDE DEF n, v, o
  <2>4. n \in SessionType
    BY <1>2, <2>1, <2>3, OutLenNat DEF SessionType, Sess, Phases, Zeroed
  <2>5. /\ n.phase = "OutputReady" /\ n.op = s.op /\ n.total = s.total /\ n.recv = s.recv
        /\ n.buf = Zeroed /\ n.out = o
    BY <2>3 DEF Sess
  <2>6. \A k \in Section :
          /\ s.recv[k] \in 0 .. s.total[k]
          /\ s.total[k] <= Limit(s.op)[k]
          /\ s.recv[k] = s.total[k]
    BY <1>5 DEF Consistent
  <2>7. SectionOf("OutputReady") = 0
    BY DEF SectionOf
  <2>8. Consistent(n, ordered)
    BY <2>2, <2>5, <2>6, <2>7 DEF Consistent, Collecting, Zeroed
  <2> QED BY <1>5, <2>4, <2>5, <2>8
<1> QED BY <1>1, <1>3, <1>4, <1>5

(* What one request does to a consistent session.                          *)
Advances(s, t, ordered, type, b) ==
  \/ t = s
  \/ t = SessionIdle
  \/ s.phase = "Idle" /\ Consistent(t, TRUE)
  \/ /\ s.phase # "Idle" /\ t.phase # "Idle"
     /\ t.op = s.op /\ t.total = s.total
     /\ PhaseOrder[t.phase] >= PhaseOrder[s.phase]
     /\ \/ /\ type = "SignInChunkReq"
           /\ Consistent(t, ordered /\ b.offset = s.recv[SectionOf(s.phase)])
        \/ type # "SignInChunkReq" /\ Consistent(t, ordered)

LEMMA AnswerAdvances ==
  ASSUME NEW s \in SessionType, NEW ordered \in BOOLEAN, Consistent(s, ordered),
         NEW m, SignBodyOK(m.body), NEW lib
  PROVE  LET a == SignAnswer(s, m, lib)
         IN  a.s \in SessionType /\ Advances(s, a.s, ordered, m.type, m.body)
<1> DEFINE a == SignAnswer(s, m, lib)
<1>1. CASE m.type = "SignBeginReq"
  <2>1. a.s = handle_begin(s, m.body).s
    BY <1>1 DEF SignAnswer
  <2> QED BY <2>1, BeginKeeps DEF Advances
<1>2. CASE m.type = "SignInChunkReq"
  <2>1. a.s = handle_in_chunk(s, m.body).s
    BY <1>2 DEF SignAnswer
  <2> DEFINE t == handle_in_chunk(s, m.body).s
  <2>2. /\ t \in SessionType
        /\ \/ t = s
           \/ /\ Consistent(t, ordered /\ m.body.offset = s.recv[SectionOf(s.phase)])
              /\ t.op = s.op /\ t.total = s.total
              /\ s.phase # "Idle" /\ t.phase # "Idle"
              /\ PhaseOrder[t.phase] >= PhaseOrder[s.phase]
    BY ChunkKeeps
  <2> HIDE DEF t
  <2>3. Advances(s, t, ordered, m.type, m.body)
    BY <1>2, <2>2, Zenon DEF Advances
  <2> QED BY <2>1, <2>2, <2>3 DEF t
<1>3. CASE m.type = "SignExecReq"
  <2> DEFINE e == IF lib # "NoRnd" THEN handle_exec(s, lib) ELSE Answer("ExecFailed", s)
  <2>0. a.s = e.s
    BY <1>3 DEF SignAnswer
  <2>1. a.s = s \/ a.s = handle_exec(s, lib).s
    BY <2>0 DEF Answer
  <2>2. PhaseOrder["OutputReady"] = 5 /\ PhaseOrder["Ready"] = 4
    BY DEF PhaseOrder
  <2> DEFINE t == handle_exec(s, lib).s
  <2>3. /\ t \in SessionType
        /\ \/ t = s
           \/ /\ Consistent(t, ordered)
              /\ t.op = s.op /\ t.total = s.total
              /\ s.phase = "Ready" /\ t.phase \in {"Ready", "OutputReady"}
    BY ExecKeeps
  <2> HIDE DEF t
  <2>4. Advances(s, t, ordered, m.type, m.body)
    <3>1. CASE t = s
      BY <3>1 DEF Advances
    <3>2. CASE t # s
      <4>1. PhaseOrder[t.phase] >= PhaseOrder[s.phase]
        BY <3>2, <2>2, <2>3
      <4>2. s.phase # "Idle" /\ t.phase # "Idle" /\ m.type # "SignInChunkReq"
        BY <3>2, <1>3, <2>3
      <4> QED BY <3>2, <4>1, <4>2, <2>3, Zenon DEF Advances
    <3> QED BY <3>1, <3>2
  <2>5. Advances(s, s, ordered, m.type, m.body)
    BY DEF Advances
  <2> QED BY <2>1, <2>3, <2>4, <2>5 DEF t
<1>4. CASE m.type = "SignEndReq"
  <2>0. a.s = handle_end(s)
    BY <1>4 DEF SignAnswer
  <2>1. a.s = SessionIdle
    BY <2>0 DEF handle_end
  <2> QED BY <2>1, IdleType DEF Advances
<1>5. CASE m.type \notin {"SignBeginReq", "SignInChunkReq", "SignExecReq", "SignEndReq"}
  <2>1. a.s = s
    BY <1>5 DEF SignAnswer
  <2> QED BY <2>1 DEF Advances
<1> QED BY <1>1, <1>2, <1>3, <1>4, <1>5

IsMsg(m) ==
  m = [type |-> m.type, len |-> m.len, sequence |-> m.sequence, body |-> m.body]

EndpointOK(ep, id) ==
  /\ ep = [id |-> id, required |-> {"CALL"}, state |-> ep.state, msg |-> ep.msg,
           sequence |-> ep.sequence]
  /\ ep.state \in {"Idle", "PendingReply", "ReplyReady"}
  /\ ep.state = "Idle" => ep.msg = <<>>
  /\ ep.state = "PendingReply" => IsMsg(ep.msg)

RegistryOK(reg) ==
  /\ reg = [id \in EndpointIds |-> reg[id]]
  /\ \A id \in EndpointIds : EndpointOK(reg[id], id)

IsCall(w) == w = [ep |-> w.ep, sequence |-> w.sequence, body |-> w.body]

TypeInv ==
  /\ RegistryOK(registry)
  /\ session \in SessionType
  /\ inorder \in BOOLEAN
  /\ waiting = [c \in Client |-> waiting[c]]
  /\ \A c \in Client : waiting[c] = NoCall \/ IsCall(waiting[c])
  /\ crossed \in [Client -> BOOLEAN]
  /\ serving = NoRequest \/ IsMsg(serving)

-----------------------------------------------------------------------------
(* Endpoints as records.                                                   *)
EpRec(id, required, state, msg, sequence) ==
  [id |-> id, required |-> required, state |-> state, msg |-> msg, sequence |-> sequence]

LEMMA EpFields ==
  ASSUME NEW a, NEW b, NEW c, NEW d, NEW e
  PROVE  /\ EpRec(a, b, c, d, e).state = c /\ EpRec(a, b, c, d, e).msg = d
         /\ EpRec(a, b, c, d, e).sequence = e
  BY DEF EpRec

SetNext(ep, state, msg) == [ep EXCEPT !.state = state, !.msg = msg]

PostNext(ep, sequence, state, msg) ==
  [ep EXCEPT !.sequence = sequence, !.state = state, !.msg = msg]

LEMMA Set_ep_state ==
  ASSUME NEW a, NEW b, NEW c, NEW d, NEW e, NEW x
  PROVE  [EpRec(a, b, c, d, e) EXCEPT !.state = x] = EpRec(a, b, x, d, e)
  BY DEF EpRec

LEMMA Set_ep_msg ==
  ASSUME NEW a, NEW b, NEW c, NEW d, NEW e, NEW x
  PROVE  [EpRec(a, b, c, d, e) EXCEPT !.msg = x] = EpRec(a, b, c, x, e)
  BY DEF EpRec

LEMMA Set_ep_sequence ==
  ASSUME NEW a, NEW b, NEW c, NEW d, NEW e, NEW x
  PROVE  [EpRec(a, b, c, d, e) EXCEPT !.sequence = x] = EpRec(a, b, c, d, x)
  BY DEF EpRec

LEMMA SetNextRecord ==
  ASSUME NEW a, NEW b, NEW c, NEW d, NEW e, NEW x, NEW y
  PROVE  SetNext(EpRec(a, b, c, d, e), x, y) = EpRec(a, b, x, y, e)
<1> DEFINE r == [EpRec(a, b, c, d, e) EXCEPT !.state = x]
<1>1. r = EpRec(a, b, x, d, e)
  BY Set_ep_state
<1> HIDE DEF r
<1>2. [r EXCEPT !.msg = y] = EpRec(a, b, x, y, e)
  BY <1>1, Set_ep_msg
<1> QED BY <1>2 DEF SetNext, r

LEMMA PostNextRecord ==
  ASSUME NEW a, NEW b, NEW c, NEW d, NEW e, NEW x, NEW y, NEW z
  PROVE  PostNext(EpRec(a, b, c, d, e), x, y, z) = EpRec(a, b, y, z, x)
<1> DEFINE r == [EpRec(a, b, c, d, e) EXCEPT !.sequence = x]
           q == [r EXCEPT !.state = y]
<1>1. r = EpRec(a, b, c, d, x)
  BY Set_ep_sequence
<1> HIDE DEF r
<1>2. q = EpRec(a, b, y, d, x)
  BY <1>1, Set_ep_state
<1> HIDE DEF q
<1>3. [q EXCEPT !.msg = z] = EpRec(a, b, y, z, x)
  BY <1>2, Set_ep_msg
<1> QED BY <1>3 DEF PostNext, q, r

(* Messages as records.                                                    *)
MsgRec(type, len, sequence, body) ==
  [type |-> type, len |-> len, sequence |-> sequence, body |-> body]

LEMMA MsgFacts ==
  ASSUME NEW t, NEW l, NEW q, NEW b
  PROVE  LET m == MsgRec(t, l, q, b)
         IN  IsMsg(m) /\ m # <<>> /\ m.type = t /\ m.len = l /\ m.sequence = q /\ m.body = b
  BY DEF MsgRec, IsMsg

LEMMA NumberedRecord ==
  ASSUME NEW t, NEW l, NEW q, NEW b, NEW x
  PROVE  [MsgRec(t, l, q, b) EXCEPT !.sequence = x] = MsgRec(t, l, x, b)
  BY DEF MsgRec

FilledNext(m, len, body) == [m EXCEPT !.len = len, !.body = body]

LEMMA FilledRecord ==
  ASSUME NEW t, NEW l, NEW q, NEW b, NEW x, NEW y
  PROVE  FilledNext(MsgRec(t, l, q, b), x, y) = MsgRec(t, x, q, y)
<1> DEFINE r == [MsgRec(t, l, q, b) EXCEPT !.len = x]
<1>1. r = MsgRec(t, x, q, b)
  BY DEF MsgRec
<1> HIDE DEF r
<1>2. [r EXCEPT !.body = y] = MsgRec(t, x, q, y)
  BY <1>1 DEF MsgRec
<1> QED BY <1>2 DEF FilledNext, r

(* What the endpoint functions return, on endpoints written as records.    *)
LEMMA SetPayloadResult ==
  ASSUME NEW type, NEW q, NEW len \in Nat, NEW body
  PROVE  LET s == set_payload(IpcMessage(type, q), len, body)
         IN  IF len > IPC_MAX_PAYLOAD THEN s.r # "Ok"
             ELSE s.r = "Ok" /\ s.m = MsgRec(type, len, q, body)
<1>1. IpcMessage(type, q) = MsgRec(type, 0, q, <<>>)
  BY DEF IpcMessage, MsgRec
<1>2. FilledNext(IpcMessage(type, q), len, body) = MsgRec(type, len, q, body)
  BY <1>1, FilledRecord
<1> QED BY <1>2 DEF set_payload, FilledNext

(* post at endpoint id of state: refused, or the message m stands in it.   *)
PostOutcome(p, ep, id, state, cap, m, x) ==
  \/ p.r # "Ok" /\ p.ep = ep
  \/ /\ p.r = "Ok" /\ state # "PendingReply" /\ is_valid_for(cap, id, {"CALL"})
     /\ p.ep = EpRec(id, {"CALL"}, "PendingReply", m, x)

LEMMA PostResult ==
  ASSUME NEW id, NEW state, NEW msg, NEW n, NEW cap, NEW type, NEW len, NEW q, NEW body,
         NEW ep, ep = EpRec(id, {"CALL"}, state, msg, n),
         NEW m, m = MsgRec(type, len, q, body)
  PROVE  PostOutcome(post(ep, cap, m), ep, id, state, cap,
                     MsgRec(type, len, (n + 1) % SEQ_MOD, body), (n + 1) % SEQ_MOD)
<1>x. PICK x : x = (n + 1) % SEQ_MOD
  OBVIOUS
<1>m. PICK m2 : m2 = MsgRec(type, len, x, body)
  OBVIOUS
<1>p. PICK p : p = post(ep, cap, m)
  OBVIOUS
<1>1. ep.id = id /\ ep.required = {"CALL"} /\ ep.state = state /\ ep.sequence = n
  BY DEF EpRec
<1>2. [m EXCEPT !.sequence = x] = m2
  BY <1>m, NumberedRecord
<1>3. PostNext(ep, x, "PendingReply", m2) = EpRec(id, {"CALL"}, "PendingReply", m2, x)
  <2>1. \A y : PostNext(ep, x, y, m2) = EpRec(id, {"CALL"}, y, m2, x)
    BY PostNextRecord
  <2> QED BY <2>1
<1>4. \/ p.r # "Ok" /\ p.ep = ep
      \/ /\ p.r = "Ok" /\ ep.state # "PendingReply"
         /\ is_valid_for(cap, ep.id, ep.required)
         /\ p.ep = PostNext(ep, (ep.sequence + 1) % SEQ_MOD, "PendingReply",
                            [m EXCEPT !.sequence = (ep.sequence + 1) % SEQ_MOD])
  BY <1>p DEF post, PostNext
<1>5. PostOutcome(p, ep, id, state, cap, m2, x)
  BY <1>x, <1>1, <1>2, <1>3, <1>4, Zenon DEF PostOutcome
<1> QED BY <1>5, <1>x, <1>m, <1>p, Zenon

LEMMA IdleRecord ==
  ASSUME NEW a, NEW b, NEW c, NEW d, NEW e
  PROVE  Idle(EpRec(a, b, c, d, e)) = EpRec(a, b, "Idle", <<>>, e)
<1>1. \A x, y : SetNext(EpRec(a, b, c, d, e), x, y) = EpRec(a, b, x, y, e)
  BY SetNextRecord
<1>2. SetNext(EpRec(a, b, c, d, e), "Idle", <<>>) = EpRec(a, b, "Idle", <<>>, e)
  BY <1>1
<1>3. Idle(EpRec(a, b, c, d, e)) = SetNext(EpRec(a, b, c, d, e), "Idle", <<>>)
  BY DEF Idle, SetNext
<1> QED BY <1>2, <1>3

LEMMA TakeResult ==
  ASSUME NEW a, NEW b, NEW c, NEW d, NEW e
  PROVE  LET t == take(EpRec(a, b, c, d, e))
         IN  IF c = "PendingReply"
             THEN t.r = "Ok" /\ t.ep = EpRec(a, b, "Idle", <<>>, e) /\ t.m = d
             ELSE t.r # "Ok"
<1>1. EpRec(a, b, c, d, e).state = c /\ EpRec(a, b, c, d, e).msg = d
  BY DEF EpRec
<1> QED BY <1>1, IdleRecord DEF take

LEMMA TakeReplyResult ==
  ASSUME NEW a, NEW b, NEW c, NEW d, NEW e
  PROVE  LET t == take_reply(EpRec(a, b, c, d, e))
         IN  IF c = "ReplyReady"
             THEN t.r = "Ok" /\ t.ep = EpRec(a, b, "Idle", <<>>, e) /\ t.m = d
             ELSE t.r # "Ok"
<1>1. EpRec(a, b, c, d, e).state = c /\ EpRec(a, b, c, d, e).msg = d
  BY DEF EpRec
<1> QED BY <1>1, IdleRecord DEF take_reply

LEMMA NoReplyToTake ==
  ASSUME NEW a, NEW b, NEW c, NEW d, NEW e, c # "ReplyReady"
  PROVE  take_reply(EpRec(a, b, c, d, e)).r # "Ok"
  BY TakeReplyResult

LEMMA PostReplyResult ==
  ASSUME NEW a, NEW b, NEW c, NEW d, NEW e, NEW m
  PROVE  LET p == post_reply(EpRec(a, b, c, d, e), m)
         IN  IF c = "ReplyReady" THEN p.r # "Ok" /\ p.ep = EpRec(a, b, c, d, e)
             ELSE p.r = "Ok" /\ p.ep = EpRec(a, b, "ReplyReady", m, e)
<1>1. EpRec(a, b, c, d, e).state = c
  BY DEF EpRec
<1>2. \A x, y : SetNext(EpRec(a, b, c, d, e), x, y) = EpRec(a, b, x, y, e)
  BY SetNextRecord
<1>3. SetNext(EpRec(a, b, c, d, e), "ReplyReady", m) = EpRec(a, b, "ReplyReady", m, e)
  BY <1>2
<1> HIDE DEF EpRec
<1> QED BY <1>1, <1>3 DEF post_reply, SetNext

(* The registry with endpoint id in a given state.                         *)
With(reg, id, state, msg, sequence) ==
  [reg EXCEPT ![id] = EpRec(id, {"CALL"}, state, msg, sequence)]

LEMMA RegistryEntry ==
  ASSUME NEW reg, RegistryOK(reg), NEW id \in EndpointIds
  PROVE  reg[id] = EpRec(id, {"CALL"}, reg[id].state, reg[id].msg, reg[id].sequence)
  BY DEF RegistryOK, EndpointOK, EpRec

LEMMA WithOK ==
  ASSUME NEW reg, RegistryOK(reg), NEW id \in EndpointIds,
         NEW state \in {"Idle", "PendingReply", "ReplyReady"}, NEW msg, NEW n,
         state = "Idle" => msg = <<>>, state = "PendingReply" => IsMsg(msg)
  PROVE  /\ RegistryOK(With(reg, id, state, msg, n))
         /\ With(reg, id, state, msg, n)[id] = EpRec(id, {"CALL"}, state, msg, n)
         /\ \A j \in EndpointIds : j # id => With(reg, id, state, msg, n)[j] = reg[j]
<1> DEFINE e == EpRec(id, {"CALL"}, state, msg, n)
           w == With(reg, id, state, msg, n)
<1>1. e.state = state /\ e.msg = msg /\ e.sequence = n
  BY DEF EpRec
<1>2. EndpointOK(e, id)
  BY <1>1 DEF EndpointOK, EpRec
<1>3. reg = [j \in EndpointIds |-> reg[j]]
  BY DEF RegistryOK
<1> HIDE DEF e
<1>4. w = [j \in EndpointIds |-> IF j = id THEN e ELSE reg[j]]
  BY <1>3 DEF With, e
<1>5. w[id] = e /\ \A j \in EndpointIds : j # id => w[j] = reg[j]
  BY <1>4
<1>6. w = [j \in EndpointIds |-> w[j]]
  BY <1>4
<1>7. \A j \in EndpointIds : EndpointOK(w[j], j)
  BY <1>2, <1>5 DEF RegistryOK
<1> QED BY <1>5, <1>6, <1>7 DEF RegistryOK, e

LEMMA WithTwice ==
  ASSUME NEW reg, RegistryOK(reg), NEW id \in EndpointIds, NEW a, NEW b, NEW c,
         NEW d, NEW e, NEW f
  PROVE  With(With(reg, id, a, b, c), id, d, e, f) = With(reg, id, d, e, f)
<1>1. reg = [j \in EndpointIds |-> reg[j]]
  BY DEF RegistryOK
<1> DEFINE x == EpRec(id, {"CALL"}, a, b, c)
           y == EpRec(id, {"CALL"}, d, e, f)
<1> HIDE DEF x, y
<1>2. [[reg EXCEPT ![id] = x] EXCEPT ![id] = y] = [reg EXCEPT ![id] = y]
  BY <1>1
<1> QED BY <1>2 DEF With, x, y

(* A request put into an endpoint, and the endpoint idle again afterwards. *)
PendingAt(w, reg, id, m, n) ==
  /\ RegistryOK(w) /\ w[id] = EpRec(id, {"CALL"}, "PendingReply", m, n)
  /\ w[id].state = "PendingReply" /\ w[id].msg = m /\ w[id].sequence = n
  /\ With(w, id, "Idle", <<>>, n) = With(reg, id, "Idle", <<>>, n)

LEMMA WithPending ==
  ASSUME NEW reg, RegistryOK(reg), NEW id \in EndpointIds, NEW m, IsMsg(m), NEW n
  PROVE  PendingAt(With(reg, id, "PendingReply", m, n), reg, id, m, n)
<1>w. PICK w : w = With(reg, id, "PendingReply", m, n)
  OBVIOUS
<1>1. RegistryOK(w) /\ w[id] = EpRec(id, {"CALL"}, "PendingReply", m, n)
  BY <1>w, WithOK
<1>2. w[id].state = "PendingReply" /\ w[id].msg = m /\ w[id].sequence = n
  BY <1>1, EpFields
<1>3. With(w, id, "Idle", <<>>, n) = With(reg, id, "Idle", <<>>, n)
  BY <1>w, WithTwice
<1> QED BY <1>w, <1>1, <1>2, <1>3, Zenon DEF PendingAt

LEMMA RecvResult ==
  ASSUME NEW reg, RegistryOK(reg), NEW id \in EndpointIds
  PROVE  LET q == ipc_recv(reg, id)
         IN  IF reg[id].state = "PendingReply"
             THEN /\ q.r = "Ok" /\ q.m = reg[id].msg
                  /\ q.reg = With(reg, id, "Idle", <<>>, reg[id].sequence)
             ELSE q.r # "Ok"
<1> DEFINE t == take(reg[id])
<1>1. IF reg[id].state = "PendingReply"
      THEN /\ t.r = "Ok" /\ t.m = reg[id].msg
           /\ t.ep = EpRec(id, {"CALL"}, "Idle", <<>>, reg[id].sequence)
      ELSE t.r # "Ok"
  BY RegistryEntry, TakeResult
<1> HIDE DEF t
<1>2. ipc_recv(reg, id) = [r |-> t.r, m |-> t.m, reg |-> [reg EXCEPT ![id] = t.ep]]
  BY DEF ipc_recv, t
<1> DEFINE q == ipc_recv(reg, id)
<1>3. q.r = t.r /\ q.m = t.m /\ q.reg = [reg EXCEPT ![id] = t.ep]
  BY <1>2
<1> HIDE DEF q
<1>4. CASE reg[id].state = "PendingReply"
  BY <1>1, <1>3, <1>4 DEF With, q
<1>5. CASE reg[id].state # "PendingReply"
  BY <1>1, <1>3, <1>5 DEF q
<1> QED BY <1>4, <1>5

(* A server that polls and finds no request leaves everything as it was.   *)
LEMMA RecvNothing ==
  ASSUME NEW reg, RegistryOK(reg), NEW id \in EndpointIds, reg[id].state # "PendingReply"
  PROVE  ipc_recv(reg, id).r # "Ok" /\ ipc_recv(reg, id).reg = reg
<1>1. take(reg[id]).r # "Ok" /\ take(reg[id]).ep = reg[id]
  BY DEF take
<1>2. [reg EXCEPT ![id] = reg[id]] = reg
  BY DEF RegistryOK
<1> QED BY <1>1, <1>2 DEF ipc_recv

LEMMA ReplyResult ==
  ASSUME NEW reg, RegistryOK(reg), NEW id \in EndpointIds, NEW type, NEW len \in Nat, NEW body
  PROVE  LET p == ipc_reply(reg, id, type, len, body)
             n == reg[id].sequence
         IN  IF len > IPC_MAX_PAYLOAD \/ reg[id].state = "ReplyReady"
             THEN p.r # "Ok" /\ p.reg = reg
             ELSE p.r = "Ok" /\ p.reg = With(reg, id, "ReplyReady", MsgRec(type, len, n, body), n)
<1>n. PICK n : n = reg[id].sequence
  OBVIOUS
<1>s. PICK s : s = set_payload(IpcMessage(type, n), len, body)
  OBVIOUS
<1>p. PICK p : p = post_reply(reg[id], s.m)
  OBVIOUS
<1>z. PICK z : z = ipc_reply(reg, id, type, len, body)
  OBVIOUS
<1>1. IF len > IPC_MAX_PAYLOAD THEN s.r # "Ok"
      ELSE s.r = "Ok" /\ s.m = MsgRec(type, len, n, body)
  BY <1>s, SetPayloadResult
<1>2. IF reg[id].state = "ReplyReady" THEN p.r # "Ok" /\ p.ep = reg[id]
      ELSE p.r = "Ok" /\ p.ep = EpRec(id, {"CALL"}, "ReplyReady", s.m, n)
  BY <1>n, <1>p, RegistryEntry, PostReplyResult
<1>3. [reg EXCEPT ![id] = reg[id]] = reg
  BY DEF RegistryOK
<1>4. z = IF s.r # "Ok" THEN [r |-> s.r, reg |-> reg]
          ELSE [r |-> p.r, reg |-> [reg EXCEPT ![id] = p.ep]]
  BY <1>n, <1>s, <1>p, <1>z, Zenon DEF ipc_reply
<1>5. IF len > IPC_MAX_PAYLOAD \/ reg[id].state = "ReplyReady" THEN z.r # "Ok" /\ z.reg = reg
      ELSE z.r = "Ok" /\ z.reg = With(reg, id, "ReplyReady", MsgRec(type, len, n, body), n)
  <2>1. CASE len > IPC_MAX_PAYLOAD
    BY <1>1, <1>4, <2>1
  <2>2. CASE ~(len > IPC_MAX_PAYLOAD)
    <3>1. z.r = p.r /\ z.reg = [reg EXCEPT ![id] = p.ep] /\ s.m = MsgRec(type, len, n, body)
      BY <1>1, <1>4, <2>2
    <3> QED BY <1>2, <1>3, <2>2, <3>1, Zenon DEF With
  <2> QED BY <2>1, <2>2
<1> QED BY <1>5, <1>n, <1>z, Zenon

(* A posted request stands in its endpoint under the next number.          *)
PostedOutcome(p, id, cap, req, n) ==
  \/ p.r # "Ok" /\ p.reg = registry
  \/ /\ p.r = "Ok" /\ id \in EndpointIds /\ registry[id].state # "PendingReply"
     /\ is_valid_for(cap, id, {"CALL"})
     /\ p.reg = With(registry, id, "PendingReply",
                     MsgRec(req.type, req.len, n, req.body), n)

LEMMA PostedResult ==
  ASSUME TypeInv, NEW cap, NEW req, req.len \in Nat, NEW id, id = cap.endpoint_id,
         NEW p, p = Posted(cap, req), NEW n, n = (registry[id].sequence + 1) % SEQ_MOD
  PROVE  PostedOutcome(p, id, cap, req, n)
<1>s. PICK s : s = set_payload(IpcMessage(req.type, 0), req.len, req.body)
  OBVIOUS
<1>q. PICK q : q = post(registry[id], cap, s.m)
  OBVIOUS
<1>1. RegistryOK(registry) /\ DOMAIN registry = EndpointIds
  BY DEF TypeInv, RegistryOK
<1>2. IF req.len > IPC_MAX_PAYLOAD THEN s.r # "Ok"
      ELSE s.r = "Ok" /\ s.m = MsgRec(req.type, req.len, 0, req.body)
  BY <1>s, SetPayloadResult
<1>3. p = IF s.r # "Ok" THEN [r |-> s.r, reg |-> registry]
          ELSE IF id \notin DOMAIN registry THEN [r |-> "EndpointNotFound", reg |-> registry]
          ELSE [r |-> q.r, reg |-> [registry EXCEPT ![id] = q.ep]]
  BY <1>s, <1>q, Zenon DEF Posted
<1>4. CASE s.r # "Ok" \/ id \notin EndpointIds
  <2>1. p.r # "Ok" /\ p.reg = registry
    BY <1>1, <1>3, <1>4
  <2> QED BY <2>1, Zenon DEF PostedOutcome
<1>5. CASE s.r = "Ok" /\ id \in EndpointIds
  <2>1. p.r = q.r /\ p.reg = [registry EXCEPT ![id] = q.ep]
    BY <1>1, <1>3, <1>5
  <2>2. s.m = MsgRec(req.type, req.len, 0, req.body)
    BY <1>2, <1>5
  <2>3. \/ q.r # "Ok" /\ q.ep = registry[id]
        \/ /\ q.r = "Ok" /\ registry[id].state # "PendingReply"
           /\ is_valid_for(cap, id, {"CALL"})
           /\ q.ep = EpRec(id, {"CALL"}, "PendingReply", MsgRec(req.type, req.len, n, req.body), n)
    <3>1. registry[id] = EpRec(id, {"CALL"}, registry[id].state, registry[id].msg,
                               registry[id].sequence)
      BY <1>1, <1>5, RegistryEntry, Zenon
    <3>2. PostOutcome(post(registry[id], cap, s.m), registry[id], id, registry[id].state, cap,
                      MsgRec(req.type, req.len, (registry[id].sequence + 1) % SEQ_MOD, req.body),
                      (registry[id].sequence + 1) % SEQ_MOD)
      BY <2>2, <3>1, PostResult
    <3> QED BY <1>q, <3>2, Zenon DEF PostOutcome
  <2>4. [registry EXCEPT ![id] = registry[id]] = registry
    BY <1>1, <1>5 DEF RegistryOK
  <2> QED
    BY <1>5, <2>1, <2>3, <2>4, Zenon DEF With, PostedOutcome
<1> QED BY <1>4, <1>5

(* The two dispatchers answer a request that stands in their endpoint, and *)
(* the caller takes the answer: the endpoint is idle again.                *)
Round(reg, id, m, p, t) ==
  /\ p.r = "Ok" /\ t.r = "Ok" /\ t.m = m
  /\ [p.reg EXCEPT ![id] = t.ep] = With(reg, id, "Idle", <<>>, reg[id].sequence)

LEMMA RoundResult ==
  ASSUME NEW reg, RegistryOK(reg), NEW id \in EndpointIds, reg[id].state = "PendingReply",
         NEW type, NEW len \in Nat, len <= IPC_MAX_PAYLOAD, NEW body,
         NEW q, q = ipc_recv(reg, id), NEW p, p = ipc_reply(q.reg, id, type, len, body),
         NEW t, t = take_reply(p.reg[id])
  PROVE  Round(reg, id, MsgRec(type, len, reg[id].sequence, body), p, t)
<1>n. PICK n : n = reg[id].sequence
  OBVIOUS
<1>w. PICK w : w = With(reg, id, "Idle", <<>>, n)
  OBVIOUS
<1>m. PICK m : m = MsgRec(type, len, n, body)
  OBVIOUS
<1>1. q.reg = w
  BY <1>n, <1>w, RecvResult
<1>2. RegistryOK(w) /\ w[id] = EpRec(id, {"CALL"}, "Idle", <<>>, n)
  BY <1>n, <1>w, WithOK
<1>3. w[id].state = "Idle" /\ w[id].sequence = n
  BY <1>2, EpFields
<1>4. p.r = "Ok" /\ p.reg = With(w, id, "ReplyReady", m, n)
  <2>1. ~(len > IPC_MAX_PAYLOAD) /\ w[id].state # "ReplyReady"
    BY <1>3, IpcAssumption
  <2>2. /\ p.r = "Ok"
        /\ p.reg = With(w, id, "ReplyReady", MsgRec(type, len, w[id].sequence, body),
                        w[id].sequence)
    BY <1>1, <1>2, <2>1, ReplyResult
  <2> QED BY <1>m, <1>3, <2>2, Zenon
<1>5. p.reg[id] = EpRec(id, {"CALL"}, "ReplyReady", m, n)
  BY <1>2, <1>4, WithOK
<1>6. t.r = "Ok" /\ t.ep = EpRec(id, {"CALL"}, "Idle", <<>>, n) /\ t.m = m
  BY <1>5, TakeReplyResult
<1>7. [p.reg EXCEPT ![id] = t.ep] = With(With(w, id, "ReplyReady", m, n), id, "Idle", <<>>, n)
  BY <1>4, <1>6, Zenon DEF With
<1>8. @ = With(w, id, "Idle", <<>>, n)
  BY <1>2, WithTwice
<1>9. @ = With(reg, id, "Idle", <<>>, n)
  BY <1>w, WithTwice
<1> QED BY <1>n, <1>m, <1>4, <1>6, <1>7, <1>8, <1>9, Zenon DEF Round

(* The dispatchers of the two kernel services, up to the answer taken.     *)
CryptoTurn(reg, lib, d, t) ==
  LET a == CryptoAnswer(reg[EP_CRYPTO].msg, lib)
  IN  /\ d.r = "Ok" /\ t.r = "Ok" /\ d.s = session
      /\ t.m = MsgRec(a.type, a.len, reg[EP_CRYPTO].sequence, a.body)
      /\ [d.reg EXCEPT ![EP_CRYPTO] = t.ep]
           = With(reg, EP_CRYPTO, "Idle", <<>>, reg[EP_CRYPTO].sequence)

SignTurn(reg, lib, d, t) ==
  /\ d.r = "Ok" /\ t.r = "Ok"
  /\ d.s = session \/ d.s = SignAnswer(session, reg[EP_SIGN].msg, lib).s
  /\ [d.reg EXCEPT ![EP_SIGN] = t.ep]
       = With(reg, EP_SIGN, "Idle", <<>>, reg[EP_SIGN].sequence)

LEMMA CryptoRound ==
  ASSUME NEW reg, RegistryOK(reg), reg[EP_CRYPTO].state = "PendingReply", NEW lib,
         NEW d, d = crypto_dispatch(reg, lib), NEW t, t = take_reply(d.reg[EP_CRYPTO])
  PROVE  CryptoTurn(reg, lib, d, t)
<1>q. PICK q : q = ipc_recv(reg, EP_CRYPTO)
  OBVIOUS
<1>a. PICK a : a = CryptoAnswer(q.m, lib)
  OBVIOUS
<1>p. PICK p : p = ipc_reply(q.reg, EP_CRYPTO, a.type, a.len, a.body)
  OBVIOUS
<1>u. PICK u : u = take_reply(p.reg[EP_CRYPTO])
  OBVIOUS
<1>1. a.len \in {1, CRYPTO_PAYLOAD_SIZE}
  <2>h. PICK h : h = CryptoHandled(q.m, lib)
    OBVIOUS
  <2>1. a = IF q.m.len < CRYPTO_PAYLOAD_SIZE
              THEN [type |-> "Error", len |-> 1, body |-> Refused("InvalidRequest")]
            ELSE IF h.a.r # "Ok" THEN [type |-> "Error", len |-> 1, body |-> h.a]
            ELSE [type |-> h.type, len |-> CRYPTO_PAYLOAD_SIZE, body |-> h.a]
    BY <1>a, <2>h, Zenon DEF CryptoAnswer
  <2> QED BY <2>1
<1>2. EP_CRYPTO \in EndpointIds
  BY DEF EndpointIds
<1>3. a.len \in Nat /\ a.len <= IPC_MAX_PAYLOAD
  BY <1>1, ServicesAssumption, IpcAssumption DEF CRYPTO_PAYLOAD_SIZE
<1>4. q.r = "Ok" /\ q.m = reg[EP_CRYPTO].msg
  BY <1>q, <1>2, RecvResult
<1>5. /\ p.r = "Ok" /\ u.r = "Ok"
      /\ u.m = MsgRec(a.type, a.len, reg[EP_CRYPTO].sequence, a.body)
      /\ [p.reg EXCEPT ![EP_CRYPTO] = u.ep]
           = With(reg, EP_CRYPTO, "Idle", <<>>, reg[EP_CRYPTO].sequence)
  <2>1. Round(reg, EP_CRYPTO, MsgRec(a.type, a.len, reg[EP_CRYPTO].sequence, a.body), p, u)
    BY <1>q, <1>p, <1>u, <1>2, <1>3, RoundResult
  <2> QED BY <2>1, Zenon DEF Round
<1>6. d = IF q.r # "Ok" THEN [r |-> q.r, reg |-> reg, s |-> session]
          ELSE [r |-> p.r, reg |-> p.reg, s |-> session]
  BY <1>q, <1>a, <1>p, Zenon DEF crypto_dispatch
<1>7. d.r = "Ok" /\ d.reg = p.reg /\ d.s = session
  BY <1>4, <1>5, <1>6
<1>8. t = u
  BY <1>u, <1>7, Zenon
<1> QED BY <1>a, <1>4, <1>5, <1>7, <1>8, Zenon DEF CryptoTurn

LEMMA CryptoTaken ==
  ASSUME NEW reg, RegistryOK(reg), reg[EP_CRYPTO].state = "PendingReply", NEW lib
  PROVE  CryptoTurn(reg, lib, crypto_dispatch(reg, lib),
                    take_reply(crypto_dispatch(reg, lib).reg[EP_CRYPTO]))
  BY CryptoRound, Zenon

LEMMA SignRound ==
  ASSUME NEW reg, RegistryOK(reg), reg[EP_SIGN].state = "PendingReply", NEW lib,
         NEW d, d = sign_dispatch(reg, lib), NEW t, t = take_reply(d.reg[EP_SIGN])
  PROVE  SignTurn(reg, lib, d, t)
<1>q. PICK q : q = ipc_recv(reg, EP_SIGN)
  OBVIOUS
<1>e. PICK e : e = SignReply("Error", "InvalidRequest", 0, 0, 0)
  OBVIOUS
<1>a. PICK a : a = IF q.m.len >= IPC_MAX_PAYLOAD THEN SignAnswer(session, q.m, lib)
                   ELSE [s |-> session, reply |-> e]
  BY Zenon
<1>p. PICK p : p = ipc_reply(q.reg, EP_SIGN, a.reply.type, IPC_MAX_PAYLOAD, a.reply)
  OBVIOUS
<1>u. PICK u : u = take_reply(p.reg[EP_SIGN])
  OBVIOUS
<1>1. a.s = session \/ a.s = SignAnswer(session, q.m, lib).s
  BY <1>a
<1>2. EP_SIGN \in EndpointIds
  BY DEF EndpointIds
<1>3. IPC_MAX_PAYLOAD \in Nat /\ IPC_MAX_PAYLOAD <= IPC_MAX_PAYLOAD
  BY IpcAssumption
<1>4. q.r = "Ok" /\ q.m = reg[EP_SIGN].msg
  BY <1>q, <1>2, RecvResult
<1>5. /\ p.r = "Ok" /\ u.r = "Ok"
      /\ [p.reg EXCEPT ![EP_SIGN] = u.ep]
           = With(reg, EP_SIGN, "Idle", <<>>, reg[EP_SIGN].sequence)
  <2>1. Round(reg, EP_SIGN,
              MsgRec(a.reply.type, IPC_MAX_PAYLOAD, reg[EP_SIGN].sequence, a.reply), p, u)
    BY <1>q, <1>p, <1>u, <1>2, <1>3, RoundResult
  <2> QED BY <2>1, Zenon DEF Round
<1>6. d = IF q.r # "Ok" THEN [r |-> q.r, reg |-> reg, s |-> session]
          ELSE [r |-> p.r, reg |-> p.reg, s |-> a.s]
  BY <1>q, <1>e, <1>a, <1>p, Zenon DEF sign_dispatch
<1>7. d.r = "Ok" /\ d.reg = p.reg /\ d.s = a.s
  BY <1>4, <1>5, <1>6
<1>8. t = u
  BY <1>u, <1>7, Zenon
<1> QED BY <1>1, <1>4, <1>5, <1>7, <1>8, Zenon DEF SignTurn

(* The three outcomes of a call: refused, answered by the kernel itself,   *)
(* or blocked at an endpoint that somebody else serves.                    *)
Untouched == UNCHANGED <<registry, session, waiting, crossed>>

Answered(id, req, n, lib) ==
  /\ id \in {EP_CRYPTO, EP_SIGN}
  /\ registry' = With(registry, id, "Idle", <<>>, n)
  /\ \/ session' = session
     \/ /\ id = EP_SIGN
        /\ session' = SignAnswer(session, MsgRec(req.type, req.len, n, req.body), lib).s
  /\ UNCHANGED <<waiting, crossed>>

Blocked(c, cap, req, n) ==
  LET id == cap.endpoint_id
  IN  /\ id \in {EP_SYSTEM, EP_LUMEN_WIRE}
      /\ is_valid_for(cap, id, {"CALL"})
      /\ registry[id].state # "PendingReply"
      /\ registry' = With(registry, id, "PendingReply",
                          MsgRec(req.type, req.len, n, req.body), n)
      /\ session' = session
      /\ waiting' = [waiting EXCEPT ![c] = [ep |-> id, sequence |-> n, body |-> req.body]]
      /\ crossed' = [x \in Client |-> IF x = c THEN \E y \in Client : WaitsAt(y, id)
                                      ELSE crossed[x] \/ WaitsAt(x, id)]

(* The values inside Call.                                                 *)
Number(id) == (registry[id].sequence + 1) % SEQ_MOD
Sent(id, req) == MsgRec(req.type, req.len, Number(id), req.body)
Handled(cap, req, lib) ==
  LET p == Posted(cap, req)
  IN  IF p.r = "Ok" THEN Dispatched(p.reg, cap.endpoint_id, lib)
      ELSE [r |-> p.r, reg |-> p.reg, s |-> session]
TakenBack(cap, req, lib) == take_reply(Handled(cap, req, lib).reg[cap.endpoint_id])
WaitRecord(id, n, req) == [ep |-> id, sequence |-> n, body |-> req.body]
CrossedBy(c, id) ==
  [x \in Client |-> IF x = c THEN \E y \in Client : WaitsAt(y, id)
                   ELSE crossed[x] \/ WaitsAt(x, id)]

(* What Call does with the outcome d of the handler and the reply t taken. *)
Unfolded(c, id, req, d, t) ==
  /\ waiting[c] = NoCall /\ serving' = serving /\ session' = d.s
  /\ inorder' = InOrder(id, req, session, d.s)
  /\ IF d.r # "Ok"
       THEN registry' = d.reg /\ UNCHANGED <<waiting, crossed>>
     ELSE IF t.r = "Ok"
       THEN registry' = [d.reg EXCEPT ![id] = t.ep] /\ UNCHANGED <<waiting, crossed>>
     ELSE /\ registry' = d.reg
          /\ waiting' = [waiting EXCEPT ![c] = WaitRecord(id, d.reg[id].sequence, req)]
          /\ crossed' = CrossedBy(c, id)

LEMMA CallUnfolds ==
  ASSUME NEW c, NEW cap, NEW req, NEW lib, Call(c, cap, req, lib),
         NEW id, id = cap.endpoint_id, NEW d, d = Handled(cap, req, lib),
         NEW t, t = TakenBack(cap, req, lib)
  PROVE  Unfolded(c, id, req, d, t)
BY Zenon DEF Call, Handled, TakenBack, WaitRecord, CrossedBy, Unfolded

(* A call whose request was posted: registry reg and what the dispatcher d *)
(* makes of it.                                                            *)
PostedAt(id, n, cap, req, lib, reg, d) ==
  /\ id \in EndpointIds /\ registry[id].state # "PendingReply"
  /\ is_valid_for(cap, id, {"CALL"})
  /\ reg = With(registry, id, "PendingReply", Sent(id, req), n)
  /\ RegistryOK(reg)
  /\ reg[id] = EpRec(id, {"CALL"}, "PendingReply", Sent(id, req), n)
  /\ reg[id].state = "PendingReply" /\ reg[id].msg = Sent(id, req)
  /\ reg[id].sequence = n
  /\ With(reg, id, "Idle", <<>>, n) = With(registry, id, "Idle", <<>>, n)
  /\ d = Dispatched(reg, id, lib)

LEMMA CallPosted ==
  ASSUME TypeInv, NEW cap, NEW req, req.len \in Nat, NEW lib, NEW id, id = cap.endpoint_id,
         NEW n, n = Number(id), NEW p, p = Posted(cap, req), p.r = "Ok",
         NEW d, d = Handled(cap, req, lib)
  PROVE  PostedAt(id, n, cap, req, lib, p.reg, d)
<1>1. /\ id \in EndpointIds /\ registry[id].state # "PendingReply"
      /\ is_valid_for(cap, id, {"CALL"})
      /\ p.reg = With(registry, id, "PendingReply", Sent(id, req), n)
  <2>1. PostedOutcome(p, id, cap, req, n)
    BY PostedResult, Zenon DEF Number
  <2> QED BY <2>1, Zenon DEF PostedOutcome, Sent
<1>2. IsMsg(Sent(id, req))
  BY MsgFacts DEF Sent
<1>3. RegistryOK(registry)
  BY DEF TypeInv
<1>4. PendingAt(p.reg, registry, id, Sent(id, req), n)
  BY <1>1, <1>2, <1>3, WithPending, Zenon
<1>5. d = Dispatched(p.reg, id, lib)
  BY DEF Handled
<1> QED
  BY <1>1, <1>4, <1>5, Zenon DEF PostedAt, PendingAt

LEMMA CallSplits ==
  ASSUME TypeInv, NEW c \in Client, NEW cap, NEW req, req.len \in Nat, NEW lib,
         Call(c, cap, req, lib), NEW id, id = cap.endpoint_id, NEW n, n = Number(id),
         NEW p, p = Posted(cap, req), NEW d, d = Handled(cap, req, lib),
         NEW t, t = TakenBack(cap, req, lib)
  PROVE  Untouched \/ Answered(id, req, n, lib) \/ Blocked(c, cap, req, n)
<1>0. t = take_reply(d.reg[id])
  BY Zenon DEF TakenBack
<1>1. Unfolded(c, id, req, d, t)
  BY CallUnfolds, Zenon
<1>2. CASE p.r # "Ok"
  <2>1. p.reg = registry
    <3>1. PostedOutcome(p, id, cap, req, n)
      BY PostedResult, Zenon DEF Number
    <3> QED BY <1>2, <3>1, Zenon DEF PostedOutcome
  <2>2. d.r # "Ok" /\ d.reg = registry /\ d.s = session
    BY <1>2, <2>1 DEF Handled
  <2> QED
    BY <1>1, <2>2, Zenon DEF Untouched, Unfolded
<1>3. CASE p.r = "Ok"
  <2>0. PostedAt(id, n, cap, req, lib, p.reg, d)
    BY <1>3, CallPosted, Zenon
  <2>1. /\ id \in EndpointIds /\ registry[id].state # "PendingReply"
        /\ is_valid_for(cap, id, {"CALL"})
        /\ p.reg = With(registry, id, "PendingReply", Sent(id, req), n)
    BY <2>0, Zenon DEF PostedAt
  <2>2. /\ RegistryOK(p.reg)
        /\ p.reg[id] = EpRec(id, {"CALL"}, "PendingReply", Sent(id, req), n)
        /\ p.reg[id].state = "PendingReply" /\ p.reg[id].msg = Sent(id, req)
        /\ p.reg[id].sequence = n
    BY <2>0, Zenon DEF PostedAt
  <2>3. /\ With(p.reg, id, "Idle", <<>>, n) = With(registry, id, "Idle", <<>>, n)
        /\ d = Dispatched(p.reg, id, lib)
    BY <2>0, Zenon DEF PostedAt
  <2>4. CASE id = EP_CRYPTO
    <3>1. d = crypto_dispatch(p.reg, lib)
      BY <2>3, <2>4 DEF Dispatched, is_kernel_service
    <3>2. /\ d.r = "Ok" /\ t.r = "Ok" /\ d.s = session
          /\ [d.reg EXCEPT ![id] = t.ep] = With(p.reg, id, "Idle", <<>>, n)
      <4>1. CryptoTurn(p.reg, lib, d, t)
        BY <1>0, <2>2, <2>4, <3>1, CryptoRound, Zenon
      <4> QED BY <2>2, <2>4, <4>1, Zenon DEF CryptoTurn
    <3> QED
      <4>1. /\ session' = d.s /\ registry' = [d.reg EXCEPT ![id] = t.ep]
            /\ UNCHANGED <<waiting, crossed>>
        BY <1>1, <3>2, Zenon DEF Unfolded
      <4> QED BY <2>3, <2>4, <3>2, <4>1, Zenon DEF Answered
  <2>5. CASE id = EP_SIGN
    <3>1. d = sign_dispatch(p.reg, lib)
      BY <2>3, <2>5 DEF Dispatched, is_kernel_service, EP_CRYPTO, EP_SIGN
    <3>2. /\ d.r = "Ok" /\ t.r = "Ok"
          /\ d.s = session \/ d.s = SignAnswer(session, Sent(id, req), lib).s
          /\ [d.reg EXCEPT ![id] = t.ep] = With(p.reg, id, "Idle", <<>>, n)
      <4>1. SignTurn(p.reg, lib, d, t)
        BY <1>0, <2>2, <2>5, <3>1, SignRound, Zenon
      <4> QED BY <2>2, <2>5, <4>1, Zenon DEF SignTurn
    <3> QED
      <4>1. /\ session' = d.s /\ registry' = [d.reg EXCEPT ![id] = t.ep]
            /\ UNCHANGED <<waiting, crossed>>
        BY <1>1, <3>2, Zenon DEF Unfolded
      <4> QED BY <2>3, <2>5, <3>2, <4>1, Zenon DEF Answered, Sent
  <2>6. CASE id \notin {EP_CRYPTO, EP_SIGN}
    <3>1. d.r = "Ok" /\ d.reg = p.reg /\ d.s = session
      BY <2>3, <2>6 DEF Dispatched
    <3>2. id \in {EP_SYSTEM, EP_LUMEN_WIRE}
      BY <2>1, <2>6 DEF EndpointIds
    <3>3. t.r # "Ok"
      <4>1. t = take_reply(EpRec(id, {"CALL"}, "PendingReply", Sent(id, req), n))
        BY <1>0, <2>2, <3>1, Zenon
      <4>2. "PendingReply" # "ReplyReady"
        OBVIOUS
      <4> QED BY <4>1, <4>2, NoReplyToTake, Zenon
    <3>4. /\ registry' = With(registry, id, "PendingReply", Sent(id, req), n)
          /\ session' = session
          /\ waiting' = [waiting EXCEPT ![c] = WaitRecord(id, n, req)]
          /\ crossed' = CrossedBy(c, id)
      <4>1. /\ session' = d.s /\ registry' = d.reg
            /\ waiting' = [waiting EXCEPT ![c] = WaitRecord(id, d.reg[id].sequence, req)]
            /\ crossed' = CrossedBy(c, id)
        BY <1>1, <3>1, <3>3, Zenon DEF Unfolded
      <4> QED BY <2>1, <2>2, <3>1, <4>1, Zenon
    <3> QED
      BY <2>1, <3>2, <3>4, Zenon DEF Blocked, Sent, WaitRecord, CrossedBy
  <2> QED BY <2>4, <2>5, <2>6
<1> QED BY <1>2, <1>3

LEMMA CallCases ==
  ASSUME TypeInv, NEW c \in Client, NEW cap, NEW req, req.len \in Nat, NEW lib,
         Call(c, cap, req, lib)
  PROVE  LET id == cap.endpoint_id
             n == (registry[id].sequence + 1) % SEQ_MOD
         IN  /\ waiting[c] = NoCall /\ serving' = serving
             /\ inorder' = InOrder(id, req, session, session')
             /\ Untouched \/ Answered(id, req, n, lib) \/ Blocked(c, cap, req, n)
<1>1. Unfolded(c, cap.endpoint_id, req, Handled(cap, req, lib), TakenBack(cap, req, lib))
  BY CallUnfolds, Zenon
<1>2. \/ Untouched
      \/ Answered(cap.endpoint_id, req, Number(cap.endpoint_id), lib)
      \/ Blocked(c, cap, req, Number(cap.endpoint_id))
  BY CallSplits, Zenon
<1> QED BY <1>1, <1>2, Zenon DEF Number, Unfolded

LEMMA WithFields ==
  ASSUME NEW reg, RegistryOK(reg), NEW id \in EndpointIds,
         NEW state \in {"Idle", "PendingReply", "ReplyReady"}, NEW msg, NEW n,
         state = "Idle" => msg = <<>>, state = "PendingReply" => IsMsg(msg),
         NEW w, w = With(reg, id, state, msg, n)
  PROVE  /\ RegistryOK(w)
         /\ w[id].state = state /\ w[id].msg = msg /\ w[id].sequence = n
         /\ \A j \in EndpointIds : j # id => w[j] = reg[j]
<1>1. /\ RegistryOK(w) /\ w[id] = EpRec(id, {"CALL"}, state, msg, n)
      /\ \A j \in EndpointIds : j # id => w[j] = reg[j]
  BY WithOK
<1>2. w[id].state = state /\ w[id].msg = msg /\ w[id].sequence = n
  BY <1>1, EpFields
<1> QED BY <1>1, <1>2, Zenon
=============================================================================
