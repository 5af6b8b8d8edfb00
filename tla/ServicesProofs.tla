--------------------------- MODULE ServicesProofs ---------------------------
(***************************************************************************)
(* Proofs about the services: the signing session stays consistent and     *)
(* moves forward only, and the rendezvous delivers each uncrossed caller   *)
(* its own reply, for any callers, capabilities, requests and buffer sizes.*)
(***************************************************************************)
EXTENDS ServiceLemmas, FiniteSetTheorems

(* Every message under way at an endpoint has a caller waiting for it, and *)
(* two of them have two.                                                   *)
Accounted ==
  /\ \A id \in {EP_CRYPTO, EP_SIGN} : registry[id].state = "Idle"
  /\ \A c \in Client : waiting[c] # NoCall =>
       /\ waiting[c].ep \in {EP_SYSTEM, EP_LUMEN_WIRE}
       /\ \E cap \in Caps[c] : is_valid_for(cap, waiting[c].ep, {"CALL"})
  /\ \A id \in EndpointIds :
       registry[id].state # "Idle" => \E c \in Client : WaitsAt(c, id)
  /\ serving # NoRequest => \E c \in Client : WaitsAt(c, EP_LUMEN_WIRE)
  /\ serving # NoRequest /\ registry[EP_LUMEN_WIRE].state # "Idle" =>
       \E c, d \in Client : c # d /\ WaitsAt(c, EP_LUMEN_WIRE) /\ WaitsAt(d, EP_LUMEN_WIRE)

(* An uncrossed caller is alone at the endpoint and its number is current. *)
Uncrossed ==
  \A c \in Client : WaitsAt(c, EP_LUMEN_WIRE) /\ ~crossed[c] =>
    /\ \A d \in Client : WaitsAt(d, EP_LUMEN_WIRE) => d = c
    /\ registry[EP_LUMEN_WIRE].sequence = waiting[c].sequence
    /\ OwnExchange(c)

IInv == TypeInv /\ SessionConsistent /\ Accounted /\ Uncrossed
-----------------------------------------------------------------------------
(* The registration of the four endpoints.                                 *)
Fresh(S) == [x \in S |-> IpcEndpoint(x, {"CALL"})]

LEMMA RegisterAdds ==
  ASSUME NEW S, IsFiniteSet(S), Cardinality(S) < IPC_MAX_ENDPOINTS, NEW id, id \notin S
  PROVE  /\ register(Fresh(S), id, {"CALL"}) = Fresh(S \cup {id})
         /\ IsFiniteSet(S \cup {id}) /\ Cardinality(S \cup {id}) = Cardinality(S) + 1
<1>1. IsFiniteSet(S \cup {id}) /\ Cardinality(S \cup {id}) = Cardinality(S) + 1
  BY FS_AddElement
<1>2. DOMAIN Fresh(S) = S /\ \A x \in S : Fresh(S)[x] = IpcEndpoint(x, {"CALL"})
  BY DEF Fresh
<1>3. ~(Cardinality(S) >= IPC_MAX_ENDPOINTS)
  BY FS_CardinalityType, IpcAssumption
<1>4. register(Fresh(S), id, {"CALL"})
        = [x \in S \cup {id} |-> IF x \in S THEN Fresh(S)[x] ELSE IpcEndpoint(id, {"CALL"})]
  BY <1>2, <1>3, Zenon DEF register
<1>5. [x \in S \cup {id} |-> IF x \in S THEN Fresh(S)[x] ELSE IpcEndpoint(id, {"CALL"})]
        = [x \in S \cup {id} |-> IpcEndpoint(x, {"CALL"})]
  BY <1>2
<1> QED BY <1>1, <1>4, <1>5 DEF Fresh

LEMMA IpcInitResult == IpcInit = Fresh(EndpointIds)
<1> DEFINE S1 == {} \cup {EP_SYSTEM}
           S2 == S1 \cup {EP_CRYPTO}
           S3 == S2 \cup {EP_SIGN}
           S4 == S3 \cup {EP_LUMEN_WIRE}
<1>1. NoEndpoints = Fresh({})
  BY DEF NoEndpoints, Fresh
<1>2. IsFiniteSet({}) /\ Cardinality({}) = 0
  BY FS_EmptySet
<1>3. /\ register(NoEndpoints, EP_SYSTEM, {"CALL"}) = Fresh(S1)
      /\ IsFiniteSet(S1) /\ Cardinality(S1) = 1
  BY <1>1, <1>2, RegisterAdds, IpcAssumption
<1>4. EP_CRYPTO \notin S1 /\ EP_SIGN \notin S2 /\ EP_LUMEN_WIRE \notin S3
  BY DEF EP_SYSTEM, EP_CRYPTO, EP_SIGN, EP_LUMEN_WIRE
<1> HIDE DEF S1, S2, S3, S4
<1>5. /\ register(Fresh(S1), EP_CRYPTO, {"CALL"}) = Fresh(S2)
      /\ IsFiniteSet(S2) /\ Cardinality(S2) = 2
  BY <1>3, <1>4, RegisterAdds, IpcAssumption DEF S2
<1>6. /\ register(Fresh(S2), EP_SIGN, {"CALL"}) = Fresh(S3)
      /\ IsFiniteSet(S3) /\ Cardinality(S3) = 3
  BY <1>4, <1>5, RegisterAdds, IpcAssumption DEF S3
<1>7. register(Fresh(S3), EP_LUMEN_WIRE, {"CALL"}) = Fresh(S4)
  BY <1>4, <1>6, RegisterAdds, IpcAssumption DEF S4
<1>8. S4 = EndpointIds
  BY DEF S1, S2, S3, S4, EndpointIds
<1> QED BY <1>3, <1>5, <1>6, <1>7, <1>8 DEF IpcInit
-----------------------------------------------------------------------------
LEMMA InitIInv == Init => IInv
<1> SUFFICES ASSUME Init PROVE IInv
  OBVIOUS
<1>1. registry = Fresh(EndpointIds)
  BY IpcInitResult DEF Init
<1>2. \A id \in EndpointIds :
        /\ registry[id] = IpcEndpoint(id, {"CALL"})
        /\ registry[id].state = "Idle" /\ registry[id].msg = <<>>
  BY <1>1 DEF Fresh, IpcEndpoint
<1>3. RegistryOK(registry)
  <2>1. \A id \in EndpointIds : EndpointOK(registry[id], id)
    <3> TAKE id \in EndpointIds
    <3> DEFINE ep == registry[id]
    <3>1. /\ ep = [id |-> id, required |-> {"CALL"}, state |-> "Idle", msg |-> <<>>,
                   sequence |-> 0]
          /\ ep.state = "Idle" /\ ep.msg = <<>>
      BY <1>2 DEF IpcEndpoint
    <3> HIDE DEF ep
    <3>2. ep.sequence = 0
      BY <3>1
    <3>3. EndpointOK(ep, id)
      BY <3>1, <3>2, Zenon DEF EndpointOK
    <3> QED BY <3>3 DEF ep
  <2>2. registry = [id \in EndpointIds |-> registry[id]]
    BY <1>1 DEF Fresh
  <2> QED BY <2>1, <2>2 DEF RegistryOK
<1>4. /\ waiting = [c \in Client |-> NoCall] /\ crossed = [c \in Client |-> FALSE]
      /\ serving = NoRequest /\ session = SessionIdle /\ inorder = TRUE
  BY DEF Init
<1>5. TypeInv
  BY <1>3, <1>4, IdleType DEF TypeInv
<1>6. SessionConsistent
  BY <1>4, IdleConsistent DEF SessionConsistent
<1>7. Accounted /\ Uncrossed
  BY <1>2, <1>4 DEF Accounted, Uncrossed, WaitsAt, EndpointIds
<1> QED BY <1>5, <1>6, <1>7 DEF IInv

-----------------------------------------------------------------------------
(* The invariant is kept.  The session changes in Call alone.              *)
LEMMA CallSession ==
  ASSUME TypeInv, SessionConsistent, NEW c \in Client, NEW cap \in Caps[c],
         NEW req \in Requests[cap.endpoint_id], NEW lib, Call(c, cap, req, lib)
  PROVE  /\ session' \in SessionType /\ inorder' \in BOOLEAN /\ SessionConsistent'
         /\ Begun(session) => \/ session' = SessionIdle
                              \/ /\ session'.op = session.op
                                 /\ session'.total = session.total
                                 /\ PhaseOrder[session'.phase] >= PhaseOrder[session.phase]
<1> DEFINE id == cap.endpoint_id
           n == (registry[id].sequence + 1) % SEQ_MOD
           m == MsgRec(req.type, req.len, n, req.body)
           s == session
           t == session'
<1>1. req.len \in Nat
  BY ServicesAssumption
<1>2. /\ inorder' = InOrder(id, req, s, t)
      /\ Untouched \/ Answered(id, req, n, lib) \/ Blocked(c, cap, req, n)
  BY <1>1, CallCases
<1>3. s \in SessionType /\ inorder \in BOOLEAN /\ Consistent(s, inorder)
  BY DEF TypeInv, SessionConsistent
<1>4. m.type = req.type /\ m.body = req.body
  BY MsgFacts
<1> HIDE DEF m, n
<1>5. t = s \/ (id = EP_SIGN /\ t = SignAnswer(s, m, lib).s)
  BY <1>2 DEF Untouched, Answered, Blocked, m
<1>6. t \in SessionType /\ Advances(s, t, inorder, req.type, req.body)
                        /\ (t # s => id = EP_SIGN)
  <2>1. CASE t = s
    BY <1>3, <2>1 DEF Advances
  <2>2. CASE t # s
    <3>1. SignBodyOK(m.body)
      BY <1>4, <1>5, <2>2, ServicesAssumption DEF SignBodyOK
    <3>2. t \in SessionType /\ Advances(s, t, inorder, m.type, m.body)
      BY <1>3, <1>5, <2>2, <3>1, AnswerAdvances
    <3> QED BY <1>4, <1>5, <2>2, <3>2
  <2> QED BY <2>1, <2>2
<1>7. \A x \in Phases : PhaseOrder[x] \in Int
  BY DEF Phases, PhaseOrder
<1>8. s.phase \in Phases
  BY <1>3 DEF SessionType
<1>9. inorder' \in BOOLEAN
  BY <1>2, <1>3 DEF InOrder
<1>10. CASE t = s
  <2>1. inorder' = inorder
    BY <1>2, <1>10 DEF InOrder
  <2>2. PhaseOrder[s.phase] >= PhaseOrder[s.phase]
    BY <1>7, <1>8
  <2> QED BY <1>3, <1>6, <1>9, <1>10, <2>1, <2>2 DEF SessionConsistent
<1>11. CASE t # s /\ t = SessionIdle
  <2>1. Consistent(t, inorder')
    BY <1>9, <1>11, IdleConsistent
  <2> QED BY <1>6, <1>9, <1>11, <2>1 DEF SessionConsistent
<1>12. CASE t # s /\ s.phase = "Idle" /\ Consistent(t, TRUE)
  <2>1. inorder' = TRUE
    BY <1>2, <1>6, <1>12 DEF InOrder
  <2> QED BY <1>6, <1>9, <1>12, <2>1 DEF SessionConsistent, Begun
<1>13. CASE /\ t # s /\ s.phase # "Idle" /\ t.phase # "Idle"
            /\ t.op = s.op /\ t.total = s.total
            /\ PhaseOrder[t.phase] >= PhaseOrder[s.phase]
            /\ \/ /\ req.type = "SignInChunkReq"
                  /\ Consistent(t, inorder /\ req.body.offset = s.recv[SectionOf(s.phase)])
               \/ req.type # "SignInChunkReq" /\ Consistent(t, inorder)
  <2>1. Consistent(t, inorder')
    <3>1. CASE req.type = "SignInChunkReq"
      <4>1. inorder' = (inorder /\ req.body.offset = s.recv[SectionOf(s.phase)])
        BY <1>2, <1>6, <1>13, <3>1, Zenon DEF InOrder
      <4>2. Consistent(t, inorder /\ req.body.offset = s.recv[SectionOf(s.phase)])
        BY <1>13, <3>1
      <4> QED BY <4>1, <4>2, Zenon
    <3>2. CASE req.type # "SignInChunkReq"
      <4>1. inorder' = inorder
        BY <1>2, <1>6, <1>13, <3>2, Zenon DEF InOrder
      <4> QED BY <1>13, <3>2, <4>1, Zenon
    <3> QED BY <3>1, <3>2
  <2> QED BY <1>6, <1>9, <1>13, <2>1 DEF SessionConsistent
<1> QED BY <1>6, <1>10, <1>11, <1>12, <1>13, Zenon DEF Advances

(* The part of the invariant about endpoints and callers.                  *)
CallersOK ==
  /\ RegistryOK(registry)
  /\ waiting = [c \in Client |-> waiting[c]]
  /\ \A c \in Client : waiting[c] = NoCall \/ IsCall(waiting[c])
  /\ crossed \in [Client -> BOOLEAN]
  /\ serving = NoRequest \/ IsMsg(serving)

Rendezvous == CallersOK /\ Accounted /\ Uncrossed

(* A step that touches neither endpoints nor callers keeps this part.      *)
LEMMA SameRendezvous ==
  ASSUME Rendezvous, UNCHANGED <<registry, waiting, crossed, serving>>
  PROVE  Rendezvous'
<1>1. CallersOK'
  BY DEF Rendezvous, CallersOK
<1>2. \A c \in Client : \A id : WaitsAt(c, id)' <=> WaitsAt(c, id)
  BY DEF WaitsAt
<1>3. Accounted'
  BY <1>2 DEF Rendezvous, Accounted
<1>4. \A c \in Client : OwnExchange(c)' <=> OwnExchange(c)
  BY DEF OwnExchange
<1>5. Uncrossed'
  BY <1>2, <1>4 DEF Rendezvous, Uncrossed
<1> QED BY <1>1, <1>3, <1>5 DEF Rendezvous

(* Only the wire endpoint and the callers at it matter to Uncrossed.       *)
LEMMA SameWire ==
  ASSUME CallersOK, Uncrossed, registry'[EP_LUMEN_WIRE] = registry[EP_LUMEN_WIRE],
         serving' = serving,
         \A x \in Client : WaitsAt(x, EP_LUMEN_WIRE)' =>
           WaitsAt(x, EP_LUMEN_WIRE) /\ waiting'[x] = waiting[x] /\ (crossed[x] => crossed'[x])
  PROVE  Uncrossed'
  BY DEF Uncrossed, OwnExchange

LEMMA CallRendezvous ==
  ASSUME TypeInv, Accounted, Uncrossed, NEW c \in Client, NEW cap \in Caps[c],
         NEW req \in Requests[cap.endpoint_id], NEW lib, Call(c, cap, req, lib)
  PROVE  Rendezvous'
<1> DEFINE id == cap.endpoint_id
           n == (registry[id].sequence + 1) % SEQ_MOD
           m == MsgRec(req.type, req.len, n, req.body)
           call == [ep |-> id, sequence |-> n, body |-> req.body]
<1>1. req.len \in Nat
  BY ServicesAssumption
<1>2. /\ waiting[c] = NoCall /\ serving' = serving
      /\ Untouched \/ Answered(id, req, n, lib) \/ Blocked(c, cap, req, n)
  BY <1>1, CallCases
<1>3. CallersOK /\ DOMAIN waiting = Client
  BY DEF TypeInv, CallersOK
<1>4. EP_SYSTEM # EP_LUMEN_WIRE /\ EP_SYSTEM \notin {EP_CRYPTO, EP_SIGN}
      /\ EP_LUMEN_WIRE \notin {EP_CRYPTO, EP_SIGN}
      /\ {EP_SYSTEM, EP_LUMEN_WIRE, EP_CRYPTO, EP_SIGN} \subseteq EndpointIds
  BY DEF EndpointIds, EP_SYSTEM, EP_CRYPTO, EP_SIGN, EP_LUMEN_WIRE
<1>5. CASE Untouched
  <2>1. registry' = registry /\ waiting' = waiting /\ crossed' = crossed
    BY <1>5 DEF Untouched
  <2> QED BY <1>2, <1>3, <2>1, SameRendezvous DEF Rendezvous
<1>6. CASE Answered(id, req, n, lib)
  <2> HIDE DEF n
  <2>1. /\ id \in {EP_CRYPTO, EP_SIGN} /\ waiting' = waiting /\ crossed' = crossed
        /\ registry' = With(registry, id, "Idle", <<>>, n)
    BY <1>6 DEF Answered
  <2>2. /\ RegistryOK(registry') /\ registry'[id].state = "Idle"
        /\ \A j \in EndpointIds : j # id => registry'[j] = registry[j]
    BY <1>3, <1>4, <2>1, WithFields DEF CallersOK
  <2>3. CallersOK'
    BY <1>2, <1>3, <2>1, <2>2 DEF CallersOK
  <2>4. Accounted'
    BY <1>2, <1>4, <2>1, <2>2 DEF Accounted, WaitsAt
  <2>5. Uncrossed'
    BY <1>2, <1>3, <1>4, <2>1, <2>2, SameWire DEF WaitsAt
  <2> QED BY <2>3, <2>4, <2>5 DEF Rendezvous
<1>7. CASE Blocked(c, cap, req, n)
  <2>0. IsMsg(m) /\ m.body = req.body /\ m.sequence = n
    BY MsgFacts
  <2>1. /\ id \in {EP_SYSTEM, EP_LUMEN_WIRE} /\ is_valid_for(cap, id, {"CALL"})
        /\ registry' = With(registry, id, "PendingReply", m, n)
        /\ waiting' = [waiting EXCEPT ![c] = call]
        /\ crossed' = [x \in Client |-> IF x = c THEN \E y \in Client : WaitsAt(y, id)
                                        ELSE crossed[x] \/ WaitsAt(x, id)]
    BY <1>7, Zenon DEF Blocked
  <2> HIDE DEF n, m
  <2>2. /\ RegistryOK(registry') /\ registry'[id].state = "PendingReply"
        /\ registry'[id].msg = m /\ registry'[id].sequence = n
        /\ \A j \in EndpointIds : j # id => registry'[j] = registry[j]
    BY <1>3, <1>4, <2>0, <2>1, WithFields DEF CallersOK
  <2>3. /\ IsCall(call) /\ call # NoCall
        /\ call.ep = id /\ call.sequence = n /\ call.body = req.body
    BY DEF IsCall, NoCall
  <2> HIDE DEF call
  <2>4. waiting'[c] = call /\ \A x \in Client : x # c => waiting'[x] = waiting[x]
    BY <1>3, <2>1
  <2>5. /\ WaitsAt(c, id)' /\ \A j : ~WaitsAt(c, j)
        /\ \A j : WaitsAt(c, j)' => j = id
        /\ \A x \in Client : x # c => \A j : WaitsAt(x, j)' <=> WaitsAt(x, j)
    BY <1>2, <2>3, <2>4 DEF WaitsAt
  <2>6. \A x \in Client : \A j : WaitsAt(x, j) => x # c /\ WaitsAt(x, j)'
    BY <2>5
  <2>7. CallersOK'
    <3>1. waiting' = [x \in Client |-> waiting'[x]]
      BY <1>3, <2>1
    <3>2. crossed' \in [Client -> BOOLEAN]
      <4>1. \A x \in Client :
              (IF x = c THEN \E y \in Client : WaitsAt(y, id) ELSE crossed[x] \/ WaitsAt(x, id))
                \in BOOLEAN
        BY Zenon
      <4> QED BY <2>1, <4>1, Zenon
    <3> QED BY <1>2, <1>3, <2>2, <2>3, <2>4, <3>1, <3>2 DEF CallersOK
  <2>8. Accounted'
    <3>1. \A j \in {EP_CRYPTO, EP_SIGN} : registry'[j].state = "Idle"
      BY <1>4, <2>1, <2>2 DEF Accounted
    <3>2. \A x \in Client : waiting'[x] # NoCall =>
            /\ waiting'[x].ep \in {EP_SYSTEM, EP_LUMEN_WIRE}
            /\ \E q \in Caps[x] : is_valid_for(q, waiting'[x].ep, {"CALL"})
      BY <2>1, <2>3, <2>4 DEF Accounted
    <3>3. \A j \in EndpointIds :
            registry'[j].state # "Idle" => \E x \in Client : WaitsAt(x, j)'
      BY <2>2, <2>5, <2>6 DEF Accounted
    <3>4. serving' # NoRequest => \E x \in Client : WaitsAt(x, EP_LUMEN_WIRE)'
      BY <1>2, <2>6 DEF Accounted
    <3>5. ASSUME serving' # NoRequest, registry'[EP_LUMEN_WIRE].state # "Idle"
          PROVE  \E x, y \in Client : /\ x # y /\ WaitsAt(x, EP_LUMEN_WIRE)'
                                      /\ WaitsAt(y, EP_LUMEN_WIRE)'
      <4>1. CASE id = EP_LUMEN_WIRE
        <5>1. PICK y \in Client : WaitsAt(y, EP_LUMEN_WIRE)
          BY <1>2, <3>5 DEF Accounted
        <5> QED BY <2>5, <2>6, <4>1, <5>1
      <4>2. CASE id # EP_LUMEN_WIRE
        <5>1. PICK x \in Client, y \in Client : /\ x # y /\ WaitsAt(x, EP_LUMEN_WIRE)
                                                /\ WaitsAt(y, EP_LUMEN_WIRE)
          BY <1>2, <1>4, <2>2, <3>5, <4>2 DEF Accounted
        <5> QED BY <2>6, <5>1
      <4> QED BY <4>1, <4>2
    <3> QED BY <3>1, <3>2, <3>3, <3>4, <3>5 DEF Accounted
  <2>9. Uncrossed'
    <3>1. CASE id = EP_LUMEN_WIRE
      <4> SUFFICES ASSUME NEW x \in Client, WaitsAt(x, EP_LUMEN_WIRE)', ~crossed'[x]
                   PROVE  /\ \A d \in Client : WaitsAt(d, EP_LUMEN_WIRE)' => d = x
                          /\ registry'[EP_LUMEN_WIRE].sequence = waiting'[x].sequence
                          /\ OwnExchange(x)'
        BY DEF Uncrossed
      <4>1. x = c
        BY <2>1, <2>5, <3>1
      <4>2. \A y \in Client : ~WaitsAt(y, EP_LUMEN_WIRE)
        BY <2>1, <3>1, <4>1
      <4>3. serving' = NoRequest
        BY <1>2, <4>2 DEF Accounted
      <4>4. \A d \in Client : WaitsAt(d, EP_LUMEN_WIRE)' => d = x
        BY <2>5, <4>1, <4>2
      <4>5. OwnExchange(x)'
        BY <2>0, <2>2, <2>3, <2>4, <3>1, <4>1, <4>3 DEF OwnExchange
      <4> QED BY <2>2, <2>3, <2>4, <3>1, <4>1, <4>4, <4>5
    <3>2. CASE id # EP_LUMEN_WIRE
      <4>1. \A x \in Client : WaitsAt(x, EP_LUMEN_WIRE)' =>
              WaitsAt(x, EP_LUMEN_WIRE) /\ waiting'[x] = waiting[x] /\ (crossed[x] => crossed'[x])
        BY <2>1, <2>4, <2>5, <3>2
      <4> QED BY <1>2, <1>3, <1>4, <2>2, <3>2, <4>1, SameWire
    <3> QED BY <3>1, <3>2
  <2> QED BY <2>7, <2>8, <2>9 DEF Rendezvous
<1> QED BY <1>2, <1>5, <1>6, <1>7

LEMMA PollRendezvous ==
  ASSUME TypeInv, Accounted, Uncrossed, NEW c \in Client, Poll(c)
  PROVE  Rendezvous' \/ UNCHANGED vars
<1> DEFINE id == waiting[c].ep
           n == registry[id].sequence
           t == take_reply(registry[id])
<1>1. CallersOK /\ DOMAIN waiting = Client /\ DOMAIN crossed = Client
  BY DEF TypeInv, CallersOK
<1>2. waiting[c] # NoCall /\ id \in {EP_SYSTEM, EP_LUMEN_WIRE} /\ WaitsAt(c, id)
  BY DEF Poll, Accounted, WaitsAt
<1>3. /\ EP_SYSTEM # EP_LUMEN_WIRE /\ EP_SYSTEM \notin {EP_CRYPTO, EP_SIGN}
      /\ EP_LUMEN_WIRE \notin {EP_CRYPTO, EP_SIGN}
      /\ {EP_SYSTEM, EP_LUMEN_WIRE, EP_CRYPTO, EP_SIGN} \subseteq EndpointIds
  BY DEF EndpointIds, EP_SYSTEM, EP_CRYPTO, EP_SIGN, EP_LUMEN_WIRE
<1>4. registry[id] = EpRec(id, {"CALL"}, registry[id].state, registry[id].msg, n)
  BY <1>1, <1>2, <1>3, RegistryEntry DEF CallersOK
<1>5. IF registry[id].state = "ReplyReady"
      THEN t.r = "Ok" /\ t.ep = EpRec(id, {"CALL"}, "Idle", <<>>, n)
      ELSE t.r # "Ok"
  BY <1>4, TakeReplyResult
<1>6. \/ /\ t.r = "Ok" /\ registry' = [registry EXCEPT ![id] = t.ep]
         /\ waiting' = [waiting EXCEPT ![c] = NoCall]
         /\ crossed' = [crossed EXCEPT ![c] = FALSE] /\ serving' = serving
      \/ UNCHANGED vars
  BY DEF Poll
<1> HIDE DEF t
<1>7. CASE t.r = "Ok" /\ ~UNCHANGED vars
  <2>1. /\ registry[id].state = "ReplyReady" /\ serving' = serving
        /\ registry' = With(registry, id, "Idle", <<>>, n)
        /\ waiting' = [waiting EXCEPT ![c] = NoCall]
        /\ crossed' = [crossed EXCEPT ![c] = FALSE]
    BY <1>5, <1>6, <1>7 DEF With
  <2> HIDE DEF n
  <2>2. /\ RegistryOK(registry') /\ registry'[id].state = "Idle"
        /\ \A j \in EndpointIds : j # id => registry'[j] = registry[j]
    BY <1>1, <1>2, <1>3, <2>1, WithFields DEF CallersOK
  <2>3. /\ waiting'[c] = NoCall
        /\ \A x \in Client : x # c => waiting'[x] = waiting[x] /\ crossed'[x] = crossed[x]
    BY <1>1, <2>1
  <2>4. \A x \in Client : \A j : WaitsAt(x, j)' <=> x # c /\ WaitsAt(x, j)
    BY <2>3 DEF WaitsAt
  <2>5. \A j : WaitsAt(c, j) => j = id
    BY DEF WaitsAt
  <2> HIDE DEF id
  <2>6. CallersOK'
    <3>1. waiting' = [x \in Client |-> waiting'[x]] /\ crossed' \in [Client -> BOOLEAN]
      BY <1>1, <2>1 DEF CallersOK
    <3> QED BY <1>1, <2>1, <2>2, <2>3, <3>1 DEF CallersOK
  <2>7. Accounted'
    <3>1. \A j \in {EP_CRYPTO, EP_SIGN} : registry'[j].state = "Idle"
      BY <1>2, <1>3, <2>2 DEF Accounted
    <3>2. \A x \in Client : waiting'[x] # NoCall =>
            /\ waiting'[x].ep \in {EP_SYSTEM, EP_LUMEN_WIRE}
            /\ \E q \in Caps[x] : is_valid_for(q, waiting'[x].ep, {"CALL"})
      BY <2>3 DEF Accounted
    <3>3. \A j \in EndpointIds :
            registry'[j].state # "Idle" => \E x \in Client : WaitsAt(x, j)'
      BY <2>2, <2>4, <2>5 DEF Accounted
    <3>4. serving' # NoRequest => \E x \in Client : WaitsAt(x, EP_LUMEN_WIRE)'
      <4>1. CASE id = EP_LUMEN_WIRE
        BY <2>1, <2>4, <4>1 DEF Accounted
      <4>2. CASE id # EP_LUMEN_WIRE
        BY <2>1, <2>4, <2>5, <4>2 DEF Accounted
      <4> QED BY <4>1, <4>2
    <3>5. serving' # NoRequest /\ registry'[EP_LUMEN_WIRE].state # "Idle" =>
            \E x, y \in Client : x # y /\ WaitsAt(x, EP_LUMEN_WIRE)' /\ WaitsAt(y, EP_LUMEN_WIRE)'
      <4>1. CASE id = EP_LUMEN_WIRE
        BY <2>2, <4>1
      <4>2. CASE id # EP_LUMEN_WIRE
        BY <1>3, <2>1, <2>2, <2>4, <2>5, <4>2 DEF Accounted
      <4> QED BY <4>1, <4>2
    <3> QED BY <3>1, <3>2, <3>3, <3>4, <3>5 DEF Accounted
  <2>8. Uncrossed'
    <3>1. CASE id = EP_LUMEN_WIRE
      <4>1. ASSUME NEW x \in Client, WaitsAt(x, EP_LUMEN_WIRE)', ~crossed'[x]
            PROVE  FALSE
        BY <1>2, <2>3, <2>4, <3>1, <4>1 DEF Uncrossed
      <4> QED BY <4>1 DEF Uncrossed
    <3>2. CASE id # EP_LUMEN_WIRE
      <4>1. \A x \in Client : WaitsAt(x, EP_LUMEN_WIRE)' =>
              WaitsAt(x, EP_LUMEN_WIRE) /\ waiting'[x] = waiting[x] /\ (crossed[x] => crossed'[x])
        BY <2>3, <2>4
      <4> QED BY <1>1, <1>3, <2>1, <2>2, <3>2, <4>1, SameWire
    <3> QED BY <3>1, <3>2
  <2> QED BY <2>6, <2>7, <2>8 DEF Rendezvous
<1> QED BY <1>6, <1>7

LEMMA RecvRendezvous ==
  ASSUME TypeInv, Accounted, Uncrossed, Recv
  PROVE  Rendezvous' \/ UNCHANGED vars
<1> DEFINE id == EP_LUMEN_WIRE
           n == registry[id].sequence
           q == ipc_recv(registry, id)
<1>1. CallersOK
  BY DEF TypeInv, CallersOK
<1>2. /\ id \in EndpointIds /\ id \notin {EP_CRYPTO, EP_SIGN}
      /\ {EP_CRYPTO, EP_SIGN} \subseteq EndpointIds
  BY DEF EndpointIds, EP_SYSTEM, EP_CRYPTO, EP_SIGN, EP_LUMEN_WIRE
<1>3. IF registry[id].state = "PendingReply"
      THEN q.r = "Ok" /\ q.m = registry[id].msg /\ q.reg = With(registry, id, "Idle", <<>>, n)
      ELSE q.r # "Ok"
  BY <1>1, <1>2, RecvResult DEF CallersOK
<1>4. /\ serving = NoRequest /\ registry' = q.reg
      /\ serving' = IF q.r = "Ok" THEN q.m ELSE NoRequest
      /\ session' = session /\ inorder' = inorder /\ waiting' = waiting /\ crossed' = crossed
  BY DEF Recv
<1>5. CASE registry[id].state # "PendingReply"
  <2>1. q.r # "Ok" /\ q.reg = registry
    BY <1>1, <1>2, <1>5, RecvNothing DEF CallersOK
  <2> HIDE DEF q
  <2> QED BY <1>4, <2>1 DEF vars
<1> HIDE DEF q
<1>6. CASE registry[id].state = "PendingReply"
  <2>1. /\ registry[id].state = "PendingReply" /\ serving' = registry[id].msg
        /\ registry' = With(registry, id, "Idle", <<>>, n)
    BY <1>3, <1>4, <1>6
  <2>2. IsMsg(serving') /\ serving' # NoRequest
    <3>1. IsMsg(registry[id].msg)
      BY <1>1, <1>2, <2>1 DEF CallersOK, RegistryOK, EndpointOK
    <3> QED BY <2>1, <3>1 DEF IsMsg, NoRequest
  <2>3. /\ RegistryOK(registry') /\ registry'[id].state = "Idle" /\ registry'[id].sequence = n
        /\ \A j \in EndpointIds : j # id => registry'[j] = registry[j]
    BY <1>1, <1>2, <2>1, WithFields DEF CallersOK
  <2>4. CallersOK'
    BY <1>1, <1>4, <2>2, <2>3 DEF CallersOK
  <2>5. \A x \in Client : \A j : WaitsAt(x, j)' <=> WaitsAt(x, j)
    BY <1>4 DEF WaitsAt
  <2>6. Accounted'
    BY <1>2, <1>4, <2>1, <2>3, <2>5 DEF Accounted
  <2>7. Uncrossed'
    BY <1>4, <2>1, <2>2, <2>3, <2>5 DEF Uncrossed, OwnExchange
  <2> QED BY <2>4, <2>6, <2>7 DEF Rendezvous
<1> QED BY <1>5, <1>6

LEMMA ReplyRendezvous ==
  ASSUME TypeInv, Accounted, Uncrossed, NEW len \in ReplyLen, Reply(len)
  PROVE  Rendezvous'
<1> DEFINE id == EP_LUMEN_WIRE
           n == registry[id].sequence
           body == Answering(serving.body)
           m == MsgRec(serving.type, len, n, body)
           p == ipc_reply(registry, id, serving.type, len, body)
<1>1. CallersOK
  BY DEF TypeInv, CallersOK
<1>2. /\ id \in EndpointIds /\ id \notin {EP_CRYPTO, EP_SIGN}
      /\ {EP_CRYPTO, EP_SIGN} \subseteq EndpointIds
  BY DEF EndpointIds, EP_SYSTEM, EP_CRYPTO, EP_SIGN, EP_LUMEN_WIRE
<1>3. len \in Nat
  BY ServicesAssumption
<1>4. /\ serving # NoRequest /\ registry' = p.reg
      /\ serving' = (IF p.r = "Ok" THEN NoRequest ELSE serving)
      /\ waiting' = waiting /\ crossed' = crossed
  BY DEF Reply
<1> HIDE DEF body
<1>5. IF len > IPC_MAX_PAYLOAD \/ registry[id].state = "ReplyReady"
      THEN p.r # "Ok" /\ p.reg = registry
      ELSE p.r = "Ok" /\ p.reg = With(registry, id, "ReplyReady", m, n)
  BY <1>1, <1>2, <1>3, ReplyResult DEF CallersOK
<1> HIDE DEF p
<1>6. \A x \in Client : \A j : WaitsAt(x, j)' <=> WaitsAt(x, j)
  BY <1>4 DEF WaitsAt
<1>7. CASE p.r # "Ok"
  <2>1. registry' = registry /\ serving' = serving
    BY <1>4, <1>5, <1>7
  <2> QED BY <1>1, <1>4, <2>1, SameRendezvous DEF Rendezvous
<1>8. CASE p.r = "Ok"
  <2>1. registry' = With(registry, id, "ReplyReady", m, n) /\ serving' = NoRequest
    BY <1>4, <1>5, <1>8
  <2>2. m.body = body /\ m.sequence = n
    BY MsgFacts
  <2> HIDE DEF m
  <2>3. /\ RegistryOK(registry') /\ registry'[id].state = "ReplyReady"
        /\ registry'[id].msg = m /\ registry'[id].sequence = n
        /\ \A j \in EndpointIds : j # id => registry'[j] = registry[j]
    BY <1>1, <1>2, <2>1, WithFields DEF CallersOK
  <2>4. CallersOK'
    BY <1>1, <1>4, <2>1, <2>3 DEF CallersOK
  <2>5. Accounted'
    BY <1>2, <1>4, <1>6, <2>1, <2>3 DEF Accounted
  <2>6. Uncrossed'
    BY <1>4, <1>6, <2>1, <2>2, <2>3 DEF Uncrossed, OwnExchange, body
  <2> QED BY <2>4, <2>5, <2>6 DEF Rendezvous
<1> QED BY <1>7, <1>8

LEMMA NextIInv == IInv /\ [Next]_vars => IInv'
<1> SUFFICES ASSUME IInv, [Next]_vars PROVE IInv'
  OBVIOUS
<1>0. TypeInv /\ SessionConsistent /\ Accounted /\ Uncrossed
  BY DEF IInv
<1>1. ASSUME session' \in SessionType, inorder' \in BOOLEAN, SessionConsistent', Rendezvous'
      PROVE  IInv'
  BY <1>1 DEF IInv, TypeInv, Rendezvous, CallersOK
<1>2. ASSUME session' = session, inorder' = inorder, Rendezvous'
      PROVE  IInv'
  <2>1. SessionConsistent'
    BY <1>0, <1>2 DEF SessionConsistent
  <2> QED BY <1>0, <1>1, <1>2, <2>1 DEF TypeInv
<1>3. CASE UNCHANGED vars
  <2>1. Rendezvous'
    BY <1>0, <1>3, SameRendezvous DEF vars, TypeInv, Rendezvous, CallersOK
  <2> QED BY <1>2, <1>3, <2>1 DEF vars
<1>4. ASSUME NEW c \in Client, NEW cap \in Caps[c], NEW req \in Requests[cap.endpoint_id],
             NEW lib, Call(c, cap, req, lib)
      PROVE  IInv'
  BY <1>0, <1>1, <1>4, CallSession, CallRendezvous
<1>5. ASSUME NEW c \in Client, Poll(c)
      PROVE  IInv'
  <2>1. session' = session /\ inorder' = inorder
    BY <1>5 DEF Poll, vars
  <2> QED BY <1>0, <1>2, <1>3, <1>5, <2>1, PollRendezvous
<1>6. CASE Recv
  <2>1. session' = session /\ inorder' = inorder
    BY <1>6 DEF Recv
  <2> QED BY <1>0, <1>2, <1>3, <1>6, <2>1, RecvRendezvous
<1>7. ASSUME NEW len \in ReplyLen, Reply(len)
      PROVE  IInv'
  <2>1. session' = session /\ inorder' = inorder
    BY <1>7 DEF Reply
  <2> QED BY <1>0, <1>2, <1>7, <2>1, ReplyRendezvous
<1> QED BY <1>3, <1>4, <1>5, <1>6, <1>7 DEF Next
-----------------------------------------------------------------------------
LEMMA Invariance == Spec => []IInv
  BY InitIInv, NextIInv, PTL DEF Spec

(* The signing session and its buffers agree after every call, for every   *)
(* order of begin, chunk, exec, read and end from any number of callers    *)
(* and every size of the buffers (sign_service.rs).                        *)
THEOREM SessionAlwaysConsistent == Spec => []SessionConsistent
<1>1. IInv => SessionConsistent
  BY DEF IInv
<1> QED BY <1>1, Invariance, PTL

(* No request left in an endpoint that nobody waits at, and nobody waiting *)
(* at an endpoint the kernel itself serves (ipc_call).                     *)
THEOREM RendezvousAlwaysClean == Spec => []RendezvousClean
<1>1. IInv => RendezvousClean
  <2> SUFFICES ASSUME IInv PROVE RendezvousClean
    OBVIOUS
  <2>1. \A id \in EndpointIds : registry[id].state = "Idle" => registry[id].msg = <<>>
    BY DEF IInv, TypeInv, RegistryOK, EndpointOK
  <2> QED BY <2>1 DEF IInv, Accounted, RendezvousClean
<1> QED BY <1>1, Invariance, PTL

(* A caller whom no other caller crossed is answered with the reply to its *)
(* own request (IpcEndpoint, one message at a time).                       *)
THEOREM UncrossedAnswered == Spec => []ReplyAnswersCall
<1>1. IInv => ReplyAnswersCall
  BY DEF IInv, Uncrossed, ReplyAnswersCall
<1> QED BY <1>1, Invariance, PTL

(* A begun session keeps its operation and declared lengths and never goes *)
(* back a phase until it ends as a whole (sign_service.rs).                *)
THEOREM SessionOnlyForward == Spec => SessionForward
<1> DEFINE Forward == Begun(session) =>
             \/ session' = SessionIdle
             \/ /\ session'.op = session.op
                /\ session'.total = session.total
                /\ PhaseOrder[session'.phase] >= PhaseOrder[session.phase]
<1>1. ASSUME IInv, [Next]_vars
      PROVE  [Forward]_vars
  <2>0. TypeInv /\ SessionConsistent
    BY <1>1 DEF IInv
  <2>1. ASSUME session' = session
        PROVE  Forward
    <3>1. session.phase \in Phases /\ \A x \in Phases : PhaseOrder[x] \in Int
      BY <2>0 DEF TypeInv, SessionType, Phases, PhaseOrder
    <3> QED BY <2>1, <3>1
  <2>2. ASSUME NEW c \in Client, NEW cap \in Caps[c], NEW req \in Requests[cap.endpoint_id],
               NEW lib, Call(c, cap, req, lib)
        PROVE  Forward
    BY <2>0, <2>2, CallSession
  <2>3. ASSUME NEW c \in Client, Poll(c)
        PROVE  session' = session
    BY <2>3 DEF Poll, vars
  <2>4. ASSUME Recv \/ \E len \in ReplyLen : Reply(len)
        PROVE  session' = session
    BY <2>4 DEF Recv, Reply
  <2> HIDE DEF Forward
  <2> QED BY <1>1, <2>1, <2>2, <2>3, <2>4 DEF Next
<1> HIDE DEF Forward
<1>2. Spec => [][Forward]_vars
  BY <1>1, Invariance, PTL DEF Spec
<1> QED BY <1>2 DEF SessionForward, Forward
-----------------------------------------------------------------------------
(* AEAD: what encryption accepted, decryption opens, and nothing else.     *)

LEMMA PayloadFields ==
  ASSUME NEW a, NEW kl, NEW nl, NEW nonce, NEW key, NEW len, NEW data, NEW okm,
         NEW b, b = CryptoPayload(a, kl, nl, nonce, key, len, data, okm)
  PROVE  /\ b.algo = a /\ b.key_len = kl /\ b.nonce_len = nl /\ b.nonce = nonce
         /\ b.key = key /\ b.data_len = len /\ b.data = data /\ b.okm_len = okm
BY DEF CryptoPayload

(* The reply of the dispatcher to a whole request.                         *)
LEMMA AnswerOf ==
  ASSUME NEW type \in {"EncryptReq", "DecryptReq"}, NEW n, NEW body, NEW h,
         h = IF type = "EncryptReq" THEN handle_encrypt(body, "Ok") ELSE handle_decrypt(body)
  PROVE  LET a == CryptoAnswer(MsgRec(type, IPC_MAX_PAYLOAD, n, body), "Ok")
         IN  /\ a.body = h
             /\ a.type = IF h.r # "Ok" THEN "Error"
                         ELSE IF type = "EncryptReq" THEN "EncryptResp" ELSE "DecryptResp"
<1> DEFINE m == MsgRec(type, IPC_MAX_PAYLOAD, n, body)
           c == CryptoHandled(m, "Ok")
<1>1. m.type = type /\ m.len = IPC_MAX_PAYLOAD /\ m.body = body
  BY MsgFacts
<1>2. ~(m.len < CRYPTO_PAYLOAD_SIZE)
  BY <1>1, ServicesAssumption, IpcAssumption DEF CRYPTO_PAYLOAD_SIZE
<1> HIDE DEF m
<1>3. c = [type |-> IF type = "EncryptReq" THEN "EncryptResp" ELSE "DecryptResp", a |-> h]
  BY <1>1 DEF CryptoHandled
<1> HIDE DEF c
<1>4. c.a = h /\ c.type = IF type = "EncryptReq" THEN "EncryptResp" ELSE "DecryptResp"
  BY <1>3
<1>5. CryptoAnswer(m, "Ok") =
        IF h.r # "Ok" THEN [type |-> "Error", len |-> 1, body |-> h]
        ELSE [type |-> c.type, len |-> CRYPTO_PAYLOAD_SIZE, body |-> h]
  BY <1>2, <1>4, Zenon DEF CryptoAnswer, c
<1> DEFINE a == CryptoAnswer(m, "Ok")
<1> HIDE DEF a
<1>6. a.body = h /\ a.type = IF h.r # "Ok" THEN "Error" ELSE c.type
  BY <1>5 DEF a
<1> QED
  BY <1>4, <1>6 DEF a, m

(* A caller with the right for it gets through: the crypto service is idle *)
(* between calls.                                                          *)
LEMMA CryptoPosted ==
  ASSUME TypeInv, Accounted, NEW cap, is_valid_for(cap, EP_CRYPTO, {"CALL"}),
         NEW req, req.len = IPC_MAX_PAYLOAD
  PROVE  Posted(cap, req).r = "Ok"
<1> DEFINE s == set_payload(IpcMessage(req.type, 0), req.len, req.body)
           ep == registry[EP_CRYPTO]
           q == post(ep, cap, s.m)
<1>1. cap.endpoint_id = EP_CRYPTO /\ EP_CRYPTO \in EndpointIds
  BY DEF is_valid_for, EndpointIds
<1>2. DOMAIN registry = EndpointIds /\ RegistryOK(registry)
  BY DEF TypeInv, RegistryOK
<1>3. ep.state = "Idle"
  BY DEF Accounted
<1>4. ep.id = EP_CRYPTO /\ ep.required = {"CALL"}
  <2>1. ep = EpRec(EP_CRYPTO, {"CALL"}, ep.state, ep.msg, ep.sequence)
    BY <1>1, <1>2, RegistryEntry
  <2> HIDE DEF ep
  <2> QED BY <2>1 DEF EpRec
<1>5. s.r = "Ok" /\ s.m = MsgRec(req.type, req.len, 0, req.body)
  BY SetPayloadResult, IpcAssumption
<1>6. s.m.len = IPC_MAX_PAYLOAD
  BY <1>5, MsgFacts
<1> HIDE DEF s
<1>7. q.r = "Ok"
  <2> HIDE DEF ep
  <2> QED BY <1>3, <1>4, <1>6, IpcAssumption DEF post
<1> HIDE DEF q
<1>8. Posted(cap, req) = [r |-> q.r, reg |-> [registry EXCEPT ![EP_CRYPTO] = q.ep]]
  BY <1>1, <1>2, <1>5 DEF Posted, s, q
<1> QED
  BY <1>7, <1>8

LEMMA CryptoCallResult ==
  ASSUME TypeInv, Accounted, NEW cap, is_valid_for(cap, EP_CRYPTO, {"CALL"}),
         NEW type \in {"EncryptReq", "DecryptReq"}, NEW body, NEW h,
         h = IF type = "EncryptReq" THEN handle_encrypt(body, "Ok") ELSE handle_decrypt(body)
  PROVE  LET m == CryptoCall(cap, type, body)
         IN  /\ m.body = h
             /\ m.type = IF h.r # "Ok" THEN "Error"
                         ELSE IF type = "EncryptReq" THEN "EncryptResp" ELSE "DecryptResp"
<1> DEFINE req == [type |-> type, len |-> IPC_MAX_PAYLOAD, body |-> body]
           p == Posted(cap, req)
           n == Number(EP_CRYPTO)
           m == CryptoCall(cap, type, body)
           sent == MsgRec(type, IPC_MAX_PAYLOAD, n, body)
           a == CryptoAnswer(sent, "Ok")
<1>1. req.type = type /\ req.len = IPC_MAX_PAYLOAD /\ req.body = body /\ req.len \in Nat
  BY IpcAssumption
<1> HIDE DEF req
<1>2. p.r = "Ok"
  BY <1>1, CryptoPosted
<1>3. cap.endpoint_id = EP_CRYPTO
  BY DEF is_valid_for
<1>4. PostedAt(EP_CRYPTO, n, cap, req, "Ok", p.reg, Handled(cap, req, "Ok"))
  BY <1>1, <1>2, <1>3, CallPosted
<1>5. /\ RegistryOK(p.reg) /\ p.reg[EP_CRYPTO].state = "PendingReply"
      /\ p.reg[EP_CRYPTO].msg = sent /\ p.reg[EP_CRYPTO].sequence = n
  BY <1>1, <1>4, Zenon DEF PostedAt, Sent
<1> HIDE DEF p, n, sent
<1>6. m = take_reply(crypto_dispatch(p.reg, "Ok").reg[EP_CRYPTO]).m
  BY Zenon DEF CryptoCall, p, req
<1>7. m = MsgRec(a.type, a.len, n, a.body)
  <2> DEFINE z == CryptoAnswer(p.reg[EP_CRYPTO].msg, "Ok")
  <2>1. CryptoTurn(p.reg, "Ok", crypto_dispatch(p.reg, "Ok"),
                   take_reply(crypto_dispatch(p.reg, "Ok").reg[EP_CRYPTO]))
    BY <1>5, CryptoTaken, Zenon
  <2>3. take_reply(crypto_dispatch(p.reg, "Ok").reg[EP_CRYPTO]).m
          = MsgRec(z.type, z.len, p.reg[EP_CRYPTO].sequence, z.body)
    BY <2>1, Zenon DEF CryptoTurn
  <2>2. z = a
    BY <1>5
  <2> HIDE DEF z, a, m
  <2> QED BY <1>5, <1>6, <2>2, <2>3
<1>8. m.type = a.type /\ m.body = a.body
  <2> HIDE DEF m, a
  <2> QED BY <1>7, MsgFacts
<1>9. /\ a.body = h
      /\ a.type = IF h.r # "Ok" THEN "Error"
                  ELSE IF type = "EncryptReq" THEN "EncryptResp" ELSE "DecryptResp"
  BY AnswerOf DEF sent
<1> QED
  BY <1>8, <1>9

LEMMA RefusedFields ==
  ASSUME NEW e
  PROVE  Refused(e).r = e /\ Refused(e).data = <<>>
BY DEF Refused

(* What an encryption that went through says of the request.               *)
LEMMA EncryptOk ==
  ASSUME NEW req, req.data_len \in Nat, NEW h, h = handle_encrypt(req, "Ok"), h.r = "Ok"
  PROVE  /\ req.algo \in Aead /\ req.key_len = 32 /\ req.nonce_len = GCM_NONCE_SIZE
         /\ req.data_len + GCM_TAG_SIZE <= CRYPTO_DATA_LEN
         /\ h.data_len = req.data_len + GCM_TAG_SIZE
         /\ h.data = Sealed(req.algo, req.key, req.nonce, req.data_len, req.data)
<1> DEFINE r == encrypt_aead(req, "Ok")
           total == req.data_len + GCM_TAG_SIZE
           x == Sealed(req.algo, req.key, req.nonce, req.data_len, req.data)
           w == write_ok_reply(req.algo, total, x)
<1>1. \A e : e # "Ok" => h # Refused(e)
  BY RefusedFields
<1>2. total \in Nat
  BY DEF GCM_TAG_SIZE
<1> HIDE DEF r, total, x
<1>3. h = IF ~parse_algo(req.algo) THEN Refused("UnknownAlgorithm")
          ELSE IF req.data_len > CRYPTO_DATA_LEN THEN Refused("InvalidDataLength")
          ELSE IF req.algo \notin Aead THEN Refused("UnknownAlgorithm")
          ELSE IF r # "Ok" THEN Refused(r)
          ELSE IF total > CRYPTO_DATA_LEN THEN Refused("OutputTooLarge")
          ELSE w
  BY Zenon DEF handle_encrypt, r, total, x
<1> HIDE DEF w
<1>4. req.algo \in Aead /\ r = "Ok" /\ ~(total > CRYPTO_DATA_LEN) /\ h = w
  BY <1>1, <1>3
<1>5. req.key_len = 32 /\ req.nonce_len = GCM_NONCE_SIZE
  BY <1>4 DEF encrypt_aead, r
<1>6. w = [r |-> "Ok", algo |-> req.algo, data_len |-> total, data |-> x]
  BY <1>4 DEF write_ok_reply, w
<1>7. h.data_len = total /\ h.data = x /\ total <= CRYPTO_DATA_LEN
  BY <1>2, <1>4, <1>6 DEF CRYPTO_DATA_LEN
<1> QED
  BY <1>4, <1>5, <1>7 DEF total, x

(* Decryption of what was sealed: opened with the same algorithm, key,     *)
(* nonce and length, refused without any of them.                          *)
Unsealed(given, sealed, h, data, len) ==
  IF given = sealed THEN h.r = "Ok" /\ h.data = data /\ h.data_len = len
  ELSE h.r # "Ok" /\ h.data = <<>>

LEMMA DecryptSealed ==
  ASSUME NEW algo \in Aead, NEW key, NEW nonce, NEW len \in Nat, NEW data,
         len + GCM_TAG_SIZE <= CRYPTO_DATA_LEN,
         NEW a \in Aead, NEW k, NEW n, NEW l \in Int, NEW okm, NEW h,
         h = handle_decrypt(CryptoPayload(a, 32, GCM_NONCE_SIZE, n, k, l,
                                          Sealed(algo, key, nonce, len, data), okm))
  PROVE  Unsealed(<<a, k, n, l>>, <<algo, key, nonce, len + GCM_TAG_SIZE>>, h, data, len)
<1> DEFINE x == Sealed(algo, key, nonce, len, data)
           b == CryptoPayload(a, 32, GCM_NONCE_SIZE, n, k, l, x, okm)
           c == l - GCM_TAG_SIZE
           r == decrypt_aead(b, c)
           w == write_ok_reply(a, c, data)
<1>1. /\ x.kind = "sealed" /\ x.algo = algo /\ x.key = key /\ x.nonce = nonce
      /\ x.len = len /\ x.data = data
  BY DEF Sealed
<1> HIDE DEF x
<1>2. /\ b.algo = a /\ b.key_len = 32 /\ b.nonce_len = GCM_NONCE_SIZE /\ b.nonce = n
      /\ b.key = k /\ b.data_len = l /\ b.data = x
  BY PayloadFields
<1> HIDE DEF b
<1>3. r = IF a = algo /\ k = key /\ n = nonce /\ c = len THEN "Ok" ELSE "AuthenticationFailed"
  <2> HIDE DEF c
  <2> QED BY <1>1, <1>2 DEF decrypt_aead
<1>4. parse_algo(a)
  BY DEF parse_algo
<1>5. h = handle_decrypt(b)
  BY DEF b, x
<1>6. h = IF l \notin GCM_TAG_SIZE .. CRYPTO_DATA_LEN THEN Refused("InvalidDataLength")
          ELSE IF r # "Ok" THEN Refused(r)
          ELSE w
  BY <1>1, <1>2, <1>4, <1>5, Zenon DEF handle_decrypt
<1>7. c = len <=> l = len + GCM_TAG_SIZE
  BY DEF GCM_TAG_SIZE
<1>8. l = len + GCM_TAG_SIZE => l \in GCM_TAG_SIZE .. CRYPTO_DATA_LEN
  BY DEF GCM_TAG_SIZE, CRYPTO_DATA_LEN
<1>9. c = len => w = [r |-> "Ok", algo |-> a, data_len |-> len, data |-> data]
  BY DEF write_ok_reply, GCM_TAG_SIZE, CRYPTO_DATA_LEN
<1> HIDE DEF r, c, w
<1>a. <<a, k, n, l>> = <<algo, key, nonce, len + GCM_TAG_SIZE>>
        <=> a = algo /\ k = key /\ n = nonce /\ l = len + GCM_TAG_SIZE
  OBVIOUS
<1>10. CASE a = algo /\ k = key /\ n = nonce /\ l = len + GCM_TAG_SIZE
  <2>1. h = w
    BY <1>3, <1>6, <1>7, <1>8, <1>10
  <2>2. w.r = "Ok" /\ w.data = data /\ w.data_len = len
    BY <1>7, <1>9, <1>10
  <2> QED BY <1>10, <1>a, <2>1, <2>2, Zenon DEF Unsealed
<1>11. CASE ~(a = algo /\ k = key /\ n = nonce /\ l = len + GCM_TAG_SIZE)
  <2>1. h = Refused("InvalidDataLength") \/ h = Refused("AuthenticationFailed")
    BY <1>3, <1>6, <1>7, <1>11
  <2>2. h.r # "Ok" /\ h.data = <<>>
    BY <2>1, RefusedFields
  <2> QED BY <1>11, <1>a, <2>2, Zenon DEF Unsealed
<1> QED
  BY <1>10, <1>11

(* What a caller gets for a ciphertext of the service sent back: opened    *)
(* exactly when nothing about it was changed.                              *)
Opens(given, sealed, m, body) == IF given = sealed THEN Returns(m, body) ELSE Withholds(m)

LEMMA OpenCall ==
  ASSUME TypeInv, Accounted, NEW cap, is_valid_for(cap, EP_CRYPTO, {"CALL"}),
         NEW algo \in Aead, NEW key, NEW nonce, NEW body, NEW len \in Nat,
         len = body.data_len, len + GCM_TAG_SIZE <= CRYPTO_DATA_LEN, NEW okm,
         NEW x, x = Sealed(algo, key, nonce, len, body.data),
         NEW a \in Aead, NEW k, NEW n, NEW l \in Int
  PROVE  Opens(<<a, k, n, l>>, <<algo, key, nonce, len + GCM_TAG_SIZE>>,
               CryptoCall(cap, "DecryptReq",
                          CryptoPayload(a, 32, GCM_NONCE_SIZE, n, k, l, x, okm)),
               body)
<1>o. PICK other : other = CryptoPayload(a, 32, GCM_NONCE_SIZE, n, k, l, x, okm)
  OBVIOUS
<1>m. PICK m : m = CryptoCall(cap, "DecryptReq", other)
  OBVIOUS
<1>g. PICK g : g = handle_decrypt(other)
  OBVIOUS
<1>1. m.body = g /\ m.type = IF g.r # "Ok" THEN "Error" ELSE "DecryptResp"
  BY <1>m, <1>g, CryptoCallResult
<1>2. Unsealed(<<a, k, n, l>>, <<algo, key, nonce, len + GCM_TAG_SIZE>>, g, body.data, len)
  BY <1>o, <1>g, DecryptSealed, Zenon
<1> QED
  BY <1>o, <1>m, <1>1, <1>2, Zenon DEF Opens, Unsealed, Returns, Withholds

LEMMA RoundTrip ==
  ASSUME TypeInv, Accounted, NEW cap, is_valid_for(cap, EP_CRYPTO, {"CALL"}),
         NEW body, IsCryptoPayload(body)
  PROVE  RoundTrips(cap, body, CryptoCall(cap, "EncryptReq", body))
<1>e. PICK e : e = CryptoCall(cap, "EncryptReq", body)
  OBVIOUS
<1>b. PICK back : back = [body EXCEPT !.data = e.body.data, !.data_len = e.body.data_len]
  OBVIOUS
<1>f. PICK algo, key, nonce, len, d, okm :
        /\ algo = body.algo /\ key = body.key /\ nonce = body.nonce
        /\ len = body.data_len /\ d = body.data /\ okm = body.okm_len
  BY Zenon
<1>x. PICK x : x = Sealed(algo, key, nonce, len, d)
  OBVIOUS
<1>1. SUFFICES ASSUME e.type = "EncryptResp"
               PROVE  e.body.data_len <= CRYPTO_DATA_LEN /\ OpensOnlyAs(cap, body, back)
  BY <1>e, <1>b, Zenon DEF RoundTrips
<1>h. PICK h : h = handle_encrypt(body, "Ok")
  OBVIOUS
<1>2. e.body = h /\ h.r = "Ok"
  BY <1>1, <1>e, <1>h, CryptoCallResult
<1>3. /\ body = CryptoPayload(algo, body.key_len, body.nonce_len, nonce, key, len, d, okm)
      /\ nonce \in Nat /\ key \in Nat /\ len \in Nat
  BY <1>f DEF IsCryptoPayload
<1>4. /\ algo \in Aead /\ body.key_len = 32 /\ body.nonce_len = GCM_NONCE_SIZE
      /\ len + GCM_TAG_SIZE <= CRYPTO_DATA_LEN
      /\ h.data_len = len + GCM_TAG_SIZE /\ h.data = x
  BY <1>2, <1>3, <1>f, <1>h, <1>x, EncryptOk
<1>t. PICK total : total = len + GCM_TAG_SIZE
  OBVIOUS
<1>5. e.body.data_len = total /\ e.body.data = x
  BY <1>2, <1>4, <1>t, Zenon
<1>6. body = CryptoPayload(algo, 32, GCM_NONCE_SIZE, nonce, key, len, d, okm)
  BY <1>3, <1>4, Zenon
<1> DEFINE P(a, k, n, l) == CryptoPayload(a, 32, GCM_NONCE_SIZE, n, k, l, x, okm)
<1>7. back = P(algo, key, nonce, total)
  <2>s. PICK s : s = [body EXCEPT !.data = x]
    BY Zenon
  <2>1. s = P(algo, key, nonce, len)
    BY <1>6, <2>s DEF CryptoPayload
  <2>2. back = [s EXCEPT !.data_len = total]
    BY <1>b, <1>5, <2>s
  <2> QED BY <2>1, <2>2 DEF CryptoPayload
<1>8. ASSUME NEW a \in Aead, NEW k, NEW n, NEW l \in Int
      PROVE  Opens(<<a, k, n, l>>, <<algo, key, nonce, total>>,
                   CryptoCall(cap, "DecryptReq", P(a, k, n, l)), body)
  <2>1. /\ x = Sealed(algo, key, nonce, len, body.data) /\ len = body.data_len
        /\ len + GCM_TAG_SIZE <= CRYPTO_DATA_LEN /\ algo \in Aead /\ len \in Nat
    BY <1>3, <1>4, <1>f, <1>x, Zenon
  <2>2. Opens(<<a, k, n, l>>, <<algo, key, nonce, len + GCM_TAG_SIZE>>,
              CryptoCall(cap, "DecryptReq", P(a, k, n, l)), body)
    BY <1>8, <2>1, OpenCall, Zenon
  <2> QED BY <1>t, <2>2, Zenon
<1>9. total \in Int /\ total - 1 \in Int /\ total + 1 \in Int /\ total - 1 # total /\ total + 1 # total
  BY <1>3, <1>t DEF GCM_TAG_SIZE
<1>10. -1 # key /\ -1 # nonce
  BY <1>3
<1> HIDE DEF P
<1>11. Returns(CryptoCall(cap, "DecryptReq", back), body)
  BY <1>4, <1>7, <1>8, <1>9, Zenon DEF Opens
<1>12. ASSUME NEW a \in Aead, NEW k, NEW n, NEW l \in Int,
              <<a, k, n, l>> # <<algo, key, nonce, total>>
       PROVE  Withholds(CryptoCall(cap, "DecryptReq", P(a, k, n, l)))
  BY <1>8, <1>12, Zenon DEF Opens
<1>13. ASSUME NEW other \in Altered(back)
       PROVE  Withholds(CryptoCall(cap, "DecryptReq", other))
  <2>1. \A v : /\ [back EXCEPT !.algo = v] = P(v, key, nonce, total)
               /\ [back EXCEPT !.nonce = v] = P(algo, key, v, total)
               /\ [back EXCEPT !.key = v] = P(algo, v, nonce, total)
               /\ [back EXCEPT !.data_len = v] = P(algo, key, nonce, v)
    BY <1>7 DEF P, CryptoPayload
  <2>2. back.data_len = total /\ back.algo = algo
    BY <1>7, PayloadFields DEF P
  <2>3. \/ other = [back EXCEPT !.key = -1] \/ other = [back EXCEPT !.nonce = -1]
        \/ other = [back EXCEPT !.data_len = back.data_len - 1]
        \/ other = [back EXCEPT !.data_len = back.data_len + 1]
        \/ \E a \in Aead \ {back.algo} : other = [back EXCEPT !.algo = a]
    BY <1>13 DEF Altered
  <2>4. \/ other = P(algo, -1, nonce, total) \/ other = P(algo, key, -1, total)
        \/ other = P(algo, key, nonce, total - 1) \/ other = P(algo, key, nonce, total + 1)
        \/ \E a \in Aead \ {algo} : other = P(a, key, nonce, total)
    BY <2>1, <2>2, <2>3
  <2>5. ASSUME NEW a \in Aead \ {algo}
        PROVE  Withholds(CryptoCall(cap, "DecryptReq", P(a, key, nonce, total)))
    <3>1. <<a, key, nonce, total>> # <<algo, key, nonce, total>>
      OBVIOUS
    <3> QED BY <1>9, <1>12, <2>5, <3>1, Zenon
  <2>6. /\ <<algo, -1, nonce, total>> # <<algo, key, nonce, total>>
        /\ <<algo, key, -1, total>> # <<algo, key, nonce, total>>
        /\ <<algo, key, nonce, total - 1>> # <<algo, key, nonce, total>>
        /\ <<algo, key, nonce, total + 1>> # <<algo, key, nonce, total>>
    BY <1>9, <1>10
  <2>7. /\ Withholds(CryptoCall(cap, "DecryptReq", P(algo, -1, nonce, total)))
        /\ Withholds(CryptoCall(cap, "DecryptReq", P(algo, key, -1, total)))
        /\ Withholds(CryptoCall(cap, "DecryptReq", P(algo, key, nonce, total - 1)))
        /\ Withholds(CryptoCall(cap, "DecryptReq", P(algo, key, nonce, total + 1)))
    BY <1>4, <1>9, <1>12, <2>6, Zenon
  <2> QED
    BY <2>4, <2>5, <2>7, Zenon
<1>14. e.body.data_len <= CRYPTO_DATA_LEN
  BY <1>4, <1>5, <1>t
<1> QED
  BY <1>11, <1>13, <1>14, Zenon DEF OpensOnlyAs

(* THEOREM AeadAlwaysRoundTrips: for all payload sizes, clients and        *)
(* requests, whoever may call the crypto service can decrypt what          *)
(* handle_encrypt of crypto_service.rs accepted, through ipc_call and the  *)
(* dispatcher, whatever the other endpoints are doing; with another key,   *)
(* nonce, algorithm or length handle_decrypt answers with an error that    *)
(* carries no data.                                                        *)
THEOREM AeadAlwaysRoundTrips == Spec => []AeadRoundTrip
<1>1. IInv => AeadRoundTrip
  <2> SUFFICES ASSUME IInv, NEW c \in Client, NEW cap \in Caps[c],
                      is_valid_for(cap, EP_CRYPTO, {"CALL"}),
                      NEW req \in Requests[EP_CRYPTO]
               PROVE  RoundTrips(cap, req.body, CryptoCall(cap, "EncryptReq", req.body))
    BY Zenon DEF AeadRoundTrip
  <2>1. TypeInv /\ Accounted
    BY DEF IInv
  <2>2. IsCryptoPayload(req.body)
    BY ServicesAssumption
  <2> QED
    BY <2>1, <2>2, RoundTrip
<1> QED
  BY <1>1, Invariance, PTL
=============================================================================
