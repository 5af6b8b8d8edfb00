------------------------------ MODULE Services ------------------------------
(***************************************************************************)
(* The kernel's services behind the IPC rendezvous: ipc_call with the      *)
(* synchronous dispatch into crypto_service.rs and sign_service.rs, and    *)
(* the two-sided rendezvous of an endpoint that a server outside the       *)
(* kernel polls.  A kernel call runs on one core without preemption and is *)
(* one step; other tasks run where ipc_call waits for an interrupt.        *)
(***************************************************************************)
EXTENDS Ipc, SignService, CryptoService

CONSTANTS
  Client,        \* the callers
  Caps,          \* Caps[c]: the capabilities caller c presents
  Requests,      \* Requests[id]: the [type, len, body] sent to endpoint id
  ReplyLen       \* the payload lengths the server tries to reply with

(* A payload of EP_SIGN is read as a SignPayload, whatever was sent, and   *)
(* one of EP_CRYPTO as a CryptoPayload.                                    *)
ASSUME ServicesAssumption ==
  /\ CRYPTO_PAYLOAD_SIZE <= IPC_MAX_PAYLOAD
  /\ ReplyLen \subseteq Nat
  /\ \A c \in Client : \A cap \in Caps[c] : \A req \in Requests[cap.endpoint_id] :
       req.len \in Nat
  /\ \A req \in Requests[EP_SIGN] :
       /\ req.body.offset \in Nat /\ req.body.chunk_len \in Nat
       /\ req.body.total \in [Section -> Nat]
  /\ \A req \in Requests[EP_CRYPTO] : IsCryptoPayload(req.body)

VARIABLES
  registry,      \* IPC_REGISTRY
  session,       \* SESSION and the buffers of the ML-DSA service
  inorder,       \* every chunk of this session began where the last one ended
  waiting,       \* waiting[c]: the call caller c is blocked in, if any
  crossed,       \* crossed[c]: another call was accepted while c waited
  serving        \* the request the server of EP_LUMEN_WIRE is working on

vars == <<registry, session, inorder, waiting, crossed, serving>>

NoCall == <<>>
NoRequest == <<>>
EndpointIds == {EP_SYSTEM, EP_CRYPTO, EP_SIGN, EP_LUMEN_WIRE}

Init ==
  /\ registry = IpcInit
  /\ session = SessionIdle
  /\ inorder = TRUE
  /\ waiting = [c \in Client |-> NoCall]
  /\ crossed = [c \in Client |-> FALSE]
  /\ serving = NoRequest

(* ipc_call steps 1 and 2: the message is built and posted.                *)
Posted(cap, req) ==
  LET s == set_payload(IpcMessage(req.type, 0), req.len, req.body)
      p == post(registry[cap.endpoint_id], cap, s.m)
  IN  IF s.r # "Ok" THEN [r |-> s.r, reg |-> registry]
      ELSE IF cap.endpoint_id \notin DOMAIN registry
        THEN [r |-> "EndpointNotFound", reg |-> registry]
      ELSE [r |-> p.r, reg |-> [registry EXCEPT ![cap.endpoint_id] = p.ep]]

(* crypto_service::dispatch and sign_service::dispatch.                    *)
crypto_dispatch(reg, lib) ==
  LET q == ipc_recv(reg, EP_CRYPTO)
      a == CryptoAnswer(q.m, lib)
      p == ipc_reply(q.reg, EP_CRYPTO, a.type, a.len, a.body)
  IN  IF q.r # "Ok" THEN [r |-> q.r, reg |-> reg, s |-> session]
      ELSE [r |-> p.r, reg |-> p.reg, s |-> session]

sign_dispatch(reg, lib) ==
  LET q == ipc_recv(reg, EP_SIGN)
      whole == q.m.len >= IPC_MAX_PAYLOAD
      a == IF whole THEN SignAnswer(session, q.m, lib)
           ELSE [s |-> session, reply |-> SignReply("Error", "InvalidRequest", 0, 0, 0)]
      p == ipc_reply(q.reg, EP_SIGN, a.reply.type, IPC_MAX_PAYLOAD, a.reply)
  IN  IF q.r # "Ok" THEN [r |-> q.r, reg |-> reg, s |-> session]
      ELSE [r |-> p.r, reg |-> p.reg, s |-> a.s]

(* ipc_call step 3.  EP_SYSTEM counts as a kernel service and has no       *)
(* handler.                                                                *)
Dispatched(reg, id, lib) ==
  IF is_kernel_service(id) /\ id = EP_CRYPTO THEN crypto_dispatch(reg, lib)
  ELSE IF is_kernel_service(id) /\ id = EP_SIGN THEN sign_dispatch(reg, lib)
  ELSE [r |-> "Ok", reg |-> reg, s |-> session]

WaitsAt(c, id) == waiting[c] # NoCall /\ waiting[c].ep = id

(* Whether the session's chunks still follow each other after this call.   *)
InOrder(id, req, before, after) ==
  IF id # EP_SIGN \/ before = after THEN inorder
  ELSE IF after.phase = "Idle" \/ before.phase = "Idle" THEN TRUE
  ELSE IF req.type = "SignInChunkReq"
    THEN inorder /\ req.body.offset = before.recv[SectionOf(before.phase)]
  ELSE inorder

(* A whole ipc_call up to its first look for the reply: refused, answered, *)
(* or blocked.                                                             *)
Call(c, cap, req, lib) ==
  LET id == cap.endpoint_id
      p == Posted(cap, req)
      d == IF p.r = "Ok" THEN Dispatched(p.reg, id, lib)
           ELSE [r |-> p.r, reg |-> p.reg, s |-> session]
      t == take_reply(d.reg[id])
  IN  /\ waiting[c] = NoCall
      /\ session' = d.s
      /\ inorder' = InOrder(id, req, session, d.s)
      /\ IF d.r # "Ok"
           THEN registry' = d.reg /\ UNCHANGED <<waiting, crossed>>
         ELSE IF t.r = "Ok"
           THEN /\ registry' = [d.reg EXCEPT ![id] = t.ep]
                /\ UNCHANGED <<waiting, crossed>>
         ELSE /\ registry' = d.reg
              /\ waiting' = [waiting EXCEPT ![c] =
                   [ep |-> id, sequence |-> d.reg[id].sequence, body |-> req.body]]
              /\ crossed' = [x \in Client |->
                   IF x = c THEN \E y \in Client : WaitsAt(y, id)
                   ELSE crossed[x] \/ WaitsAt(x, id)]
      /\ UNCHANGED serving

(* One turn of the loop of step 4: a reply is taken, or nothing happens    *)
(* until the next interrupt.                                               *)
Poll(c) ==
  LET id == waiting[c].ep
      t == take_reply(registry[id])
  IN  /\ waiting[c] # NoCall
      /\ \/ /\ t.r = "Ok"
            /\ registry' = [registry EXCEPT ![id] = t.ep]
            /\ waiting' = [waiting EXCEPT ![c] = NoCall]
            /\ crossed' = [crossed EXCEPT ![c] = FALSE]
            /\ UNCHANGED <<session, inorder, serving>>
         \/ t.r # "Ok" /\ UNCHANGED vars

(* The server of EP_LUMEN_WIRE polls whenever it likes, takes one request  *)
(* at a time and may answer it, again if a reply was refused.              *)
Answering(body) == <<"re", body>>

Recv ==
  LET q == ipc_recv(registry, EP_LUMEN_WIRE)
  IN  /\ serving = NoRequest
      /\ registry' = q.reg
      /\ serving' = IF q.r = "Ok" THEN q.m ELSE NoRequest
      /\ UNCHANGED <<session, inorder, waiting, crossed>>

Reply(len) ==
  LET p == ipc_reply(registry, EP_LUMEN_WIRE, serving.type, len, Answering(serving.body))
  IN  /\ serving # NoRequest
      /\ registry' = p.reg
      /\ serving' = IF p.r = "Ok" THEN NoRequest ELSE serving
      /\ UNCHANGED <<session, inorder, waiting, crossed>>

(* What the libraries and the DRBG may answer while a request is handled.  *)
Outcome(type) ==
  IF type = "SignExecReq" THEN {"Ok", "Err", "Bad", "NoRnd"}
  ELSE IF type \in {"EncryptReq", "HashReq", "VerifyReq", "DhReq"} THEN {"Ok", "Err"}
  ELSE {"Ok"}

Next ==
  \/ \E c \in Client : \E cap \in Caps[c] : \E req \in Requests[cap.endpoint_id] :
       \E lib \in Outcome(req.type) : Call(c, cap, req, lib)
  \/ \E c \in Client : Poll(c)
  \/ Recv
  \/ \E len \in ReplyLen : Reply(len)

Spec == Init /\ [][Next]_vars

(* A caller that waits does nothing but poll, on every interrupt.  Nothing *)
(* is assumed of the server: the kernel has no code that runs one.         *)
Fairness == \A c \in Client : WF_vars(Poll(c))

FairSpec == Spec /\ Fairness
-----------------------------------------------------------------------------
Collecting(s) == SectionOf(s.phase) # 0
Begun(s) == s.phase # "Idle"

Consistent(s, ordered) ==
  LET x == SectionOf(s.phase)
  IN  /\ \A k \in Section :
           /\ s.recv[k] \in 0 .. s.total[k]
           /\ s.total[k] <= Limit(s.op)[k]
           /\ s.buf[k] \subseteq 0 .. s.total[k] - 1
           /\ Collecting(s) /\ k > x => s.recv[k] = 0 /\ s.buf[k] = {}
           /\ k < x \/ s.phase \in {"Ready", "OutputReady"} => s.recv[k] = s.total[k]
           /\ ordered /\ s.phase \notin {"Idle", "OutputReady"}
                => s.buf[k] = 0 .. s.recv[k] - 1
      /\ Collecting(s) => s.recv[x] < s.total[x]
      /\ s.phase = "OutputReady" <=> s.out # NoOutput
      /\ s.phase = "OutputReady" => s.buf = Zeroed
      /\ s.phase = "Idle" => s = SessionIdle

(* The signing session and its static buffers agree at every moment        *)
(* between two calls: what was declared fits the operation, the sections   *)
(* are filled in order and one at a time, nothing was written past what    *)
(* was declared, the inputs are wiped once the output exists, and an idle  *)
(* session has left nothing behind.  If the chunks followed each other, a  *)
(* section that is complete has every declared octet.                      *)
SessionConsistent == Consistent(session, inorder)

PhaseOrder == [Idle |-> 0, CollectKey |-> 1, CollectAux |-> 2, CollectMsg |-> 3,
               Ready |-> 4, OutputReady |-> 5]

(* A session that has begun keeps its operation and its declared lengths,  *)
(* and its phase never goes back, until it is ended as a whole: no second  *)
(* handle_begin, from whichever caller, gets into it.                      *)
SessionForward ==
  [][Begun(session) => \/ session' = SessionIdle
                       \/ /\ session'.op = session.op
                          /\ session'.total = session.total
                          /\ PhaseOrder[session'.phase] >= PhaseOrder[session.phase]]_vars

(* The rendezvous leaves nothing over.  Nobody ever waits at an endpoint   *)
(* that the kernel serves in the same call, and an endpoint nobody waits   *)
(* at is idle, with no request in its server's hands.  Who waits holds a   *)
(* capability for the endpoint.                                            *)
RendezvousClean ==
  /\ \A c \in Client : waiting[c] # NoCall =>
       /\ waiting[c].ep \in {EP_SYSTEM, EP_LUMEN_WIRE}
       /\ \E cap \in Caps[c] : is_valid_for(cap, waiting[c].ep, {"CALL"})
  /\ \A id \in EndpointIds : (\A c \in Client : ~WaitsAt(c, id)) =>
       /\ registry[id].state = "Idle" /\ registry[id].msg = <<>>
       /\ id = EP_LUMEN_WIRE => serving = NoRequest

(* A caller of the polled endpoint whom nobody crossed is answered with    *)
(* its own reply: wherever its exchange stands, posted, in the server's    *)
(* hands or replied, it is its own request, under its own number.          *)
OwnExchange(c) ==
  LET ep == registry[EP_LUMEN_WIRE]
      own == waiting[c]
  IN  \/ /\ ep.state = "PendingReply" /\ serving = NoRequest
         /\ ep.msg.body = own.body /\ ep.msg.sequence = own.sequence
      \/ /\ ep.state = "Idle" /\ serving # NoRequest
         /\ serving.body = own.body /\ serving.sequence = own.sequence
      \/ /\ ep.state = "ReplyReady" /\ serving = NoRequest
         /\ ep.msg.body = Answering(own.body) /\ ep.msg.sequence = own.sequence

ReplyAnswersCall ==
  \A c \in Client : WaitsAt(c, EP_LUMEN_WIRE) /\ ~crossed[c] => OwnExchange(c)

(* A reply, once posted, ends the call it was posted for: whatever the     *)
(* server and the other callers do next, the caller's loop comes to it,    *)
(* unless another caller crossed it; and no reply stays in the endpoint,   *)
(* where post_reply would refuse the next one for good.                    *)
ReplyReachesCaller ==
  LET ready == registry[EP_LUMEN_WIRE].state = "ReplyReady"
  IN  /\ ready ~> ~ready
      /\ \A c \in Client :
           (ready /\ WaitsAt(c, EP_LUMEN_WIRE) /\ ~crossed[c])
             ~> (waiting[c] = NoCall \/ crossed[c])

(* What a call to EP_CRYPTO would be answered with now, if the libraries   *)
(* agree.                                                                  *)
CryptoCall(cap, type, body) ==
  LET p == Posted(cap, [type |-> type, len |-> IPC_MAX_PAYLOAD, body |-> body])
      d == crypto_dispatch(p.reg, "Ok")
  IN  take_reply(d.reg[EP_CRYPTO]).m

Returns(d, sent) ==
  d.type = "DecryptResp" /\ d.body.data = sent.data /\ d.body.data_len = sent.data_len
Withholds(d) == d.type = "Error" /\ d.body.data = <<>>

(* A ciphertext sent back as it came is opened; altered, it is not.        *)
Altered(back) ==
  {[back EXCEPT !.key = -1], [back EXCEPT !.nonce = -1],
   [back EXCEPT !.data_len = @ - 1], [back EXCEPT !.data_len = @ + 1]}
    \cup {[back EXCEPT !.algo = a] : a \in Aead \ {back.algo}}
OpensOnlyAs(cap, sent, back) ==
  /\ Returns(CryptoCall(cap, "DecryptReq", back), sent)
  /\ \A other \in Altered(back) : Withholds(CryptoCall(cap, "DecryptReq", other))
RoundTrips(cap, sent, e) ==
  e.type = "EncryptResp" =>
    /\ e.body.data_len <= CRYPTO_DATA_LEN
    /\ OpensOnlyAs(cap, sent, [sent EXCEPT !.data = e.body.data, !.data_len = e.body.data_len])

(* Whoever may call the crypto service gets back from decryption what      *)
(* encryption accepted, at every length whose reply fits, whatever else is *)
(* under way; with another key, nonce, algorithm or length decryption      *)
(* answers with an error that carries no data.                             *)
AeadRoundTrip ==
  \A c \in Client : \A cap \in {x \in Caps[c] : is_valid_for(x, EP_CRYPTO, {"CALL"})} :
    \A req \in {q \in Requests[EP_CRYPTO] : q.type = "EncryptReq"} :
      RoundTrips(cap, req.body, CryptoCall(cap, "EncryptReq", req.body))
=============================================================================
