-------------------------------- MODULE Ipc --------------------------------
(***************************************************************************)
(* The endpoints of ipc.rs and the capability that opens them, as values.  *)
(* An endpoint holds one message: a request nobody has taken yet or a      *)
(* reply nobody has taken yet.  Each function on it returns the endpoint   *)
(* afterwards and what the caller gets, in field r: a message or an error. *)
(***************************************************************************)
EXTENDS Integers, FiniteSets

CONSTANTS
  IPC_MAX_PAYLOAD,     \* 256
  IPC_MAX_ENDPOINTS,   \* 16
  SEQ_MOD              \* 2^32: sequence is a u32 advanced with wrapping_add

ASSUME IpcAssumption ==
  /\ IPC_MAX_PAYLOAD \in Nat \ {0}
  /\ IPC_MAX_ENDPOINTS \in Nat /\ IPC_MAX_ENDPOINTS >= 4
  /\ SEQ_MOD \in Nat \ {0}

EP_SYSTEM == 0
EP_CRYPTO == 1
EP_SIGN == 2
EP_LUMEN_WIRE == 3
INVALID == 65535

is_kernel_service(id) == id \in {EP_CRYPTO, EP_SYSTEM, EP_SIGN}

(* A capability: [token, endpoint_id, rights].  No registry of the tokens  *)
(* handed out exists; what is compared is that the token is not zero.      *)
is_valid_for(cap, id, required) ==
  /\ cap.token # 0
  /\ cap.endpoint_id = id
  /\ required \subseteq cap.rights

(* IpcMessage: kind, length of the payload, number, and the payload.       *)
IpcMessage(type, sequence) ==
  [type |-> type, len |-> 0, sequence |-> sequence, body |-> <<>>]

set_payload(m, len, body) ==
  IF len > IPC_MAX_PAYLOAD THEN [r |-> "PayloadTooLarge", m |-> m]
  ELSE [r |-> "Ok", m |-> [m EXCEPT !.len = len, !.body = body]]

IpcEndpoint(id, required) ==
  [id |-> id, required |-> required, state |-> "Idle", msg |-> <<>>, sequence |-> 0]

Idle(ep) == [ep EXCEPT !.state = "Idle", !.msg = <<>>]

(* Faulty variant: the message keeps the number it was built with.         *)
post_Unnumbered(ep, cap, m) ==
  LET number == (ep.sequence + 1) % SEQ_MOD
  IN  IF ~is_valid_for(cap, ep.id, ep.required)
        THEN [r |-> "CapabilityDenied", ep |-> ep]
      ELSE IF ep.state = "PendingReply" THEN [r |-> "EndpointBusy", ep |-> ep]
      ELSE IF m.len > IPC_MAX_PAYLOAD THEN [r |-> "PayloadLenMismatch", ep |-> ep]
      ELSE [r  |-> "Ok",
            ep |-> [ep EXCEPT !.sequence = number, !.state = "PendingReply", !.msg = m]]

(* A reply that was never taken does not make the endpoint busy: it is     *)
(* replaced.                                                               *)
post(ep, cap, m) ==
  LET number == (ep.sequence + 1) % SEQ_MOD
  IN  IF ~is_valid_for(cap, ep.id, ep.required)
        THEN [r |-> "CapabilityDenied", ep |-> ep]
      ELSE IF ep.state = "PendingReply" THEN [r |-> "EndpointBusy", ep |-> ep]
      ELSE IF m.len > IPC_MAX_PAYLOAD THEN [r |-> "PayloadLenMismatch", ep |-> ep]
      ELSE [r  |-> "Ok",
            ep |-> [ep EXCEPT !.sequence = number, !.state = "PendingReply",
                              !.msg = [m EXCEPT !.sequence = number]]]

(* Faulty variant: what was swapped out and is no request is not put back. *)
take_Lost(ep) ==
  IF ep.state = "PendingReply" THEN [r |-> "Ok", ep |-> Idle(ep), m |-> ep.msg]
  ELSE [r |-> "NoMessage", ep |-> Idle(ep), m |-> <<>>]

take(ep) ==
  IF ep.state = "PendingReply" THEN [r |-> "Ok", ep |-> Idle(ep), m |-> ep.msg]
  ELSE [r |-> "NoMessage", ep |-> ep, m |-> <<>>]

(* Only an untaken reply refuses; an untaken request is replaced.          *)
post_reply(ep, m) ==
  IF ep.state = "ReplyReady" THEN [r |-> "EndpointBusy", ep |-> ep]
  ELSE [r |-> "Ok", ep |-> [ep EXCEPT !.state = "ReplyReady", !.msg = m]]

(* Faulty variant: a reply that was taken stays in the endpoint.           *)
take_reply_Kept(ep) ==
  IF ep.state = "ReplyReady" THEN [r |-> "Ok", ep |-> ep, m |-> ep.msg]
  ELSE [r |-> "NoMessage", ep |-> ep, m |-> <<>>]

take_reply(ep) ==
  IF ep.state = "ReplyReady" THEN [r |-> "Ok", ep |-> Idle(ep), m |-> ep.msg]
  ELSE [r |-> "NoMessage", ep |-> ep, m |-> <<>>]

(* IPC_REGISTRY: the endpoint under each registered id.  A second          *)
(* registration of an id would take a slot that find_mut never comes to.   *)
register(reg, id, required) ==
  IF Cardinality(DOMAIN reg) >= IPC_MAX_ENDPOINTS THEN reg
  ELSE [x \in DOMAIN reg \cup {id} |->
          IF x \in DOMAIN reg THEN reg[x] ELSE IpcEndpoint(id, required)]

endpoint_exists(reg, id) == id # INVALID /\ id \in DOMAIN reg

NoEndpoints == [x \in {} |-> IpcEndpoint(x, {})]

IpcInit ==
  register(register(register(register(NoEndpoints,
    EP_SYSTEM, {"CALL"}), EP_CRYPTO, {"CALL"}), EP_SIGN, {"CALL"}),
    EP_LUMEN_WIRE, {"CALL"})

(* The service's half.  The reply carries the number of the endpoint, that *)
(* of the latest request, whichever request it answers.                    *)
ipc_recv(reg, id) ==
  LET t == take(reg[id])
  IN  [r |-> t.r, m |-> t.m, reg |-> [reg EXCEPT ![id] = t.ep]]

ipc_reply(reg, id, type, len, body) ==
  LET s == set_payload(IpcMessage(type, reg[id].sequence), len, body)
      p == post_reply(reg[id], s.m)
  IN  IF s.r # "Ok" THEN [r |-> s.r, reg |-> reg]
      ELSE [r |-> p.r, reg |-> [reg EXCEPT ![id] = p.ep]]
=============================================================================
