-------------------------------- MODULE Wire --------------------------------
(***************************************************************************)
(* The wire protocol of bus.rs: what a write to a Ring3Process bus does.   *)
(* The dispatcher runs inside write, reads the slot table and the audit    *)
(* ring, and for Blake3Hash writes to and reads from the bus of another    *)
(* slot, which may be a Ring3Process bus again, or this one.               *)
(*                                                                         *)
(* Operators take and return m = [slots, bus, ring]: the slot table, the   *)
(* buses of the slots and the audit ring.                                  *)
(***************************************************************************)
EXTENDS Slots, AuditRing

CONSTANTS
  WIRE_HEADER_LEN,     \* 16 octets
  CAP_LEN,             \* size_of HsmCapability, 16 octets
  STATUS_HEADER_LEN,   \* 8 octets: written, total, reserved
  EVENT_LEN            \* size_of EnrollEvent, 12 octets

ASSUME WireAssumption ==
  /\ WIRE_HEADER_LEN \in Nat \ {0} /\ CAP_LEN \in Nat \ {0}
  /\ STATUS_HEADER_LEN \in Nat \ {0} /\ EVENT_LEN \in Nat \ {0}

(* The first n cells are the n pieces of one item of the given sort.       *)
Starts(data, sort, n) ==
  /\ Len(data) >= n
  /\ data[1][1][1] = sort
  /\ \A i \in 1 .. n : data[i] = <<data[1][1], i>>

From(data, n) == SubSeq(data, n + 1, Len(data))

(* build_response_frame and build_error_frame_inplace.                     *)
Reply(cmd, req_id, status, payload) ==
  Pieces(<<"rsp", cmd, req_id, status>>, WIRE_HEADER_LEN) \o payload
(* (Faulty variant, for the mutation checks: the number is not echoed.)    *)
ErrorFrame_NoNumber(req_id, status) == Reply("Error", 0, status, <<>>)
ErrorFrame(req_id, status) == Reply("Error", req_id, status, <<>>)

Answer(m, response) == [response |-> response, bus |-> m.bus, ring |-> m.ring]
-----------------------------------------------------------------------------
(* The handlers.  w is what the write inside a Blake3Hash request yields.  *)

PayloadCap(payload) ==
  IF Starts(payload, "cap", CAP_LEN) THEN payload[1][1][2] ELSE NoCap

handle_blake3(m, req_id, payload, w) ==
  LET cap == PayloadCap(payload)
      r   == BusRead(w.bus[cap.slot], BLAKE3_OUT_LEN)
      m2  == IF w.ok THEN [w EXCEPT !.bus[cap.slot] = r.bus] ELSE w
  IN  IF Len(payload) < CAP_LEN THEN Answer(m, ErrorFrame(req_id, "BadFrame"))
      ELSE IF ~authenticate(m.slots, cap, {"USE"})
      THEN Answer(m, ErrorFrame(req_id, "Denied"))
      ELSE IF ~w.ok \/ ~r.ok \/ r.n # BLAKE3_OUT_LEN
      THEN Answer(m2, ErrorFrame(req_id, "Internal"))
      ELSE Answer(m2, Reply("Blake3Hash", req_id, "Ok", r.data))

handle_ping(m, req_id) == Answer(m, Reply("Ping", req_id, "Ok", <<>>))

(* Re-attestation changes no slot; both outcomes are recorded.             *)
handle_attest_submit(m, req_id, payload) ==
  LET pk     == payload[1][1][2]
      octet  == payload[1][1][3]
      valid  == verify_attest(pk, octet, payload[1][1][4])
      m2     == [m EXCEPT !.ring =
                   audit_enqueue(@, 254, IF valid THEN 5 ELSE 6, octet, pk)]
  IN  IF ~(Len(payload) = 1 /\ Starts(payload, "attest", 1))
      THEN Answer(m, ErrorFrame(req_id, "BadFrame"))
      ELSE IF octet \notin {0, 1} THEN Answer(m, ErrorFrame(req_id, "BadFrame"))
      ELSE Answer(m2, IF valid THEN Reply("AttestSubmit", req_id, "Ok", <<>>)
                      ELSE ErrorFrame(req_id, "Denied"))

handle_status_wire(m, req_id, payload) ==
  LET events == audit_snapshot(m.ring, AUDIT_RING_CAPACITY)
      len    == STATUS_HEADER_LEN + EVENT_LEN * Len(events)
  IN  IF payload # <<>> THEN Answer(m, ErrorFrame(req_id, "BadFrame"))
      ELSE Answer(m, Reply("Status", req_id, "Ok",
                           Pieces(<<"audit", events, m.ring.total>>, len)))

Dispatch(m, hdr, payload, w) ==
  LET cmd == hdr[2]
      id  == hdr[3]
  IN  CASE cmd = "Ping"         -> handle_ping(m, id)
        [] cmd = "Blake3Hash"   -> handle_blake3(m, id, payload, w)
        [] cmd = "AttestSubmit" -> handle_attest_submit(m, id, payload)
        [] cmd = "Status"       -> handle_status_wire(m, id, payload)
        [] OTHER                -> Answer(m, ErrorFrame(id, "UnknownCmd"))
-----------------------------------------------------------------------------
Refused(m) == [ok |-> FALSE, n |-> 0, slots |-> m.slots, bus |-> m.bus, ring |-> m.ring]

(* Faulty variant, for the mutation checks: no single-flight check.        *)
Accepts_Overwrites(b, data) ==
  /\ b.open_state
  /\ Starts(data, "req", WIRE_HEADER_LEN)
  /\ data[1][1][5]
  /\ data[1][1][4] + WIRE_HEADER_LEN <= Len(data)

(* Tier 1, single flight and Tier 2.                                       *)
Accepts(b, data) ==
  /\ b.open_state
  /\ Len(data) >= WIRE_HEADER_LEN
  /\ b.response = <<>>
  /\ Starts(data, "req", WIRE_HEADER_LEN)
  /\ data[1][1][5]
  /\ data[1][1][4] + WIRE_HEADER_LEN <= Len(data)

Payload(data) == SubSeq(data, WIRE_HEADER_LEN + 1, WIRE_HEADER_LEN + data[1][1][4])

(* Ring3ProcessBus::write.  The outer handler's frame is stored last.      *)
Ring3Write(m, i, data, w) ==
  LET d == Dispatch(m, data[1][1], Payload(data), w)
  IN  IF ~Accepts(m.bus[i], data) THEN Refused(m)
      ELSE [ok |-> TRUE, n |-> Len(data), slots |-> m.slots,
            bus |-> [d.bus EXCEPT ![i].response = d.response], ring |-> d.ring]

WriteSoftware(m, i, data) ==
  LET w == SoftwareWrite(m.bus[i], data)
  IN  [ok |-> w.ok, n |-> w.n, slots |-> m.slots,
       bus |-> [m.bus EXCEPT ![i] = w.bus], ring |-> m.ring]

(* The slot and the data of the write inside a Blake3Hash request.         *)
InnerSlot(data) == PayloadCap(Payload(data)).slot
InnerData(data) == From(Payload(data), CAP_LEN)

(* BusInstance::write.  Each level of Blake3Hash requests inside requests  *)
(* takes a header and a capability off the data: at the third level fewer  *)
(* cells than a header are left, and a Ring3Process bus refuses them.      *)
WriteNested2(m, i, data) ==
  IF m.bus[i].kind = "Software" THEN WriteSoftware(m, i, data) ELSE Refused(m)
WriteNested1(m, i, data) ==
  CASE m.bus[i].kind = "Software"     -> WriteSoftware(m, i, data)
    [] m.bus[i].kind = "Ring3Process" ->
         Ring3Write(m, i, data, WriteNested2(m, InnerSlot(data), InnerData(data)))
    [] OTHER                          -> Refused(m)
BusWrite(m, i, data) ==
  CASE m.bus[i].kind = "Software"     -> WriteSoftware(m, i, data)
    [] m.bus[i].kind = "Ring3Process" ->
         Ring3Write(m, i, data, WriteNested1(m, InnerSlot(data), InnerData(data)))
    [] OTHER                          -> Refused(m)

Shallow(data) == Len(data) < 3 * WIRE_HEADER_LEN + 2 * CAP_LEN
-----------------------------------------------------------------------------
(* Data a client can pass: cells, and the length a request header states   *)
(* is a number.                                                            *)
WellFormed(data) ==
  /\ data \in Seq({data[k] : k \in DOMAIN data})
  /\ \A k \in DOMAIN data : data[k][1][1] = "req" => data[k][1][4] \in Nat

(* The capabilities inside data.                                           *)
Inside(data) == {data[k][1][2] : k \in {n \in DOMAIN data : data[n][1][1] = "cap"}}

(* The capabilities a call carries: those it presents, and those inside    *)
(* the data it moves.                                                      *)
Carried(c) ==
  {c.caps[k] : k \in DOMAIN c.caps} \cup
  (IF c.op \in {"write", "relay"} THEN Inside(c.data) ELSE {})
=============================================================================
