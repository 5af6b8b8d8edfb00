-------------------------------- MODULE Bus --------------------------------
(***************************************************************************)
(* The drivers of bus.rs as operators on a value.  A bus instance is one   *)
(* record whose fields are those of SoftwareBus and of Ring3ProcessBus;    *)
(* `kind` is the enum discriminant of BusInstance and the fields of the    *)
(* other driver keep their zero value.                                     *)
(*                                                                         *)
(* Data are sequences of cells, and lengths are counted in cells; the      *)
(* sizes of the code are constants in that unit.  A cell <<c, i>> is piece *)
(* i of an item c, a tuple that says what the octets are:                  *)
(*   <<"raw", v>>                               plain data                 *)
(*   <<"digest">>                               a BLAKE3 digest            *)
(*   <<"sealed", key, nonce>>                   nonce || ciphertext || tag *)
(*   <<"req", cmd, req_id, payload_len, good>>  a wire request header      *)
(*   <<"rsp", cmd, req_id, status>>             a response header          *)
(*   <<"cap", cap>>                             an HsmCapability           *)
(*   <<"attest", pk, octet, signed>>            an AttestSubmit payload    *)
(*   <<"audit", events, total>>                 a Status payload           *)
(* An attest item is one cell here, 3733 octets in the code: more than     *)
(* SW_BUS_BUF, which Fits accounts for.                                    *)
(***************************************************************************)
EXTENDS Integers, Sequences, Common

CONSTANTS
  SW_BUS_BUF,       \* 64 octets
  BLAKE3_OUT_LEN,   \* 32 octets
  GCM_NONCE_SIZE,   \* 12 octets
  GCM_TAG_SIZE,     \* 16 octets
  NONCE_MAX,        \* u64::MAX, the last value of nonce_counter
  Endpoints         \* what ipc::endpoint_exists accepts (ipc::init registers)

(* EndpointId::INVALID.                                                    *)
NO_ENDPOINT == 65535

(* The compile-time assertions at the end of bus.rs, and the value types.  *)
ASSUME BusAssumption ==
  /\ SW_BUS_BUF \in Nat /\ NONCE_MAX \in Nat
  /\ BLAKE3_OUT_LEN \in Nat \ {0}
  /\ GCM_NONCE_SIZE \in Nat \ {0} /\ GCM_TAG_SIZE \in Nat \ {0}
  /\ SW_BUS_BUF >= BLAKE3_OUT_LEN
  /\ SW_BUS_BUF >= GCM_NONCE_SIZE + GCM_TAG_SIZE
  /\ Endpoints \subseteq Nat \ {NO_ENDPOINT}

(* The cells of an item of n cells.                                        *)
Pieces(c, n) == [i \in 1 .. n |-> <<c, i>>]

(* BusKind with its octet.                                                 *)
BusKind == {"Software", "Ring3Process", "Usb", "Spi", "Serial", "SmartCard",
            "Network"}
KindOctet ==
  [Software |-> 0, Ring3Process |-> 1, Usb |-> 2, Spi |-> 3, Serial |-> 4,
   SmartCard |-> 5, Network |-> 6]

(* BusInstance::new.  key = 0 stands for aes_state = None.                 *)
BusNew(kind) ==
  [kind |-> kind, open_state |-> FALSE,
   role |-> "Echo", ring |-> <<>>, read_pos |-> 0,
   key |-> 0, nonce_counter |-> 0,
   endpoint |-> NO_ENDPOINT, response |-> <<>>]

BusEmpty == BusNew("Empty")

(* Result<usize, BusError>: every variant of BusError is collapsed by the  *)
(* callers, so only success, the count and the data read are kept.         *)
Err(b) == [ok |-> FALSE, n |-> 0, data |-> <<>>, bus |-> b]
Ok(b, n, data) == [ok |-> TRUE, n |-> n, data |-> data, bus |-> b]
-----------------------------------------------------------------------------
(* SoftwareBus.                                                            *)

TrailingZero(init, from) == \A i \in from .. Len(init) : init[i] = 0

(* The role an init blob asks for; "Bad" is BusError::BadInit.             *)
InitRole(init) ==
  IF ~TrailingZero(init, 2) THEN "Bad"
  ELSE IF init = <<>> \/ init[1] = 0 THEN "Echo"
  ELSE IF init[1] = 1 THEN "Blake3"
  ELSE IF init[1] = 2 THEN "AesGcm"
  ELSE "Bad"

(* `fresh` is what rand_bytes yields for the key, 0 when it fails.         *)
SoftwareOpen(b, init, fresh) ==
  LET role == InitRole(init) IN
  IF b.open_state \/ role = "Bad" \/ (role = "AesGcm" /\ fresh = 0)
  THEN Err(b)
  ELSE Ok([b EXCEPT !.role = role, !.open_state = TRUE,
                    !.ring = <<>>, !.read_pos = 0,
                    !.key = IF role = "AesGcm" THEN fresh ELSE 0,
                    !.nonce_counter = 0], 0, <<>>)

SoftwareClose(b) ==
  IF ~b.open_state THEN Err(b)
  ELSE Ok([b EXCEPT !.ring = <<>>, !.read_pos = 0, !.open_state = FALSE], 0, <<>>)

Unread(b) == SubSeq(b.ring, b.read_pos + 1, Len(b.ring))

SoftwareRead(b, out_len) ==
  LET n == Lesser(SatSub(Len(b.ring), b.read_pos), out_len) IN
  IF ~b.open_state THEN Err(b)
  ELSE Ok([b EXCEPT !.read_pos = @ + n], n,
          SubSeq(b.ring, b.read_pos + 1, b.read_pos + n))

Fits(data, room) ==
  Len(data) <= room /\ \A i \in 1 .. Len(data) : data[i][1][1] # "attest"

(* Faulty variants of the writes, for the mutation checks: a digest behind *)
(* the old cursor, a counter that wraps.                                   *)
Blake3Write_OldCursor(b, data) ==
  Ok([b EXCEPT !.ring = Pieces(<<"digest">>, BLAKE3_OUT_LEN)], BLAKE3_OUT_LEN, <<>>)

AesGcmWrite_CounterWraps(b, data) ==
  LET total == Len(data) + GCM_NONCE_SIZE + GCM_TAG_SIZE
      nonce == (b.nonce_counter + 1) % (NONCE_MAX + 1)
  IN  IF b.key = 0 \/ ~Fits(data, SW_BUS_BUF - GCM_NONCE_SIZE - GCM_TAG_SIZE)
      THEN Err(b)
      ELSE Ok([b EXCEPT !.nonce_counter = nonce,
                        !.ring = Pieces(<<"sealed", b.key, nonce>>, total),
                        !.read_pos = 0], total, <<>>)

(* write to an Echo bus: append, or refuse what does not fit.              *)
EchoWrite(b, data) ==
  IF ~Fits(data, SatSub(SW_BUS_BUF, Len(b.ring))) THEN Err(b)
  ELSE Ok([b EXCEPT !.ring = @ \o data], Len(data), <<>>)

(* write to a Blake3 bus: the ring becomes the digest.                     *)
Blake3Write(b, data) ==
  Ok([b EXCEPT !.ring = Pieces(<<"digest">>, BLAKE3_OUT_LEN),
               !.read_pos = 0], BLAKE3_OUT_LEN, <<>>)

(* write to an AesGcm bus: the ring becomes nonce || ciphertext || tag     *)
(* under the next value of the counter.                                    *)
AesGcmWrite(b, data) ==
  LET total == Len(data) + GCM_NONCE_SIZE + GCM_TAG_SIZE
      nonce == b.nonce_counter + 1
  IN  IF \/ b.key = 0
         \/ b.nonce_counter = NONCE_MAX
         \/ ~Fits(data, SW_BUS_BUF - GCM_NONCE_SIZE - GCM_TAG_SIZE)
      THEN Err(b)
      ELSE Ok([b EXCEPT !.nonce_counter = nonce,
                        !.ring = Pieces(<<"sealed", b.key, nonce>>, total),
                        !.read_pos = 0], total, <<>>)

SoftwareWrite(b, data) ==
  IF ~b.open_state THEN Err(b)
  ELSE CASE b.role = "Echo"   -> EchoWrite(b, data)
         [] b.role = "Blake3" -> Blake3Write(b, data)
         [] b.role = "AesGcm" -> AesGcmWrite(b, data)

(* Faulty variant, for the mutation checks: readable when nothing is left. *)
SoftwarePoll_AtEnd(b) ==
  [ok |-> b.open_state,
   readable |-> Len(b.ring) >= b.read_pos,
   writable |-> Len(b.ring) < SW_BUS_BUF]

SoftwarePoll(b) ==
  [ok |-> b.open_state,
   readable |-> Len(b.ring) > b.read_pos,
   writable |-> Len(b.ring) < SW_BUS_BUF]
-----------------------------------------------------------------------------
(* Ring3ProcessBus.  `response` is pending_response[..response_len]; its   *)
(* write needs the registry and is in module Wire.                         *)

(* The endpoint an init blob names, NO_ENDPOINT when open refuses it.      *)
InitEndpoint(init) ==
  IF Len(init) < 2 \/ ~TrailingZero(init, 3) THEN NO_ENDPOINT
  ELSE LET id == init[1] + 256 * init[2]
       IN  IF id \in Endpoints THEN id ELSE NO_ENDPOINT

Ring3Open(b, init) ==
  IF b.open_state \/ InitEndpoint(init) = NO_ENDPOINT THEN Err(b)
  ELSE Ok([b EXCEPT !.endpoint = InitEndpoint(init), !.open_state = TRUE], 0, <<>>)

Ring3Close(b) ==
  IF ~b.open_state THEN Err(b)
  ELSE Ok([b EXCEPT !.endpoint = NO_ENDPOINT, !.open_state = FALSE], 0, <<>>)

(* Faulty variant, for the mutation checks: a short buffer gets a part and *)
(* the rest is lost.                                                       *)
Ring3Read_Truncates(b, out_len) ==
  LET n == Lesser(out_len, Len(b.response)) IN
  IF ~b.open_state \/ b.response = <<>> THEN Err(b)
  ELSE Ok([b EXCEPT !.response = <<>>], n, SubSeq(b.response, 1, n))

(* A response is handed over whole and then erased, or not at all.         *)
Ring3Read(b, out_len) ==
  IF ~b.open_state \/ b.response = <<>> \/ out_len < Len(b.response) THEN Err(b)
  ELSE Ok([b EXCEPT !.response = <<>>], Len(b.response), b.response)
-----------------------------------------------------------------------------
(* BusInstance: dispatch on the discriminant.  Empty and the five stubs    *)
(* (Usb .. Network) refuse every operation.                                *)
BusOpen(b, init, fresh) ==
  CASE b.kind = "Software"     -> SoftwareOpen(b, init, fresh)
    [] b.kind = "Ring3Process" -> Ring3Open(b, init)
    [] OTHER                   -> Err(b)

BusClose(b) ==
  CASE b.kind = "Software"     -> SoftwareClose(b)
    [] b.kind = "Ring3Process" -> Ring3Close(b)
    [] OTHER                   -> Err(b)

BusRead(b, out_len) ==
  CASE b.kind = "Software"     -> SoftwareRead(b, out_len)
    [] b.kind = "Ring3Process" -> Ring3Read(b, out_len)
    [] OTHER                   -> Err(b)

(* Zeroize for BusInstance: the active driver is wiped, then Empty.        *)
BusZeroize(b) == BusEmpty
=============================================================================
