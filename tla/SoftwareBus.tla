---------------------------- MODULE SoftwareBus ----------------------------
(***************************************************************************)
(* One SoftwareBus under every sequence of calls of the BusDriver trait:   *)
(* re-opened after a close, wiped, read in pieces, written until it is     *)
(* full or its nonce counter is used up.                                   *)
(***************************************************************************)
EXTENDS Bus

CONSTANTS
  Inits,      \* init blobs
  Data,       \* arguments of write
  OutLens,    \* lengths of the buffers passed to read
  MaxKeys     \* bound on the keys drawn in a behaviour

ASSUME SoftwareBusAssumption ==
  /\ MaxKeys \in Nat
  /\ OutLens \subseteq Nat
  /\ \A data \in Data : data \in Seq({data[i] : i \in DOMAIN data})

VARIABLES
  bus,     \* the instance
  drawn,   \* keys drawn from rand_bytes so far; every draw is a new one
  got,     \* what the last call returned, if it was a read
  took,    \* the count the last call returned, if it was a write
  seals    \* history: the (key, nonce) pairs AES-GCM was called with

busVars == <<bus, drawn, got, took, seals>>

BusInit ==
  /\ bus = BusNew("Software")
  /\ drawn = 0
  /\ got = <<>> /\ took = 0
  /\ seals = <<>>

(* rand_bytes is called only for the AesGcm role and may fail.             *)
Open(init) ==
  \E fresh \in IF InitRole(init) = "AesGcm" /\ ~bus.open_state
               THEN {0, drawn + 1} ELSE {0} :
    /\ fresh <= MaxKeys
    /\ bus' = BusOpen(bus, init, fresh).bus
    /\ drawn' = IF fresh = 0 THEN drawn ELSE fresh
    /\ got' = <<>> /\ took' = 0
    /\ UNCHANGED seals

Close ==
  /\ bus' = BusClose(bus).bus
  /\ got' = <<>> /\ took' = 0
  /\ UNCHANGED <<drawn, seals>>

Read(out_len) ==
  /\ bus' = BusRead(bus, out_len).bus
  /\ got' = BusRead(bus, out_len).data /\ took' = 0
  /\ UNCHANGED <<drawn, seals>>

Write(data) ==
  LET r == SoftwareWrite(bus, data) IN
  /\ bus' = r.bus
  /\ got' = <<>> /\ took' = r.n
  /\ seals' = IF r.ok /\ bus.role = "AesGcm"
              THEN Append(seals, <<r.bus.key, r.bus.nonce_counter>>) ELSE seals
  /\ UNCHANGED drawn

(* zeroize, then a new instance in its place: detach and the next attach.  *)
Renew ==
  /\ bus' = BusNew("Software")
  /\ got' = <<>> /\ took' = 0
  /\ UNCHANGED <<drawn, seals>>

BusNext ==
  \/ \E init \in Inits : Open(init)
  \/ Close
  \/ \E out_len \in OutLens : Read(out_len)
  \/ \E data \in Data : Write(data)
  \/ Renew

BusSpec == BusInit /\ [][BusNext]_busVars
-----------------------------------------------------------------------------
(* The cursors stay inside the ring, and only an AesGcm bus has a key.     *)
BusTypeOK ==
  /\ bus.kind = "Software"
  /\ bus.open_state \in BOOLEAN
  /\ bus.role \in {"Echo", "Blake3", "AesGcm"}
  /\ Len(bus.ring) <= SW_BUS_BUF
  /\ bus.read_pos \in 0 .. Len(bus.ring)
  /\ bus.key \in 0 .. drawn
  /\ bus.key # 0 <=> bus.role = "AesGcm"
  /\ bus.nonce_counter \in 0 .. NONCE_MAX
  /\ drawn \in 0 .. MaxKeys

(* AES-GCM is never called twice with one (key, nonce) pair: not when the  *)
(* counter reaches its end, not when a bus is closed and opened again.     *)
NonceNeverReused ==
  \A i, j \in 1 .. Len(seals) : seals[i] = seals[j] => i = j

(* poll agrees with what read and, on an Echo bus, write would do next.    *)
PollTruthful ==
  bus.open_state =>
    /\ SoftwarePoll(bus).readable <=> SoftwareRead(bus, 1).n = 1
    /\ bus.role = "Echo" =>
         (SoftwarePoll(bus).writable <=> EchoWrite(bus, Pieces(<<"raw", 0>>, 1)).ok)

(* The ring behaves as a stream (Echo) or a box (Blake3, AesGcm): what is  *)
(* read is what was written, in order; a write that reports a length has   *)
(* put that much there to be read; and a stream's capacity is spent by     *)
(* writing and is not given back by reading.                               *)
Promise == INSTANCE Channel WITH
  Room     <- SW_BUS_BUF,
  Messages <- Data,
  mode     <- IF ~bus.open_state THEN "closed"
              ELSE IF bus.role = "Echo" THEN "stream" ELSE "box",
  queue    <- Unread(bus),
  room     <- IF bus.open_state THEN SW_BUS_BUF - Len(bus.ring) ELSE 0,
  got      <- got,
  took     <- took

BusIsChannel == Promise!Spec
=============================================================================
