------------------------------ MODULE Channel ------------------------------
(***************************************************************************)
(* What a soft-HSM bus promises its user.  An open channel is a stream or  *)
(* a box.  A stream hands over what was sent, in order, none twice, and    *)
(* carries Room cells in all until it is closed.  A box holds one message, *)
(* which the next message replaces.  Closing discards what was not read.   *)
(***************************************************************************)
EXTENDS Integers, Sequences

CONSTANTS Room,     \* cells a stream carries; the largest message of a box
          Messages  \* what may be sent to a stream

VARIABLES
  mode,    \* "closed", "stream" or "box"
  queue,   \* what a read will hand over, oldest first
  room,    \* cells a stream can still take
  got,     \* what the last call handed over, if it was a read
  took     \* how much the last call took, if it was a write, as it reports

vars == <<mode, queue, room, got, took>>

Init == mode = "closed" /\ queue = <<>> /\ room = 0 /\ got = <<>> /\ took = 0

Open(m) ==
  /\ mode = "closed" /\ m \in {"stream", "box"}
  /\ mode' = m /\ queue' = <<>> /\ room' = Room
  /\ got' = <<>> /\ took' = 0

Send(d) ==
  /\ mode = "stream" /\ Len(d) <= room
  /\ queue' = queue \o d /\ room' = room - Len(d)
  /\ got' = <<>> /\ took' = Len(d) /\ UNCHANGED mode

Replace ==
  /\ mode = "box" /\ mode' = "box"
  /\ queue' # <<>> /\ Len(queue') <= Room
  /\ room' = Room - Len(queue')
  /\ got' = <<>> /\ took' = Len(queue')

Receive(n) ==
  /\ mode # "closed"
  /\ got' = SubSeq(queue, 1, n)
  /\ queue' = SubSeq(queue, n + 1, Len(queue))
  /\ took' = 0 /\ UNCHANGED <<mode, room>>

Close ==
  /\ mode' = "closed" /\ queue' = <<>> /\ room' = 0
  /\ got' = <<>> /\ took' = 0

(* A refused call reports that it took nothing.                            *)
Refuse == got' = <<>> /\ took' = 0 /\ UNCHANGED <<mode, queue, room>>

Next ==
  \/ \E m \in {"stream", "box"} : Open(m)
  \/ \E d \in Messages : Send(d)
  \/ Replace
  \/ \E n \in 0 .. Len(queue) : Receive(n)
  \/ Close
  \/ Refuse

Spec == Init /\ [][Next]_vars
=============================================================================
