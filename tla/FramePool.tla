----------------------------- MODULE FramePool -----------------------------
(***************************************************************************)
(* What the frame allocator promises.  While the kernel boots, the pool is *)
(* filled.  From then on a frame is in the pool or with one holder; it is  *)
(* handed out empty, and any request is met while the pool has a frame.    *)
(***************************************************************************)
CONSTANTS Frames

VARIABLES
  ready,    \* whether the pool is open
  pool,     \* frames to be had
  held,     \* frames handed out
  written,  \* frames with something in them
  got       \* the answer to the last call, if it was a request: <<"Some", f>>
            \* or <<"None">>; <<>> after any other call

vars == <<ready, pool, held, written, got>>

Init ==
  /\ ready = FALSE /\ pool = {} /\ held = {} /\ written = Frames
  /\ got = <<>>

Fill ==
  /\ ~ready
  /\ pool' \subseteq Frames
  /\ UNCHANGED <<held, written, got>>

Get(f) ==
  /\ ready /\ ready'
  /\ f \in pool
  /\ pool' = pool \ {f} /\ held' = held \cup {f}
  /\ written' = written \ {f} /\ got' = <<"Some", f>>

GetNothing ==
  /\ ready /\ pool = {}
  /\ got' = <<"None">>
  /\ UNCHANGED <<ready, pool, held, written>>

Put(f) ==
  /\ ready /\ ready'
  /\ f \in held
  /\ pool' = pool \cup {f} /\ held' = held \ {f}
  /\ written' = written \ {f} /\ got' = <<>>

Write(f) ==
  /\ f \in held
  /\ written' = written \cup {f} /\ got' = <<>>
  /\ UNCHANGED <<ready, pool, held>>

Refuse ==
  /\ got' = <<>>
  /\ ready /\ UNCHANGED <<ready, pool, held, written>>

Next ==
  \/ Fill
  \/ \E f \in Frames : Get(f) \/ Put(f) \/ Write(f)
  \/ GetNothing
  \/ Refuse

Spec == Init /\ [][Next]_vars
=============================================================================
