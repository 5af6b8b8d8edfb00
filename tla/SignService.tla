---------------------------- MODULE SignService ----------------------------
(***************************************************************************)
(* The ML-DSA service of sign_service.rs as a value: the one SESSION and   *)
(* its static buffers.  The three inputs are the sections 1 (key), 2 (aux) *)
(* and 3 (message).  Of an input buffer the model keeps which octets hold  *)
(* request data; the others are zero.  Of the output it keeps what was     *)
(* computed, and from which octets.                                        *)
(***************************************************************************)
EXTENDS Integers, Common

CONSTANTS
  SK_LEN, PK_LEN, SIG_LEN,  \* 2560, 1312, 2420
  SEED_LEN,                 \* 32
  MSG_BUF_LEN,              \* 1020
  CHUNK_SIZE,               \* 240
  BEGIN_LEN                 \* 12: the three lengths a Begin declares

ASSUME SignAssumption ==
  /\ SK_LEN \in Nat /\ PK_LEN \in Nat /\ SIG_LEN \in Nat
  /\ SEED_LEN \in Nat /\ MSG_BUF_LEN \in Nat
  /\ CHUNK_SIZE \in Nat \ {0} /\ BEGIN_LEN \in Nat
  /\ SEED_LEN <= SK_LEN /\ PK_LEN <= SK_LEN

Section == 1 .. 3
BufLen == <<SK_LEN, SIG_LEN, MSG_BUF_LEN>>

Zeroed == [s \in Section |-> {}]
NoLengths == [s \in Section |-> 0]
NoOutput == <<>>

SignOp == {"Keygen", "Sign", "Verify"}

(* The largest lengths handle_begin accepts.                               *)
Limit(op) ==
  [Keygen |-> <<SEED_LEN, 0, 0>>,
   Sign   |-> <<SK_LEN, 0, MSG_BUF_LEN>>,
   Verify |-> <<PK_LEN, SIG_LEN, MSG_BUF_LEN>>][op]

SessionIdle ==
  [phase |-> "Idle", op |-> "Keygen", total |-> NoLengths, recv |-> NoLengths,
   out_total |-> 0, verify_ok |-> FALSE, buf |-> Zeroed, out |-> NoOutput]

(* The phase after section k: the next section that was declared.          *)
PhaseAfter(total, k) ==
  IF k < 1 /\ total[1] > 0 THEN "CollectKey"
  ELSE IF k < 2 /\ total[2] > 0 THEN "CollectAux"
  ELSE IF k < 3 /\ total[3] > 0 THEN "CollectMsg"
  ELSE "Ready"

SectionOf(phase) ==
  IF phase = "CollectKey" THEN 1
  ELSE IF phase = "CollectAux" THEN 2
  ELSE IF phase = "CollectMsg" THEN 3
  ELSE 0

Answer(r, s) == [r |-> r, s |-> s]

(* Faulty variant: a second Begin restarts the session.                    *)
handle_begin_Restart(s, req) ==
  IF req.op \notin SignOp THEN Answer("InvalidOp", s)
  ELSE IF req.variant # 1 THEN Answer("InvalidVariant", s)
  ELSE IF req.chunk_len < BEGIN_LEN THEN Answer("InvalidRequest", s)
  ELSE IF \E x \in Section : req.total[x] > Limit(req.op)[x] THEN Answer("SizeTooLarge", s)
  ELSE Answer("Ok", [SessionIdle EXCEPT !.phase = PhaseAfter(req.total, 0),
                                        !.op = req.op, !.total = req.total])

handle_begin(s, req) ==
  IF s.phase # "Idle" THEN Answer("InvalidPhase", s)
  ELSE IF req.op \notin SignOp THEN Answer("InvalidOp", s)
  ELSE IF req.variant # 1 THEN Answer("InvalidVariant", s)
  ELSE IF req.chunk_len < BEGIN_LEN THEN Answer("InvalidRequest", s)
  ELSE IF \E x \in Section : req.total[x] > Limit(req.op)[x] THEN Answer("SizeTooLarge", s)
  ELSE Answer("Ok", [SessionIdle EXCEPT !.phase = PhaseAfter(req.total, 0),
                                        !.op = req.op, !.total = req.total])

(* Faulty variant: only the buffer bounds a chunk.                         *)
handle_in_chunk_Undeclared(s, req) ==
  LET x == SectionOf(s.phase)
      end == req.offset + req.chunk_len
  IN  IF req.chunk_len > CHUNK_SIZE THEN Answer("ChunkOverflow", s)
      ELSE IF x = 0 THEN Answer("InvalidPhase", s)
      ELSE IF end > BufLen[x] THEN Answer("ChunkOverflow", s)
      ELSE Answer("Ok",
             [s EXCEPT !.buf[x] = @ \cup (req.offset .. end - 1),
                       !.recv[x] = end,
                       !.phase = IF end >= s.total[x] THEN PhaseAfter(s.total, x) ELSE @])

(* What has been received is where the chunk ends, not the sum of chunks.  *)
handle_in_chunk(s, req) ==
  LET x == SectionOf(s.phase)
      end == req.offset + req.chunk_len
  IN  IF req.chunk_len > CHUNK_SIZE THEN Answer("ChunkOverflow", s)
      ELSE IF x = 0 THEN Answer("InvalidPhase", s)
      ELSE IF end > BufLen[x] \/ end > s.total[x] THEN Answer("ChunkOverflow", s)
      ELSE Answer("Ok",
             [s EXCEPT !.buf[x] = @ \cup (req.offset .. end - 1),
                       !.recv[x] = end,
                       !.phase = IF end >= s.total[x] THEN PhaseAfter(s.total, x) ELSE @])

OutLen(op) == [Keygen |-> PK_LEN + SK_LEN, Sign |-> SIG_LEN, Verify |-> 1][op]

(* What an operation needs of the declared lengths.  Keygen without a full *)
(* seed uses the random octets drawn for the request.                      *)
Sized(s) ==
  CASE s.op = "Keygen" -> TRUE
    [] s.op = "Sign"   -> s.total[1] = SK_LEN
    [] s.op = "Verify" -> s.total[1] = PK_LEN /\ s.total[2] = SIG_LEN

Seeded(s) == s.op # "Keygen" \/ s.total[1] = SEED_LEN

(* lib is what the ML-DSA library says: "Ok", "Err", or for Verify "Bad".  *)
(* A refusal leaves the inputs where they are and the phase at Ready.      *)
handle_exec(s, lib) ==
  IF s.phase # "Ready" THEN Answer("InvalidPhase", s)
  ELSE IF ~Sized(s) THEN Answer("InvalidRequest", s)
  ELSE IF lib = "Err" THEN Answer("ExecFailed", s)
  ELSE IF s.op = "Verify" /\ lib = "Bad"
    THEN Answer("VerifyFailed", [s EXCEPT !.verify_ok = FALSE])
  ELSE Answer("Ok", [s EXCEPT !.verify_ok = IF s.op = "Verify" THEN TRUE ELSE @,
                              !.out = [op |-> s.op, from |-> IF Seeded(s) THEN s.buf ELSE Zeroed],
                              !.buf = Zeroed, !.out_total = OutLen(s.op),
                              !.phase = "OutputReady"])

(* How many octets of the output a reply carries from an offset on.        *)
handle_out_chunk(s, req) ==
  IF s.phase # "OutputReady" THEN [r |-> "InvalidPhase", len |-> 0]
  ELSE [r |-> "Ok", len |-> Lesser(SatSub(s.out_total, req.offset), CHUNK_SIZE)]

handle_end(s) == SessionIdle

(* The reply: its kind, the error or "Ok", and the fields offset, total    *)
(* and length of the data.                                                 *)
SignReply(type, result, offset, total, len) ==
  [type |-> IF result = "Ok" THEN type ELSE "Error", result |-> result,
   offset |-> IF result = "Ok" THEN offset ELSE 0,
   total  |-> IF result = "Ok" THEN total ELSE 0,
   len    |-> IF result = "Ok" THEN len ELSE 0]

(* One request of the chunk protocol, answered: the session afterwards and *)
(* the reply.  lib is "NoRnd" when the kernel DRBG did not deliver.        *)
SignAnswer(s, m, lib) ==
  LET begin == handle_begin(s, m.body)
      in    == handle_in_chunk(s, m.body)
      exec  == IF lib # "NoRnd" THEN handle_exec(s, lib) ELSE Answer("ExecFailed", s)
      out   == handle_out_chunk(s, m.body)
  IN  IF m.type = "SignBeginReq"
        THEN [s |-> begin.s, reply |-> SignReply("SignBeginResp", begin.r, 0, 0, 4)]
      ELSE IF m.type = "SignInChunkReq"
        THEN [s |-> in.s,
              reply |-> SignReply("SignInChunkResp", in.r,
                                  in.s.recv[1] + in.s.recv[2] + in.s.recv[3], 0, 0)]
      ELSE IF m.type = "SignExecReq"
        THEN [s |-> exec.s, reply |-> SignReply("SignExecResp", exec.r, 0, exec.s.out_total, 0)]
      ELSE IF m.type = "SignOutChunkReq"
        THEN [s |-> s, reply |-> SignReply("SignOutChunkResp", out.r, m.body.offset,
                                           s.out_total, out.len)]
      ELSE IF m.type = "SignEndReq"
        THEN [s |-> handle_end(s), reply |-> SignReply("SignEndResp", "Ok", 0, 0, 0)]
      ELSE [s |-> s, reply |-> SignReply("Error", "InvalidRequest", 0, 0, 0)]
=============================================================================
