----------------------------- MODULE TlsService -----------------------------
(***************************************************************************)
(* The key store and the TLS connection pool together, used by kernel code *)
(* that calls their functions in any order.  The kernel is single-threaded *)
(* here, so each call is one step.  Handles are indices into the pool:     *)
(* callers may hold one of a connection that was closed and whose slot was *)
(* given to another.                                                       *)
(***************************************************************************)
EXTENDS TlsConn

CONSTANTS
  MAX_TLS_CONNS,   \* 4
  PskIds,          \* identifiers callers provision and destroy
  PeerIds,         \* identifiers callers ask handshakes for
  Materials,       \* key material callers provision
  Kexes,           \* <<policy, suite>> pairs callers ask for
  Plaintexts, OutLens,
  MaxHandshakes,   \* bound on the completed handshakes of a behaviour
  MaxRecords       \* bound on the records encrypted in a behaviour

ASSUME TlsServiceAssumption ==
  /\ MAX_TLS_CONNS \in Nat \ {0}
  /\ MaxHandshakes \in Nat /\ MaxRecords \in Nat
  /\ PskIds \subseteq Nat /\ PeerIds \subseteq Nat
  /\ Materials \subseteq Seq(Nat) /\ Plaintexts \subseteq Seq(Nat)
  /\ Kexes \subseteq KexPolicy \X CipherSuite
  /\ OutLens \subseteq Nat

Conns == 0 .. MAX_TLS_CONNS - 1
Handles == 0 .. MAX_TLS_CONNS      \* the last one is out of range
None == [state |-> "None"]

VARIABLES
  slots,       \* SOFT_KEYSTORE
  pool,        \* TLS_POOL, with None for Option::None
  n,           \* handshakes completed, which numbers their draws
  sent,        \* records encrypted
  call,        \* history: the last call and its result
  pairs,       \* history: <<client, server>> handles of open handshakes
  sealed,      \* history: per key, the <<counter, plaintext>> encrypted
  got          \* history: per key, the <<counter, plaintext>> handed over

vars == <<slots, pool, n, sent, call, pairs, sealed, got>>

Init ==
  /\ slots = SoftKeystoreNew
  /\ pool = [h \in Conns |-> None]
  /\ n = 0
  /\ sent = 0
  /\ call = [op |-> "boot", res |-> "Ok"]
  /\ pairs = {}
  /\ sealed = <<>>
  /\ got = <<>>
-----------------------------------------------------------------------------
(* The key store.                                                          *)
Provision(id, material) ==
  LET r == provision(slots, id, material) IN
  /\ slots' = r.slots
  /\ call' = [op |-> "provision", res |-> r.res, id |-> id]
  /\ UNCHANGED <<pool, n, sent, pairs, sealed, got>>

Destroy(id) ==
  /\ slots' = psk_destroy(slots, id)
  /\ call' = [op |-> "destroy", res |-> "Ok", id |-> id]
  /\ UNCHANGED <<pool, n, sent, pairs, sealed, got>>

WipeKeys ==
  /\ slots' = wipe_all(slots)
  /\ call' = [op |-> "wipe_keys", res |-> "Ok"]
  /\ UNCHANGED <<pool, n, sent, pairs, sealed, got>>
-----------------------------------------------------------------------------
(* The pool.                                                               *)

alloc_slot(p) == First({h \in Conns : p[h] = None})

(* slot(h) is Ok for the handles of open connections.                      *)
HasSlot(p, h) == h \in Conns /\ p[h] # None

(* A handshake that fails closes both slots.                               *)
AfterHandshake(p, c, s, r) ==
  IF r.res = "Ok" THEN [p EXCEPT ![c] = r.c, ![s] = r.s]
  ELSE [p EXCEPT ![c] = None, ![s] = None]

(* alloc_slot fails for the client.                                        *)
LoopbackNoSlot(id, kex) ==
  /\ alloc_slot(pool) = {}
  /\ call' = [op |-> "loopback", res |-> "PoolFull", id |-> id]
  /\ UNCHANGED <<slots, pool, n, sent, pairs, sealed, got>>

(* alloc_slot fails for the server: the client's slot goes to state Free.  *)
LoopbackOneSlot(id, kex) ==
  \E c \in alloc_slot(pool) :
    /\ alloc_slot([pool EXCEPT ![c] = TlsConnectionEmpty]) = {}
    /\ pool' = [pool EXCEPT ![c] =
                  [Handshaking("Client", kex[1], kex[2], id) EXCEPT !.state = "Free"]]
    /\ call' = [op |-> "loopback", res |-> "PoolFull", id |-> id]
    /\ UNCHANGED <<slots, n, sent, pairs, sealed, got>>

LoopbackRun(id, kex, draws) ==
  /\ \E c \in alloc_slot(pool) :
     \E s \in alloc_slot([pool EXCEPT ![c] = TlsConnectionEmpty]) :
       LET r == do_handshake(slots,
                             Handshaking("Client", kex[1], kex[2], id),
                             Handshaking("Server", kex[1], kex[2], id),
                             draws, n + 1)
       IN  /\ r.res = "Ok" => n < MaxHandshakes
           /\ pool' = AfterHandshake(pool, c, s, r)
           /\ n' = IF r.res = "Ok" THEN n + 1 ELSE n
           /\ pairs' = IF r.res = "Ok" THEN pairs \cup {<<c, s>>} ELSE pairs
           /\ call' = [op |-> "loopback", res |-> r.res, id |-> id,
                       client |-> c, server |-> s, draws |-> draws]
  /\ UNCHANGED <<slots, sent, sealed, got>>

run_loopback(id, kex) ==
  \/ LoopbackNoSlot(id, kex)
  \/ LoopbackOneSlot(id, kex)
  \/ \E draws \in {"ok", "early", "late"} : LoopbackRun(id, kex, draws)

Without(h) == {pr \in pairs : h # pr[1] /\ h # pr[2]}

close(h) ==
  /\ pool' = IF h \in Conns THEN [pool EXCEPT ![h] = None] ELSE pool
  /\ call' = [op |-> "close", res |-> IF h \in Conns THEN "Ok" ELSE "InvalidHandle",
              handle |-> h]
  /\ pairs' = Without(h)
  /\ UNCHANGED <<slots, n, sent, sealed, got>>

WipePool ==
  /\ pool' = [h \in Conns |-> None]
  /\ call' = [op |-> "wipe_pool", res |-> "Ok"]
  /\ pairs' = {}
  /\ UNCHANGED <<slots, n, sent, sealed, got>>
-----------------------------------------------------------------------------
(* Records.                                                                *)

(* f with e appended to the sequence of key k.                             *)
Note(f, k, e) ==
  [x \in DOMAIN f \cup {k} |->
     IF x # k THEN f[x] ELSE Append(IF k \in DOMAIN f THEN f[k] ELSE <<>>, e)]

SendCall(res, from, to, plaintext, out_len) ==
  [op |-> "send", res |-> res, from |-> from, to |-> to,
   len |-> Len(plaintext), out_len |-> out_len]

(* The sender refuses: nothing is encrypted.                               *)
SendRefused(from, to, plaintext, out_len) ==
  LET res == IF ~HasSlot(pool, from) THEN "InvalidHandle"
             ELSE IF pool[from].state # "Connected" THEN "UnexpectedState"
             ELSE encrypt_record(pool[from].app_write, pool[from].suite, plaintext).res
  IN  /\ res # "Ok"
      /\ call' = SendCall(res, from, to, plaintext, out_len)
      /\ UNCHANGED <<slots, pool, n, sent, pairs, sealed, got>>

(* The record is encrypted and the sender's counter moves before `to` is   *)
(* looked at.                                                              *)
SendRecord(from, to, plaintext, out_len) ==
  /\ sent < MaxRecords
  /\ HasSlot(pool, from)
  /\ pool[from].state = "Connected"
  /\ LET e == encrypt_record(pool[from].app_write, pool[from].suite, plaintext)
         p == [pool EXCEPT ![from].app_write = e.keys]
         open == HasSlot(p, to) /\ p[to].state = "Connected"
         d == IF open
              THEN decrypt_record(p[to].app_read, p[from].suite, e.record, out_len)
              ELSE [res |-> IF HasSlot(p, to) THEN "UnexpectedState"
                            ELSE "InvalidHandle"]
     IN  /\ e.res = "Ok"
         /\ pool' = IF open THEN [p EXCEPT ![to].app_read = d.keys] ELSE p
         /\ sealed' = Note(sealed, e.record[1], <<e.record[3], plaintext>>)
         /\ got' = IF d.res # "Ok" THEN got
                   ELSE Note(got, e.record[1], <<e.record[3], plaintext>>)
         /\ call' = SendCall(d.res, from, to, plaintext, out_len)
  /\ sent' = sent + 1
  /\ UNCHANGED <<slots, n, pairs>>

loopback_send_recv(from, to, plaintext, out_len) ==
  \/ SendRefused(from, to, plaintext, out_len)
  \/ SendRecord(from, to, plaintext, out_len)
-----------------------------------------------------------------------------
Next ==
  \/ \E id \in PskIds, material \in Materials : Provision(id, material)
  \/ \E id \in PskIds : Destroy(id)
  \/ WipeKeys
  \/ \E id \in PeerIds, kex \in Kexes : run_loopback(id, kex)
  \/ \E h \in Handles : close(h)
  \/ WipePool
  \/ \E from, to \in Handles, plaintext \in Plaintexts, out_len \in OutLens :
       loopback_send_recv(from, to, plaintext, out_len)

Spec == Init /\ [][Next]_vars
-----------------------------------------------------------------------------
(* When psk_destroy returns, its identifier is in no provisioned slot, so  *)
(* no handshake can use it: provision never lets an identifier into two    *)
(* slots.  For PskId::ZERO, the identifier that wiped slots have, see      *)
(* DestroyErases.                                                          *)
DestroyTakesEffect ==
  [][call'.op = "destroy" /\ call'.id # ZERO => ~psk_exists(slots', call'.id)]_vars

Written(k) == IF k \in DOMAIN sealed THEN sealed[k] ELSE <<>>
Delivered(k) == IF k \in DOMAIN got THEN got[k] ELSE <<>>

(* run_loopback succeeds exactly when two slots were free, the PSK was     *)
(* provisioned and no draw failed.  It then leaves two ends that agree on  *)
(* the transcript and on keys no record was encrypted under; otherwise it  *)
(* leaves no key.  It never touches another connection.                    *)
HandshakeStep ==
  call'.op = "loopback" =>
    LET free == {h \in Conns : pool[h] = None} IN
    /\ \A h \in Conns \ free : pool'[h] = pool[h]
    /\ call'.res = "PoolFull" <=> ~\E g, h \in free : g # h
    /\ call'.res = "Ok" <=>
         call'.res # "PoolFull" /\ psk_exists(slots, call'.id) /\ call'.draws = "ok"
    /\ IF call'.res = "Ok"
       THEN LET c == pool'[call'.client]
                s == pool'[call'.server]
            IN  /\ {call'.client, call'.server} \subseteq free
                /\ c.state = "Connected" /\ s.state = "Connected"
                /\ c.transcript = s.transcript /\ c.suite = s.suite
                /\ c.app_write = s.app_read /\ c.app_read = s.app_write
                /\ c.app_write.key # c.app_read.key
                /\ Written(c.app_write.key) = <<>>
                /\ Written(c.app_read.key) = <<>>
       ELSE \A h \in free :
              pool'[h] = None \/ pool'[h].app_write = DirectionalKeysEmpty

(* Every call of run_loopback ends the way HandshakeStep says.             *)
HandshakeOutcome == [][HandshakeStep]_vars

(* No two records are encrypted under the same key with the same counter:  *)
(* the AEAD nonce is the counter, also at the end of its range, after a    *)
(* delivery that failed and when slots are closed and used again.          *)
RecordNonceFresh ==
  \A k \in DOMAIN sealed : \A i, j \in 1 .. Len(sealed[k]) :
    sealed[k][i][1] = sealed[k][j][1] => i = j

(* What was delivered under a key is what was encrypted first under it, in *)
(* order and without a gap: a record whose delivery failed is never        *)
(* skipped.                                                                *)
StreamPrefix ==
  \A k \in DOMAIN got :
    /\ Len(got[k]) <= Len(Written(k))
    /\ \A i \in 1 .. Len(got[k]) : got[k][i] = Written(k)[i]

(* loopback_send_recv delivers exactly between the two ends of one         *)
(* handshake, whatever was closed and reused since, when the plaintext     *)
(* fits both limits, the counter is not exhausted and no earlier record of *)
(* this direction failed to be delivered.                                  *)
SendStep ==
  call'.op = "send" =>
    (call'.res = "Ok" <=>
       /\ <<call'.from, call'.to>> \in pairs \/ <<call'.to, call'.from>> \in pairs
       /\ call'.len <= MAX_PLAINTEXT_LEN /\ call'.len <= call'.out_len
       /\ LET k == pool[call'.from].app_write.key
          IN  /\ Len(Written(k)) < SEQ_MAX
              /\ Len(Delivered(k)) = Len(Written(k)))

(* Every call of loopback_send_recv ends the way SendStep says.            *)
SendOutcome == [][SendStep]_vars
-----------------------------------------------------------------------------
(* What comments of the code say and the code does not do.                 *)

(* The comment "reclaim the first slot" in run_loopback: a handshake that  *)
(* fails leaves the pool as it was.                                        *)
PoolReclaimed ==
  [][call'.op = "loopback" /\ call'.res # "Ok" => pool' = pool]_vars

(* Invariant 4 of HsmDriver: psk_destroy erases the key material at once.  *)
DestroyErases ==
  [][call'.op = "destroy" => ~psk_exists(slots', call'.id)]_vars
=============================================================================
