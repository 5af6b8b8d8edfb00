------------------------------ MODULE TlsConn ------------------------------
(***************************************************************************)
(* One TLS connection of tls/: the key schedule, the loopback handshake    *)
(* between two connections and the record layer, as operators on values.   *)
(*                                                                         *)
(* Cryptography is symbolic: a secret, a MAC or a message is a tuple of    *)
(* what it is computed from, so two are equal when they are computed from  *)
(* the same things.  <<>> is a buffer of zeros.  `n` numbers the draws of  *)
(* a handshake: ephemeral keys, randoms and the KEM coins.                 *)
(***************************************************************************)
EXTENDS Keystore

CONSTANTS
  SEQ_MAX,             \* u64::MAX, where a record counter stops
  MAX_PLAINTEXT_LEN    \* 200 octets

ASSUME TlsConnAssumption == SEQ_MAX \in Nat /\ MAX_PLAINTEXT_LEN \in Nat

CipherSuite == {"Aes256GcmSha256", "ChaCha20Poly1305Sha256"}
KexPolicy == {"Classical", "Hybrid"}

(* DirectionalKeys: key and iv are one term.  Of a connection's transcript *)
(* the number of messages is kept; nothing reads it after the handshake.   *)
DirectionalKeysEmpty == [key |-> <<>>, seq |-> 0]

TlsConnectionEmpty ==
  [state |-> "Free", side |-> "Client", policy |-> "Hybrid",
   suite |-> "Aes256GcmSha256", psk_id |-> ZERO, transcript |-> 0,
   app_write |-> DirectionalKeysEmpty, app_read |-> DirectionalKeysEmpty]

(* What run_loopback writes into a slot before the handshake.              *)
Handshaking(side, policy, suite, psk_id) ==
  [TlsConnectionEmpty EXCEPT !.state = "Handshaking", !.side = side,
     !.policy = policy, !.suite = suite, !.psk_id = psk_id]
-----------------------------------------------------------------------------
(* The key schedule.                                                       *)

compute_binder(early, hello) == <<"binder", early, hello>>

derive_handshake_secrets(early, ecdhe_ss, transcript) ==
  [handshake |-> <<"hs", early, ecdhe_ss>>,
   client    |-> <<"c hs traffic", early, ecdhe_ss, transcript>>,
   server    |-> <<"s hs traffic", early, ecdhe_ss, transcript>>]

compute_verify_data(traffic, transcript) == <<"finished", traffic, transcript>>

derive_master_and_app_secrets(handshake, transcript) ==
  [client |-> <<"c ap traffic", handshake, transcript>>,
   server |-> <<"s ap traffic", handshake, transcript>>]

(* The suite is an argument of the code that it does not use.              *)
derive_traffic_keys(traffic) == [key |-> <<"key", traffic>>, seq |-> 0]
-----------------------------------------------------------------------------
(* The handshake.                                                          *)

(* X25519 in both policies, concatenated with ML-KEM-768 in Hybrid.        *)
SharedSecret(policy, n) ==
  IF policy = "Hybrid" THEN <<"x25519", "mlkem768", n>> ELSE <<"x25519", n>>

ClientHello(policy, suite, psk_id, n) == <<"CH", psk_id, suite, policy, n>>
ServerHello(suite, n) == <<"SH", suite, n>>

(* Faulty variant, for the mutation checks: the server installs its keys   *)
(* the client's way round.                                                 *)
Install_ServerAsClient(c, s, c_app, s_app, transcript) ==
  [c |-> [c EXCEPT !.state = "Connected", !.transcript = Len(transcript),
            !.app_write = derive_traffic_keys(c_app.client),
            !.app_read = derive_traffic_keys(c_app.server)],
   s |-> [s EXCEPT !.state = "Connected", !.transcript = Len(transcript),
            !.app_write = derive_traffic_keys(s_app.client),
            !.app_read = derive_traffic_keys(s_app.server)]]

(* Both ends with the keys of step 13: each writes with its own traffic    *)
(* secret and reads with the other's.                                      *)
Install(c, s, c_app, s_app, transcript) ==
  [c |-> [c EXCEPT !.state = "Connected", !.transcript = Len(transcript),
            !.app_write = derive_traffic_keys(c_app.client),
            !.app_read = derive_traffic_keys(c_app.server)],
   s |-> [s EXCEPT !.state = "Connected", !.transcript = Len(transcript),
            !.app_write = derive_traffic_keys(s_app.server),
            !.app_read = derive_traffic_keys(s_app.client)]]

(* do_handshake from the point where the PSK is known to exist: each end   *)
(* extracts its own early secret, and the binder and the two Finished      *)
(* values are computed by one end and compared by the other.  They are     *)
(* functions of the secrets and of the messages before them, so in the     *)
(* transcript their place says as much as their value.                     *)
Exchange(c, s, c_early, s_early, n) ==
  LET CH == ClientHello(c.policy, c.suite, c.psk_id, n)
      h_ch_sh == <<CH, ServerHello(c.suite, n)>>
      h_ch_sf == Append(h_ch_sh, <<"SF">>)
      h_ch_cf == Append(h_ch_sf, <<"CF">>)
      ss == SharedSecret(c.policy, n)
      c_hs == derive_handshake_secrets(c_early, ss, h_ch_sh)
      s_hs == derive_handshake_secrets(s_early, ss, h_ch_sh)
      agree == /\ compute_binder(c_early, CH) = compute_binder(s_early, CH)
               /\ compute_verify_data(s_hs.server, h_ch_sh)
                    = compute_verify_data(c_hs.server, h_ch_sh)
               /\ compute_verify_data(c_hs.client, h_ch_sf)
                    = compute_verify_data(s_hs.client, h_ch_sf)
      ends == Install(c, s, derive_master_and_app_secrets(c_hs.handshake, h_ch_cf),
                      derive_master_and_app_secrets(s_hs.handshake, h_ch_cf), h_ch_cf)
  IN  IF ~agree THEN [res |-> "FinishedMismatch", c |-> c, s |-> s]
      ELSE [res |-> "Ok", c |-> ends.c, s |-> ends.s]

(* draws says which calls of rand_bytes fail: none, one for the ephemeral  *)
(* keys, or one after the PSK was looked up.                               *)
do_handshake(slots, c, s, draws, n) ==
  LET prk == psk_hkdf_extract(slots, c.psk_id) IN
  IF draws = "early" THEN [res |-> "HsmFailure", c |-> c, s |-> s]
  ELSE IF ~psk_exists(slots, c.psk_id)
  THEN [res |-> "UnknownPsk", c |-> c, s |-> s]
  ELSE IF prk.res # "Ok" \/ draws = "late"
  THEN [res |-> "HsmFailure", c |-> c, s |-> s]
  ELSE Exchange(c, s, prk.prk, prk.prk, n)
-----------------------------------------------------------------------------
(* The record layer.  A record is the term of its key, suite, counter and  *)
(* plaintext; it opens under the same key, suite and counter only.         *)

(* Faulty variant, for the mutation checks: the counter stays.             *)
encrypt_record_CounterStays(keys, suite, plaintext) ==
  IF Len(plaintext) > MAX_PLAINTEXT_LEN
  THEN [res |-> "BufferTooSmall", keys |-> keys, record |-> <<>>]
  ELSE IF keys.seq = SEQ_MAX
  THEN [res |-> "SequenceExhausted", keys |-> keys, record |-> <<>>]
  ELSE [res |-> "Ok", keys |-> keys,
        record |-> <<keys.key, suite, keys.seq, plaintext>>]

encrypt_record(keys, suite, plaintext) ==
  IF Len(plaintext) > MAX_PLAINTEXT_LEN
  THEN [res |-> "BufferTooSmall", keys |-> keys, record |-> <<>>]
  ELSE IF keys.seq = SEQ_MAX
  THEN [res |-> "SequenceExhausted", keys |-> keys, record |-> <<>>]
  ELSE [res |-> "Ok", keys |-> [keys EXCEPT !.seq = @ + 1],
        record |-> <<keys.key, suite, keys.seq, plaintext>>]

(* Faulty variant, for the mutation checks: the nonce is the IV alone.     *)
Opens_AnyCounter(keys, suite, record) == keys.key = record[1] /\ suite = record[2]

Opens(keys, suite, record) ==
  keys.key = record[1] /\ suite = record[2] /\ keys.seq = record[3]

(* Faulty variant, for the mutation checks: a record that does not fit the *)
(* caller's buffer is skipped.                                             *)
decrypt_record_SkipsUndelivered(keys, suite, record, out_len) ==
  IF keys.seq = SEQ_MAX
  THEN [res |-> "SequenceExhausted", keys |-> keys]
  ELSE IF ~Opens(keys, suite, record)
  THEN [res |-> "AuthenticationFailed", keys |-> keys]
  ELSE [res |-> IF out_len < Len(record[4]) THEN "BufferTooSmall" ELSE "Ok",
        keys |-> [keys EXCEPT !.seq = @ + 1]]

(* The record comes from encrypt_record, so its header is well formed.     *)
decrypt_record(keys, suite, record, out_len) ==
  IF keys.seq = SEQ_MAX
  THEN [res |-> "SequenceExhausted", keys |-> keys]
  ELSE IF ~Opens(keys, suite, record)
  THEN [res |-> "AuthenticationFailed", keys |-> keys]
  ELSE IF out_len < Len(record[4])
  THEN [res |-> "BufferTooSmall", keys |-> keys]
  ELSE [res |-> "Ok", keys |-> [keys EXCEPT !.seq = @ + 1]]
=============================================================================
