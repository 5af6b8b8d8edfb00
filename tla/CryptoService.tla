--------------------------- MODULE CryptoService ---------------------------
(***************************************************************************)
(* The handlers of crypto_service.rs as functions of the request.  Lengths *)
(* are those of the code.  Keys, nonces and data are values; what a        *)
(* primitive computes is a term over its inputs, and lib says whether the  *)
(* library accepted them ("Ok" or "Err").                                  *)
(***************************************************************************)
EXTENDS Integers, Sequences, Common

CRYPTO_PAYLOAD_SIZE == 256
CRYPTO_DATA_LEN == 168
HKDF_MAX_OUTPUT == CRYPTO_DATA_LEN
GCM_TAG_SIZE == 16
GCM_NONCE_SIZE == 12
SHA256_BLOCK_SIZE == 64
SHA256_OUTPUT_SIZE == 32
ZeroNonce == 0

Aead == {"Aes256Gcm", "ChaCha20Poly"}
DigestSize == [HmacSha256 |-> 32, Blake3 |-> 32, Sha3_256 |-> 32, Sha3_512 |-> 64]
Signer == [Ed25519Sign |-> [sk |-> 32, sig |-> 64], Ed448Sign |-> [sk |-> 57, sig |-> 114]]
Verifier == [Ed25519Verify |-> [pk |-> 32, sig |-> 64], Ed448Verify |-> [pk |-> 57, sig |-> 114]]
X448_SIZE == 56

(* The algorithms parse_algo knows; Aes128Gcm and other octets it refuses. *)
parse_algo(a) ==
  a \in Aead \cup DOMAIN DigestSize \cup DOMAIN Signer \cup DOMAIN Verifier
    \cup {"HkdfSha256", "X448Dh"}

(* The fields of a CryptoPayload that the handlers read; okm_len are the   *)
(* first two octets of the data.                                           *)
CryptoPayload(algo, key_len, nonce_len, nonce, key, data_len, data, okm_len) ==
  [algo |-> algo, key_len |-> key_len, nonce_len |-> nonce_len, nonce |-> nonce, key |-> key,
   data_len |-> data_len, data |-> data, okm_len |-> okm_len]
IsCryptoPayload(b) ==
  /\ b = CryptoPayload(b.algo, b.key_len, b.nonce_len, b.nonce, b.key, b.data_len, b.data,
                       b.okm_len)
  /\ b.nonce \in Nat /\ b.key \in Nat /\ b.data_len \in Nat

Refused(e) == [r |-> e, algo |-> "none", data_len |-> 0, data |-> <<>>]

write_ok_reply(algo, len, data) ==
  IF len > CRYPTO_DATA_LEN THEN Refused("OutputTooLarge")
  ELSE [r |-> "Ok", algo |-> algo, data_len |-> len, data |-> data]

(* What AEAD produces from len octets of plaintext: ciphertext and tag.    *)
Sealed(algo, key, nonce, len, data) ==
  [kind |-> "sealed", algo |-> algo, key |-> key, nonce |-> nonce, len |-> len, data |-> data]

(* encrypt_aes256gcm and encrypt_chacha20poly; the GCM of the library      *)
(* cannot fail.                                                            *)
encrypt_aead(req, lib) ==
  IF req.key_len # 32 THEN "InvalidKeyLength"
  ELSE IF req.nonce_len # GCM_NONCE_SIZE THEN "InvalidNonceLength"
  ELSE IF req.nonce = ZeroNonce THEN "WeakNonce"
  ELSE IF req.algo = "ChaCha20Poly" /\ lib = "Err" THEN "InvalidDataLength"
  ELSE "Ok"

handle_encrypt(req, lib) ==
  LET r == encrypt_aead(req, lib)
      total == req.data_len + GCM_TAG_SIZE
  IN  IF ~parse_algo(req.algo) THEN Refused("UnknownAlgorithm")
      ELSE IF req.data_len > CRYPTO_DATA_LEN THEN Refused("InvalidDataLength")
      ELSE IF req.algo \notin Aead THEN Refused("UnknownAlgorithm")
      ELSE IF r # "Ok" THEN Refused(r)
      ELSE IF total > CRYPTO_DATA_LEN THEN Refused("OutputTooLarge")
      ELSE write_ok_reply(req.algo, total,
             Sealed(req.algo, req.key, req.nonce, req.data_len, req.data))

(* decrypt_aes256gcm and decrypt_chacha20poly: the tag verifies for what   *)
(* was sealed with the same key and nonce, whole.                          *)
decrypt_aead(req, ct_len) ==
  IF req.key_len # 32 THEN "InvalidKeyLength"
  ELSE IF req.nonce_len # GCM_NONCE_SIZE THEN "InvalidNonceLength"
  ELSE IF /\ req.data.kind = "sealed"
          /\ req.data.algo = req.algo /\ req.data.key = req.key
          /\ req.data.nonce = req.nonce /\ req.data.len = ct_len
    THEN "Ok"
  ELSE "AuthenticationFailed"

(* Faulty variant: the longest ciphertext is refused.                      *)
handle_decrypt_Short(req) ==
  LET ct_len == req.data_len - GCM_TAG_SIZE
      r == decrypt_aead(req, ct_len)
  IN  IF ~parse_algo(req.algo) THEN Refused("UnknownAlgorithm")
      ELSE IF req.data_len \notin GCM_TAG_SIZE .. CRYPTO_DATA_LEN - 1 THEN Refused("InvalidDataLength")
      ELSE IF req.algo \notin Aead THEN Refused("UnknownAlgorithm")
      ELSE IF r # "Ok" THEN Refused(r)
      ELSE write_ok_reply(req.algo, ct_len, req.data.data)

handle_decrypt(req) ==
  LET ct_len == req.data_len - GCM_TAG_SIZE
      r == decrypt_aead(req, ct_len)
  IN  IF ~parse_algo(req.algo) THEN Refused("UnknownAlgorithm")
      ELSE IF req.data_len \notin GCM_TAG_SIZE .. CRYPTO_DATA_LEN THEN Refused("InvalidDataLength")
      ELSE IF req.algo \notin Aead THEN Refused("UnknownAlgorithm")
      ELSE IF r # "Ok" THEN Refused(r)
      ELSE write_ok_reply(req.algo, ct_len, req.data.data)

(* HMAC keys longer than a block are hashed first.                         *)
hmac_sha256_multi(key, key_len, parts) ==
  [kind |-> "hmac", parts |-> parts,
   key |-> IF key_len > SHA256_BLOCK_SIZE THEN <<"sha256", key>> ELSE <<"key", key>>]

hkdf_extract(salt, salt_len, ikm) == hmac_sha256_multi(salt, salt_len, <<ikm>>)

(* The loop of hkdf_expand for n octets, from T(c) on: block c, chained to *)
(* the one before it, gives the next octets.                               *)
hkdf_expand(n) ==
  LET loop[c \in 1 .. (HKDF_MAX_OUTPUT \div SHA256_OUTPUT_SIZE) + 2] ==
        LET produced == SHA256_OUTPUT_SIZE * (c - 1)
        IN  IF produced >= n THEN <<>>
            ELSE <<[counter |-> c, prev |-> c - 1,
                    take |-> Lesser(SHA256_OUTPUT_SIZE, n - produced)]>> \o loop[c + 1]
  IN  IF n > HKDF_MAX_OUTPUT \/ n > 255 * SHA256_OUTPUT_SIZE
        THEN [r |-> "OutputTooLarge", okm |-> <<>>]
      ELSE [r |-> "Ok", okm |-> loop[1]]

handle_hash(req, lib) ==
  IF ~parse_algo(req.algo) THEN Refused("UnknownAlgorithm")
  ELSE IF req.data_len > CRYPTO_DATA_LEN THEN Refused("InvalidDataLength")
  ELSE IF req.algo \notin DOMAIN DigestSize THEN Refused("UnknownAlgorithm")
  ELSE IF req.algo = "HmacSha256" /\ req.key_len > SHA256_BLOCK_SIZE
    THEN Refused("InvalidKeyLength")
  ELSE IF req.algo = "Blake3" /\ lib = "Err" THEN Refused("InvalidRequest")
  ELSE write_ok_reply(req.algo, DigestSize[req.algo],
         IF req.algo = "HmacSha256"
           THEN hmac_sha256_multi(req.key, req.key_len, <<req.data>>)
           ELSE [kind |-> "digest", of |-> req.data, len |-> req.data_len])

(* The first two octets of the data are the wanted length, okm_len.        *)
handle_kdf(req) ==
  LET e == hkdf_expand(req.okm_len)
  IN  IF req.algo # "HkdfSha256" THEN Refused("UnknownAlgorithm")
      ELSE IF req.key_len > 32 THEN Refused("InvalidKeyLength")
      ELSE IF req.nonce_len > 12 THEN Refused("InvalidNonceLength")
      ELSE IF req.data_len \notin 2 .. CRYPTO_DATA_LEN THEN Refused("InvalidDataLength")
      ELSE IF req.okm_len = 0 \/ req.okm_len > HKDF_MAX_OUTPUT THEN Refused("OutputTooLarge")
      ELSE IF e.r # "Ok" THEN Refused(e.r)
      ELSE write_ok_reply(req.algo, req.okm_len,
             [kind |-> "okm", blocks |-> e.okm,
              prk |-> hkdf_extract(req.nonce, req.nonce_len, req.key)])

handle_sign(req) ==
  IF ~parse_algo(req.algo) THEN Refused("UnknownAlgorithm")
  ELSE IF req.data_len > CRYPTO_DATA_LEN THEN Refused("InvalidDataLength")
  ELSE IF req.algo \notin DOMAIN Signer THEN Refused("UnknownAlgorithm")
  ELSE IF req.key_len # Signer[req.algo].sk THEN Refused("InvalidKeyLength")
  ELSE write_ok_reply(req.algo, Signer[req.algo].sig,
         [kind |-> "signature", key |-> req.key, of |-> req.data])

handle_verify(req, lib) ==
  IF req.algo \notin DOMAIN Verifier THEN Refused("UnknownAlgorithm")
  ELSE IF req.key_len # Verifier[req.algo].pk THEN Refused("InvalidKeyLength")
  ELSE IF req.data_len \notin Verifier[req.algo].sig .. CRYPTO_DATA_LEN
    THEN Refused("InvalidDataLength")
  ELSE IF lib = "Err" THEN Refused("AuthenticationFailed")
  ELSE write_ok_reply(req.algo, 1, [kind |-> "valid"])

handle_dh(req, lib) ==
  IF req.algo # "X448Dh" THEN Refused("UnknownAlgorithm")
  ELSE IF req.key_len # X448_SIZE THEN Refused("InvalidKeyLength")
  ELSE IF req.data_len # X448_SIZE THEN Refused("InvalidDataLength")
  ELSE IF lib = "Err" THEN Refused("AuthenticationFailed")
  ELSE write_ok_reply(req.algo, X448_SIZE,
         [kind |-> "shared", key |-> req.key, peer |-> req.data])

(* The handler a request goes to, and the kind of its reply.               *)
CryptoHandled(m, lib) ==
  CASE m.type = "EncryptReq"   -> [type |-> "EncryptResp", a |-> handle_encrypt(m.body, lib)]
    [] m.type = "DecryptReq"   -> [type |-> "DecryptResp", a |-> handle_decrypt(m.body)]
    [] m.type = "HashReq"      -> [type |-> "HashResp", a |-> handle_hash(m.body, lib)]
    [] m.type = "KeyDeriveReq" -> [type |-> "KeyDeriveResp", a |-> handle_kdf(m.body)]
    [] m.type = "SignReq"      -> [type |-> "SignResp", a |-> handle_sign(m.body)]
    [] m.type = "VerifyReq"    -> [type |-> "VerifyResp", a |-> handle_verify(m.body, lib)]
    [] m.type = "DhReq"        -> [type |-> "DhResp", a |-> handle_dh(m.body, lib)]
    [] OTHER -> [type |-> "Error", a |-> Refused("InvalidRequest")]

(* A request answered: kind, length and payload of the reply.  An error is *)
(* one octet of a wiped buffer.                                            *)
CryptoAnswer(m, lib) ==
  LET h == CryptoHandled(m, lib)
  IN  IF m.len < CRYPTO_PAYLOAD_SIZE
        THEN [type |-> "Error", len |-> 1, body |-> Refused("InvalidRequest")]
      ELSE IF h.a.r # "Ok" THEN [type |-> "Error", len |-> 1, body |-> h.a]
      ELSE [type |-> h.type, len |-> CRYPTO_PAYLOAD_SIZE, body |-> h.a]
=============================================================================
