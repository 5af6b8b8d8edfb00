---------------------------- MODULE MCServices ----------------------------
(* Two callers.  Both may sign and use the polled endpoint; only a holds   *)
(* the capabilities for EP_CRYPTO and EP_SYSTEM.  b presents one without   *)
(* CALL, a wiped one and one for an endpoint that does not exist.          *)
EXTENDS Services

Cap(token, id, rights) == [token |-> token, endpoint_id |-> id, rights |-> rights]
Full(id) == Cap(1, id, {"CALL"})
NoSuchEndpoint == 4

MCCaps ==
  [a |-> {Full(id) : id \in EndpointIds},
   b |-> {Full(EP_SIGN), Full(EP_LUMEN_WIRE), Cap(1, EP_CRYPTO, {"SEND", "RECV"}),
          Cap(0, EP_CRYPTO, {"CALL"}), Full(NoSuchEndpoint)}]

Message(type, body) == [type |-> type, len |-> IPC_MAX_PAYLOAD, body |-> body]

SignBody(op, variant, offset, chunk_len, total) ==
  [op |-> op, variant |-> variant, offset |-> offset, chunk_len |-> chunk_len, total |-> total]
Begin(op, total) == Message("SignBeginReq", SignBody(op, 1, 0, BEGIN_LEN, total))
Chunk(offset, len) == Message("SignInChunkReq", SignBody("none", 0, offset, len, NoLengths))
Plain(type, offset) == Message(type, SignBody("none", 0, offset, 0, NoLengths))

SignRequests ==
  {Begin("Keygen", <<1, 0, 0>>), Begin("Keygen", <<0, 0, 0>>), Begin("Sign", <<2, 0, 1>>),
   Begin("Sign", <<2, 0, 2>>), Begin("Verify", <<1, 1, 1>>), Begin("Verify", <<0, 1, 0>>),
   Begin("none", <<0, 0, 0>>),
   Message("SignBeginReq", SignBody("Sign", 2, 0, BEGIN_LEN, <<2, 0, 1>>)),
   Message("SignBeginReq", SignBody("Sign", 1, 0, 0, <<2, 0, 1>>)),
   Chunk(0, 0), Chunk(0, 1), Chunk(1, 1), Chunk(0, 2), Chunk(0, CHUNK_SIZE + 1),
   Plain("SignExecReq", 0), Plain("SignOutChunkReq", 1), Plain("SignEndReq", 0),
   Plain("Ping", 0), [Plain("SignEndReq", 0) EXCEPT !.len = 255]}

CryptoBody(algo, key_len, nonce, data_len, okm_len) ==
  CryptoPayload(algo, key_len, 12, nonce, 1, data_len, [kind |-> "plain"], okm_len)

(* Around the limits: the tag just fits at 152 octets.                     *)
EncryptRequests ==
  {Message("EncryptReq", CryptoBody(a, 32, 1, l, 0)) : a \in Aead, l \in {0, 152, 153, 168, 169}}
    \cup {Message("EncryptReq", CryptoBody("Aes256Gcm", 31, 1, 0, 0)),
          Message("EncryptReq", CryptoBody("ChaCha20Poly", 32, ZeroNonce, 0, 0))}

CryptoRequests ==
  EncryptRequests \cup
  {Message("DecryptReq", CryptoBody("Aes256Gcm", 32, 1, 15, 0)),
   Message("DecryptReq", CryptoBody("ChaCha20Poly", 32, 1, 16, 0)),
   Message("HashReq", CryptoBody("Aes128Gcm", 0, 0, 1, 0)),
   Message("HashReq", CryptoBody("HmacSha256", 65, 0, 1, 0)),
   Message("HashReq", CryptoBody("HmacSha256", 64, 0, 168, 0)),
   Message("HashReq", CryptoBody("Blake3", 0, 0, 168, 0)),
   Message("KeyDeriveReq", CryptoBody("HkdfSha256", 32, 0, 2, 168)),
   Message("KeyDeriveReq", CryptoBody("HkdfSha256", 32, 0, 2, 169)),
   Message("SignReq", CryptoBody("Ed448Sign", 57, 0, 168, 0)),
   Message("VerifyReq", CryptoBody("Ed448Verify", 57, 0, 114, 0)),
   Message("VerifyReq", CryptoBody("Ed25519Verify", 32, 0, 63, 0)),
   Message("DhReq", CryptoBody("X448Dh", 56, 0, 56, 0)),
   Message("Ping", CryptoBody("Blake3", 0, 0, 0, 0)),
   [Message("HashReq", CryptoBody("Blake3", 0, 0, 0, 0)) EXCEPT !.len = 255]}

MCRequests ==
  [id \in 0 .. NoSuchEndpoint |->
     CASE id = EP_CRYPTO -> CryptoRequests
       [] id = EP_SIGN -> SignRequests
       [] OTHER -> {Message("Ping", 1), Message("Ping", 2), [Message("Ping", 1) EXCEPT !.len = 257]}]
=============================================================================
