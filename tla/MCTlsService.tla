---------------------------- MODULE MCTlsService ----------------------------
(* Two PSK slots and three connections: one handshake fits with a slot to  *)
(* spare, so both ways of running out of slots occur.  Counters end at 2.  *)
EXTENDS TlsService

MCMaterials == {<<>>, <<1>>, <<1, 1>>}
MCKexes == {<<"Hybrid", "ChaCha20Poly1305Sha256">>}
MCPlaintexts == {<<1>>, <<1, 1>>}

(* No action reads the history of the last call.                           *)
WithoutCall == <<slots, pool, n, sent, pairs, sealed, got>>
=============================================================================
