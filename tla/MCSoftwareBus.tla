--------------------------- MODULE MCSoftwareBus ---------------------------
(* A ring of four cells, digests of two, a nonce counter that ends at 3.   *)
EXTENDS SoftwareBus

A == << <<"raw", 1>>, 1 >>
B == << <<"raw", 2>>, 1 >>

MCInits == {<<>>, <<0, 0>>, <<1>>, <<2, 0>>, <<3>>, <<1, 1>>}
MCData == {<<A>>, <<B>>, <<A, B>>, <<B, A, A>>, Pieces(<<"attest", 1, 0, 0>>, 1)}
MCEndpoints == {0, 1, 2, 3}
=============================================================================
