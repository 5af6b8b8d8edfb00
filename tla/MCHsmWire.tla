----------------------------- MODULE MCHsmWire -----------------------------
(* Two slots and the data path: writes, reads, relays, wire requests and   *)
(* requests nested in requests.  No client detaches: what detach does to a *)
(* token is the subject of MCHsmCaps.                                      *)
EXTENDS HsmRegistry

Request(kind, init, pk, signed) ==
  [kind |-> kind, init |-> init, pk |-> pk, signed |-> signed]

MCAttaches ==
  {Request("Software", <<>>, 7, <<7, 0>>),
   Request("Software", <<1>>, 7, <<7, 0>>),
   Request("Software", <<2>>, 7, <<7, 0>>),
   Request("Ring3Process", <<1, 0>>, 7, <<7, 1>>)}

MCSlotArgs == SlotIdx
MCMasks == {HsmRights \ {"REVOKE"}}
MCDraws == {[ok |-> TRUE, events |-> <<>>]}
MCEndpoints == {1}

Raw == Pieces(<<"raw", 1>>, 1)
Frame(cmd, req_id, payload) ==
  Pieces(<<"req", cmd, req_id, Len(payload), TRUE>>, WIRE_HEADER_LEN) \o payload
BadMagic == Pieces(<<"req", "Ping", 1, 0, FALSE>>, WIRE_HEADER_LEN)

(* The capabilities put inside requests: a token, and the slot it was      *)
(* given for or the other.                                                 *)
Inner(tokens) == {Pieces(<<"cap", Cap(t, s, HsmRights)>>, CAP_LEN) :
                    t \in tokens, s \in SlotIdx}

MCWrites(tokens) ==
  {Raw, BadMagic, Frame("Ping", 1, <<>>), Frame("Status", 2, <<>>),
   Frame("Unknown", 3, Raw),
   Frame("AttestSubmit", 5, Pieces(<<"attest", 7, 1, <<7, 1>>>>, 1)),
   Frame("AttestSubmit", 5, Pieces(<<"attest", 7, 1, <<7, 0>>>>, 1))}
  \cup {Frame("Blake3Hash", 4, cap \o Raw) : cap \in Inner(tokens)}
  \cup {Frame("Blake3Hash", 6, cap \o Frame("Ping", 1, <<>>)) : cap \in Inner(tokens)}
  \cup {Frame("Blake3Hash", 6, c1 \o Frame("Blake3Hash", 4, c2 \o Raw)) :
          c1, c2 \in Inner(tokens)}

(* The third level of nesting is never reached: the bound Wire relies on.  *)
ASSUME WritesAreShallow == \A data \in MCWrites({1}) : Shallow(data)

WithoutCall == <<slots, bus, ring, drawn, handed>>
=============================================================================
