----------------------------- MODULE MCHsmCaps -----------------------------
(* Two slots, clients that attach, use, guess at and give up capabilities. *)
EXTENDS HsmRegistry

Request(kind, init, pk, signed) ==
  [kind |-> kind, init |-> init, pk |-> pk, signed |-> signed]

MCAttaches ==
  {Request("Software", <<>>, 7, <<7, 0>>),
   Request("Software", <<2>>, 7, <<7, 0>>),
   Request("Ring3Process", <<1, 0>>, 8, <<8, 1>>),
   Request("Ring3Process", <<9, 0>>, 8, <<8, 1>>),
   Request("Ring3Process", <<1, 0>>, 7, <<7, 0>>),
   Request("Usb", <<>>, 7, <<7, 2>>),
   Request("Network", <<>>, 7, <<7, 6>>)}

MCSlotArgs == 0 .. HSM_MAX_SLOTS
MCMasks == {HsmRights, HsmRights \ {"REVOKE", "USE"}}
MCDraws ==
  {[ok |-> TRUE, events |-> <<>>], [ok |-> TRUE, events |-> <<9, 11>>],
   [ok |-> FALSE, events |-> <<9>>]}
MCWrites(tokens) == {Pieces(<<"raw", 1>>, 1)}
MCEndpoints == {0, 1, 2, 3}

(* No action reads the history of the last call.                           *)
WithoutCall == <<slots, bus, ring, auditCap, netCap, drawn, handed>>
=============================================================================
