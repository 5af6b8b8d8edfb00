-------------------------- MODULE MCFrameAllocator --------------------------
(* Eight frames of four octets in four words.  The maps have regions that  *)
(* start and end inside a frame, overlap, are too short for a frame, lie   *)
(* beyond the bitmap, or are one more than the array holds.  The           *)
(* capability table, which is a value, is looked at beside it.             *)
EXTENDS FrameAllocator, CapabilitySpace

Ram(base, length) == [base |-> base, length |-> length, kind |-> "Usable"]
Rsv(base, length) == [base |-> base, length |-> length, kind |-> "Reserved"]

MCMaps ==
  {<<>>,
   <<Ram(0, 24)>>,
   <<Ram(1, 10), Rsv(11, 2), Ram(13, 11)>>,
   <<Ram(15, 20), Ram(6, 11)>>,
   <<Ram(9, 3), Ram(9, 5), Ram(28, 12), Rsv(0, 4), Ram(16, 4)>>,
   <<Rsv(0, 3), Ram(3, 6), Rsv(9, 1), Ram(10, 14), Ram(0, 24)>>}

(* After every history of mint, derive and revoke a capability of a        *)
(* CapabilitySpace has only rights that were minted for its token, and     *)
(* find_by_token finds the lowest slot of a token.  A statement about      *)
(* values: it holds before anything has run, where TLC evaluates it, and   *)
(* does not depend on it.                                                  *)
RightsAttenuate == phase = "map" => NeverAmplified
=============================================================================
