------------------------------ MODULE MCEspNow ------------------------------
(***************************************************************************)
(* Small instances of EspNow for TLC.                                       *)
(***************************************************************************)
EXTENDS EspNow, TLC

CONSTANTS A, B, Me, Everyone, R1, R2, R3

\* Two requests for the same peer, so that a report for one could be taken for
\* the other's.
SamePeerDst == R1 :> A @@ R2 :> A

\* A paired peer, the broadcast address, and the device itself.
MixedDst == R1 :> A @@ R2 :> Everyone @@ R3 :> Me

\* Three requests for one pool of two packets.
BusyDst == R1 :> A @@ R2 :> A @@ R3 :> B

OnePeer == <<A>>
TwoPeers == <<A, B>>
=============================================================================
