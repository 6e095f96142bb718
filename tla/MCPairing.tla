----------------------------- MODULE MCPairing -----------------------------
(* Instances of Pairing for TLC.                                           *)
EXTENDS Pairing

CONSTANTS alice, bob, k1, k2, p1, p2

MCUsers == {alice, bob}
MCCodes == {k1, k2}
MCRequests == {p1, p2}

=============================================================================
