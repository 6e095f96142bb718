--------------------------- MODULE MCGameServers ----------------------------
(* Instances of GameServers for TLC.                                       *)
EXTENDS GameServers, TLC

CONSTANTS h1, h2, v1, v2, p1, p2, o1, o2, r1, r2

MCSymmetry ==
    Permutations(Hosts) \cup Permutations(Servers) \cup Permutations(Ports) \cup Permutations(Ops)
    \cup Permutations(Reporters)

=============================================================================
