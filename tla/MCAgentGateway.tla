--------------------------- MODULE MCAgentGateway ---------------------------
(* Instances of AgentGateway for TLC.                                      *)
EXTENDS AgentGateway, TLC

CONSTANTS h1, h2, s1, s2, s3

MCSymmetry == Permutations(Sockets)

=============================================================================
