----------------------------- MODULE AgentLink ------------------------------
(***************************************************************************)
(* The connection to one host's agent, as the components that only relay   *)
(* through it see it: sendToHost in src/server/ws/agent-handler.ts finds   *)
(* an open socket or does not (AgentGateway says when), messages keep      *)
(* their order, and those under way are lost when the connection breaks.   *)
(***************************************************************************)
EXTENDS Naturals, Sequences

CONSTANTS MaxQueue,  \* bound on the messages under way in each direction
          MaxDrops   \* bound on the connections that break

VARIABLES up,         \* is there an open connection
          toAgent,    \* commands under way
          toPlatform, \* the agent's messages under way
          drops

link == <<up, toAgent, toPlatform, drops>>

ASSUME LinkAssumption == MaxQueue \in Nat /\ MaxDrops \in Nat

LinkTypeOK(Command, Message) ==
    /\ up \in BOOLEAN
    /\ toAgent \in Seq(Command)
    /\ toPlatform \in Seq(Message)
    /\ drops \in 0 .. MaxDrops

LinkInit == up = TRUE /\ toAgent = <<>> /\ toPlatform = <<>> /\ drops = 0

(* sendToHost; whether it returned true is up.                             *)
SendToHost(msg) == toAgent' = IF up THEN Append(toAgent, msg) ELSE toAgent

Tell(msg) == toPlatform' = IF up THEN Append(toPlatform, msg) ELSE toPlatform

(* Bound: who starts something new waits until few messages are under way. *)
Room == Len(toAgent) < MaxQueue /\ Len(toPlatform) < MaxQueue

Drop ==
    /\ up
    /\ drops < MaxDrops
    /\ up' = FALSE
    /\ toAgent' = <<>>
    /\ toPlatform' = <<>>
    /\ drops' = drops + 1

Reconnect == ~up /\ up' = TRUE /\ UNCHANGED <<toAgent, toPlatform, drops>>

=============================================================================
