---------------------------- MODULE HostSessions ----------------------------
(***************************************************************************)
(* What the gateway promises about agent connections: a host has at most   *)
(* one current session, a new session takes over from the current one, and *)
(* a session that is over never becomes current again.  AgentGateway       *)
(* implements it.                                                          *)
(***************************************************************************)
CONSTANTS
    Hosts,
    Sockets,
    None

VARIABLES
    current,   \* current[h]: the session that speaks for host h, or None
    over       \* the sockets that will never speak for a host any more

vars == <<current, over>>

Init ==
    /\ current = [h \in Hosts |-> None]
    /\ over = {}

Open(h, s) ==
    /\ s \notin over
    /\ \A g \in Hosts : current[g] # s
    /\ current' = [current EXCEPT ![h] = s]
    /\ over' = over \cup ({current[h]} \ {None})

End(h) ==
    /\ current[h] # None
    /\ current' = [current EXCEPT ![h] = None]
    /\ over' = over \cup {current[h]}

Refuse(s) ==
    /\ \A h \in Hosts : current[h] # s
    /\ over' = over \cup {s}
    /\ UNCHANGED current

(* The platform goes down, and with it every socket it had accepted.       *)
Shutdown ==
    /\ current' = [h \in Hosts |-> None]
    /\ over \cup ({current[h] : h \in Hosts} \ {None}) \subseteq over'
    /\ over' \subseteq Sockets

Next ==
    \/ \E h \in Hosts, s \in Sockets : Open(h, s)
    \/ \E h \in Hosts : End(h)
    \/ \E s \in Sockets : Refuse(s)
    \/ Shutdown

Spec == Init /\ [][Next]_vars

=============================================================================
