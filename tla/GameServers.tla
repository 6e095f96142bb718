---------------------------- MODULE GameServers -----------------------------
(***************************************************************************)
(* Game servers: the server actions that deploy, start, stop, restart and  *)
(* delete them (src/server/actions/servers.ts), the commands these send to *)
(* the host's agent, and the reports the agent sends back                  *)
(* (handleServerStatusChange in src/server/ws/agent-handler.ts).           *)
(*                                                                         *)
(* Every awaited statement is one action; between two of them the other    *)
(* actions, the reports and the network go on.  Of a connection (see       *)
(* AgentGateway) only what sendToHost sees is kept: is there one.          *)
(***************************************************************************)
EXTENDS Naturals, Sequences

CONSTANTS
    Hosts,      \* paired hosts of one user
    Servers,    \* ids the rows of game servers will get
    Ports,      \* ports servers are deployed on
    Ops,        \* server actions that can be under way at the same time
    Reporters,  \* status reports that can be handled at the same time
    Confused,   \* TRUE: agents also report on servers that are not theirs
    None,       \* undefined
    MaxQueue,   \* bound on the messages under way in each direction
    MaxDrops    \* bound on the connections that break

VARIABLES
    row,         \* the game_servers rows
    removed,     \* hosts with deleted_at set
    op,          \* the server actions under way
    rep,         \* the runs of handleServerStatusChange
    up,          \* is there an open connection to the host's agent
    toAgent,     \* commands under way, by host
    toPlatform,  \* reports under way, by host
    real,        \* what the agent has made of each server on its machine
    drops

vars == <<row, removed, op, rep, up, toAgent, toPlatform, real, drops>>

Statuses == {"deploying", "running", "stopped", "crashed", "deleting"}
Reportable == {"deploying", "running", "stopped", "crashed"}
Lifecycle == {"start_server", "stop_server", "restart_server"}
Commands == Lifecycle \cup {"deploy_server", "delete_server"}

Row == [host : Hosts, port : Ports, status : Statuses, deleted : BOOLEAN]

Idle == [pc |-> "idle", kind |-> None, server |-> None, host |-> None, port |-> None]
Op == [pc : {"idle", "load", "tombstone", "host", "port", "insert", "send"},
       kind : Commands \cup {None}, server : Servers \cup {None},
       host : Hosts \cup {None}, port : Ports \cup {None}]

NoReport == [pc |-> "idle", host |-> None, server |-> None, status |-> None]
Report == [pc : {"idle", "read", "write"}, host : Hosts \cup {None},
           server : Servers \cup {None}, status : Reportable \cup {None}]

ASSUME NoneAssumption ==
    None \notin Hosts \cup Servers \cup Ports \cup Statuses \cup Commands \cup Row
ASSUME BoundsAssumption == MaxQueue \in Nat /\ MaxDrops \in Nat /\ Confused \in BOOLEAN

TypeOK ==
    /\ row \in [Servers -> Row \cup {None}]
    /\ removed \subseteq Hosts
    /\ op \in [Ops -> Op]
    /\ rep \in [Reporters -> Report]
    /\ up \in [Hosts -> BOOLEAN]
    /\ toAgent \in [Hosts -> Seq([type : Commands, server : Servers])]
    /\ toPlatform \in [Hosts -> Seq([server : Servers, status : Reportable])]
    /\ real \in [Servers -> Reportable \cup {"absent"}]
    /\ drops \in 0 .. MaxDrops

Init ==
    /\ row = [s \in Servers |-> None]
    /\ removed = {}
    /\ op = [o \in Ops |-> Idle]
    /\ rep = [r \in Reporters |-> NoReport]
    /\ up = [h \in Hosts |-> TRUE]
    /\ toAgent = [h \in Hosts |-> <<>>]
    /\ toPlatform = [h \in Hosts |-> <<>>]
    /\ real = [s \in Servers |-> "absent"]
    /\ drops = 0

Live(s) == row[s] # None /\ ~row[s].deleted

-----------------------------------------------------------------------------
(* Server actions.                                                         *)

(* Bound: a new action waits until the commands under way are few.         *)
Begin(o, new) ==
    /\ op[o].pc = "idle"
    /\ \A h \in Hosts : Len(toAgent[h]) < MaxQueue
    /\ op' = [op EXCEPT ![o] = new]
    /\ UNCHANGED <<row, removed, rep, up, toAgent, toPlatform, real, drops>>

BeginDeploy(o, h, p) ==
    Begin(o, [Idle EXCEPT !.pc = "host", !.kind = "deploy_server", !.host = h, !.port = p])

BeginOther(o, kind, s) ==
    /\ row[s] # None
    /\ Begin(o, [Idle EXCEPT !.pc = "load", !.kind = kind, !.server = s])

(* The action goes on, or answers and is over.                             *)
Continue(o, pc) == op' = [op EXCEPT ![o].pc = pc]
Return(o) == op' = [op EXCEPT ![o] = Idle]

(* deployServer finds the host and the game, or answers NOT_FOUND.         *)
FindHost(o) ==
    /\ op[o].pc = "host"
    /\ \/ op[o].host \notin removed /\ Continue(o, "port")
       \/ Return(o)
    /\ UNCHANGED <<row, removed, rep, up, toAgent, toPlatform, real, drops>>

(* MUTANT: a server that is still being deployed does not count.           *)
PortTakenOnceRunning(h, p) ==
    \E s \in Servers : Live(s) /\ row[s].host = h /\ row[s].port = p
                               /\ row[s].status \notin {"deleting", "deploying"}

(* A server of host h that is not deleted has port p.                      *)
PortTaken(h, p) ==
    \E s \in Servers : Live(s) /\ row[s].host = h /\ row[s].port = p
                               /\ row[s].status # "deleting"

CheckPort(o) ==
    /\ op[o].pc = "port"
    /\ IF PortTaken(op[o].host, op[o].port) THEN Return(o) ELSE Continue(o, "insert")
    /\ UNCHANGED <<row, removed, rep, up, toAgent, toPlatform, real, drops>>

Insert(o, s) ==
    /\ op[o].pc = "insert"
    /\ row[s] = None
    /\ row' = [row EXCEPT ![s] = [host |-> op[o].host, port |-> op[o].port,
                                  status |-> "deploying", deleted |-> FALSE]]
    /\ op' = [op EXCEPT ![o] = [@ EXCEPT !.pc = "send", !.server = s]]
    /\ UNCHANGED <<removed, rep, up, toAgent, toPlatform, real, drops>>

(* MUTANT: deleted servers are found as well.                              *)
LoadDeletedServer(o) ==
    LET s == op[o].server IN
    /\ op[o].pc = "load"
    /\ IF row[s].host \notin removed
       THEN Continue(o, IF op[o].kind = "delete_server" THEN "tombstone" ELSE "send")
       ELSE Return(o)
    /\ UNCHANGED <<row, removed, rep, up, toAgent, toPlatform, real, drops>>

(* loadOwnedServer.                                                        *)
LoadOwnedServer(o) ==
    LET s == op[o].server IN
    /\ op[o].pc = "load"
    /\ IF Live(s) /\ row[s].host \notin removed
       THEN Continue(o, IF op[o].kind = "delete_server" THEN "tombstone" ELSE "send")
       ELSE Return(o)
    /\ UNCHANGED <<row, removed, rep, up, toAgent, toPlatform, real, drops>>

(* MUTANT: a status of its own for tombstones.                             *)
TombstoneAsDeleted(o) ==
    LET s == op[o].server IN
    /\ op[o].pc = "tombstone"
    /\ row' = [row EXCEPT ![s] = [@ EXCEPT !.status = "deleted", !.deleted = TRUE]]
    /\ Continue(o, "send")
    /\ UNCHANGED <<removed, rep, up, toAgent, toPlatform, real, drops>>

(* MUTANT: a server that has crashed is not worth a command.               *)
TombstoneWithoutSend(o) ==
    LET s == op[o].server IN
    /\ op[o].pc = "tombstone"
    /\ row' = [row EXCEPT ![s] = [@ EXCEPT !.status = "deleting", !.deleted = TRUE]]
    /\ IF row[s].status = "crashed" THEN Return(o) ELSE Continue(o, "send")
    /\ UNCHANGED <<removed, rep, up, toAgent, toPlatform, real, drops>>

(* deleteServer marks the row, which frees its port at once.               *)
Tombstone(o) ==
    LET s == op[o].server IN
    /\ op[o].pc = "tombstone"
    /\ row' = [row EXCEPT ![s] = [@ EXCEPT !.status = "deleting", !.deleted = TRUE]]
    /\ Continue(o, "send")
    /\ UNCHANGED <<removed, rep, up, toAgent, toPlatform, real, drops>>

(* sendToHost: without a connection the command is dropped, and only the   *)
(* lifecycle actions tell the user.                                        *)
Send(o) ==
    LET s == op[o].server  h == row[s].host IN
    /\ op[o].pc = "send"
    /\ toAgent' = IF up[h]
                  THEN [toAgent EXCEPT ![h] = Append(@, [type |-> op[o].kind, server |-> s])]
                  ELSE toAgent
    /\ Return(o)
    /\ UNCHANGED <<row, removed, rep, up, toPlatform, real, drops>>

(* A statement fails and the action throws.                                *)
OpFails(o) ==
    /\ op[o].pc \notin {"idle", "send"}
    /\ Return(o)
    /\ UNCHANGED <<row, removed, rep, up, toAgent, toPlatform, real, drops>>

(* removeHost: its servers' rows stay as they are.                         *)
RemoveHost(h) ==
    /\ h \notin removed
    /\ removed' = removed \cup {h}
    /\ UNCHANGED <<row, op, rep, up, toAgent, toPlatform, real, drops>>

-----------------------------------------------------------------------------
(* handleServerStatusChange.                                               *)

(* The message listener takes the next report and issues its findFirst.    *)
Arrive(r, h) ==
    /\ rep[r].pc = "idle"
    /\ toPlatform[h] # <<>>
    /\ LET msg == Head(toPlatform[h]) IN
       rep' = [rep EXCEPT ![r] = [pc |-> "read", host |-> h, server |-> msg.server,
                                  status |-> msg.status]]
    /\ toPlatform' = [toPlatform EXCEPT ![h] = Tail(@)]
    /\ UNCHANGED <<row, removed, op, up, toAgent, real, drops>>

(* MUTANT: the row is looked up by its id alone.                           *)
ReadAnyRow(r) ==
    LET s == rep[r].server IN
    /\ rep[r].pc = "read"
    /\ IF row[s] # None
       THEN rep' = [rep EXCEPT ![r].pc = "write"]
       ELSE rep' = [rep EXCEPT ![r] = NoReport]
    /\ UNCHANGED <<row, removed, op, up, toAgent, toPlatform, real, drops>>

(* A server of another host, or of none, is ignored; a deleted one is not. *)
Read(r) ==
    LET s == rep[r].server IN
    /\ rep[r].pc = "read"
    /\ IF row[s] # None /\ row[s].host = rep[r].host
       THEN rep' = [rep EXCEPT ![r].pc = "write"]
       ELSE rep' = [rep EXCEPT ![r] = NoReport]
    /\ UNCHANGED <<row, removed, op, up, toAgent, toPlatform, real, drops>>

(* MUTANT: a server that is being deployed keeps its status.               *)
WriteUnlessDeploying(r) ==
    LET s == rep[r].server IN
    /\ rep[r].pc = "write"
    /\ row' = [row EXCEPT ![s].status = IF @ = "deploying" THEN @ ELSE rep[r].status]
    /\ rep' = [rep EXCEPT ![r] = NoReport]
    /\ UNCHANGED <<removed, op, up, toAgent, toPlatform, real, drops>>

(* The UPDATE.  The notice that may follow is in module Preferences.       *)
Write(r) ==
    LET s == rep[r].server IN
    /\ rep[r].pc = "write"
    /\ row' = [row EXCEPT ![s].status = rep[r].status]
    /\ rep' = [rep EXCEPT ![r] = NoReport]
    /\ UNCHANGED <<removed, op, up, toAgent, toPlatform, real, drops>>

-----------------------------------------------------------------------------
(* The agents, as far as the platform relies on them, and the network.     *)

(* What a command makes of a server in the given state.                    *)
Effect(type, state) ==
    CASE type = "deploy_server" -> "deploying"
      [] type = "delete_server" -> "absent"
      [] type = "stop_server" /\ state \in {"running", "crashed", "stopped"} -> "stopped"
      [] type \in {"start_server", "restart_server"} /\ state \in {"running", "crashed", "stopped"}
            -> "running"
      [] OTHER -> state

(* The agent reports the new state; a deleted server as stopped.           *)
Reported(state) == IF state = "absent" THEN "stopped" ELSE state

Tell(h, s, status) ==
    toPlatform' = IF up[h]
                  THEN [toPlatform EXCEPT ![h] = Append(@, [server |-> s, status |-> status])]
                  ELSE toPlatform

AgentObeys(h) ==
    /\ toAgent[h] # <<>>
    /\ Len(toPlatform[h]) < MaxQueue
    /\ LET cmd == Head(toAgent[h])
           new == Effect(cmd.type, real[cmd.server])
       IN  /\ real' = [real EXCEPT ![cmd.server] = new]
           /\ Tell(h, cmd.server, Reported(new))
    /\ toAgent' = [toAgent EXCEPT ![h] = Tail(@)]
    /\ UNCHANGED <<row, removed, op, rep, up, drops>>

(* An installation ends; a running server crashes.                         *)
AgentReports(h, s) ==
    /\ row[s] # None /\ row[s].host = h
    /\ Len(toPlatform[h]) < MaxQueue
    /\ \E new \in CASE real[s] = "deploying" -> {"running", "crashed"}
                    [] real[s] = "running" -> {"crashed"}
                    [] OTHER -> {} :
          real' = [real EXCEPT ![s] = new] /\ Tell(h, s, new)
    /\ UNCHANGED <<row, removed, op, rep, up, toAgent, drops>>

(* A report on a server that is not the agent's.  Bound: one at a time, so *)
(* that they do not fill the queue for ever.                               *)
AgentErrs(h, s, status) ==
    /\ Confused
    /\ up[h] /\ toPlatform[h] = <<>>
    /\ row[s] # None /\ row[s].host # h
    /\ Tell(h, s, status)
    /\ UNCHANGED <<row, removed, op, rep, up, toAgent, real, drops>>

(* The connection breaks, and whatever is under way with it.               *)
Drop(h) ==
    /\ up[h]
    /\ drops < MaxDrops
    /\ drops' = drops + 1
    /\ up' = [up EXCEPT ![h] = FALSE]
    /\ toAgent' = [toAgent EXCEPT ![h] = <<>>]
    /\ toPlatform' = [toPlatform EXCEPT ![h] = <<>>]
    /\ UNCHANGED <<row, removed, op, rep, real>>

(* The agent is back; the platform sends it nothing but hello_ack.         *)
Reconnect(h) ==
    /\ ~up[h]
    /\ h \notin removed
    /\ up' = [up EXCEPT ![h] = TRUE]
    /\ UNCHANGED <<row, removed, op, rep, toAgent, toPlatform, real, drops>>

-----------------------------------------------------------------------------
Step(o) ==
    \/ FindHost(o) \/ CheckPort(o) \/ (\E s \in Servers : Insert(o, s))
    \/ LoadOwnedServer(o) \/ Tombstone(o) \/ Send(o)

Handle(r) == (\E h \in Hosts : Arrive(r, h)) \/ Read(r) \/ Write(r)

Next ==
    \/ \E o \in Ops, h \in Hosts, p \in Ports : BeginDeploy(o, h, p)
    \/ \E o \in Ops, kind \in Lifecycle \cup {"delete_server"}, s \in Servers :
          BeginOther(o, kind, s)
    \/ \E o \in Ops : Step(o) \/ OpFails(o)
    \/ \E r \in Reporters : Handle(r)
    \/ \E h \in Hosts : RemoveHost(h) \/ AgentObeys(h) \/ Drop(h) \/ Reconnect(h)
    \/ \E h \in Hosts, s \in Servers : AgentReports(h, s)
    \/ \E h \in Hosts, s \in Servers, status \in {"running", "stopped"} : AgentErrs(h, s, status)

Spec == Init /\ [][Next]_vars

(* Actions and handlers continue, the reports of every host get their turn *)
(* (more than Reporters of them may be handled at once: hence SF), and a   *)
(* connected agent works off its commands.  Connections need not come back.*)
Fairness ==
    /\ \A o \in Ops : WF_vars(Step(o))
    /\ \A r \in Reporters : WF_vars(Read(r) \/ Write(r))
    /\ \A h \in Hosts : SF_vars(\E r \in Reporters : Arrive(r, h))
    /\ \A h \in Hosts : WF_vars(AgentObeys(h))

FairSpec == Spec /\ Fairness

-----------------------------------------------------------------------------
(* No two servers of a host that are not deleted have the same port: what  *)
(* the port-conflict check of deployServer is for.                         *)
PortsExclusive ==
    \A s, t \in Servers :
        Live(s) /\ Live(t) /\ row[s].host = row[t].host /\ row[s].port = row[t].port => s = t

(* Nor do two servers that are installed on a machine, unless a connection *)
(* broke: the command that deletes the old one is ahead of the command     *)
(* that deploys the new one.                                               *)
PortsExclusiveOnHost ==
    \A s, t \in Servers :
        /\ drops = 0
        /\ real[s] # "absent" /\ real[t] # "absent"
        /\ row[s].host = row[t].host /\ row[s].port = row[t].port
        => s = t

(* A port of a host is one server's, for the platform and on the machine.  *)
PortsAreExclusive == PortsExclusive /\ PortsExclusiveOnHost

(* The agent is never told to do anything with a server after it was told  *)
(* to delete it.                                                           *)
NothingAfterDelete ==
    \A h \in Hosts : \A i, j \in 1 .. Len(toAgent[h]) :
        toAgent[h][i].server = toAgent[h][j].server /\ toAgent[h][i].type = "delete_server"
        => j <= i

(* Nothing about s is under way.                                           *)
Quiet(s) ==
    /\ \A i \in 1 .. Len(toPlatform[row[s].host]) : toPlatform[row[s].host][i].server # s
    /\ \A r \in Reporters : rep[r].server # s

(* Unless a connection broke, the status of a server on the dashboard is   *)
(* the one its agent reported last, once the reports are handled.          *)
StatusIsLastReport ==
    \A s \in Servers :
        Live(s) /\ real[s] # "absent" /\ drops = 0 /\ Quiet(s) => row[s].status = real[s]

(* An agent changes only the rows of its own host's servers.               *)
HostIsolation ==
    [][\A s \in Servers, r \in Reporters :
          Write(r) /\ row'[s] # row[s] => row[s].host = rep[r].host]_vars

(* A deleted server whose host stays connected is cleaned up there.        *)
DeletedIsCleanedUp ==
    \A s \in Servers :
        <>[](row[s] # None /\ row[s].deleted /\ up[row[s].host]) => <>[](real[s] = "absent")

=============================================================================
