---------------------------- MODULE AgentGateway ----------------------------
(***************************************************************************)
(* The agent side of the custom server: handleAgentSocket, its message and *)
(* close handlers and markOfflineIfStale (src/server/ws/agent-handler.ts), *)
(* with removeHost (src/server/actions/hosts.ts), which takes a host away  *)
(* under a connected agent.                                                *)
(*                                                                         *)
(* Everything between two awaits of the event loop is one action.  An      *)
(* awaited statement is two: the database executes it, then the handler    *)
(* continues with the result; other handlers run in between, and the       *)
(* statements of different handlers are executed in any order (they travel *)
(* over different connections of the pool).                                *)
(*                                                                         *)
(* Time is kept as ages: how long ago a connection was last heard from and *)
(* how long ago its timer was armed.                                       *)
(***************************************************************************)
EXTENDS Naturals

CONSTANTS
    Hosts,          \* paired hosts
    Sockets,        \* WebSocket connections agents will open; each opens once
    None,           \* undefined and null
    OfflineAfter,   \* OFFLINE_AFTER_MS, in ticks
    TimerSlack,     \* ticks by which every timer fires late: 0 or more
    HelloInTime,    \* TRUE: a hello arrives, and is written, while its connection is fresh
    MaxRestarts,    \* bound on the restarts of the platform
    MaxDbFailures   \* bound on the statements that fail

VARIABLES
    hostRow,      \* the hosts rows
    connections,  \* the Map from a host to the connection that speaks for it
    conn,         \* what the platform and the network know of each socket
    offliner,     \* the runs of markOfflineIfStale, by socket and what started them
    cached,       \* hosts with a sample in liveMetricsBus.cache
    notes,        \* the last host_online or host_offline notification, by host
    restarts, dbFailures

vars == <<hostRow, connections, conn, offliner, cached, notes, restarts, dbFailures>>

Causes == {"timer", "close"}

(* removed: deleted_at is set and the token hash is cleared.               *)
HostRow == [status : {"connecting", "online", "offline"}, removed : BOOLEAN]

(* pc: how far handleAgentSocket is.  "orphaned" is where a failed UPDATE  *)
(* leaves it, registered and without listeners.                            *)
PCs == {"unused", "lookup", "refused", "found", "marking", "marked", "orphaned", "serving", "gone"}

Links == {"open", "closing", "closed"}                      \* readyState
Silences == 0 .. OfflineAfter + 1                           \* age of lastHeartbeatAt, capped
TimerAges == (0 .. OfflineAfter + TimerSlack) \cup {None}   \* age of offlineTimer, capped
Hellos == {"none", "issued", "done"}

(* agent: the agent's end is alive.  wasOffline is kept until the notice,  *)
(* silence while the connection is registered.                             *)
Conn == [pc : PCs, host : Hosts \cup {None}, link : Links, agent : BOOLEAN,
         wasOffline : BOOLEAN, silence : Silences, timer : TimerAges, hello : Hellos]

Unused == [pc |-> "unused", host |-> None, link |-> "closed", agent |-> FALSE,
           wasOffline |-> FALSE, silence |-> 0, timer |-> None, hello |-> "none"]

(* wasOnline: the status the run read was online, for its notification.    *)
Offliner == [pc : {"idle", "reading", "writing", "written"}, wasOnline : BOOLEAN]

NoRun == [pc |-> "idle", wasOnline |-> FALSE]

ASSUME NoneAssumption == None \notin Hosts \cup Sockets \cup Nat
ASSUME BoundsAssumption ==
    /\ OfflineAfter \in Nat /\ TimerSlack \in Nat /\ HelloInTime \in BOOLEAN
    /\ MaxRestarts \in Nat /\ MaxDbFailures \in Nat

TypeOK ==
    /\ hostRow \in [Hosts -> HostRow]
    /\ connections \in [Hosts -> Sockets \cup {None}]
    /\ conn \in [Sockets -> Conn]
    /\ offliner \in [Sockets -> [Causes -> Offliner]]
    /\ cached \subseteq Hosts
    /\ notes \in [Hosts -> {"host_online", "host_offline"} \cup {None}]
    /\ restarts \in 0 .. MaxRestarts
    /\ dbFailures \in 0 .. MaxDbFailures

Init ==
    /\ hostRow = [h \in Hosts |-> [status |-> "connecting", removed |-> FALSE]]
    /\ connections = [h \in Hosts |-> None]
    /\ conn = [s \in Sockets |-> Unused]
    /\ offliner = [s \in Sockets |-> [k \in Causes |-> NoRun]]
    /\ cached = {}
    /\ notes = [h \in Hosts |-> None]
    /\ restarts = 0
    /\ dbFailures = 0

Host(s) == conn[s].host

(* createNotification for the owner of h.                                  *)
Notify(h, kind) == notes' = [notes EXCEPT ![h] = kind]

SetStatus(h, status) == hostRow' = [hostRow EXCEPT ![h].status = status]

DbFails ==
    /\ dbFailures < MaxDbFailures
    /\ dbFailures' = dbFailures + 1

-----------------------------------------------------------------------------
(* handleAgentSocket.                                                      *)

(* An agent opens a socket with h's token, and findFirst is issued.        *)
Connect(s, h) ==
    /\ conn[s].pc = "unused"
    /\ conn' = [conn EXCEPT ![s] =
                   [@ EXCEPT !.pc = "lookup", !.host = h, !.link = "open", !.agent = TRUE]]
    /\ UNCHANGED <<hostRow, connections, offliner, cached, notes, restarts, dbFailures>>

(* socket.close(): the close event comes later, when the peer has answered *)
(* or the closing handshake has timed out.                                 *)
Closing(link) == IF link = "open" THEN "closing" ELSE link

(* findFirst finds the row by token hash, unless the host was removed.     *)
LookUp(s) ==
    /\ conn[s].pc = "lookup"
    /\ \/ /\ hostRow[Host(s)].removed
          /\ conn' = [conn EXCEPT ![s] = [@ EXCEPT !.pc = "refused", !.link = Closing(conn[s].link)]]
       \/ /\ ~hostRow[Host(s)].removed
          /\ conn' = [conn EXCEPT ![s] =
                [@ EXCEPT !.pc = "found", !.wasOffline = hostRow[Host(s)].status # "online"]]
    /\ UNCHANGED <<hostRow, connections, offliner, cached, notes, restarts, dbFailures>>

(* MUTANT: the socket that is replaced is not closed.                      *)
RegisterKeepsOld(s) ==
    /\ conn[s].pc = "found"
    /\ connections' = [connections EXCEPT ![Host(s)] = s]
    /\ conn' = [conn EXCEPT ![s] = [@ EXCEPT !.pc = "marking", !.silence = 0]]
    /\ UNCHANGED <<hostRow, offliner, cached, notes, restarts, dbFailures>>

(* The connection replaces the one the host had, and the UPDATE is issued. *)
(* Nobody looks whether the socket is still open.                          *)
Register(s) ==
    /\ conn[s].pc = "found"
    /\ connections' = [connections EXCEPT ![Host(s)] = s]
    /\ conn' = [t \in Sockets |->
           IF t = s THEN [conn[t] EXCEPT !.pc = "marking", !.silence = 0]
           ELSE IF t = connections[Host(s)] THEN [conn[t] EXCEPT !.link = Closing(@), !.silence = 0]
           ELSE conn[t]]
    /\ UNCHANGED <<hostRow, offliner, cached, notes, restarts, dbFailures>>

MarkOnline(s) ==
    /\ conn[s].pc = "marking"
    /\ SetStatus(Host(s), "online")
    /\ conn' = [conn EXCEPT ![s].pc = "marked"]
    /\ UNCHANGED <<connections, offliner, cached, notes, restarts, dbFailures>>

(* findFirst or the UPDATE fails: handleAgentSocket rejects, and the       *)
(* caller has voided its promise.  The socket stays open.                  *)
AcceptFails(s) ==
    /\ conn[s].pc \in {"lookup", "marking"}
    /\ DbFails
    /\ conn' = [conn EXCEPT ![s].pc = IF @ = "lookup" THEN "refused" ELSE "orphaned"]
    /\ UNCHANGED <<hostRow, connections, offliner, cached, notes, restarts>>

(* MUTANT: no timer until the first heartbeat.                             *)
ServeWithoutTimer(s) ==
    /\ conn[s].pc = "marked"
    /\ conn' = [conn EXCEPT ![s] = [@ EXCEPT !.pc = "serving", !.wasOffline = FALSE]]
    /\ IF conn[s].wasOffline THEN Notify(Host(s), "host_online") ELSE UNCHANGED notes
    /\ UNCHANGED <<hostRow, connections, offliner, cached, restarts, dbFailures>>

(* MUTANT: connections.set comes after the awaited UPDATE.                 *)
ServeRegisters(s) ==
    /\ conn[s].pc = "marked"
    /\ connections' = [connections EXCEPT ![Host(s)] = s]
    /\ conn' = [conn EXCEPT ![s] =
                   [@ EXCEPT !.pc = "serving", !.timer = 0, !.wasOffline = FALSE]]
    /\ IF conn[s].wasOffline THEN Notify(Host(s), "host_online") ELSE UNCHANGED notes
    /\ UNCHANGED <<hostRow, offliner, cached, restarts, dbFailures>>

(* The handler goes on: notification, timer, hello_ack, listeners.         *)
Serve(s) ==
    /\ conn[s].pc = "marked"
    /\ conn' = [conn EXCEPT ![s] = 
                   [@ EXCEPT !.pc = "serving", !.timer = 0, !.wasOffline = FALSE]]
    /\ IF conn[s].wasOffline THEN Notify(Host(s), "host_online") ELSE UNCHANGED notes
    /\ UNCHANGED <<hostRow, connections, offliner, cached, restarts, dbFailures>>

-----------------------------------------------------------------------------
(* Messages.  Agents send one hello on connect, then heartbeats.           *)

CanSend(s) == conn[s].agent /\ conn[s].link # "closed"

(* Nobody listens yet: the hello is lost.                                  *)
HelloLost(s) ==
    /\ CanSend(s)
    /\ conn[s].pc \in {"lookup", "found", "marking", "marked"}
    /\ conn[s].hello = "none"
    /\ conn' = [conn EXCEPT ![s].hello = "done"]
    /\ UNCHANGED <<hostRow, connections, offliner, cached, notes, restarts, dbFailures>>

Hello(s) ==
    /\ CanSend(s)
    /\ conn[s].pc = "serving"
    /\ conn[s].hello = "none"
    /\ HelloInTime => conn[s].silence <= OfflineAfter
    /\ conn' = [conn EXCEPT ![s].hello = "issued"]
    /\ UNCHANGED <<hostRow, connections, offliner, cached, notes, restarts, dbFailures>>

(* handleHello's UPDATE is executed, or fails and is logged.               *)
HelloWrites(s) ==
    /\ conn[s].hello = "issued"
    /\ conn' = [conn EXCEPT ![s].hello = "done"]
    /\ \/ SetStatus(Host(s), "online") /\ UNCHANGED dbFailures
       \/ DbFails /\ UNCHANGED hostRow
    /\ UNCHANGED <<connections, offliner, cached, notes, restarts>>

(* handleHeartbeat; the hourly aggregate it also writes is left out here.  *)
Heartbeat(s) ==
    /\ CanSend(s)
    /\ conn[s].pc = "serving"
    /\ conn' = [conn EXCEPT ![s] = [@ EXCEPT !.silence = 0, !.timer = 0]]
    /\ cached' = cached \cup {Host(s)}
    /\ UNCHANGED <<hostRow, connections, offliner, notes, restarts, dbFailures>>

-----------------------------------------------------------------------------
(* markOfflineIfStale, for the host of s.                                  *)

(* MUTANT: a host that is connected is taken to be alive.                  *)
MarkOfflineIfGone(s, k, c) ==
    IF c # None
    THEN UNCHANGED offliner
    ELSE offliner' = [offliner EXCEPT ![s][k].pc = "reading"]

(* It returns at once if c, the host's registered connection, is fresh;    *)
(* else it issues its findFirst.                                           *)
MarkOfflineIfStale(s, k, c) ==
    IF c # None /\ conn[c].silence <= OfflineAfter
    THEN UNCHANGED offliner
    ELSE offliner' = [offliner EXCEPT ![s][k].pc = "reading"]

(* A run that the same timer started before is over by now (bound).        *)
TimerFires(s) ==
    /\ conn[s].timer = OfflineAfter + TimerSlack
    /\ HelloInTime => conn[s].hello # "issued"
    /\ offliner[s]["timer"].pc = "idle"
    /\ conn' = [conn EXCEPT ![s].timer = None]
    /\ MarkOfflineIfStale(s, "timer", connections[Host(s)])
    /\ UNCHANGED <<hostRow, connections, cached, notes, restarts, dbFailures>>

OfflinerReads(s, k) ==
    /\ offliner[s][k].pc = "reading"
    /\ offliner' = [offliner EXCEPT ![s][k] = 
                       [pc |-> "writing", wasOnline |-> hostRow[Host(s)].status = "online"]]
    /\ UNCHANGED <<hostRow, connections, conn, cached, notes, restarts, dbFailures>>

OfflinerWrites(s, k) ==
    /\ offliner[s][k].pc = "writing"
    /\ SetStatus(Host(s), "offline")
    /\ offliner' = [offliner EXCEPT ![s][k].pc = "written"]
    /\ UNCHANGED <<connections, conn, cached, notes, restarts, dbFailures>>

OfflinerEnds(s, k) ==
    /\ offliner[s][k].pc = "written"
    /\ offliner' = [offliner EXCEPT ![s][k] = NoRun]
    /\ cached' = cached \ {Host(s)}
    /\ IF offliner[s][k].wasOnline THEN Notify(Host(s), "host_offline") ELSE UNCHANGED notes
    /\ UNCHANGED <<hostRow, connections, conn, restarts, dbFailures>>

OfflinerFails(s, k) ==
    /\ offliner[s][k].pc \in {"reading", "writing"}
    /\ DbFails
    /\ offliner' = [offliner EXCEPT ![s][k] = NoRun]
    /\ UNCHANGED <<hostRow, connections, conn, cached, notes, restarts>>

-----------------------------------------------------------------------------
(* The end of a socket.                                                    *)

(* A hello that was not sent by now never will be.                         *)
Unsent(hello) == IF hello = "none" THEN "done" ELSE hello

(* MUTANT: the close event deletes whatever the Map holds for the host.    *)
CloseServedUnregisters(s) ==
    /\ conn[s].pc = "serving"
    /\ conn[s].link # "closed"
    /\ connections' = [connections EXCEPT ![Host(s)] = None]
    /\ conn' = [conn EXCEPT ![s] = [@ EXCEPT
           !.pc = "gone", !.link = "closed", !.agent = FALSE, !.hello = Unsent(conn[s].hello),
           !.silence = 0, !.timer = None]]
    /\ MarkOfflineIfStale(s, "close", None)
    /\ UNCHANGED <<hostRow, cached, notes, restarts, dbFailures>>

(* The close event of a served socket.                                     *)
CloseServed(s) ==
    LET registered == connections[Host(s)]
        left == IF registered = s THEN None ELSE registered
    IN  /\ conn[s].pc = "serving"
        /\ conn[s].link # "closed"
        /\ HelloInTime => conn[s].hello # "issued"
        /\ connections' = [connections EXCEPT ![Host(s)] = left]
        /\ conn' = [conn EXCEPT ![s] = [@ EXCEPT
               !.pc = "gone", !.link = "closed", !.agent = FALSE, !.hello = Unsent(conn[s].hello),
               !.silence = 0, !.timer = None]]
        /\ MarkOfflineIfStale(s, "close", left)
        /\ UNCHANGED <<hostRow, cached, notes, restarts, dbFailures>>

(* The close event of a socket without listeners goes unnoticed.           *)
CloseUnserved(s) ==
    /\ conn[s].pc \notin {"serving", "gone", "unused"}
    /\ conn[s].link # "closed"
    /\ conn' = [conn EXCEPT ![s] = [@ EXCEPT
           !.link = "closed", !.agent = FALSE, !.hello = Unsent(conn[s].hello)]]
    /\ UNCHANGED <<hostRow, connections, offliner, cached, notes, restarts, dbFailures>>

Close(s) == CloseServed(s) \/ CloseUnserved(s)

(* The agent's machine dies or is unplugged: no message, no close.         *)
AgentDies(s) ==
    /\ conn[s].agent
    /\ conn' = [conn EXCEPT ![s].agent = FALSE]
    /\ UNCHANGED <<hostRow, connections, offliner, cached, notes, restarts, dbFailures>>

(* The platform restarts: every socket and everything in memory is gone.   *)
(* (A statement on its way was executed before, or never is.)              *)
Restart ==
    /\ restarts < MaxRestarts
    /\ restarts' = restarts + 1
    /\ connections' = [h \in Hosts |-> None]
    /\ conn' = [s \in Sockets |-> IF conn[s].pc = "unused" THEN conn[s] ELSE
                   [Unused EXCEPT !.pc = "gone", !.host = Host(s), !.hello = "done"]]
    /\ offliner' = [s \in Sockets |-> [k \in Causes |-> NoRun]]
    /\ cached' = {}
    /\ UNCHANGED <<hostRow, notes, dbFailures>>

(* MUTANT: a status that is not one of host_status.                        *)
RemoveHostAsRemoved(h) ==
    /\ ~hostRow[h].removed
    /\ hostRow' = [hostRow EXCEPT ![h] = [status |-> "removed", removed |-> TRUE]]
    /\ UNCHANGED <<connections, conn, offliner, cached, notes, restarts, dbFailures>>

(* removeHost.  The agent's socket is not touched.                         *)
RemoveHost(h) ==
    /\ ~hostRow[h].removed
    /\ hostRow' = [hostRow EXCEPT ![h] = [status |-> "offline", removed |-> TRUE]]
    /\ UNCHANGED <<connections, conn, offliner, cached, notes, restarts, dbFailures>>

(* s is in the Map: its age is the only one that is ever asked for.        *)
Registered(s) == \E h \in Hosts : connections[h] = s

Older(age, cap) == IF age < cap THEN age + 1 ELSE cap

Tick ==
    /\ conn' = [s \in Sockets |->
           [conn[s] EXCEPT
              !.silence = IF Registered(s) THEN Older(@, OfflineAfter + 1) ELSE @,
              !.timer = IF @ = None THEN None ELSE Older(@, OfflineAfter + TimerSlack)]]
    /\ UNCHANGED <<hostRow, connections, offliner, cached, notes, restarts, dbFailures>>

-----------------------------------------------------------------------------
Accepting(s) == LookUp(s) \/ Register(s) \/ MarkOnline(s) \/ Serve(s)

Offlining(s, k) == OfflinerReads(s, k) \/ OfflinerWrites(s, k) \/ OfflinerEnds(s, k)

Next ==
    \/ \E s \in Sockets, h \in Hosts : Connect(s, h)
    \/ \E s \in Sockets : Accepting(s) \/ AcceptFails(s)
    \/ \E s \in Sockets : HelloLost(s) \/ Hello(s) \/ HelloWrites(s) \/ Heartbeat(s)
    \/ \E s \in Sockets : TimerFires(s)
    \/ \E s \in Sockets, k \in Causes : Offlining(s, k) \/ OfflinerFails(s, k)
    \/ \E s \in Sockets : Close(s) \/ AgentDies(s)
    \/ \E h \in Hosts : RemoveHost(h)
    \/ Restart
    \/ Tick

Spec == Init /\ [][Next]_vars

(* Statements are executed, handlers continue, timers fire and a socket    *)
(* that was told to close closes.  Agents and the network owe us nothing.  *)
Fairness ==
    /\ WF_vars(Tick)
    /\ \A s \in Sockets :
          /\ WF_vars(Accepting(s))
          /\ WF_vars(HelloWrites(s))
          /\ WF_vars(TimerFires(s))
          /\ \A k \in Causes : WF_vars(Offlining(s, k))
          /\ WF_vars(conn[s].link = "closing" /\ Close(s))

FairSpec == Spec /\ Fairness

-----------------------------------------------------------------------------
(* The connection that speaks for a host keeps doing so until a newer one  *)
(* takes over, its own close event arrives, or the platform restarts: the  *)
(* late close of a superseded socket never unregisters its successor.      *)
RegistrationIsStable ==
    [][\A h \in Hosts : LET s == connections[h] IN
          s # None /\ connections'[h] # s =>
              \/ conn'[s].link = "closed" /\ conn[s].link # "closed"
              \/ /\ connections'[h] # None
                 /\ conn[connections'[h]].pc = "found"
              \/ restarts' # restarts
      ]_vars

Accepted == {"marking", "marked", "orphaned", "serving"}

(* Of the sockets a host's agent was ever let in with, at most the one     *)
(* that commands are sent to stays open: every other has been told to      *)
(* close, even one that was overtaken while it was being accepted.         *)
OnlyRegisteredStaysOpen ==
    \A s \in Sockets :
        conn[s].pc \in Accepted /\ conn[s].link = "open" => connections[Host(s)] = s

Silent(h) == \A s \in Sockets : Host(s) = h => ~conn[s].agent

ShownOnline(h) == ~hostRow[h].removed /\ hostRow[h].status = "online"

(* The socket will ask yet whether the host is there: its handler has not  *)
(* come to arm the timer, the timer is armed, it is closing, or it asks.   *)
Watches(s, asking) ==
    \/ conn[s].pc \in {"marking", "marked"}
    \/ conn[s].pc = "serving" /\ (conn[s].timer # None \/ conn[s].link = "closing")
    \/ \E k \in Causes : offliner[s][k].pc \in asking

Watched(h, asking) == \E s \in Sockets : Host(s) = h /\ Watches(s, asking)

UntilWritten == {"reading", "writing"}
UntilEnded == UntilWritten \cup {"written"}

AllWatched ==
    \A h \in Hosts : /\ ShownOnline(h) => Watched(h, UntilWritten)
                     /\ h \in cached => Watched(h, UntilEnded)

(* Timers are late and hellos in time, and there was no restart and no     *)
(* statement that failed.                                                  *)
Steady == HelloInTime /\ TimerSlack > 0 /\ restarts = 0 /\ dbFailures = 0

(* No host is shown online, and no sample of its vitals is kept, with      *)
(* nobody left to notice when its agent is gone: who finds the host alive  *)
(* and lets it be leaves it to a connection that will ask again.           *)
OnlineIsWatched == Steady => AllWatched

(* A host whose agents have all gone, with or without a word, is shown     *)
(* offline in the end and stays so, and no stale sample of its vitals is   *)
(* left in the cache.                                                      *)
SilentHostGoesOffline ==
    \A h \in Hosts : <>[]Silent(h) => <>[](~ShownOnline(h) /\ h \notin cached)

-----------------------------------------------------------------------------
(* The promise about sessions.                                             *)
Over(s) ==
    \/ conn[s].pc \in {"refused", "gone"}
    \/ conn[s].pc \in Accepted /\ connections[Host(s)] # s

Sessions == INSTANCE HostSessions WITH
    current <- connections,
    over <- {s \in Sockets : Over(s)}

(* The Map implements it.                                                  *)
ImplementsSessions == Sessions!Spec

=============================================================================
