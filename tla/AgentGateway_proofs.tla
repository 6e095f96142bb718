------------------------ MODULE AgentGateway_proofs ------------------------
(***************************************************************************)
(* Proofs about AgentGateway, for any number of hosts and sockets: types,  *)
(* that the Map of connections is sound, that a connection keeps speaking  *)
(* for its host, and that the Map implements HostSessions.                 *)
(***************************************************************************)
EXTENDS AgentGateway, TLAPS

Dead == {"refused", "gone"}

(* Who is in the Map was let in, with a token of that host.                *)
MapSound ==
    \A h \in Hosts : connections[h] # None =>
        /\ Host(connections[h]) = h
        /\ conn[connections[h]].pc \in Accepted

(* A socket in use came with the token of a host.                          *)
HostKnown == \A s \in Sockets : conn[s].pc # "unused" => Host(s) \in Hosts

IInv == TypeOK /\ HostKnown /\ MapSound /\ OnlyRegisteredStaysOpen

(* A step that moves nobody between not yet let in, let in, and over, and  *)
(* leaves the Map and every token alone.                                   *)
Quiet ==
    /\ UNCHANGED connections
    /\ \A t \in Sockets :
          /\ conn'[t].host = conn[t].host
          /\ conn'[t].pc = "unused" <=> conn[t].pc = "unused"
          /\ conn'[t].pc \in Accepted <=> conn[t].pc \in Accepted
          /\ conn'[t].pc \in Dead <=> conn[t].pc \in Dead
          /\ conn'[t].link = "open" => conn[t].link = "open"

-----------------------------------------------------------------------------
(* Types, one lemma per group of actions that write conn alike.            *)

(* Every initial state is well typed.                                      *)
LEMMA InitType == Init => TypeOK
<1> SUFFICES ASSUME Init PROVE TypeOK
  OBVIOUS
<1>1. Unused \in Conn
  BY BoundsAssumption DEF Unused, Conn, PCs, Links, Silences, TimerAges, Hellos
<1>2. NoRun \in Offliner
  BY DEF NoRun, Offliner
<1> QED
  BY <1>1, <1>2, BoundsAssumption DEF Init, TypeOK, HostRow

(* The fields of a well-typed socket, for the lemmas below.                *)
LEMMA ConnFields ==
    ASSUME TypeOK, NEW s \in Sockets
    PROVE  /\ conn[s].pc \in PCs
           /\ conn[s].host \in Hosts \cup {None}
           /\ conn[s].link \in Links
           /\ conn[s].agent \in BOOLEAN
           /\ conn[s].wasOffline \in BOOLEAN
           /\ conn[s].silence \in Silences
           /\ conn[s].timer \in TimerAges
           /\ conn[s].hello \in Hellos
           /\ conn[s] \in Conn
  BY DEF TypeOK, Conn

(* A fresh age is an age.                                                  *)
LEMMA ZeroAge == 0 \in Silences /\ 0 \in TimerAges /\ None \in TimerAges
  BY BoundsAssumption DEF Silences, TimerAges

(* A closing link is a link, and none that is open again.                  *)
LEMMA ClosingLink ==
    ASSUME NEW l \in Links
    PROVE  Closing(l) \in Links /\ Closing(l) # "open"
  BY DEF Links, Closing

(* A step that writes only well-typed values into one socket keeps conn    *)
(* well typed.                                                             *)
LEMMA OneSocket ==
    ASSUME TypeOK, NEW s \in Sockets, NEW r \in Conn,
           conn' = [conn EXCEPT ![s] = r]
    PROVE  conn' \in [Sockets -> Conn]
  BY DEF TypeOK

(* Writing a status into a row keeps the rows well typed.                  *)
LEMMA StatusType ==
    ASSUME TypeOK, NEW h, NEW st \in {"connecting", "online", "offline"}, SetStatus(h, st)
    PROVE  hostRow' \in [Hosts -> HostRow]
  BY DEF TypeOK, SetStatus, HostRow

(* The count of failed statements stays within its bound.                  *)
LEMMA DbFailsType ==
    ASSUME TypeOK, DbFails
    PROVE  dbFailures' \in 0 .. MaxDbFailures
  BY BoundsAssumption DEF TypeOK, DbFails

(* Accepting a socket keeps the types.                                     *)
LEMMA AcceptType ==
    ASSUME TypeOK, NEW s \in Sockets,
           \/ \E h \in Hosts : Connect(s, h)
           \/ Accepting(s) \/ AcceptFails(s)
    PROVE  TypeOK'
<1> USE ConnFields, ZeroAge, ClosingLink
<1>1. ASSUME NEW h \in Hosts, Connect(s, h) PROVE TypeOK'
  <2> DEFINE r == [conn[s] EXCEPT !.pc = "lookup", !.host = h, !.link = "open", !.agent = TRUE]
  <2>1. r \in Conn
    BY DEF Conn, PCs, Links
  <2>2. conn' = [conn EXCEPT ![s] = r]
    BY <1>1 DEF Connect
  <2> QED
    BY <1>1, <2>1, <2>2, OneSocket DEF Connect, TypeOK
<1>2. ASSUME LookUp(s) PROVE TypeOK'
  <2> DEFINE no == [conn[s] EXCEPT !.pc = "refused", !.link = Closing(@)]
             yes == [conn[s] EXCEPT !.pc = "found",
                                    !.wasOffline = hostRow[Host(s)].status # "online"]
  <2>1. no \in Conn /\ yes \in Conn
    BY DEF Conn, PCs
  <2>2. \/ conn' = [conn EXCEPT ![s] = no]
        \/ conn' = [conn EXCEPT ![s] = yes]
    BY <1>2 DEF LookUp
  <2> QED
    BY <1>2, <2>1, <2>2, OneSocket DEF LookUp, TypeOK
<1>3. ASSUME Register(s) PROVE TypeOK'
  <2>1. ASSUME NEW t \in Sockets
        PROVE  /\ [conn[t] EXCEPT !.pc = "marking", !.silence = 0] \in Conn
               /\ [conn[t] EXCEPT !.link = Closing(@), !.silence = 0] \in Conn
    BY DEF Conn, PCs
  <2>2. conn' \in [Sockets -> Conn]
    BY <1>3, <2>1 DEF Register, TypeOK
  <2>3. connections' \in [Hosts -> Sockets \cup {None}]
    BY <1>3 DEF Register, TypeOK
  <2> QED
    BY <1>3, <2>2, <2>3 DEF Register, TypeOK
<1>4. ASSUME MarkOnline(s) PROVE TypeOK'
  <2>1. [conn[s] EXCEPT !.pc = "marked"] \in Conn
    BY DEF Conn, PCs
  <2> QED
    BY <1>4, <2>1, OneSocket, StatusType DEF MarkOnline, TypeOK
<1>5. ASSUME Serve(s) PROVE TypeOK'
  <2> DEFINE r == [conn[s] EXCEPT !.pc = "serving", !.timer = 0, !.wasOffline = FALSE]
  <2>1. r \in Conn
    BY DEF Conn, PCs
  <2>2. conn' = [conn EXCEPT ![s] = r]
    BY <1>5 DEF Serve
  <2>3. notes' \in [Hosts -> {"host_online", "host_offline"} \cup {None}]
    BY <1>5 DEF Serve, Notify, TypeOK
  <2> QED
    BY <1>5, <2>1, <2>2, <2>3, OneSocket DEF Serve, TypeOK
<1>6. ASSUME AcceptFails(s) PROVE TypeOK'
  <2> DEFINE r == [conn[s] EXCEPT !.pc = IF @ = "lookup" THEN "refused" ELSE "orphaned"]
  <2>1. r \in Conn
    BY DEF Conn, PCs
  <2>2. conn' = [conn EXCEPT ![s] = r]
    BY <1>6 DEF AcceptFails
  <2> QED
    BY <1>6, <2>1, <2>2, OneSocket, DbFailsType DEF AcceptFails, TypeOK
<1> QED
  BY <1>1, <1>2, <1>3, <1>4, <1>5, <1>6 DEF Accepting

(* Messages keep the types.                                                *)
LEMMA MessageType ==
    ASSUME TypeOK, HostKnown, NEW s \in Sockets,
           HelloLost(s) \/ Hello(s) \/ HelloWrites(s) \/ Heartbeat(s)
    PROVE  TypeOK'
<1> USE ConnFields, ZeroAge, ClosingLink
<1>1. ASSUME NEW x \in Hellos
      PROVE  [conn[s] EXCEPT !.hello = x] \in Conn
  BY DEF Conn
<1>2. [conn[s] EXCEPT !.silence = 0, !.timer = 0] \in Conn
  BY DEF Conn
<1>3. CASE HelloLost(s)
  BY <1>3, <1>1, OneSocket DEF HelloLost, TypeOK, Hellos
<1>4. CASE Hello(s)
  BY <1>4, <1>1, OneSocket DEF Hello, TypeOK, Hellos
<1>5. CASE HelloWrites(s)
  <2>1. hostRow' \in [Hosts -> HostRow] /\ dbFailures' \in 0 .. MaxDbFailures
    BY <1>5, StatusType, DbFailsType DEF HelloWrites, TypeOK
  <2>2. conn' \in [Sockets -> Conn]
    BY <1>5, <1>1, OneSocket DEF HelloWrites, Hellos
  <2> QED
    BY <1>5, <2>1, <2>2 DEF HelloWrites, TypeOK
<1>6. CASE Heartbeat(s)
  <2>1. conn' \in [Sockets -> Conn]
    BY <1>6, <1>2, OneSocket DEF Heartbeat
  <2>2. Host(s) \in Hosts
    BY <1>6 DEF Heartbeat, HostKnown
  <2> QED
    BY <1>6, <2>1, <2>2 DEF Heartbeat, TypeOK
<1> QED
  BY <1>3, <1>4, <1>5, <1>6

(* A run that begins is well typed.                                        *)
LEMMA MarkOfflineType ==
    ASSUME TypeOK, NEW s \in Sockets, NEW k \in Causes, NEW c, MarkOfflineIfStale(s, k, c)
    PROVE  offliner' \in [Sockets -> [Causes -> Offliner]]
<1>0. offliner[s][k] \in Offliner
  BY DEF TypeOK
<1>1. [offliner[s][k] EXCEPT !.pc = "reading"] \in Offliner
  BY <1>0 DEF Offliner
<1>2. CASE UNCHANGED offliner
  BY <1>2 DEF TypeOK
<1>3. CASE offliner' = [offliner EXCEPT ![s][k].pc = "reading"]
  BY <1>1, <1>3 DEF TypeOK
<1> QED
  BY <1>2, <1>3, Zenon DEF MarkOfflineIfStale

(* markOfflineIfStale keeps the types.                                     *)
LEMMA OfflinerType ==
    ASSUME TypeOK, NEW s \in Sockets, NEW k \in Causes,
           Offlining(s, k) \/ OfflinerFails(s, k) \/ TimerFires(s)
    PROVE  TypeOK'
<1>0. NoRun \in Offliner
  BY DEF NoRun, Offliner
<1>1. ASSUME OfflinerReads(s, k) PROVE TypeOK'
  <2>1. [pc |-> "writing", wasOnline |-> hostRow[Host(s)].status = "online"] \in Offliner
    BY DEF Offliner
  <2> QED
    BY <1>1, <2>1 DEF OfflinerReads, TypeOK
<1>2. ASSUME OfflinerWrites(s, k) PROVE TypeOK'
  <2>3. offliner[s][k] \in Offliner
    BY DEF TypeOK
  <2>1. [offliner[s][k] EXCEPT !.pc = "written"] \in Offliner
    BY <2>3 DEF Offliner
  <2>2. offliner' \in [Sockets -> [Causes -> Offliner]]
    BY <1>2, <2>1 DEF OfflinerWrites, TypeOK
  <2> QED
    BY <1>2, <2>2, StatusType DEF OfflinerWrites, TypeOK
<1>3. ASSUME OfflinerEnds(s, k) PROVE TypeOK'
  BY <1>0, <1>3 DEF OfflinerEnds, Notify, TypeOK
<1>4. ASSUME OfflinerFails(s, k) PROVE TypeOK'
  <2>1. dbFailures' \in 0 .. MaxDbFailures
    BY <1>4, DbFailsType DEF OfflinerFails
  <2> QED
    BY <1>0, <1>4, <2>1 DEF OfflinerFails, TypeOK
<1>5. ASSUME TimerFires(s) PROVE TypeOK'
  <2>1. [conn[s] EXCEPT !.timer = None] \in Conn
    BY ConnFields, ZeroAge DEF Conn
  <2>2. conn' \in [Sockets -> Conn]
    BY <1>5, <2>1, OneSocket DEF TimerFires
  <2>3. offliner' \in [Sockets -> [Causes -> Offliner]]
    BY <1>5, MarkOfflineType DEF TimerFires, Causes
  <2> QED
    BY <1>5, <2>2, <2>3 DEF TimerFires, TypeOK
<1> QED
  BY <1>1, <1>2, <1>3, <1>4, <1>5 DEF Offlining

(* The end of a socket keeps the types.                                    *)
LEMMA EndType ==
    ASSUME TypeOK, NEW s \in Sockets, Close(s) \/ AgentDies(s)
    PROVE  TypeOK'
<1>1. Unsent(conn[s].hello) \in Hellos
  BY ConnFields DEF Unsent, Hellos
<1>2. ASSUME CloseServed(s) PROVE TypeOK'
  <2> DEFINE r == [conn[s] EXCEPT
                     !.pc = "gone", !.link = "closed", !.agent = FALSE,
                     !.hello = Unsent(conn[s].hello), !.silence = 0, !.timer = None]
             left == IF connections[Host(s)] = s THEN None ELSE connections[Host(s)]
  <2>1. r \in Conn
    BY <1>1, ConnFields, ZeroAge DEF Conn, PCs, Links
  <2>2. conn' = [conn EXCEPT ![s] = r]
    BY <1>2 DEF CloseServed
  <2>3. conn' \in [Sockets -> Conn]
    BY <2>1, <2>2, OneSocket
  <2>4. connections' \in [Hosts -> Sockets \cup {None}]
    BY <1>2 DEF CloseServed, TypeOK
  <2>5. offliner' \in [Sockets -> [Causes -> Offliner]]
    BY <1>2, MarkOfflineType DEF CloseServed, Causes
  <2> QED
    BY <1>2, <2>3, <2>4, <2>5 DEF CloseServed, TypeOK
<1>3. ASSUME CloseUnserved(s) PROVE TypeOK'
  <2> DEFINE r == [conn[s] EXCEPT !.link = "closed", !.agent = FALSE,
                                  !.hello = Unsent(conn[s].hello)]
  <2>1. r \in Conn
    BY <1>1, ConnFields DEF Conn, Links
  <2>2. conn' = [conn EXCEPT ![s] = r]
    BY <1>3 DEF CloseUnserved
  <2>3. conn' \in [Sockets -> Conn]
    BY <2>1, <2>2, OneSocket
  <2> QED
    BY <1>3, <2>3 DEF CloseUnserved, TypeOK
<1>4. ASSUME AgentDies(s) PROVE TypeOK'
  <2>1. [conn[s] EXCEPT !.agent = FALSE] \in Conn
    BY ConnFields DEF Conn
  <2> QED
    BY <1>4, <2>1, OneSocket DEF AgentDies, TypeOK
<1> QED
  BY <1>2, <1>3, <1>4 DEF Close

(* The steps of the world keep the types.                                  *)
LEMMA WorldType ==
    ASSUME TypeOK, Restart \/ Tick \/ \E h \in Hosts : RemoveHost(h)
    PROVE  TypeOK'
<1>1. ASSUME Restart PROVE TypeOK'
  <2>1. ASSUME NEW s \in Sockets
        PROVE  [Unused EXCEPT !.pc = "gone", !.host = Host(s), !.hello = "done"] \in Conn
    BY ConnFields, ZeroAge DEF Host, Unused, Conn, PCs, Links, Hellos
  <2>2. conn' \in [Sockets -> Conn]
    BY <1>1, <2>1, ConnFields DEF Restart
  <2>3. NoRun \in Offliner
    BY DEF NoRun, Offliner
  <2>4. restarts' \in 0 .. MaxRestarts
    <3>1. restarts \in 0 .. MaxRestarts
      BY DEF TypeOK
    <3>2. restarts < MaxRestarts /\ restarts' = restarts + 1
      BY <1>1 DEF Restart
    <3> QED
      BY <3>1, <3>2, BoundsAssumption
  <2> QED
    BY <1>1, <2>2, <2>3, <2>4 DEF Restart, TypeOK
<1>2. ASSUME Tick PROVE TypeOK'
  <2>1. ASSUME NEW s \in Sockets
        PROVE  [conn[s] EXCEPT
                  !.silence = IF Registered(s) THEN Older(@, OfflineAfter + 1) ELSE @,
                  !.timer = IF @ = None THEN None ELSE Older(@, OfflineAfter + TimerSlack)] \in Conn
    <3>1. Older(conn[s].silence, OfflineAfter + 1) \in Silences
      BY ConnFields, BoundsAssumption DEF Older, Silences
    <3>2. conn[s].timer # None => Older(conn[s].timer, OfflineAfter + TimerSlack) \in TimerAges
      BY ConnFields, BoundsAssumption DEF Older, TimerAges
    <3> QED
      BY <3>1, <3>2, ConnFields, ZeroAge DEF Conn
  <2>2. conn' \in [Sockets -> Conn]
    BY <1>2, <2>1 DEF Tick
  <2> QED
    BY <1>2, <2>2 DEF Tick, TypeOK
<1>3. ASSUME NEW h \in Hosts, RemoveHost(h) PROVE TypeOK'
  BY <1>3 DEF RemoveHost, TypeOK, HostRow
<1> QED
  BY <1>1, <1>2, <1>3

-----------------------------------------------------------------------------
(* Steps by what they do to the Map and to who is let in.                  *)

(* One socket that was not let in yet is turned away.                      *)
TurnedAway(s) ==
    /\ conn[s].pc = "lookup" /\ conn'[s].pc = "refused"
    /\ conn'[s].host = conn[s].host
    /\ conn'[s].link = "open" => conn[s].link = "open"
    /\ \A t \in Sockets \ {s} : conn'[t] = conn[t]
    /\ UNCHANGED connections

(* A step that rewrites one socket is quiet if that socket's part is.      *)
LEMMA QuietSocket ==
    ASSUME TypeOK, NEW s \in Sockets, NEW r,
           conn' = [conn EXCEPT ![s] = r], UNCHANGED connections,
           r.host = conn[s].host, r.pc = "unused" <=> conn[s].pc = "unused",
           r.pc \in Accepted <=> conn[s].pc \in Accepted,
           r.pc \in Dead <=> conn[s].pc \in Dead,
           r.link = "open" => conn[s].link = "open"
    PROVE  Quiet
<1>1. conn'[s] = r /\ \A t \in Sockets \ {s} : conn'[t] = conn[t]
  BY DEF TypeOK
<1> QED
  BY <1>1 DEF Quiet

(* Accepting is quiet, turns a socket away, or registers it.               *)
LEMMA AcceptQuiet ==
    ASSUME TypeOK, NEW s \in Sockets, Accepting(s) \/ AcceptFails(s)
    PROVE  Quiet \/ TurnedAway(s) \/ Register(s)
<1> USE ConnFields DEF Conn
<1>1. ASSUME LookUp(s) PROVE Quiet \/ TurnedAway(s)
  <2> DEFINE no == [conn[s] EXCEPT !.pc = "refused", !.link = Closing(conn[s].link)]
             yes == [conn[s] EXCEPT !.pc = "found",
                                    !.wasOffline = hostRow[Host(s)].status # "online"]
  <2>1. /\ no.pc = "refused" /\ no.host = conn[s].host /\ no.link # "open"
        /\ yes.pc = "found" /\ yes.host = conn[s].host /\ yes.link = conn[s].link
    BY ClosingLink
  <2>2. conn[s].pc = "lookup" /\ UNCHANGED connections
    BY <1>1 DEF LookUp
  <2>3. \/ conn' = [conn EXCEPT ![s] = no]
        \/ conn' = [conn EXCEPT ![s] = yes]
    BY <1>1 DEF LookUp
  <2> HIDE DEF no, yes
  <2>4. CASE conn' = [conn EXCEPT ![s] = no]
    BY <2>1, <2>2, <2>4 DEF TurnedAway, TypeOK
  <2>5. CASE conn' = [conn EXCEPT ![s] = yes]
    BY <2>1, <2>2, <2>5, QuietSocket DEF Accepted, Dead
  <2> QED
    BY <2>3, <2>4, <2>5
<1>2. ASSUME MarkOnline(s) PROVE Quiet
  <2> DEFINE r == [conn[s] EXCEPT !.pc = "marked"]
  <2>1. r.pc = "marked" /\ r.host = conn[s].host /\ r.link = conn[s].link
    OBVIOUS
  <2>2. conn[s].pc = "marking" /\ conn' = [conn EXCEPT ![s] = r] /\ UNCHANGED connections
    BY <1>2 DEF MarkOnline
  <2> HIDE DEF r
  <2> QED
    BY <2>1, <2>2, QuietSocket DEF Accepted, Dead
<1>3. ASSUME Serve(s) PROVE Quiet
  <2> DEFINE r == [conn[s] EXCEPT !.pc = "serving", !.timer = 0, !.wasOffline = FALSE]
  <2>1. r.pc = "serving" /\ r.host = conn[s].host /\ r.link = conn[s].link
    OBVIOUS
  <2>2. conn[s].pc = "marked" /\ conn' = [conn EXCEPT ![s] = r] /\ UNCHANGED connections
    BY <1>3 DEF Serve
  <2> HIDE DEF r
  <2> QED
    BY <2>1, <2>2, QuietSocket DEF Accepted, Dead
<1>4. ASSUME AcceptFails(s) PROVE Quiet \/ TurnedAway(s)
  <2> DEFINE r == [conn[s] EXCEPT !.pc = IF @ = "lookup" THEN "refused" ELSE "orphaned"]
  <2>1. /\ r.pc = IF conn[s].pc = "lookup" THEN "refused" ELSE "orphaned"
        /\ r.host = conn[s].host /\ r.link = conn[s].link
    OBVIOUS
  <2>2. /\ conn[s].pc \in {"lookup", "marking"}
        /\ conn' = [conn EXCEPT ![s] = r] /\ UNCHANGED connections
    BY <1>4 DEF AcceptFails
  <2> HIDE DEF r
  <2>3. CASE conn[s].pc = "lookup"
    BY <2>1, <2>2, <2>3 DEF TurnedAway, TypeOK
  <2>4. CASE conn[s].pc = "marking"
    BY <2>1, <2>2, <2>4, QuietSocket DEF Accepted, Dead
  <2> QED
    BY <2>2, <2>3, <2>4
<1> QED
  BY <1>1, <1>2, <1>3, <1>4 DEF Accepting

(* Messages are quiet.                                                     *)
LEMMA MessageQuiet ==
    ASSUME TypeOK, NEW s \in Sockets,
           HelloLost(s) \/ Hello(s) \/ HelloWrites(s) \/ Heartbeat(s)
    PROVE  Quiet
<1> USE ConnFields DEF Conn
<1>1. ASSUME NEW x PROVE LET r == [conn[s] EXCEPT !.hello = x] IN
         r.pc = conn[s].pc /\ r.host = conn[s].host /\ r.link = conn[s].link
  OBVIOUS
<1>2. LET r == [conn[s] EXCEPT !.silence = 0, !.timer = 0] IN
         r.pc = conn[s].pc /\ r.host = conn[s].host /\ r.link = conn[s].link
  OBVIOUS
<1>3. UNCHANGED connections
  BY DEF HelloLost, Hello, HelloWrites, Heartbeat
<1>4. \/ conn' = [conn EXCEPT ![s] = [conn[s] EXCEPT !.hello = "done"]]
      \/ conn' = [conn EXCEPT ![s] = [conn[s] EXCEPT !.hello = "issued"]]
      \/ conn' = [conn EXCEPT ![s] = [conn[s] EXCEPT !.silence = 0, !.timer = 0]]
  BY DEF HelloLost, Hello, HelloWrites, Heartbeat
<1> QED
  BY <1>1, <1>2, <1>3, <1>4, QuietSocket

(* markOfflineIfStale, the timer, removal and the clock are quiet.         *)
LEMMA BackgroundQuiet ==
    ASSUME TypeOK,
           \/ \E s \in Sockets : TimerFires(s)
           \/ \E s \in Sockets, k \in Causes : Offlining(s, k) \/ OfflinerFails(s, k)
           \/ \E h \in Hosts : RemoveHost(h)
           \/ Tick
    PROVE  Quiet
<1>1. CASE UNCHANGED <<conn, connections>>
  BY <1>1 DEF Quiet
<1>2. ASSUME NEW s \in Sockets, TimerFires(s) PROVE Quiet
  <2> DEFINE r == [conn[s] EXCEPT !.timer = None]
  <2>1. r.pc = conn[s].pc /\ r.host = conn[s].host /\ r.link = conn[s].link
    BY ConnFields DEF Conn
  <2>2. conn' = [conn EXCEPT ![s] = r] /\ UNCHANGED connections
    BY <1>2 DEF TimerFires
  <2> HIDE DEF r
  <2> QED
    BY <2>1, <2>2, QuietSocket
<1>3. ASSUME Tick PROVE Quiet
  <2>1. ASSUME NEW t \in Sockets
        PROVE  /\ conn'[t].pc = conn[t].pc
               /\ conn'[t].host = conn[t].host
               /\ conn'[t].link = conn[t].link
    BY <1>3, ConnFields DEF Tick, Conn
  <2> QED
    BY <1>3, <2>1 DEF Quiet, Tick
<1> QED
  BY <1>1, <1>2, <1>3 DEF Offlining, OfflinerReads, OfflinerWrites, OfflinerEnds,
                          OfflinerFails, RemoveHost

(* A socket that ends without having been served, or whose agent dies,     *)
(* ends quietly.                                                           *)
LEMMA EndQuiet ==
    ASSUME TypeOK, NEW s \in Sockets, CloseUnserved(s) \/ AgentDies(s)
    PROVE  Quiet
<1> USE ConnFields DEF Conn
<1>1. ASSUME CloseUnserved(s) PROVE Quiet
  <2> DEFINE r == [conn[s] EXCEPT !.link = "closed", !.agent = FALSE,
                                  !.hello = Unsent(conn[s].hello)]
  <2>1. r.pc = conn[s].pc /\ r.host = conn[s].host /\ r.link = "closed"
    OBVIOUS
  <2>2. conn' = [conn EXCEPT ![s] = r] /\ UNCHANGED connections
    BY <1>1 DEF CloseUnserved
  <2> HIDE DEF r
  <2> QED
    BY <2>1, <2>2, QuietSocket
<1>2. ASSUME AgentDies(s) PROVE Quiet
  <2> DEFINE r == [conn[s] EXCEPT !.agent = FALSE]
  <2>1. r.pc = conn[s].pc /\ r.host = conn[s].host /\ r.link = conn[s].link
    OBVIOUS
  <2>2. conn' = [conn EXCEPT ![s] = r] /\ UNCHANGED connections
    BY <1>2 DEF AgentDies
  <2> HIDE DEF r
  <2> QED
    BY <2>1, <2>2, QuietSocket
<1> QED
  BY <1>1, <1>2

(* Opening a socket uses up an unused one.                                 *)
LEMMA ConnectWrites ==
    ASSUME TypeOK, NEW s \in Sockets, NEW h \in Hosts, Connect(s, h)
    PROVE  /\ conn[s].pc = "unused" /\ conn'[s].pc = "lookup" /\ conn'[s].host = h
           /\ \A t \in Sockets \ {s} : conn'[t] = conn[t]
           /\ UNCHANGED connections
<1> DEFINE r == [conn[s] EXCEPT !.pc = "lookup", !.host = h, !.link = "open", !.agent = TRUE]
<1>1. r.pc = "lookup" /\ r.host = h
  BY ConnFields DEF Conn
<1>2. conn[s].pc = "unused" /\ conn' = [conn EXCEPT ![s] = r] /\ UNCHANGED connections
  BY DEF Connect
<1> HIDE DEF r
<1> QED
  BY <1>1, <1>2 DEF TypeOK

(* Registering puts one socket into the Map and closes the one before.     *)
LEMMA RegisterWrites ==
    ASSUME TypeOK, NEW s \in Sockets, Register(s)
    PROVE  /\ conn[s].pc = "found" /\ conn'[s].pc = "marking"
           /\ \A t \in Sockets : conn'[t].host = conn[t].host
           /\ \A t \in Sockets \ {s} :
                 /\ conn'[t].pc = conn[t].pc
                 /\ conn'[t].link = "open" => conn[t].link = "open"
                 /\ conn'[t].link = "open" => t # connections[Host(s)]
           /\ connections' = [connections EXCEPT ![Host(s)] = s]
<1>1. conn[s].pc = "found" /\ connections' = [connections EXCEPT ![Host(s)] = s]
  BY DEF Register
<1>2. ASSUME NEW t \in Sockets
      PROVE  conn'[t] = IF t = s THEN [conn[t] EXCEPT !.pc = "marking", !.silence = 0]
                        ELSE IF t = connections[Host(s)]
                        THEN [conn[t] EXCEPT !.link = Closing(conn[t].link), !.silence = 0]
                        ELSE conn[t]
  BY DEF Register
<1>3. conn'[s].pc = "marking" /\ conn'[s].host = conn[s].host
  BY <1>2, ConnFields DEF Conn
<1>4. ASSUME NEW t \in Sockets \ {s}, t = connections[Host(s)]
      PROVE  /\ conn'[t].host = conn[t].host /\ conn'[t].pc = conn[t].pc
             /\ conn'[t].link # "open"
  <2> DEFINE r == [conn[t] EXCEPT !.link = Closing(conn[t].link), !.silence = 0]
  <2>1. r.host = conn[t].host /\ r.pc = conn[t].pc /\ r.link # "open"
    BY ConnFields, ClosingLink DEF Conn
  <2>2. conn'[t] = r
    BY <1>2, <1>4
  <2> QED
    BY <2>1, <2>2
<1>5. ASSUME NEW t \in Sockets \ {s}, t # connections[Host(s)]
      PROVE  conn'[t] = conn[t]
  BY <1>2, <1>5
<1> QED
  BY <1>1, <1>3, <1>4, <1>5

(* A close event takes only its own socket out of the Map.                 *)
LEMMA CloseWrites ==
    ASSUME TypeOK, NEW s \in Sockets, CloseServed(s)
    PROVE  /\ conn[s].pc = "serving" /\ conn[s].link # "closed"
           /\ conn'[s].pc = "gone" /\ conn'[s].link = "closed"
           /\ conn'[s].host = conn[s].host
           /\ \A t \in Sockets \ {s} : conn'[t] = conn[t]
           /\ connections' = [connections EXCEPT ![Host(s)] =
                                 IF connections[Host(s)] = s THEN None ELSE connections[Host(s)]]
<1> DEFINE r == [conn[s] EXCEPT
                   !.pc = "gone", !.link = "closed", !.agent = FALSE,
                   !.hello = Unsent(conn[s].hello), !.silence = 0, !.timer = None]
<1>1. r.pc = "gone" /\ r.link = "closed" /\ r.host = conn[s].host
  BY ConnFields DEF Conn
<1>2. /\ conn[s].pc = "serving" /\ conn[s].link # "closed"
      /\ conn' = [conn EXCEPT ![s] = r]
      /\ connections' = [connections EXCEPT ![Host(s)] =
                            IF connections[Host(s)] = s THEN None ELSE connections[Host(s)]]
  BY DEF CloseServed
<1> HIDE DEF r
<1> QED
  BY <1>1, <1>2 DEF TypeOK

(* A restart empties the Map and ends every socket that was used.          *)
LEMMA RestartWrites ==
    ASSUME TypeOK, Restart
    PROVE  /\ connections' = [h \in Hosts |-> None]
           /\ restarts' # restarts
           /\ \A t \in Sockets :
                 /\ conn'[t].pc = IF conn[t].pc = "unused" THEN "unused" ELSE "gone"
                 /\ conn'[t].host = conn[t].host
<1>1. restarts' # restarts
  <2>1. restarts \in 0 .. MaxRestarts
    BY DEF TypeOK
  <2>2. restarts' = restarts + 1
    BY DEF Restart
  <2> QED
    BY <2>1, <2>2, BoundsAssumption
<1>2. ASSUME NEW t \in Sockets
      PROVE  /\ conn'[t].pc = IF conn[t].pc = "unused" THEN "unused" ELSE "gone"
             /\ conn'[t].host = conn[t].host
  BY DEF Restart, Unused, Host
<1> QED
  BY <1>1, <1>2 DEF Restart

(* These are all the steps there are.                                      *)
LEMMA StepKinds ==
    ASSUME TypeOK, [Next]_vars
    PROVE  \/ Quiet
           \/ \E s \in Sockets : TurnedAway(s) \/ Register(s) \/ CloseServed(s)
           \/ \E s \in Sockets, h \in Hosts : Connect(s, h)
           \/ Restart
<1>1. CASE UNCHANGED vars
  BY <1>1 DEF vars, Quiet
<1>2. CASE Next
  BY <1>2, AcceptQuiet, MessageQuiet, BackgroundQuiet, EndQuiet DEF Next, Close
<1> QED
  BY <1>1, <1>2

(* Every step keeps the types.                                             *)
LEMMA NextType ==
    ASSUME TypeOK, HostKnown, [Next]_vars
    PROVE  TypeOK'
<1>1. CASE UNCHANGED vars
  BY <1>1 DEF vars, TypeOK
<1>2. CASE Next
  BY <1>2, AcceptType, MessageType, OfflinerType, EndType, WorldType DEF Next, Causes
<1> QED
  BY <1>1, <1>2

(* The invariant is inductive.                                             *)
LEMMA NextInvariant ==
    ASSUME IInv, [Next]_vars
    PROVE  IInv'
<1> USE DEF IInv
<1>0. TypeOK'
  BY NextType
<1> SUFFICES HostKnown' /\ MapSound' /\ OnlyRegisteredStaysOpen'
  BY <1>0
<1> USE NoneAssumption DEF Host
<1>1. CASE Quiet
  BY <1>1 DEF Quiet, HostKnown, MapSound, OnlyRegisteredStaysOpen, TypeOK
<1>2. ASSUME NEW s \in Sockets, TurnedAway(s)
      PROVE  HostKnown' /\ MapSound' /\ OnlyRegisteredStaysOpen'
  <2>1. HostKnown'
    BY <1>2 DEF TurnedAway, HostKnown, TypeOK
  <2>2. MapSound'
    BY <1>2 DEF TurnedAway, MapSound, TypeOK, Accepted
  <2>3. OnlyRegisteredStaysOpen'
    BY <1>2 DEF TurnedAway, OnlyRegisteredStaysOpen, TypeOK, Accepted
  <2> QED
    BY <2>1, <2>2, <2>3
<1>3. ASSUME NEW s \in Sockets, NEW h \in Hosts, Connect(s, h)
      PROVE  HostKnown' /\ MapSound' /\ OnlyRegisteredStaysOpen'
  <2>1. /\ conn[s].pc = "unused" /\ conn'[s].pc = "lookup" /\ conn'[s].host = h
        /\ \A t \in Sockets \ {s} : conn'[t] = conn[t]
        /\ UNCHANGED connections
    BY <1>3, ConnectWrites
  <2>2. HostKnown'
    BY <2>1 DEF HostKnown
  <2>3. MapSound'
    BY <2>1 DEF MapSound, TypeOK, Accepted
  <2>4. OnlyRegisteredStaysOpen'
    BY <2>1 DEF OnlyRegisteredStaysOpen, Accepted
  <2> QED
    BY <2>2, <2>3, <2>4
<1>4. ASSUME NEW s \in Sockets, Register(s)
      PROVE  HostKnown' /\ MapSound' /\ OnlyRegisteredStaysOpen'
  <2>0. Host(s) \in Hosts
    BY <1>4, RegisterWrites DEF HostKnown
  <2>1. HostKnown'
    BY <1>4, RegisterWrites DEF HostKnown
  <2>2. MapSound'
    BY <1>4, <2>0, RegisterWrites DEF MapSound, TypeOK, Accepted
  <2>3. OnlyRegisteredStaysOpen'
    BY <1>4, <2>0, RegisterWrites DEF OnlyRegisteredStaysOpen, HostKnown, TypeOK, Accepted
  <2> QED
    BY <2>1, <2>2, <2>3
<1>5. ASSUME NEW s \in Sockets, CloseServed(s)
      PROVE  HostKnown' /\ MapSound' /\ OnlyRegisteredStaysOpen'
  <2>0. Host(s) \in Hosts
    BY <1>5, CloseWrites DEF HostKnown
  <2>1. HostKnown'
    BY <1>5, CloseWrites DEF HostKnown
  <2>2. MapSound'
    BY <1>5, <2>0, CloseWrites DEF MapSound, TypeOK
  <2>3. OnlyRegisteredStaysOpen'
    BY <1>5, <2>0, CloseWrites DEF OnlyRegisteredStaysOpen, HostKnown, TypeOK, Accepted
  <2> QED
    BY <2>1, <2>2, <2>3
<1>6. CASE Restart
  BY <1>6, RestartWrites DEF HostKnown, MapSound, OnlyRegisteredStaysOpen, Accepted
<1> QED
  BY <1>1, <1>2, <1>3, <1>4, <1>5, <1>6, StepKinds

(* The invariant holds throughout.                                         *)
LEMMA Invariance == Spec => []IInv
<1>1. Init => IInv
  <2> SUFFICES ASSUME Init PROVE IInv
    OBVIOUS
  <2>1. TypeOK
    BY InitType
  <2> QED
    BY <2>1 DEF Init, IInv, HostKnown, MapSound, OnlyRegisteredStaysOpen, Unused, Accepted
<1>2. IInv /\ [Next]_vars => IInv'
  BY NextInvariant
<1> QED
  BY <1>1, <1>2, PTL DEF Spec

-----------------------------------------------------------------------------
(* The state is always well typed.                                         *)
THEOREM TypeCorrect == Spec => []TypeOK
  BY Invariance, PTL DEF IInv

(* However many sockets an agent opens, and in whatever order they are     *)
(* accepted, superseded and closed, and whatever fails: none but the       *)
(* registered one is left open.                                            *)
THEOREM OnlyRegisteredIsOpen == Spec => []OnlyRegisteredStaysOpen
  BY Invariance, PTL DEF IInv

(* No late close, failure or timer unregisters a host's connection.        *)
THEOREM RegistrationsLast == Spec => RegistrationIsStable
<1> DEFINE StableStep ==
      \A h \in Hosts : LET s == connections[h] IN
          s # None /\ connections'[h] # s =>
              \/ conn'[s].link = "closed" /\ conn[s].link # "closed"
              \/ /\ connections'[h] # None
                 /\ conn[connections'[h]].pc = "found"
              \/ restarts' # restarts
<1>1. ASSUME IInv, [Next]_vars PROVE StableStep
  <2>0. TypeOK /\ connections \in [Hosts -> Sockets \cup {None}]
    BY <1>1 DEF IInv, TypeOK
  <2> USE <2>0, NoneAssumption
  <2>1. CASE UNCHANGED connections
    BY <2>1
  <2>2. ASSUME NEW s \in Sockets, Register(s) PROVE StableStep
    <3>1. conn[s].pc = "found" /\ connections' = [connections EXCEPT ![Host(s)] = s]
      BY <2>2, RegisterWrites
    <3> QED
      BY <3>1
  <2>3. ASSUME NEW s \in Sockets, CloseServed(s) PROVE StableStep
    <3>1. /\ conn[s].link # "closed" /\ conn'[s].link = "closed"
          /\ connections' = [connections EXCEPT ![Host(s)] =
                                IF connections[Host(s)] = s THEN None ELSE connections[Host(s)]]
      BY <2>3, CloseWrites
    <3> QED
      BY <3>1
  <2>4. CASE Restart
    BY <2>4, RestartWrites
  <2> QED
    BY <1>1, <2>1, <2>2, <2>3, <2>4, StepKinds, ConnectWrites DEF Quiet, TurnedAway
<1>2. IInv /\ [Next]_vars => [StableStep]_vars
  BY <1>1
<1> QED
  BY <1>2, Invariance, PTL DEF Spec, RegistrationIsStable

(* The Map implements host sessions.                                       *)
THEOREM GatewayImplementsSessions == Spec => ImplementsSessions
<1> DEFINE over == {s \in Sockets : Over(s)}
<1>1. Init => Sessions!Init
  BY DEF Init, Sessions!Init, Over, Unused, Accepted
<1>2. ASSUME IInv, [Next]_vars PROVE [Sessions!Next]_Sessions!vars
  <2>0. TypeOK /\ HostKnown /\ MapSound
    BY <1>2 DEF IInv
  <2> USE <2>0, NoneAssumption
  <2>1. CASE Quiet
    <3>1. ASSUME NEW t \in Sockets PROVE Over(t)' <=> Over(t)
      BY <2>1, <3>1 DEF Quiet, Over, Host, Dead
    <3> QED
      BY <2>1, <3>1 DEF Quiet, Sessions!vars
  <2>2. ASSUME NEW s \in Sockets, TurnedAway(s) PROVE Sessions!Next
    <3>1. ASSUME NEW t \in Sockets PROVE Over(t)' <=> Over(t) \/ t = s
      BY <2>2, <3>1 DEF TurnedAway, Over, Host
    <3>2. \A h \in Hosts : connections[h] # s
      BY <2>2 DEF TurnedAway, MapSound, Accepted
    <3> QED
      BY <2>2, <3>1, <3>2 DEF TurnedAway, Sessions!Next, Sessions!Refuse
  <2>3. ASSUME NEW s \in Sockets, NEW h \in Hosts, Connect(s, h) PROVE UNCHANGED Sessions!vars
    <3>1. ASSUME NEW t \in Sockets PROVE Over(t)' <=> Over(t)
      BY <2>3, <3>1, ConnectWrites DEF Over, Host, Accepted
    <3> QED
      BY <2>3, <3>1, ConnectWrites DEF Sessions!vars
  <2>4. ASSUME NEW s \in Sockets, Register(s) PROVE Sessions!Next
    <3> DEFINE h == Host(s)
    <3>0. h \in Hosts /\ connections[h] # s
      BY <2>4, RegisterWrites DEF HostKnown, MapSound, Accepted
    <3>1. connections' = [connections EXCEPT ![h] = s]
      BY <2>4, RegisterWrites
    <3>2. ~Over(s) /\ \A g \in Hosts : connections[g] # s
      BY <2>4, RegisterWrites DEF Over, MapSound, Accepted
    <3>3. ~Over(s)'
      BY <2>4, <3>0, <3>1, RegisterWrites DEF Over, Host, TypeOK
    <3>4. ASSUME NEW t \in Sockets \ {s} PROVE Over(t)' <=> Over(t) \/ t = connections[h]
      <4>1. conn'[t].pc = conn[t].pc /\ conn'[t].host = conn[t].host
        BY <2>4, RegisterWrites
      <4>2. CASE t = connections[h]
        <5>1. conn[t].pc \in Accepted /\ Host(t) = h
          BY <3>0, <4>2 DEF MapSound
        <5>2. connections'[h] = s
          BY <3>0, <3>1 DEF TypeOK
        <5> QED
          BY <4>1, <4>2, <5>1, <5>2 DEF Over, Host
      <4>3. CASE t # connections[h] /\ Host(t) = h
        <5>1. connections'[h] = s
          BY <3>0, <3>1 DEF TypeOK
        <5> QED
          BY <4>1, <4>3, <5>1 DEF Over, Host
      <4>4. CASE t # connections[h] /\ Host(t) # h
        <5>1. connections'[Host(t)] = connections[Host(t)] \/ Host(t) \notin Hosts
          BY <3>1, <4>4 DEF TypeOK
        <5>2. conn[t].pc \in Accepted => Host(t) \in Hosts
          BY DEF HostKnown, Accepted
        <5> QED
          BY <4>1, <4>4, <5>1, <5>2 DEF Over, Host
      <4> QED
        BY <4>2, <4>3, <4>4
    <3>5. over' = over \cup ({connections[h]} \ {None})
      BY <3>0, <3>2, <3>3, <3>4 DEF TypeOK
    <3> HIDE DEF h
    <3> QED
      BY <3>0, <3>1, <3>2, <3>5 DEF Sessions!Next, Sessions!Open
  <2>5. ASSUME NEW s \in Sockets, CloseServed(s) PROVE [Sessions!Next]_Sessions!vars
    <3> DEFINE h == Host(s)
    <3>0. h \in Hosts
      BY <2>5, CloseWrites DEF HostKnown
    <3>1. connections' = [connections EXCEPT ![h] =
                            IF connections[h] = s THEN None ELSE connections[h]]
      BY <2>5, CloseWrites
    <3>2. Over(s)' /\ conn[s].pc \in Accepted
      BY <2>5, CloseWrites DEF Over, Accepted
    <3>3. ASSUME NEW t \in Sockets \ {s} PROVE Over(t)' <=> Over(t)
      <4>1. conn'[t] = conn[t]
        BY <2>5, CloseWrites
      <4>2. conn[t].pc \in Accepted => Host(t) \in Hosts
        BY DEF HostKnown, Accepted
      <4>3. \A g \in Hosts : connections'[g] = t <=> connections[g] = t
        BY <3>0, <3>1 DEF TypeOK
      <4> QED
        BY <4>1, <4>2, <4>3 DEF Over, Host
    <3>4. CASE connections[h] = s
      <4>1. connections' = [connections EXCEPT ![h] = None]
        BY <3>1, <3>4
      <4>2. over' = over \cup {connections[h]}
        BY <3>2, <3>3, <3>4
      <4>3. connections[h] # None
        BY <3>4
      <4> HIDE DEF h
      <4> QED
        BY <3>0, <4>1, <4>2, <4>3 DEF Sessions!Next, Sessions!End
    <3>5. CASE connections[h] # s
      <4>1. connections' = connections
        BY <3>0, <3>1, <3>5 DEF TypeOK
      <4>2. over' = over
        BY <3>2, <3>3, <3>5 DEF Over
      <4> QED
        BY <4>1, <4>2 DEF Sessions!vars
    <3> QED
      BY <3>4, <3>5
  <2>6. CASE Restart
    <3>1. connections' = [h \in Hosts |-> None]
      BY <2>6, RestartWrites
    <3>2. ASSUME NEW t \in Sockets, conn[t].pc # "unused" PROVE Over(t)'
      BY <2>6, <3>2, RestartWrites DEF Over
    <3>3. ASSUME NEW t \in Sockets, Over(t) PROVE conn[t].pc # "unused"
      BY <3>3 DEF Over, Accepted
    <3>4. ASSUME NEW h \in Hosts, connections[h] # None
          PROVE  connections[h] \in Sockets /\ conn[connections[h]].pc # "unused"
      BY <3>4 DEF MapSound, Accepted, TypeOK
    <3>5. over \cup ({connections[h] : h \in Hosts} \ {None}) \subseteq over'
      BY <3>2, <3>3, <3>4
    <3> QED
      BY <3>1, <3>5 DEF Sessions!Next, Sessions!Shutdown
  <2> QED
    BY <1>2, <2>1, <2>2, <2>3, <2>4, <2>5, <2>6, StepKinds
<1> QED
  BY <1>1, <1>2, Invariance, PTL DEF Spec, ImplementsSessions, Sessions!Spec

-----------------------------------------------------------------------------
(* Somebody watches a host that is shown online.                           *)

(* What is true of each socket while nothing failed.  A hello is under way *)
(* only while its socket will ask again, and a socket that is registered   *)
(* and fresh has a timer, armed no earlier than it was last heard from.    *)
Attends(s) ==
    /\ conn[s].pc # "orphaned"
    /\ conn[s].timer # None => conn[s].pc = "serving"
    /\ conn[s].pc = "unused" => \A k \in Causes : offliner[s][k].pc = "idle"
    /\ conn[s].hello = "issued" =>
          conn[s].pc = "serving" /\ (conn[s].timer # None \/ conn[s].link = "closing")
    /\ conn[s].pc = "serving" /\ connections[Host(s)] = s =>
          \/ conn[s].silence > OfflineAfter
          \/ conn[s].timer # None /\ conn[s].timer <= conn[s].silence

AllAttend == \A s \in Sockets : Attends(s)

WInv == Steady => AllAttend /\ AllWatched

Asks == {UntilWritten, UntilEnded}

(* The step leaves all of the other sockets alone, and takes none of them  *)
(* into the Map.                                                           *)
OnlyOf(s) ==
    \A t \in Sockets \ {s} :
        /\ conn'[t] = conn[t] /\ offliner'[t] = offliner[t]
        /\ connections'[Host(t)] = t => connections[Host(t)] = t

(* A step that rewrites one socket leaves the others as they are.          *)
LEMMA Rewritten ==
    ASSUME TypeOK, NEW s \in Sockets, NEW r, conn' = [conn EXCEPT ![s] = r]
    PROVE  conn'[s] = r /\ \A t \in Sockets \ {s} : conn'[t] = conn[t]
  BY DEF TypeOK

(* What a step that leaves the other sockets alone must show.              *)
LEMMA OneAttends ==
    ASSUME AllAttend, NEW s \in Sockets, OnlyOf(s), Attends(s)'
    PROVE  AllAttend'
<1> SUFFICES ASSUME NEW t \in Sockets \ {s} PROVE Attends(t)'
  BY DEF AllAttend
<1>1. Attends(t)
  BY DEF AllAttend
<1>2. /\ conn'[t] = conn[t] /\ offliner'[t] = offliner[t]
      /\ connections'[Host(t)] = t => connections[Host(t)] = t
  BY DEF OnlyOf
<1>3. Host(t)' = Host(t)
  BY <1>2 DEF Host
<1> QED
  BY <1>1, <1>2, <1>3 DEF Attends

(* The watchers of a host that are other sockets stay.                     *)
LEMMA OthersWatch ==
    ASSUME NEW s \in Sockets, OnlyOf(s), NEW h \in Hosts, NEW asking \in Asks, Watched(h, asking),
           Host(s) = h /\ Watches(s, asking) => Watched(h, asking)'
    PROVE  Watched(h, asking)'
<1>1. PICK t \in Sockets : Host(t) = h /\ Watches(t, asking)
  BY DEF Watched
<1>2. CASE t = s
  BY <1>1, <1>2
<1>3. CASE t # s
  <2>1. conn'[t] = conn[t] /\ offliner'[t] = offliner[t]
    BY <1>3 DEF OnlyOf
  <2>2. Host(t)' = h /\ Watches(t, asking)'
    BY <1>1, <2>1 DEF Host, Watches
  <2> QED
    BY <2>2 DEF Watched
<1> QED
  BY <1>2, <1>3

(* A socket that goes on watching its host, and does no more than show it  *)
(* online or keep its vitals, keeps every host watched.                    *)
LEMMA OneWatches ==
    ASSUME AllWatched, NEW s \in Sockets, OnlyOf(s),
           \A asking \in Asks : Watches(s, asking) => Host(s)' = Host(s) /\ Watches(s, asking)',
           \A h \in Hosts : ShownOnline(h)' => ShownOnline(h) \/ (h = Host(s)' /\ Watches(s, UntilWritten)'),
           \A h \in Hosts : h \in cached' => h \in cached \/ (h = Host(s)' /\ Watches(s, UntilEnded)')
    PROVE  AllWatched'
<1>1. ASSUME NEW h \in Hosts, NEW asking \in Asks, Watched(h, asking) PROVE Watched(h, asking)'
  <2>1. Host(s) = h /\ Watches(s, asking) => Watched(h, asking)'
    BY DEF Watched
  <2> QED
    BY <1>1, <2>1, OthersWatch
<1>0. UntilWritten \in Asks /\ UntilEnded \in Asks
  BY DEF Asks
<1>2. ASSUME NEW h \in Hosts, ShownOnline(h)' PROVE Watched(h, UntilWritten)'
  <2>1. CASE ShownOnline(h)
    BY <1>0, <1>1, <2>1 DEF AllWatched
  <2>2. CASE h = Host(s)' /\ Watches(s, UntilWritten)'
    BY <2>2 DEF Watched
  <2> QED
    BY <1>2, <2>1, <2>2
<1>3. ASSUME NEW h \in Hosts, h \in cached' PROVE Watched(h, UntilEnded)'
  <2>1. CASE h \in cached
    BY <1>0, <1>1, <2>1 DEF AllWatched
  <2>2. CASE h = Host(s)' /\ Watches(s, UntilEnded)'
    BY <2>2 DEF Watched
  <2> QED
    BY <1>3, <2>1, <2>2
<1> QED
  BY <1>2, <1>3 DEF AllWatched

(* Opening a socket and looking its token up.                              *)
LEMMA LookUpWatched ==
    ASSUME IInv, NEW s \in Sockets, AllAttend, AllWatched,
           (\E h \in Hosts : Connect(s, h)) \/ LookUp(s)
    PROVE  AllAttend' /\ AllWatched'
<1>0. TypeOK /\ Attends(s) /\ conn[s] \in Conn
  BY ConnFields DEF IInv, AllAttend
<1>1. /\ conn[s].pc \in {"unused", "lookup"}
      /\ conn'[s].pc \in {"lookup", "refused", "found"}
      /\ conn'[s].timer = conn[s].timer /\ conn'[s].hello = conn[s].hello
      /\ conn[s].pc = "lookup" => conn'[s].host = conn[s].host
      /\ \A t \in Sockets \ {s} : conn'[t] = conn[t]
      /\ UNCHANGED <<hostRow, connections, offliner, cached, notes, restarts, dbFailures>>
  <2>1. UNCHANGED <<hostRow, connections, offliner, cached, notes, restarts, dbFailures>>
    BY DEF Connect, LookUp
  <2>2. ASSUME NEW h \in Hosts, Connect(s, h)
        PROVE  /\ conn[s].pc = "unused" /\ conn'[s].pc = "lookup"
               /\ conn'[s].timer = conn[s].timer /\ conn'[s].hello = conn[s].hello
               /\ \A t \in Sockets \ {s} : conn'[t] = conn[t]
    <3> DEFINE r == [conn[s] EXCEPT !.pc = "lookup", !.host = h, !.link = "open", !.agent = TRUE]
    <3>1. r.pc = "lookup" /\ r.timer = conn[s].timer /\ r.hello = conn[s].hello
      BY <1>0 DEF Conn
    <3>2. conn[s].pc = "unused" /\ conn' = [conn EXCEPT ![s] = r]
      BY <2>2 DEF Connect
    <3> HIDE DEF r
    <3> QED
      BY <1>0, <3>1, <3>2, Rewritten
  <2>3. ASSUME LookUp(s)
        PROVE  /\ conn[s].pc = "lookup" /\ conn'[s].pc \in {"refused", "found"}
               /\ conn'[s].timer = conn[s].timer /\ conn'[s].hello = conn[s].hello
               /\ conn'[s].host = conn[s].host
               /\ \A t \in Sockets \ {s} : conn'[t] = conn[t]
    <3> DEFINE no == [conn[s] EXCEPT !.pc = "refused", !.link = Closing(conn[s].link)]
               yes == [conn[s] EXCEPT !.pc = "found",
                                      !.wasOffline = hostRow[Host(s)].status # "online"]
    <3>1. \A r \in {no, yes} : /\ r.pc \in {"refused", "found"} /\ r.host = conn[s].host
                              /\ r.timer = conn[s].timer /\ r.hello = conn[s].hello
      BY <1>0 DEF Conn
    <3>2. /\ conn[s].pc = "lookup"
          /\ \/ conn' = [conn EXCEPT ![s] = no]
             \/ conn' = [conn EXCEPT ![s] = yes]
      BY <2>3 DEF LookUp
    <3> HIDE DEF no, yes
    <3>3. \A t \in Sockets \ {s} : conn'[t] = conn[t]
      BY <1>0, <3>2, Rewritten
    <3>4. conn'[s] \in {no, yes}
      BY <1>0, <3>2, Rewritten
    <3> QED
      BY <3>1, <3>2, <3>3, <3>4
  <2> QED
    BY <2>1, <2>2, <2>3
<1>2. OnlyOf(s)
  BY <1>1 DEF OnlyOf
<1>3. Attends(s)'
  BY <1>0, <1>1 DEF Attends
<1>4. ASSUME NEW asking \in Asks, Watches(s, asking) PROVE Host(s)' = Host(s) /\ Watches(s, asking)'
  <2>1. CASE conn[s].pc = "lookup"
    BY <1>1, <1>4, <2>1 DEF Watches, Host
  <2>2. CASE conn[s].pc = "unused"
    BY <1>0, <1>1, <1>4, <2>2 DEF Watches, Attends, Asks, UntilWritten, UntilEnded
  <2> QED
    BY <1>1, <2>1, <2>2
<1>5. \A h \in Hosts : (ShownOnline(h)' <=> ShownOnline(h)) /\ (h \in cached' <=> h \in cached)
  BY <1>1 DEF ShownOnline
<1>6. AllWatched'
  BY <1>2, <1>4, <1>5, OneWatches
<1> QED
  BY <1>2, <1>3, <1>6, OneAttends

(* A statement that marks a host online shows no other host online.        *)
LEMMA ShownByStatus ==
    ASSUME TypeOK, NEW g \in Hosts, SetStatus(g, "online"), NEW h \in Hosts, ShownOnline(h)'
    PROVE  ShownOnline(h) \/ h = g
  BY DEF TypeOK, HostRow, SetStatus, ShownOnline

(* The handler goes on: first the status, then the timer.                  *)
LEMMA ServeWatched ==
    ASSUME IInv, NEW s \in Sockets, AllAttend, AllWatched, MarkOnline(s) \/ Serve(s)
    PROVE  AllAttend' /\ AllWatched'
<1>0. TypeOK /\ HostKnown /\ Attends(s) /\ conn[s] \in Conn
  BY ConnFields DEF IInv, AllAttend
<1>1. UNCHANGED <<connections, offliner, cached>>
  BY DEF MarkOnline, Serve
<1>2. ASSUME MarkOnline(s)
      PROVE  /\ conn[s].pc = "marking" /\ conn'[s].pc = "marked"
             /\ conn'[s].timer = conn[s].timer /\ conn'[s].hello = conn[s].hello
             /\ conn'[s].host = conn[s].host
             /\ \A t \in Sockets \ {s} : conn'[t] = conn[t]
  <2> DEFINE r == [conn[s] EXCEPT !.pc = "marked"]
  <2>1. /\ r.pc = "marked" /\ r.timer = conn[s].timer /\ r.hello = conn[s].hello
        /\ r.host = conn[s].host
    BY <1>0 DEF Conn
  <2>2. conn[s].pc = "marking" /\ conn' = [conn EXCEPT ![s] = r]
    BY <1>2 DEF MarkOnline
  <2> HIDE DEF r
  <2> QED
    BY <1>0, <2>1, <2>2, Rewritten
<1>3. ASSUME Serve(s)
      PROVE  /\ conn[s].pc = "marked" /\ conn'[s].pc = "serving"
             /\ conn'[s].timer = 0 /\ conn'[s].hello = conn[s].hello
             /\ conn'[s].host = conn[s].host /\ conn'[s].silence = conn[s].silence
             /\ \A t \in Sockets \ {s} : conn'[t] = conn[t]
  <2> DEFINE r == [conn[s] EXCEPT !.pc = "serving", !.timer = 0, !.wasOffline = FALSE]
  <2>1. /\ r.pc = "serving" /\ r.timer = 0 /\ r.hello = conn[s].hello
        /\ r.host = conn[s].host /\ r.silence = conn[s].silence
    BY <1>0 DEF Conn
  <2>2. conn[s].pc = "marked" /\ conn' = [conn EXCEPT ![s] = r]
    BY <1>3 DEF Serve
  <2> HIDE DEF r
  <2> QED
    BY <1>0, <2>1, <2>2, Rewritten
<1>4. OnlyOf(s) /\ Host(s) \in Hosts /\ Host(s)' = Host(s)
  BY <1>0, <1>1, <1>2, <1>3 DEF OnlyOf, HostKnown, Host
<1>5. conn[s].silence \in Nat /\ None # 0
  BY <1>0, NoneAssumption, BoundsAssumption DEF Conn, Silences
<1>6. Attends(s)'
  <2>1. CASE MarkOnline(s)
    BY <1>0, <1>1, <1>2, <2>1 DEF Attends
  <2>2. CASE Serve(s)
    BY <1>0, <1>1, <1>3, <1>5, <2>2 DEF Attends
  <2> QED
    BY <2>1, <2>2
<1>7. \A asking \in Asks : Watches(s, asking)'
  BY <1>2, <1>3, <1>5 DEF Watches
<1>8. ASSUME NEW h \in Hosts, ShownOnline(h)' PROVE ShownOnline(h) \/ h = Host(s)'
  <2>1. CASE MarkOnline(s)
    BY <1>0, <1>4, <1>8, <2>1, ShownByStatus DEF MarkOnline
  <2>2. CASE Serve(s)
    BY <1>8, <2>2 DEF Serve, ShownOnline
  <2> QED
    BY <2>1, <2>2
<1>9. Watches(s, UntilWritten)'
  BY <1>7 DEF Asks
<1>10. AllWatched'
  BY <1>1, <1>4, <1>7, <1>8, <1>9, OneWatches
<1> QED
  BY <1>4, <1>6, <1>10, OneAttends

(* Registering takes no watcher away, and the connection that is replaced  *)
(* is not registered any more.                                             *)
LEMMA RegisterWatched ==
    ASSUME IInv, NEW s \in Sockets, AllAttend, AllWatched, Register(s)
    PROVE  AllAttend' /\ AllWatched'
<1>0. TypeOK /\ HostKnown /\ MapSound
  BY DEF IInv
<1>1. /\ conn[s].pc = "found" /\ connections' = [connections EXCEPT ![Host(s)] = s]
      /\ UNCHANGED <<hostRow, offliner, cached>>
  BY DEF Register
<1>2. Host(s) \in Hosts
  BY <1>0, <1>1 DEF HostKnown
<1>3. conn'[s].pc = "marking" /\ conn'[s].timer = conn[s].timer /\ conn'[s].hello = conn[s].hello
  <2> DEFINE r == [conn[s] EXCEPT !.pc = "marking", !.silence = 0]
  <2>1. r.pc = "marking" /\ r.timer = conn[s].timer /\ r.hello = conn[s].hello
    BY <1>0, ConnFields DEF Conn
  <2>2. conn'[s] = r
    BY DEF Register
  <2> HIDE DEF r
  <2> QED
    BY <2>1, <2>2
<1>4. ASSUME NEW t \in Sockets \ {s}
      PROVE  /\ conn'[t].pc = conn[t].pc /\ conn'[t].timer = conn[t].timer
             /\ conn'[t].hello = conn[t].hello
             /\ conn[t].link = "closing" => conn'[t].link = "closing"
             /\ t # connections[Host(s)] => conn'[t].silence = conn[t].silence
  <2> DEFINE r == [conn[t] EXCEPT !.link = Closing(conn[t].link), !.silence = 0]
  <2>1. /\ r.pc = conn[t].pc /\ r.timer = conn[t].timer /\ r.hello = conn[t].hello
        /\ r.link = Closing(conn[t].link)
    BY <1>0, ConnFields DEF Conn
  <2>2. IF t = connections[Host(s)] THEN conn'[t] = r ELSE conn'[t] = conn[t]
    BY DEF Register
  <2> HIDE DEF r
  <2> QED
    BY <2>1, <2>2 DEF Closing
<1>5. \A t \in Sockets : Host(t)' = Host(t)
  BY <1>0, RegisterWrites DEF Host
<1>6. ASSUME NEW t \in Sockets PROVE Attends(t)'
  <2>0. Attends(t)
    BY DEF AllAttend
  <2>1. CASE t = s
    BY <1>1, <1>3, <2>0, <2>1 DEF Attends
  <2>2. CASE t # s
    <3>1. conn'[t].pc = "serving" /\ connections'[Host(t)] = t =>
             connections[Host(t)] = t /\ t # connections[Host(s)]
      <4>1. conn'[t].pc = "serving" => Host(t) \in Hosts
        BY <1>0, <1>4, <2>2 DEF HostKnown
      <4> QED
        BY <1>0, <1>1, <1>2, <2>2, <4>1, NoneAssumption DEF TypeOK, MapSound
    <3> QED
      BY <1>1, <1>4, <1>5, <2>0, <2>2, <3>1 DEF Attends
  <2> QED
    BY <2>1, <2>2
<1>7. ASSUME NEW t \in Sockets, NEW asking \in Asks, Watches(t, asking)
      PROVE  Watches(t, asking)'
  BY <1>1, <1>3, <1>4, <1>7 DEF Watches
<1>8. ASSUME NEW h \in Hosts, NEW asking \in Asks, Watched(h, asking) PROVE Watched(h, asking)'
  BY <1>5, <1>7, <1>8 DEF Watched
<1>9. \A h \in Hosts : ShownOnline(h)' <=> ShownOnline(h)
  BY <1>1 DEF ShownOnline
<1> QED
  BY <1>1, <1>6, <1>8, <1>9 DEF AllAttend, AllWatched, Asks

(* A socket whose phase, host and timer stay goes on watching.             *)
LEMMA StaysWatching ==
    ASSUME AllWatched, NEW s \in Sockets, OnlyOf(s), UNCHANGED <<hostRow, offliner, cached>>,
           conn'[s].pc = conn[s].pc, conn'[s].host = conn[s].host, conn'[s].timer = conn[s].timer,
           conn[s].pc = "serving" => conn'[s].link = conn[s].link
    PROVE  AllWatched'
<1>1. \A asking \in Asks : Watches(s, asking) => Host(s)' = Host(s) /\ Watches(s, asking)'
  BY DEF Watches, Host
<1>2. \A h \in Hosts : ShownOnline(h)' <=> ShownOnline(h)
  BY DEF ShownOnline
<1> QED
  BY <1>1, <1>2, OneWatches

(* A hello is issued by a socket that is registered and fresh, and so has  *)
(* a timer, or by one that was superseded, and so closes.                  *)
LEMMA HelloWatched ==
    ASSUME IInv, Steady, NEW s \in Sockets, AllAttend, AllWatched, HelloLost(s) \/ Hello(s)
    PROVE  AllAttend' /\ AllWatched'
<1>0. TypeOK /\ HostKnown /\ OnlyRegisteredStaysOpen /\ Attends(s) /\ conn[s] \in Conn
  BY ConnFields DEF IInv, AllAttend
<1>1. PICK x \in {"done", "issued"} :
         /\ conn' = [conn EXCEPT ![s].hello = x]
         /\ x = "issued" => Hello(s)
  BY DEF HelloLost, Hello
<1>2. UNCHANGED <<hostRow, connections, offliner, cached>>
  BY DEF HelloLost, Hello
<1>3. /\ conn'[s].pc = conn[s].pc /\ conn'[s].host = conn[s].host /\ conn'[s].link = conn[s].link
      /\ conn'[s].timer = conn[s].timer /\ conn'[s].silence = conn[s].silence
      /\ conn'[s].hello = x
      /\ \A t \in Sockets \ {s} : conn'[t] = conn[t]
  BY <1>0, <1>1 DEF TypeOK, Conn
<1>4. OnlyOf(s)
  BY <1>2, <1>3 DEF OnlyOf
<1>5. x = "issued" => conn[s].pc = "serving" /\ (conn[s].timer # None \/ conn[s].link = "closing")
  <2> SUFFICES ASSUME Hello(s)
               PROVE  conn[s].pc = "serving" /\ (conn[s].timer # None \/ conn[s].link = "closing")
    BY <1>1
  <2>1. conn[s].pc = "serving" /\ conn[s].link # "closed" /\ ~(conn[s].silence > OfflineAfter)
    <3>1. conn[s].pc = "serving" /\ conn[s].link # "closed" /\ conn[s].silence <= OfflineAfter
      BY DEF Hello, CanSend, Steady
    <3> QED
      BY <1>0, <3>1, BoundsAssumption DEF Conn, Silences
  <2>2. CASE connections[Host(s)] = s
    BY <1>0, <2>1, <2>2 DEF Attends
  <2>3. CASE connections[Host(s)] # s
    BY <1>0, <2>1, <2>3 DEF OnlyRegisteredStaysOpen, Accepted, Conn, Links
  <2> QED
    BY <2>2, <2>3
<1>6. Attends(s)'
  BY <1>0, <1>2, <1>3, <1>5 DEF Attends, Host
<1> QED
  BY <1>2, <1>3, <1>4, <1>6, StaysWatching, OneAttends

(* A hello is written while its socket will ask again.                     *)
LEMMA HelloWritesWatched ==
    ASSUME IInv, Steady', NEW s \in Sockets, AllAttend, AllWatched, HelloWrites(s), Steady
    PROVE  AllAttend' /\ AllWatched'
<1>0. TypeOK /\ HostKnown /\ Attends(s) /\ conn[s] \in Conn
  BY ConnFields DEF IInv, AllAttend
<1>1. /\ conn[s].hello = "issued" /\ conn' = [conn EXCEPT ![s].hello = "done"]
      /\ SetStatus(Host(s), "online")
      /\ UNCHANGED <<connections, offliner, cached>>
  <2>1. dbFailures' = dbFailures
    BY DEF Steady
  <2>2. ~DbFails
    BY <2>1 DEF DbFails, Steady
  <2> QED
    BY <2>2 DEF HelloWrites
<1>2. /\ conn'[s].pc = conn[s].pc /\ conn'[s].host = conn[s].host /\ conn'[s].link = conn[s].link
      /\ conn'[s].timer = conn[s].timer /\ conn'[s].silence = conn[s].silence
      /\ conn'[s].hello = "done"
      /\ \A t \in Sockets \ {s} : conn'[t] = conn[t]
  BY <1>0, <1>1 DEF TypeOK, Conn
<1>3. OnlyOf(s) /\ Host(s)' = Host(s) /\ Host(s) \in Hosts
  BY <1>0, <1>1, <1>2 DEF OnlyOf, Host, HostKnown, Attends
<1>4. Attends(s)'
  BY <1>0, <1>1, <1>2 DEF Attends, Host
<1>5. \A asking \in Asks : Watches(s, asking)'
  BY <1>0, <1>1, <1>2 DEF Watches, Attends
<1>6. \A h \in Hosts : ShownOnline(h)' => ShownOnline(h) \/ h = Host(s)
  BY <1>0, <1>1, <1>3, ShownByStatus
<1>7. Watches(s, UntilWritten)'
  BY <1>5 DEF Asks
<1>8. AllWatched'
  BY <1>1, <1>3, <1>5, <1>6, <1>7, OneWatches
<1> QED
  BY <1>3, <1>4, <1>8, OneAttends

(* A heartbeat arms the timer.                                             *)
LEMMA HeartbeatWatched ==
    ASSUME IInv, NEW s \in Sockets, AllAttend, AllWatched, Heartbeat(s)
    PROVE  AllAttend' /\ AllWatched'
<1>0. TypeOK /\ Attends(s) /\ conn[s] \in Conn
  BY ConnFields DEF IInv, AllAttend
<1> DEFINE r == [conn[s] EXCEPT !.silence = 0, !.timer = 0]
<1>1. /\ r.pc = conn[s].pc /\ r.host = conn[s].host /\ r.link = conn[s].link
      /\ r.timer = 0 /\ r.silence = 0 /\ r.hello = conn[s].hello
  BY <1>0 DEF Conn
<1>2. /\ conn[s].pc = "serving" /\ conn' = [conn EXCEPT ![s] = r]
      /\ cached' = cached \cup {Host(s)}
      /\ UNCHANGED <<hostRow, connections, offliner>>
  BY DEF Heartbeat
<1> HIDE DEF r
<1>3. conn'[s] = r /\ \A t \in Sockets \ {s} : conn'[t] = conn[t]
  BY <1>0, <1>2, Rewritten
<1>4. OnlyOf(s) /\ Host(s)' = Host(s)
  BY <1>1, <1>2, <1>3 DEF OnlyOf, Host
<1>5. None # 0
  BY NoneAssumption
<1>6. Attends(s)'
  BY <1>0, <1>1, <1>2, <1>3, <1>5 DEF Attends
<1>7. \A asking \in Asks : Watches(s, asking)'
  BY <1>1, <1>2, <1>3, <1>5 DEF Watches
<1>8. \A h \in Hosts : (ShownOnline(h)' <=> ShownOnline(h)) /\ (h \in cached' => h \in cached \/ h = Host(s))
  BY <1>2 DEF ShownOnline
<1>9. Watches(s, UntilEnded)'
  BY <1>7 DEF Asks
<1>10. AllWatched'
  BY <1>4, <1>7, <1>8, <1>9, OneWatches
<1> QED
  BY <1>4, <1>6, <1>10, OneAttends

(* The end of a socket nobody listens to, and an agent that dies.          *)
LEMMA GoneWatched ==
    ASSUME IInv, NEW s \in Sockets, AllAttend, AllWatched, CloseUnserved(s) \/ AgentDies(s)
    PROVE  AllAttend' /\ AllWatched'
<1>0. TypeOK /\ Attends(s) /\ conn[s] \in Conn
  BY ConnFields DEF IInv, AllAttend
<1>1. UNCHANGED <<hostRow, connections, offliner, cached>>
  BY DEF CloseUnserved, AgentDies
<1>2. /\ conn'[s].pc = conn[s].pc /\ conn'[s].host = conn[s].host
      /\ conn'[s].timer = conn[s].timer /\ conn'[s].silence = conn[s].silence
      /\ conn'[s].hello = "issued" => conn[s].hello = "issued"
      /\ conn[s].pc = "serving" => conn'[s].link = conn[s].link
      /\ \A t \in Sockets \ {s} : conn'[t] = conn[t]
  <2>1. CASE CloseUnserved(s)
    <3> DEFINE r == [conn[s] EXCEPT !.link = "closed", !.agent = FALSE,
                                    !.hello = Unsent(conn[s].hello)]
    <3>1. /\ r.pc = conn[s].pc /\ r.host = conn[s].host
          /\ r.timer = conn[s].timer /\ r.silence = conn[s].silence
          /\ r.hello = Unsent(conn[s].hello)
      BY <1>0 DEF Conn
    <3>2. conn[s].pc # "serving" /\ conn' = [conn EXCEPT ![s] = r]
      BY <2>1 DEF CloseUnserved
    <3> HIDE DEF r
    <3> QED
      BY <1>0, <3>1, <3>2, Rewritten DEF Unsent
  <2>2. CASE AgentDies(s)
    BY <1>0, <2>2 DEF AgentDies, TypeOK, Conn
  <2> QED
    BY <2>1, <2>2
<1>3. OnlyOf(s)
  BY <1>1, <1>2 DEF OnlyOf
<1>4. Attends(s)'
  BY <1>0, <1>1, <1>2 DEF Attends, Host
<1> QED
  BY <1>1, <1>2, <1>3, <1>4, StaysWatching, OneAttends

(* Time: a timer that is armed stays so, and ages no faster than silence.  *)
LEMMA TickWatched ==
    ASSUME IInv, AllAttend, AllWatched, Tick
    PROVE  AllAttend' /\ AllWatched'
<1>0. TypeOK /\ HostKnown
  BY DEF IInv
<1>1. UNCHANGED <<hostRow, connections, offliner, cached>>
  BY DEF Tick
<1>2. ASSUME NEW t \in Sockets
      PROVE  /\ conn'[t].pc = conn[t].pc /\ conn'[t].host = conn[t].host
             /\ conn'[t].link = conn[t].link /\ conn'[t].hello = conn[t].hello
             /\ conn'[t].silence = IF Registered(t) THEN Older(conn[t].silence, OfflineAfter + 1)
                                   ELSE conn[t].silence
             /\ conn'[t].timer = IF conn[t].timer = None THEN None
                                 ELSE Older(conn[t].timer, OfflineAfter + TimerSlack)
  BY <1>0, ConnFields DEF Tick, Conn
<1>3. ASSUME NEW t \in Sockets
      PROVE  /\ conn[t].timer = None <=> conn'[t].timer = None
             /\ Registered(t) /\ (\/ conn[t].silence > OfflineAfter
                                  \/ conn[t].timer # None /\ conn[t].timer <= conn[t].silence) =>
                   \/ conn'[t].silence > OfflineAfter
                   \/ conn'[t].timer # None /\ conn'[t].timer <= conn'[t].silence
  <2>1. conn[t].silence \in 0 .. OfflineAfter + 1
    BY <1>0, ConnFields DEF Silences
  <2>2. conn[t].timer # None => conn[t].timer \in 0 .. OfflineAfter + TimerSlack
    BY <1>0, ConnFields DEF TimerAges
  <2>3. conn[t].timer # None => conn'[t].timer \in Nat /\ conn'[t].timer <= conn[t].timer + 1
    BY <1>2, <2>2, BoundsAssumption DEF Older
  <2>4. \A n \in Nat : n # None
    BY NoneAssumption
  <2>5. conn[t].timer = None <=> conn'[t].timer = None
    BY <1>2, <2>3, <2>4
  <2>6. Registered(t) =>
           \/ conn'[t].silence = OfflineAfter + 1
           \/ conn[t].silence <= OfflineAfter /\ conn'[t].silence = conn[t].silence + 1
    BY <1>2, <2>1, BoundsAssumption DEF Older
  <2> QED
    BY <2>1, <2>2, <2>3, <2>5, <2>6, BoundsAssumption
<1>4. \A t \in Sockets : Host(t)' = Host(t)
  BY <1>2 DEF Host
<1>5. ASSUME NEW t \in Sockets PROVE Attends(t)'
  <2>1. Attends(t)
    BY DEF AllAttend
  <2>2. conn[t].pc = "serving" /\ connections[Host(t)] = t => Registered(t)
    BY <1>0 DEF HostKnown, Registered
  <2> QED
    BY <1>1, <1>2, <1>3, <1>4, <2>1, <2>2 DEF Attends
<1>6. ASSUME NEW t \in Sockets, NEW asking \in Asks, Watches(t, asking)
      PROVE  Watches(t, asking)'
  BY <1>1, <1>2, <1>3, <1>6 DEF Watches
<1>7. ASSUME NEW h \in Hosts, NEW asking \in Asks, Watched(h, asking) PROVE Watched(h, asking)'
  BY <1>4, <1>6, <1>7 DEF Watched
<1>8. \A h \in Hosts : ShownOnline(h)' <=> ShownOnline(h)
  BY <1>1 DEF ShownOnline
<1> QED
  BY <1>1, <1>5, <1>7, <1>8 DEF AllAttend, AllWatched, Asks

(* A host that is removed is shown no more.                                *)
LEMMA RemovalWatched ==
    ASSUME IInv, AllAttend, AllWatched, NEW g \in Hosts, RemoveHost(g)
    PROVE  AllAttend' /\ AllWatched'
<1>1. UNCHANGED <<connections, conn, offliner, cached>>
  BY DEF RemoveHost
<1>2. \A h \in Hosts : ShownOnline(h)' => ShownOnline(h)
  BY DEF RemoveHost, ShownOnline, IInv, TypeOK
<1>3. \A t \in Sockets : Attends(t)' <=> Attends(t)
  BY <1>1 DEF Attends, Host
<1>4. \A h \in Hosts, asking \in Asks : Watched(h, asking) => Watched(h, asking)'
  BY <1>1 DEF Watched, Watches, Host
<1> QED
  BY <1>1, <1>2, <1>3, <1>4 DEF AllAttend, AllWatched, Asks

(* A run that reads goes on to write.                                      *)
LEMMA ReadsWatched ==
    ASSUME IInv, NEW s \in Sockets, NEW k \in Causes, AllAttend, AllWatched, OfflinerReads(s, k)
    PROVE  AllAttend' /\ AllWatched'
<1>0. TypeOK /\ Attends(s)
  BY DEF IInv, AllAttend
<1>1. /\ offliner[s][k].pc = "reading"
      /\ UNCHANGED <<hostRow, connections, conn, cached>>
  BY DEF OfflinerReads
<1>2. /\ offliner'[s][k].pc = "writing"
      /\ \A j \in Causes \ {k} : offliner'[s][j] = offliner[s][j]
      /\ \A t \in Sockets \ {s} : offliner'[t] = offliner[t]
  BY <1>0 DEF OfflinerReads, TypeOK
<1>3. OnlyOf(s)
  BY <1>1, <1>2 DEF OnlyOf
<1>4. Attends(s)'
  BY <1>0, <1>1 DEF Attends, Host
<1>5. \A asking \in Asks : Watches(s, asking) => Host(s)' = Host(s) /\ Watches(s, asking)'
  BY <1>1, <1>2 DEF Watches, Host, Asks, UntilWritten, UntilEnded
<1>6. \A h \in Hosts : ShownOnline(h)' <=> ShownOnline(h)
  BY <1>1 DEF ShownOnline
<1>7. AllWatched'
  BY <1>1, <1>3, <1>5, <1>6, OneWatches
<1> QED
  BY <1>3, <1>4, <1>7, OneAttends

(* Once a run has written, nobody has to watch the status of its host, and *)
(* once it has ended, nobody the cache.                                    *)
LEMMA WritesWatched ==
    ASSUME IInv, NEW s \in Sockets, NEW k \in Causes, AllAttend, AllWatched,
           OfflinerWrites(s, k) \/ OfflinerEnds(s, k)
    PROVE  AllAttend' /\ AllWatched'
<1>0. TypeOK /\ HostKnown /\ Attends(s)
  BY DEF IInv, AllAttend
<1>1. /\ offliner[s][k].pc \in {"writing", "written"}
      /\ UNCHANGED <<connections, conn>>
  BY DEF OfflinerWrites, OfflinerEnds
<1>2. Host(s) \in Hosts /\ \A t \in Sockets : Host(t)' = Host(t)
  BY <1>0, <1>1 DEF HostKnown, Host, Attends
<1>3. /\ OfflinerWrites(s, k) => offliner[s][k].pc = "writing" /\ offliner'[s][k].pc = "written"
      /\ OfflinerEnds(s, k) => offliner[s][k].pc = "written" /\ offliner'[s][k].pc = "idle"
      /\ \A j \in Causes \ {k} : offliner'[s][j] = offliner[s][j]
      /\ \A t \in Sockets \ {s} : offliner'[t] = offliner[t]
  <2>1. CASE OfflinerWrites(s, k)
    BY <1>0, <2>1 DEF OfflinerWrites, OfflinerEnds, TypeOK, Offliner
  <2>2. CASE OfflinerEnds(s, k)
    BY <1>0, <2>2 DEF OfflinerWrites, OfflinerEnds, TypeOK, NoRun
  <2> QED
    BY <2>1, <2>2
<1>4. OnlyOf(s)
  BY <1>1, <1>3 DEF OnlyOf
<1>5. Attends(s)'
  BY <1>0, <1>1 DEF Attends, Host
<1>6. ASSUME NEW h \in Hosts, h # Host(s), NEW asking \in Asks, Watched(h, asking)
      PROVE  Watched(h, asking)'
  BY <1>4, <1>6, OthersWatch
<1>7. ASSUME NEW h \in Hosts, ShownOnline(h)' PROVE Watched(h, UntilWritten)'
  <2>1. CASE OfflinerWrites(s, k)
    <3>1. ShownOnline(h) /\ h # Host(s)
      BY <1>0, <1>2, <1>7, <2>1 DEF OfflinerWrites, SetStatus, ShownOnline, TypeOK, HostRow
    <3> QED
      BY <1>6, <3>1 DEF AllWatched, Asks
  <2>2. CASE OfflinerEnds(s, k)
    <3>1. ShownOnline(h)
      BY <1>7, <2>2 DEF OfflinerEnds, ShownOnline
    <3>2. Watches(s, UntilWritten) => Watches(s, UntilWritten)'
      BY <1>1, <1>3, <2>2 DEF Watches, UntilWritten
    <3>3. Watched(h, UntilWritten)
      BY <3>1 DEF AllWatched
    <3>4. Host(s) = h /\ Watches(s, UntilWritten) => Watched(h, UntilWritten)'
      BY <1>2, <3>2 DEF Watched
    <3> QED
      BY <1>4, <3>3, <3>4, OthersWatch DEF Asks
  <2> QED
    BY <2>1, <2>2
<1>8. ASSUME NEW h \in Hosts, h \in cached' PROVE Watched(h, UntilEnded)'
  <2>1. CASE OfflinerWrites(s, k)
    <3>1. h \in cached
      BY <1>8, <2>1 DEF OfflinerWrites
    <3>2. Watches(s, UntilEnded) => Watches(s, UntilEnded)'
      BY <1>1, <1>3, <2>1 DEF Watches, UntilEnded
    <3>3. Watched(h, UntilEnded)
      BY <3>1 DEF AllWatched
    <3>4. Host(s) = h /\ Watches(s, UntilEnded) => Watched(h, UntilEnded)'
      BY <1>2, <3>2 DEF Watched
    <3> QED
      BY <1>4, <3>3, <3>4, OthersWatch DEF Asks
  <2>2. CASE OfflinerEnds(s, k)
    <3>1. h \in cached /\ h # Host(s)
      BY <1>8, <2>2 DEF OfflinerEnds
    <3> QED
      BY <1>6, <3>1 DEF AllWatched, Asks
  <2> QED
    BY <2>1, <2>2
<1> QED
  BY <1>4, <1>5, <1>7, <1>8, OneAttends DEF AllWatched

(* A connection that makes a run of markOfflineIfStale return at once has  *)
(* a timer, unless its handler has yet to arm it.                          *)
LEMMA FreshWatches ==
    ASSUME IInv, AllAttend, NEW h \in Hosts, NEW c \in Sockets, connections[h] = c,
           conn[c].silence <= OfflineAfter
    PROVE  /\ Host(c) = h
           /\ \A asking \in Asks : Watches(c, asking)
           /\ conn[c].timer # None => conn[c].timer <= OfflineAfter
<1>0. TypeOK /\ Attends(c) /\ Host(c) = h /\ conn[c].pc \in Accepted
  BY NoneAssumption DEF IInv, AllAttend, MapSound
<1>1. /\ conn[c].silence \in Nat
      /\ conn[c].timer # None => conn[c].timer \in Nat
  BY <1>0, ConnFields, BoundsAssumption DEF Silences, TimerAges
<1>2. conn[c].pc \in {"marking", "marked", "serving"}
  BY <1>0 DEF Accepted, Attends
<1>3. conn[c].pc = "serving" => conn[c].timer # None /\ conn[c].timer <= OfflineAfter
  BY <1>0, <1>1, BoundsAssumption DEF Attends
<1>4. \A asking \in Asks : Watches(c, asking)
  BY <1>2, <1>3 DEF Watches
<1>5. conn[c].timer # None => conn[c].timer <= OfflineAfter
  BY <1>0, <1>3 DEF Attends
<1> QED
  BY <1>0, <1>4, <1>5

(* Who asks whether a host is stale leaves it to a fresh connection, or    *)
(* goes on to write.                                                       *)
LEMMA AskedWatches ==
    ASSUME TypeOK, NEW s \in Sockets, NEW k \in Causes, NEW c, MarkOfflineIfStale(s, k, c),
           Host(s)' = Host(s), \A t \in Sockets \ {s} : conn'[t] = conn[t],
           c # None /\ conn[c].silence <= OfflineAfter =>
              /\ c \in Sockets \ {s} /\ Host(c) = Host(s)
              /\ \A asking \in Asks : Watches(c, asking),
           NEW asking \in Asks
    PROVE  /\ Watched(Host(s), asking)'
           /\ \A t \in Sockets \ {s} : offliner'[t] = offliner[t]
<1>1. CASE c # None /\ conn[c].silence <= OfflineAfter
  <2>1. offliner' = offliner /\ conn'[c] = conn[c] /\ c \in Sockets
    BY <1>1 DEF MarkOfflineIfStale
  <2>2. Host(c)' = Host(s) /\ Watches(c, asking)'
    BY <1>1, <2>1 DEF Watches, Host
  <2> QED
    BY <2>1, <2>2 DEF Watched
<1>2. CASE ~(c # None /\ conn[c].silence <= OfflineAfter)
  <2>1. offliner' = [offliner EXCEPT ![s][k].pc = "reading"]
    BY <1>2, Zenon DEF MarkOfflineIfStale
  <2>2. /\ offliner'[s][k].pc = "reading"
        /\ \A t \in Sockets \ {s} : offliner'[t] = offliner[t]
    BY <2>1 DEF TypeOK, Offliner
  <2>3. Watches(s, asking)'
    BY <2>2 DEF Watches, Asks, UntilWritten, UntilEnded
  <2> QED
    BY <2>2, <2>3 DEF Watched
<1> QED
  BY <1>1, <1>2

(* A timer or a close event passes the host on.                            *)
LEMMA AskingWatched ==
    ASSUME IInv, Steady, NEW s \in Sockets, AllAttend, AllWatched, TimerFires(s) \/ CloseServed(s)
    PROVE  AllAttend' /\ AllWatched'
<1>0. TypeOK /\ HostKnown /\ Attends(s) /\ conn[s] \in Conn
  BY ConnFields DEF IInv, AllAttend
<1>1. UNCHANGED <<hostRow, cached>>
  BY DEF TimerFires, CloseServed
<1>2. /\ TimerFires(s) =>
            /\ conn'[s].pc = conn[s].pc /\ conn'[s].host = conn[s].host /\ conn'[s].timer = None
            /\ conn'[s].hello = conn[s].hello /\ conn'[s].silence = conn[s].silence
      /\ CloseServed(s) =>
            /\ conn'[s].pc = "gone" /\ conn'[s].host = conn[s].host /\ conn'[s].timer = None
            /\ conn'[s].hello = Unsent(conn[s].hello)
      /\ \A t \in Sockets \ {s} : conn'[t] = conn[t]
  <2>1. CASE TimerFires(s)
    <3>1. conn' = [conn EXCEPT ![s].timer = None]
      BY <2>1 DEF TimerFires
    <3>2. ~CloseServed(s) \/ conn'[s].pc = "gone"
      BY <1>0, CloseWrites
    <3>3. conn[s].pc = "serving" => conn'[s].pc # "gone"
      BY <1>0, <3>1 DEF Conn, TypeOK
    <3>4. ~CloseServed(s)
      BY <3>2, <3>3 DEF CloseServed
    <3> QED
      BY <1>0, <3>1, <3>4 DEF Conn, TypeOK
  <2>2. CASE ~TimerFires(s)
    <3> DEFINE r == [conn[s] EXCEPT
                   !.pc = "gone", !.link = "closed", !.agent = FALSE,
                   !.hello = Unsent(conn[s].hello), !.silence = 0, !.timer = None]
    <3>1. /\ r.pc = "gone" /\ r.host = conn[s].host /\ r.timer = None
          /\ r.hello = Unsent(conn[s].hello)
      BY <1>0 DEF Conn
    <3>2. conn' = [conn EXCEPT ![s] = r]
      BY <2>2 DEF CloseServed
    <3> HIDE DEF r
    <3> QED
      BY <1>0, <2>2, <3>1, <3>2, Rewritten
  <2> QED
    BY <2>1, <2>2
<1>3. conn[s].pc = "serving" /\ conn[s].hello # "issued" /\ Host(s)' = Host(s) /\ Host(s) \in Hosts
  <2>1. conn[s].pc = "serving"
    <3>1. TimerFires(s) => conn[s].timer # None
      BY NoneAssumption, BoundsAssumption DEF TimerFires
    <3> QED
      BY <1>0, <3>1 DEF CloseServed, Attends
  <2> QED
    BY <1>0, <1>2, <2>1 DEF TimerFires, CloseServed, Steady, HostKnown, Host
<1>4. PICK k \in Causes, c \in Sockets \cup {None} :
         /\ MarkOfflineIfStale(s, k, c)
         /\ c # None => c = connections[Host(s)]
         /\ c = s => TimerFires(s)
  <2>1. CASE TimerFires(s)
    <3>1. MarkOfflineIfStale(s, "timer", connections[Host(s)])
      BY <2>1 DEF TimerFires
    <3>2. "timer" \in Causes /\ connections[Host(s)] \in Sockets \cup {None}
      BY <1>0, <1>3 DEF Causes, TypeOK
    <3> QED
      BY <2>1, <3>1, <3>2
  <2>2. CASE CloseServed(s)
    <3> DEFINE left == IF connections[Host(s)] = s THEN None ELSE connections[Host(s)]
    <3>1. MarkOfflineIfStale(s, "close", left)
      BY <2>2 DEF CloseServed
    <3>2. "close" \in Causes /\ left \in Sockets \cup {None} /\ left # s
      BY <1>0, <1>3, NoneAssumption DEF Causes, TypeOK
    <3>3. left # None => left = connections[Host(s)]
      OBVIOUS
    <3> HIDE DEF left
    <3> QED
      BY <3>1, <3>2, <3>3
  <2> QED
    BY <2>1, <2>2
<1>5. c # None /\ conn[c].silence <= OfflineAfter =>
         /\ c \in Sockets \ {s} /\ Host(c) = Host(s)
         /\ \A asking \in Asks : Watches(c, asking)
  <2> SUFFICES ASSUME c # None, conn[c].silence <= OfflineAfter
               PROVE  /\ c # s /\ Host(c) = Host(s)
                      /\ \A asking \in Asks : Watches(c, asking)
    BY <1>4
  <2>1. c \in Sockets /\ connections[Host(s)] = c
    BY <1>4
  <2>2. /\ Host(c) = Host(s)
        /\ \A asking \in Asks : Watches(c, asking)
        /\ conn[c].timer # None => conn[c].timer <= OfflineAfter
    BY <1>3, <2>1, FreshWatches
  <2>3. TimerFires(s) => conn[s].timer # None /\ ~(conn[s].timer <= OfflineAfter)
    BY NoneAssumption, BoundsAssumption DEF TimerFires, Steady
  <2> QED
    BY <1>4, <2>2, <2>3
<1>6. \A asking \in Asks : Watched(Host(s), asking)'
  BY <1>0, <1>2, <1>3, <1>4, <1>5, AskedWatches
<1>7. OnlyOf(s)
  <2>1. \A t \in Sockets \ {s} : offliner'[t] = offliner[t]
    BY <1>0, <1>2, <1>3, <1>4, <1>5, AskedWatches DEF Asks
  <2>2. TimerFires(s) => UNCHANGED connections
    BY DEF TimerFires
  <2>3. CloseServed(s) => \A g \in Hosts, t \in Sockets \ {s} : connections'[g] = t => connections[g] = t
    BY <1>0, <1>3, CloseWrites, NoneAssumption DEF TypeOK
  <2>4. CloseServed(s) => \A t \in Sockets \ {s} : connections'[Host(t)] = t => connections[Host(t)] = t
    <3> SUFFICES ASSUME CloseServed(s), NEW t \in Sockets \ {s}, Host(t) \notin Hosts
                 PROVE  connections'[Host(t)] = connections[Host(t)]
      BY <2>3
    <3>1. connections' = [connections EXCEPT ![Host(s)] =
                             IF connections[Host(s)] = s THEN None ELSE connections[Host(s)]]
      BY <1>0, CloseWrites
    <3> QED
      BY <1>3, <3>1
  <2> QED
    BY <1>2, <2>1, <2>2, <2>4 DEF OnlyOf
<1>8. Attends(s)'
  <2>1. CASE TimerFires(s)
    <3>1. /\ connections' = connections
          /\ conn[s].timer = OfflineAfter + TimerSlack
      BY <2>1 DEF TimerFires
    <3>2. conn[s].silence \in Nat
      BY <1>0, BoundsAssumption DEF Conn, Silences
    <3>3. connections[Host(s)] = s => conn[s].silence > OfflineAfter
      BY <1>0, <1>3, <3>1, <3>2, BoundsAssumption DEF Attends, Steady
    <3> QED
      BY <1>2, <1>3, <2>1, <3>1, <3>3 DEF Attends
  <2>2. CASE CloseServed(s)
    BY <1>2, <1>3, <2>2 DEF Attends, Unsent
  <2> QED
    BY <2>1, <2>2
<1>9. ASSUME NEW h \in Hosts, NEW asking \in Asks, Watched(h, asking) PROVE Watched(h, asking)'
  <2>1. CASE h = Host(s)
    <3>1. Host(s)' = h
      BY <1>3, <2>1
    <3> QED
      BY <1>6, <3>1
  <2>2. CASE h # Host(s)
    BY <1>7, <1>9, <2>2, OthersWatch
  <2> QED
    BY <2>1, <2>2
<1>10. \A h \in Hosts : ShownOnline(h)' <=> ShownOnline(h)
  BY <1>1 DEF ShownOnline
<1>11. AllWatched'
  BY <1>1, <1>9, <1>10 DEF AllWatched, Asks
<1> QED
  BY <1>7, <1>8, <1>11, OneAttends

(* Nothing has failed if nothing has failed after the step.                *)
LEMMA StaysSteady ==
    ASSUME TypeOK, [Next]_vars, Steady'
    PROVE  Steady /\ restarts' = restarts /\ dbFailures' = dbFailures
<1>0. restarts \in Nat /\ dbFailures \in Nat
  BY BoundsAssumption DEF TypeOK
<1>1. restarts' \in {restarts, restarts + 1} /\ dbFailures' \in {dbFailures, dbFailures + 1}
  BY DEF Next, vars, Connect, Accepting, LookUp, Register, MarkOnline, Serve, AcceptFails, HelloLost, Hello,
         HelloWrites, Heartbeat, TimerFires, Offlining, OfflinerReads, OfflinerWrites, OfflinerEnds,
         OfflinerFails, Close, CloseServed, CloseUnserved, AgentDies, RemoveHost, Restart, Tick, DbFails
<1> QED
  BY <1>0, <1>1 DEF Steady

(* No step leaves a host that is shown online to nobody.                   *)
LEMMA NextWatched ==
    ASSUME IInv, WInv, [Next]_vars
    PROVE  WInv'
<1> SUFFICES ASSUME Steady' PROVE AllAttend' /\ AllWatched'
  BY DEF WInv
<1>0. TypeOK /\ Steady /\ restarts' = restarts /\ dbFailures' = dbFailures
  BY StaysSteady DEF IInv
<1>1. AllAttend /\ AllWatched
  BY <1>0 DEF WInv
<1>2. CASE UNCHANGED vars
  BY <1>1, <1>2 DEF vars, AllAttend, AllWatched, Attends, Watched, Watches, Host, ShownOnline
<1>3. CASE Next
  <2>1. ~Restart /\ \A s \in Sockets : ~AcceptFails(s) /\ \A k \in Causes : ~OfflinerFails(s, k)
    BY <1>0 DEF Restart, AcceptFails, OfflinerFails, DbFails, Steady
  <2>2. \/ \E s \in Sockets : \/ (\E h \in Hosts : Connect(s, h)) \/ LookUp(s)
                              \/ MarkOnline(s) \/ Serve(s)
                              \/ Register(s)
                              \/ HelloLost(s) \/ Hello(s)
                              \/ HelloWrites(s)
                              \/ Heartbeat(s)
                              \/ CloseUnserved(s) \/ AgentDies(s)
                              \/ TimerFires(s) \/ CloseServed(s)
        \/ \E s \in Sockets, k \in Causes : \/ OfflinerReads(s, k)
                                            \/ OfflinerWrites(s, k) \/ OfflinerEnds(s, k)
        \/ Tick
        \/ \E h \in Hosts : RemoveHost(h)
    BY <1>3, <2>1 DEF Next, Accepting, Offlining, Close
  <2> QED
    BY <1>0, <1>1, <2>2, LookUpWatched, ServeWatched, RegisterWatched, HelloWatched, HelloWritesWatched,
       HeartbeatWatched, GoneWatched, AskingWatched, ReadsWatched, WritesWatched, TickWatched, RemovalWatched
<1> QED
  BY <1>2, <1>3

(* While nothing fails, and timers are late and hellos in time: whatever   *)
(* the order in which sockets are accepted, superseded and closed, timers  *)
(* fire and runs of markOfflineIfStale overlap, a host that is shown       *)
(* online, or whose vitals are kept, is left to a socket that will ask.    *)
THEOREM OnlineAreWatched == Spec => []OnlineIsWatched
<1>1. Init => WInv
  <2> SUFFICES ASSUME Init PROVE AllAttend /\ AllWatched
    BY DEF WInv
  <2>1. AllAttend
    BY DEF Init, AllAttend, Attends, Unused, NoRun
  <2>2. AllWatched
    BY DEF Init, AllWatched, ShownOnline
  <2> QED
    BY <2>1, <2>2
<1>2. IInv /\ WInv /\ [Next]_vars => WInv'
  BY NextWatched
<1>3. WInv => OnlineIsWatched
  BY DEF WInv, OnlineIsWatched
<1> QED
  BY <1>1, <1>2, <1>3, Invariance, PTL DEF Spec

=============================================================================
