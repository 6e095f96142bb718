------------------------- MODULE GameServers_proofs -------------------------
(***************************************************************************)
(* Proofs about GameServers, for any number of hosts, servers, ports and   *)
(* reports under way: types and that an agent changes only the rows of its *)
(* own host; and, while the server actions of a user run one at a time,    *)
(* that nothing follows a delete command and that ports are exclusive, in  *)
(* the database and on the machines.                                       *)
(***************************************************************************)
EXTENDS GameServers, TLAPS

Message == [type : Commands, server : Servers]
Notice == [server : Servers, status : Reportable]

(* What an action under way has found out, and what a handler has.         *)
OpHas ==
    \A o \in Ops :
        /\ op[o].pc \in {"load", "tombstone", "send"}
              => /\ op[o].server \in Servers /\ row[op[o].server] # None
                 /\ op[o].kind \in Commands
        /\ op[o].pc \in {"host", "port", "insert"}
              => /\ op[o].host \in Hosts /\ op[o].port \in Ports
                 /\ op[o].kind = "deploy_server"

RepHas ==
    \A r \in Reporters :
        /\ rep[r].pc # "idle"
              => /\ rep[r].host \in Hosts /\ rep[r].server \in Servers
                 /\ rep[r].status \in Reportable
        /\ rep[r].pc = "write"
              => /\ row[rep[r].server] # None
                 /\ row[rep[r].server].host = rep[r].host

IInv == TypeOK /\ OpHas /\ RepHas

-----------------------------------------------------------------------------
(* Types.                                                                  *)

(* Every initial state satisfies the invariant.                            *)
LEMMA InitIInv == Init => IInv
  BY BoundsAssumption
  DEF Init, IInv, TypeOK, OpHas, RepHas, Idle, Op, NoReport, Report, Reportable

(* Sending on one of several queues, and taking from it.                   *)
LEMMA Sending ==
    ASSUME NEW S, NEW q \in [Hosts -> Seq(S)], NEW h \in Hosts, NEW m \in S
    PROVE  [q EXCEPT ![h] = Append(@, m)] \in [Hosts -> Seq(S)]
  OBVIOUS

LEMMA Taking ==
    ASSUME NEW S, NEW q \in [Hosts -> Seq(S)], NEW h \in Hosts, q[h] # <<>>
    PROVE  /\ Head(q[h]) \in S
           /\ [q EXCEPT ![h] = Tail(@)] \in [Hosts -> Seq(S)]
  OBVIOUS

LEMMA Emptying ==
    ASSUME NEW S, NEW q \in [Hosts -> Seq(S)], NEW h \in Hosts
    PROVE  [q EXCEPT ![h] = <<>>] \in [Hosts -> Seq(S)]
  OBVIOUS

(* The fields of a row that exists.                                        *)
LEMMA RowFields ==
    ASSUME TypeOK, NEW s \in Servers, row[s] # None
    PROVE  /\ row[s] \in Row /\ row[s].host \in Hosts /\ row[s].port \in Ports
           /\ row[s].status \in Statuses /\ row[s].deleted \in BOOLEAN
  BY DEF TypeOK, Row

(* The fields of an action under way.                                      *)
LEMMA OpFields ==
    ASSUME TypeOK, NEW o \in Ops
    PROVE  /\ op[o] \in Op
           /\ op[o].pc \in {"idle", "load", "tombstone", "host", "port", "insert", "send"}
           /\ op[o].kind \in Commands \cup {None} /\ op[o].server \in Servers \cup {None}
           /\ op[o].host \in Hosts \cup {None} /\ op[o].port \in Ports \cup {None}
  BY DEF TypeOK, Op

(* A step that leaves rows and handlers alone and moves one action on      *)
(* keeps the invariant, if what the action has found out is so.            *)
LEMMA OpMoves ==
    ASSUME IInv, NEW o \in Ops, NEW x \in Op, op' = [op EXCEPT ![o] = x],
           x.pc \in {"load", "tombstone", "send"}
              => x.server \in Servers /\ row[x.server] # None /\ x.kind \in Commands,
           x.pc \in {"host", "port", "insert"}
              => x.host \in Hosts /\ x.port \in Ports /\ x.kind = "deploy_server",
           UNCHANGED <<row, rep>>
    PROVE  op' \in [Ops -> Op] /\ OpHas' /\ RepHas'
<1>1. op' \in [Ops -> Op]
  BY DEF IInv, TypeOK
<1>2. \A p \in Ops : op'[p] = IF p = o THEN x ELSE op[p]
  BY DEF IInv, TypeOK
<1>3. OpHas'
  BY <1>2 DEF IInv, OpHas
<1>4. RepHas'
  BY DEF IInv, RepHas
<1> QED
  BY <1>1, <1>3, <1>4

(* Ending an action.                                                       *)
LEMMA Returns ==
    ASSUME IInv, NEW o \in Ops, Return(o), UNCHANGED <<row, rep>>
    PROVE  op' \in [Ops -> Op] /\ OpHas' /\ RepHas'
<1>1. Idle \in Op /\ Idle.pc = "idle"
  BY DEF Idle, Op
<1> QED
  BY <1>1, OpMoves DEF Return

(* Going on with what the action already knows.                            *)
LEMMA Continues ==
    ASSUME IInv, NEW o \in Ops, NEW pc, Continue(o, pc), UNCHANGED <<row, rep>>,
           \/ /\ op[o].pc \in {"load", "tombstone", "send"}
              /\ pc \in {"load", "tombstone", "send"}
           \/ /\ op[o].pc \in {"host", "port", "insert"}
              /\ pc \in {"host", "port", "insert"}
    PROVE  op' \in [Ops -> Op] /\ OpHas' /\ RepHas'
<1> DEFINE x == [op[o] EXCEPT !.pc = pc]
<1>1. /\ x \in Op /\ x.pc = pc /\ x.kind = op[o].kind /\ x.server = op[o].server
      /\ x.host = op[o].host /\ x.port = op[o].port
  BY OpFields DEF IInv, Op
<1>2. op' = [op EXCEPT ![o] = x]
  BY DEF Continue, IInv, TypeOK
<1>3. /\ op[o].pc \in {"load", "tombstone", "send"}
              => /\ op[o].server \in Servers /\ row[op[o].server] # None
                 /\ op[o].kind \in Commands
      /\ op[o].pc \in {"host", "port", "insert"}
              => /\ op[o].host \in Hosts /\ op[o].port \in Ports
                 /\ op[o].kind = "deploy_server"
  BY DEF IInv, OpHas
<1> HIDE DEF x
<1> QED
  BY <1>1, <1>2, <1>3, OpMoves

(* A step that leaves rows, actions and handlers alone.                    *)
LEMMA NothingMoves ==
    ASSUME IInv, UNCHANGED <<row, op, rep>>
    PROVE  OpHas' /\ RepHas'
  BY DEF IInv, OpHas, RepHas

(* Starting an action.                                                     *)
LEMMA BeginKeeps ==
    ASSUME IInv, NEW o \in Ops,
           \/ \E h \in Hosts, p \in Ports : BeginDeploy(o, h, p)
           \/ \E kind \in Lifecycle \cup {"delete_server"}, s \in Servers : BeginOther(o, kind, s)
    PROVE  IInv'
<1>1. ASSUME NEW h \in Hosts, NEW p \in Ports, BeginDeploy(o, h, p) PROVE IInv'
  <2> DEFINE x == [Idle EXCEPT !.pc = "host", !.kind = "deploy_server", !.host = h, !.port = p]
  <2>1. x \in Op /\ x.pc = "host" /\ x.kind = "deploy_server" /\ x.host = h /\ x.port = p
    BY DEF Idle, Op, Commands
  <2>2. /\ op' = [op EXCEPT ![o] = x]
        /\ UNCHANGED <<row, removed, rep, up, toAgent, toPlatform, real, drops>>
    BY <1>1 DEF BeginDeploy, Begin
  <2> HIDE DEF x
  <2> QED
    BY <2>1, <2>2, OpMoves DEF IInv, TypeOK
<1>2. ASSUME NEW kind \in Lifecycle \cup {"delete_server"}, NEW s \in Servers, BeginOther(o, kind, s)
      PROVE  IInv'
  <2> DEFINE x == [Idle EXCEPT !.pc = "load", !.kind = kind, !.server = s]
  <2>1. x \in Op /\ x.pc = "load" /\ x.kind \in Commands /\ x.server = s
    BY DEF Idle, Op, Commands
  <2>2. /\ op' = [op EXCEPT ![o] = x] /\ row[s] # None
        /\ UNCHANGED <<row, removed, rep, up, toAgent, toPlatform, real, drops>>
    BY <1>2 DEF BeginOther, Begin
  <2> HIDE DEF x
  <2> QED
    BY <2>1, <2>2, OpMoves DEF IInv, TypeOK
<1> QED
  BY <1>1, <1>2

(* Going on with one.                                                      *)
LEMMA StepKeeps ==
    ASSUME IInv, NEW o \in Ops, Step(o) \/ OpFails(o)
    PROVE  IInv'
<1>1. CASE FindHost(o) \/ CheckPort(o) \/ LoadOwnedServer(o) \/ OpFails(o)
  <2>1. UNCHANGED <<row, removed, rep, up, toAgent, toPlatform, real, drops>>
    BY <1>1 DEF FindHost, CheckPort, LoadOwnedServer, OpFails
  <2>2. \/ Return(o)
        \/ op[o].pc = "host" /\ Continue(o, "port")
        \/ op[o].pc = "port" /\ Continue(o, "insert")
        \/ op[o].pc = "load" /\ (Continue(o, "tombstone") \/ Continue(o, "send"))
    BY <1>1 DEF FindHost, CheckPort, LoadOwnedServer, OpFails
  <2>3. op' \in [Ops -> Op] /\ OpHas' /\ RepHas'
    BY <2>1, <2>2, Returns, Continues
  <2> QED
    BY <2>1, <2>3 DEF IInv, TypeOK
<1>2. ASSUME NEW s \in Servers, Insert(o, s) PROVE IInv'
  <2> DEFINE x == [op[o] EXCEPT !.pc = "send", !.server = s]
             y == [host |-> op[o].host, port |-> op[o].port,
                   status |-> "deploying", deleted |-> FALSE]
  <2>1. /\ op' = [op EXCEPT ![o] = x] /\ row' = [row EXCEPT ![s] = y] /\ row[s] = None
        /\ op[o].pc = "insert"
        /\ UNCHANGED <<removed, rep, up, toAgent, toPlatform, real, drops>>
    BY <1>2 DEF Insert
  <2>2. op[o].host \in Hosts /\ op[o].port \in Ports /\ op[o].kind = "deploy_server"
    BY <2>1 DEF IInv, OpHas
  <2>3. x \in Op /\ x.pc = "send" /\ x.server = s /\ x.kind = "deploy_server"
    BY <2>2, OpFields DEF IInv, Op
  <2>4. y \in Row
    BY <2>2 DEF Row, Statuses
  <2>5. y # None
    BY <2>4, NoneAssumption
  <2> HIDE DEF x, y
  <2>6. op' \in [Ops -> Op] /\ row' \in [Servers -> Row \cup {None}]
    BY <2>1, <2>3, <2>4 DEF IInv, TypeOK
  <2>7. /\ \A t \in Servers : row'[t] = IF t = s THEN y ELSE row[t]
        /\ \A p \in Ops : op'[p] = IF p = o THEN x ELSE op[p]
    BY <2>1 DEF IInv, TypeOK
  <2>8. OpHas'
    BY <2>1, <2>3, <2>5, <2>7 DEF IInv, OpHas, Commands
  <2>9. RepHas'
    BY <2>1, <2>5, <2>7 DEF IInv, RepHas
  <2> QED
    BY <2>1, <2>6, <2>8, <2>9 DEF IInv, TypeOK
<1>3. CASE Tombstone(o)
  <2> DEFINE s == op[o].server
             x == [op[o] EXCEPT !.pc = "send"]
             y == [row[s] EXCEPT !.status = "deleting", !.deleted = TRUE]
  <2>1. /\ op' = [op EXCEPT ![o] = x] /\ row' = [row EXCEPT ![s] = y]
        /\ op[o].pc = "tombstone"
        /\ UNCHANGED <<removed, rep, up, toAgent, toPlatform, real, drops>>
    BY <1>3 DEF Tombstone, Continue, IInv, TypeOK
  <2>2. s \in Servers /\ row[s] # None /\ op[o].kind \in Commands
    BY <2>1 DEF IInv, OpHas
  <2>3. x \in Op /\ x.pc = "send" /\ x.server = s /\ x.kind = op[o].kind
    BY OpFields DEF IInv, Op
  <2>4. y \in Row /\ y.host = row[s].host
    BY <2>2, RowFields DEF IInv, Row, Statuses
  <2>5. y # None
    BY <2>4, NoneAssumption
  <2> HIDE DEF s, x, y
  <2>6. op' \in [Ops -> Op] /\ row' \in [Servers -> Row \cup {None}]
    BY <2>1, <2>3, <2>4 DEF IInv, TypeOK
  <2>7. /\ \A t \in Servers : row'[t] = IF t = s THEN y ELSE row[t]
        /\ \A p \in Ops : op'[p] = IF p = o THEN x ELSE op[p]
    BY <2>1, <2>2 DEF IInv, TypeOK
  <2>8. OpHas'
    BY <2>1, <2>2, <2>3, <2>5, <2>7 DEF IInv, OpHas
  <2>9. RepHas'
    BY <2>1, <2>4, <2>5, <2>7 DEF IInv, RepHas
  <2> QED
    BY <2>1, <2>6, <2>8, <2>9 DEF IInv, TypeOK
<1>4. CASE Send(o)
  <2> DEFINE s == op[o].server
             m == [type |-> op[o].kind, server |-> s]
  <2>1. m \in Message
    BY <1>4 DEF Send, IInv, OpHas, Message
  <2>2. row[s].host \in Hosts
    BY <1>4, RowFields DEF Send, IInv, OpHas
  <2>3. \/ toAgent' = [toAgent EXCEPT ![row[s].host] = Append(@, m)]
        \/ UNCHANGED toAgent
    BY <1>4 DEF Send
  <2> HIDE DEF m
  <2>4. toAgent \in [Hosts -> Seq(Message)]
    BY DEF IInv, TypeOK, Message
  <2>6. toAgent' \in [Hosts -> Seq(Message)]
    <3>1. [toAgent EXCEPT ![row[s].host] = Append(@, m)] \in [Hosts -> Seq(Message)]
      BY <2>1, <2>2, <2>4, Sending
    <3> QED
      BY <2>3, <2>4, <3>1
  <2>5. op' \in [Ops -> Op] /\ OpHas' /\ RepHas'
    BY <1>4, Returns DEF Send
  <2> QED
    BY <1>4, <2>5, <2>6 DEF Send, IInv, TypeOK, Message
<1> QED
  BY <1>1, <1>2, <1>3, <1>4 DEF Step

(* Handling reports.                                                       *)
LEMMA HandleKeeps ==
    ASSUME IInv, NEW r \in Reporters, Handle(r)
    PROVE  IInv'
<1>1. NoReport \in Report /\ NoReport.pc = "idle"
  BY DEF NoReport, Report
<1>2. rep[r] \in Report
  BY DEF IInv, TypeOK
<1>3. ASSUME NEW h \in Hosts, Arrive(r, h) PROVE IInv'
  <2> DEFINE x == [pc |-> "read", host |-> h, server |-> Head(toPlatform[h]).server,
                   status |-> Head(toPlatform[h]).status]
  <2>1. rep' = [rep EXCEPT ![r] = x] /\ toPlatform[h] # <<>>
    BY <1>3 DEF Arrive
  <2>2. /\ Head(toPlatform[h]) \in Notice
        /\ [toPlatform EXCEPT ![h] = Tail(@)] \in [Hosts -> Seq(Notice)]
    <3>1. toPlatform \in [Hosts -> Seq(Notice)]
      BY DEF IInv, TypeOK, Notice
    <3> QED
      BY <2>1, <3>1, Taking
  <2>3. x \in Report /\ x.pc = "read" /\ x.host \in Hosts /\ x.server \in Servers
        /\ x.status \in Reportable
    BY <2>2 DEF Report, Notice
  <2> HIDE DEF x
  <2>4. RepHas'
    BY <1>3, <2>1, <2>3 DEF IInv, TypeOK, RepHas, Arrive
  <2>5. rep' \in [Reporters -> Report]
    BY <2>1, <2>3 DEF IInv, TypeOK
  <2> QED
    BY <1>3, <2>2, <2>4, <2>5 DEF IInv, TypeOK, OpHas, Arrive, Notice
<1>4. CASE Read(r)
  <2> DEFINE x == [rep[r] EXCEPT !.pc = "write"]
             s == rep[r].server
  <2>1. /\ x \in Report /\ x.pc = "write" /\ x.host = rep[r].host /\ x.server = s
        /\ x.status = rep[r].status
    BY <1>2 DEF Report
  <2>2. \/ rep' = [rep EXCEPT ![r] = x] /\ row[s] # None /\ row[s].host = rep[r].host
        \/ rep' = [rep EXCEPT ![r] = NoReport]
    BY <1>4 DEF Read, IInv, TypeOK
  <2>3. rep[r].host \in Hosts /\ s \in Servers /\ rep[r].status \in Reportable
    BY <1>4 DEF Read, IInv, RepHas
  <2> HIDE DEF x, s
  <2>4. UNCHANGED <<row, removed, op, up, toAgent, toPlatform, real, drops>>
    BY <1>4 DEF Read
  <2>5. \/ \A q \in Reporters : rep'[q] = IF q = r THEN x ELSE rep[q]
        \/ \A q \in Reporters : rep'[q] = IF q = r THEN NoReport ELSE rep[q]
    BY <2>2 DEF IInv, TypeOK
  <2>6. RepHas'
    <3>1. CASE rep' = [rep EXCEPT ![r] = NoReport]
      BY <1>1, <2>4, <3>1 DEF IInv, TypeOK, RepHas
    <3>2. CASE rep' = [rep EXCEPT ![r] = x] /\ row[s] # None /\ row[s].host = rep[r].host
      BY <2>1, <2>3, <2>4, <3>2 DEF IInv, TypeOK, RepHas
    <3> QED
      BY <2>2, <3>1, <3>2
  <2>7. rep' \in [Reporters -> Report]
    BY <1>1, <2>1, <2>2 DEF IInv, TypeOK
  <2> QED
    BY <2>4, <2>6, <2>7 DEF IInv, TypeOK, OpHas
<1>5. CASE Write(r)
  <2> DEFINE s == rep[r].server
             y == [row[s] EXCEPT !.status = rep[r].status]
  <2>1. s \in Servers /\ rep[r].status \in Reportable /\ row[s] # None
    BY <1>5 DEF Write, IInv, RepHas
  <2>2. y \in Row /\ y.host = row[s].host
    BY <2>1, RowFields DEF IInv, Row, Statuses, Reportable
  <2>3. y # None
    BY <2>2, NoneAssumption
  <2>4. row' = [row EXCEPT ![s] = y] /\ rep' = [rep EXCEPT ![r] = NoReport]
        /\ UNCHANGED <<removed, op, up, toAgent, toPlatform, real, drops>>
    BY <1>5, <2>1 DEF Write, IInv, TypeOK
  <2> HIDE DEF s, y
  <2>5. /\ \A t \in Servers : row'[t] = IF t = s THEN y ELSE row[t]
        /\ \A q \in Reporters : rep'[q] = IF q = r THEN NoReport ELSE rep[q]
    BY <2>1, <2>4 DEF IInv, TypeOK
  <2>6. OpHas'
    BY <2>3, <2>4, <2>5 DEF IInv, OpHas
  <2>7. RepHas'
    BY <1>1, <2>2, <2>3, <2>5 DEF IInv, RepHas
  <2>8. row' \in [Servers -> Row \cup {None}] /\ rep' \in [Reporters -> Report]
    BY <1>1, <2>2, <2>4 DEF IInv, TypeOK
  <2> QED
    BY <2>4, <2>6, <2>7, <2>8 DEF IInv, TypeOK
<1> QED
  BY <1>3, <1>4, <1>5 DEF Handle

(* What the agents and the network do.                                     *)
LEMMA OutsideKeeps ==
    ASSUME IInv, NEW h \in Hosts,
           \/ RemoveHost(h) \/ AgentObeys(h) \/ Drop(h) \/ Reconnect(h)
           \/ \E s \in Servers : AgentReports(h, s)
           \/ \E s \in Servers, status \in {"running", "stopped"} : AgentErrs(h, s, status)
    PROVE  IInv'
<1>1. OpHas' /\ RepHas'
  BY NothingMoves DEF RemoveHost, AgentObeys, Drop, Reconnect, AgentReports, AgentErrs
<1>2. ASSUME NEW s \in Servers, NEW status \in Reportable, Tell(h, s, status)
      PROVE  toPlatform' \in [Hosts -> Seq(Notice)]
  <2>1. [server |-> s, status |-> status] \in Notice
    BY DEF Notice
  <2>3. toPlatform \in [Hosts -> Seq(Notice)]
    BY DEF IInv, TypeOK, Notice
  <2>2. \/ toPlatform' = [toPlatform EXCEPT ![h] = Append(@, [server |-> s, status |-> status])]
        \/ UNCHANGED toPlatform
    BY <1>2 DEF Tell
  <2> QED
    <3> DEFINE m == [server |-> s, status |-> status]
    <3>1. m \in Notice
      BY <2>1
    <3>2. \/ toPlatform' = [toPlatform EXCEPT ![h] = Append(@, m)]
          \/ toPlatform' = toPlatform
      BY <2>2
    <3> HIDE DEF m
    <3>3. [toPlatform EXCEPT ![h] = Append(@, m)] \in [Hosts -> Seq(Notice)]
      BY <2>3, <3>1, Sending
    <3> QED
      BY <2>3, <3>2, <3>3
<1>3. TypeOK'
  <2>1. CASE RemoveHost(h) \/ Reconnect(h)
    BY <2>1 DEF RemoveHost, Reconnect, IInv, TypeOK
  <2>2. CASE Drop(h)
    <3>1. drops' \in 0 .. MaxDrops
      BY <2>2, BoundsAssumption DEF Drop, IInv, TypeOK
    <3>2. up' \in [Hosts -> BOOLEAN]
      BY <2>2 DEF Drop, IInv, TypeOK
    <3>3. toAgent' \in [Hosts -> Seq(Message)]
      BY <2>2, Emptying DEF Drop, IInv, TypeOK, Message
    <3>4. toPlatform' \in [Hosts -> Seq(Notice)]
      BY <2>2, Emptying DEF Drop, IInv, TypeOK, Notice
    <3> QED
      BY <2>2, <3>1, <3>2, <3>3, <3>4 DEF Drop, IInv, TypeOK, Message, Notice
  <2>3. CASE AgentObeys(h)
    <3> DEFINE cmd == Head(toAgent[h])
               new == Effect(cmd.type, real[cmd.server])
    <3>1. cmd \in Message /\ toAgent' \in [Hosts -> Seq(Message)]
      <4>1. toAgent \in [Hosts -> Seq(Message)]
        BY DEF IInv, TypeOK, Message
      <4> QED
        BY <2>3, <4>1, Taking DEF AgentObeys
    <3>2. real[cmd.server] \in Reportable \cup {"absent"}
      BY <3>1 DEF IInv, TypeOK, Message
    <3> HIDE DEF cmd
    <3>3. new \in Reportable \cup {"absent"}
      BY <3>1, <3>2 DEF Effect, Message, Commands, Lifecycle, Reportable
    <3> HIDE DEF new
    <3>4. Reported(new) \in Reportable
      BY <3>3 DEF Reported, Reportable
    <3>5. real' = [real EXCEPT ![cmd.server] = new] /\ Tell(h, cmd.server, Reported(new))
      BY <2>3 DEF AgentObeys, cmd, new
    <3>6. toPlatform' \in [Hosts -> Seq(Notice)]
      BY <1>2, <3>1, <3>4, <3>5 DEF Message
    <3>8. real' \in [Servers -> Reportable \cup {"absent"}]
      BY <3>3, <3>5 DEF IInv, TypeOK
    <3> QED
      BY <2>3, <3>1, <3>6, <3>8 DEF AgentObeys, IInv, TypeOK, Message, Notice
  <2>4. ASSUME NEW s \in Servers, AgentReports(h, s) PROVE TypeOK'
    <3>1. PICK new \in {"running", "crashed"} :
              real' = [real EXCEPT ![s] = new] /\ Tell(h, s, new)
      BY <2>4 DEF AgentReports
    <3>2. toPlatform' \in [Hosts -> Seq(Notice)]
      BY <1>2, <3>1 DEF Reportable
    <3>3. real' \in [Servers -> Reportable \cup {"absent"}]
      BY <3>1 DEF IInv, TypeOK, Reportable
    <3> QED
      BY <2>4, <3>2, <3>3 DEF AgentReports, IInv, TypeOK, Notice
  <2>5. ASSUME NEW s \in Servers, NEW status \in {"running", "stopped"}, AgentErrs(h, s, status)
        PROVE  TypeOK'
    <3>1. toPlatform' \in [Hosts -> Seq(Notice)]
      BY <1>2, <2>5 DEF AgentErrs, Reportable
    <3> QED
      BY <2>5, <3>1 DEF AgentErrs, IInv, TypeOK, Notice
  <2> QED
    BY <2>1, <2>2, <2>3, <2>4, <2>5
<1> QED
  BY <1>1, <1>3 DEF IInv

(* Every step keeps the invariant.                                         *)
LEMMA NextIInv == IInv /\ [Next]_vars => IInv'
<1> SUFFICES ASSUME IInv, [Next]_vars PROVE IInv'
  OBVIOUS
<1>1. CASE Next
  BY <1>1, BeginKeeps, StepKeeps, HandleKeeps, OutsideKeeps DEF Next
<1>2. CASE UNCHANGED vars
  BY <1>2 DEF vars, IInv, TypeOK, OpHas, RepHas
<1> QED
  BY <1>1, <1>2

(* The state of the module is always well typed, and an action or handler  *)
(* under way has what the code read before it got there.                   *)
THEOREM Invariance == Spec => []IInv
  BY InitIInv, NextIInv, PTL DEF Spec

(* The state of the module is always well typed.                           *)
THEOREM TypeCorrect == Spec => []TypeOK
<1>1. IInv => TypeOK
  BY DEF IInv
<1> QED
  BY <1>1, Invariance, PTL

(* An agent's report never changes the row of another host's server,       *)
(* whatever server it names and however late its UPDATE is executed.       *)
THEOREM Isolation == Spec => HostIsolation
<1>1. ASSUME IInv, NEW s \in Servers, NEW r \in Reporters, Write(r), row'[s] # row[s]
      PROVE  row[s].host = rep[r].host
  <2>1. rep[r].server \in Servers /\ row[rep[r].server].host = rep[r].host
    BY <1>1 DEF IInv, RepHas, Write
  <2>2. s = rep[r].server
    BY <1>1, <2>1 DEF Write, IInv, TypeOK
  <2> QED
    BY <2>1, <2>2
<1>2. IInv => [\A s \in Servers, r \in Reporters :
          Write(r) /\ row'[s] # row[s] => row[s].host = rep[r].host]_vars
  BY <1>1
<1> QED
  BY <1>2, Invariance, PTL DEF HostIsolation

-----------------------------------------------------------------------------
(* One server action at a time.                                            *)

OneAtATime == \A o, p \in Ops : o = p

(* One of the first k messages of q is of this type and about s.           *)
In(q, k, type, s) == \E i \in 1 .. k : q[i].type = type /\ q[i].server = s

Queue(s) == toAgent[row[s].host]

(* Server s will be on its machine when the first k commands are obeyed.   *)
Installed(s, k) ==
    /\ real[s] # "absent" \/ In(Queue(s), k, "deploy_server", s)
    /\ ~In(Queue(s), k, "delete_server", s)

Told(s) == In(Queue(s), Len(Queue(s)), "delete_server", s)

Deleting(s) ==
    \E o \in Ops : op[o].pc = "send" /\ op[o].kind = "delete_server" /\ op[o].server = s

LiveIsNotDeleting == \A s \in Servers : Live(s) => row[s].status # "deleting"

(* What an action has found out and nobody else can have undone.           *)
OpKnows ==
    \A o \in Ops :
        /\ op[o].pc = "insert" => ~PortTaken(op[o].host, op[o].port)
        /\ op[o].pc = "load" => op[o].kind # "deploy_server"
        /\ op[o].pc = "tombstone" => op[o].kind = "delete_server" /\ Live(op[o].server)
        /\ op[o].pc = "send" =>
              IF op[o].kind = "delete_server"
              THEN ~Live(op[o].server) /\ ~Told(op[o].server)
              ELSE Live(op[o].server)

(* A command under way is for a server of that host, and is a delete       *)
(* command only if the row says so.                                        *)
QueueKnows ==
    \A h \in Hosts : \A i \in 1 .. Len(toAgent[h]) :
        /\ row[toAgent[h][i].server] # None
        /\ row[toAgent[h][i].server].host = h
        /\ toAgent[h][i].type = "delete_server" => row[toAgent[h][i].server].deleted

MachineKnows ==
    /\ drops = 0 => \A h \in Hosts : up[h]
    /\ \A s \in Servers : real[s] # "absent" => row[s] # None

(* What will be on a machine when its commands are obeyed is in the        *)
(* database, or about to be deleted.                                       *)
InstalledIsLive ==
    drops = 0 => \A s \in Servers :
        row[s] # None /\ Installed(s, Len(Queue(s))) => Live(s) \/ Deleting(s)

(* However many of its commands a machine has obeyed, no two servers on it *)
(* have one port.                                                          *)
OneInstalled ==
    drops = 0 => \A s, t \in Servers :
        row[s] # None /\ row[t] # None /\ row[s].host = row[t].host /\ row[s].port = row[t].port
        => \A k \in 0 .. Len(Queue(s)) : Installed(s, k) /\ Installed(t, k) => s = t

OneInv ==
    /\ LiveIsNotDeleting /\ PortsExclusive /\ OpKnows /\ QueueKnows /\ NothingAfterDelete
    /\ MachineKnows /\ InstalledIsLive /\ OneInstalled

(* Sequence a is q with m at the end.                                      *)
Longer(a, q, m) ==
    /\ Len(a) = Len(q) + 1
    /\ \A i \in 1 .. Len(q) : a[i] = q[i]
    /\ a[Len(q) + 1] = m

LEMMA AppendIsLonger ==
    ASSUME NEW q \in Seq(Message), NEW m \in Message
    PROVE  Append(q, m) \in Seq(Message) /\ Longer(Append(q, m), q, m)
  BY DEF Longer

(* What is in the longer one.                                              *)
LEMMA InLonger ==
    ASSUME NEW q \in Seq(Message), NEW m \in Message, NEW a \in Seq(Message), Longer(a, q, m),
           NEW type, NEW s
    PROVE  /\ \A k \in 0 .. Len(q) : In(a, k, type, s) <=> In(q, k, type, s)
           /\ In(a, Len(q) + 1, type, s)
                 <=> In(q, Len(q), type, s) \/ (m.type = type /\ m.server = s)
<1>1. Len(q) \in Nat
  OBVIOUS
<1>2. \A k \in 0 .. Len(q) : In(a, k, type, s) <=> In(q, k, type, s)
  BY <1>1 DEF In, Longer
<1>3. In(a, Len(q) + 1, type, s)
         <=> In(q, Len(q), type, s) \/ (m.type = type /\ m.server = s)
  BY <1>1 DEF In, Longer
<1> QED
  BY <1>2, <1>3

(* Steps that leave alone all that OneInv is about but the actions.        *)
LEMMA OpsOnly ==
    ASSUME IInv, OneInv, UNCHANGED <<row, up, toAgent, real, drops>>, OpKnows',
           \A s \in Servers : Deleting(s) => Deleting(s)'
    PROVE  OneInv'
<1>1. LiveIsNotDeleting' /\ PortsExclusive' /\ QueueKnows' /\ NothingAfterDelete' /\ MachineKnows'
  BY DEF OneInv, LiveIsNotDeleting, PortsExclusive, QueueKnows, NothingAfterDelete, MachineKnows,
         Live
<1>2. \A s \in Servers : Queue(s)' = Queue(s) /\ (Live(s)' <=> Live(s))
  BY DEF Queue, Live
<1>3. \A k : \A s \in Servers : Installed(s, k)' <=> Installed(s, k)
  BY <1>2 DEF Installed, In
<1>4. InstalledIsLive'
  BY <1>2, <1>3 DEF OneInv, InstalledIsLive
<1>5. OneInstalled'
  BY <1>2, <1>3 DEF OneInv, OneInstalled
<1> QED
  BY <1>1, <1>4, <1>5 DEF OneInv

(* The other steps that leave rows, commands and machines alone.           *)
LEMMA OthersKeepOne ==
    ASSUME IInv, OneInv, UNCHANGED <<row, op, toAgent, real, drops>>,
           \A h \in Hosts : up[h] => up'[h]
    PROVE  OneInv'
<1>1. \A s \in Servers : /\ Queue(s)' = Queue(s) /\ (Live(s)' <=> Live(s))
                         /\ (Told(s)' <=> Told(s)) /\ (Deleting(s)' <=> Deleting(s))
  BY DEF Queue, Live, Told, Deleting, In
<1>2. LiveIsNotDeleting' /\ PortsExclusive' /\ QueueKnows' /\ NothingAfterDelete' /\ MachineKnows'
  BY DEF OneInv, LiveIsNotDeleting, PortsExclusive, QueueKnows, NothingAfterDelete, MachineKnows,
         Live
<1>3. OpKnows'
  BY DEF OneInv, OpKnows, PortTaken, Live, Told, In, Queue
<1>4. \A k : \A s \in Servers : Installed(s, k)' <=> Installed(s, k)
  BY <1>1 DEF Installed, In
<1>5. InstalledIsLive' /\ OneInstalled'
  BY <1>1, <1>4 DEF OneInv, InstalledIsLive, OneInstalled
<1> QED
  BY <1>2, <1>3, <1>5 DEF OneInv

LEMMA BeginKeepsOne ==
    ASSUME IInv, OneInv, OneAtATime, NEW o \in Ops,
           \/ \E h \in Hosts, p \in Ports : BeginDeploy(o, h, p)
           \/ \E kind \in Lifecycle \cup {"delete_server"}, s \in Servers : BeginOther(o, kind, s)
    PROVE  OneInv'
<1>1. UNCHANGED <<row, up, toAgent, real, drops>> /\ op[o].pc = "idle"
  BY DEF BeginDeploy, BeginOther, Begin
<1>2. \A p \in Ops : p = o
  BY DEF OneAtATime
<1>3. op'[o].pc = "host" \/ (op'[o].pc = "load" /\ op'[o].kind # "deploy_server")
  BY DEF BeginDeploy, BeginOther, Begin, Idle, IInv, TypeOK, Lifecycle
<1>4. OpKnows'
  BY <1>2, <1>3 DEF OpKnows
<1>5. \A s \in Servers : ~Deleting(s)
  BY <1>1, <1>2 DEF Deleting
<1> QED
  BY <1>1, <1>4, <1>5, OpsOnly

(* The steps of an action up to its first write.                           *)
LEMMA ReadsKeepOne ==
    ASSUME IInv, OneInv, OneAtATime, NEW o \in Ops,
           FindHost(o) \/ CheckPort(o) \/ LoadOwnedServer(o) \/ OpFails(o)
    PROVE  OneInv'
<1>1. UNCHANGED <<row, up, toAgent, real, drops>> /\ op[o].pc # "send"
  BY DEF FindHost, CheckPort, LoadOwnedServer, OpFails
<1>2. \A p \in Ops : p = o
  BY DEF OneAtATime
<1>3. \/ op'[o] = Idle
      \/ op'[o] = [op[o] EXCEPT !.pc = "port"]
      \/ op'[o] = [op[o] EXCEPT !.pc = "insert"] /\ ~PortTaken(op[o].host, op[o].port)
      \/ /\ op[o].pc = "load" /\ Live(op[o].server)
         /\ IF op[o].kind = "delete_server" THEN op'[o] = [op[o] EXCEPT !.pc = "tombstone"]
                                            ELSE op'[o] = [op[o] EXCEPT !.pc = "send"]
  BY DEF FindHost, CheckPort, LoadOwnedServer, OpFails, Continue, Return, IInv, TypeOK
<1>4. op[o] \in Op
  BY DEF IInv, TypeOK
<1>5. \A s \in Servers : (Live(s)' <=> Live(s)) /\ (Told(s)' <=> Told(s))
  BY <1>1 DEF Live, Told, Queue, In
<1>6. \A h, p : PortTaken(h, p)' <=> PortTaken(h, p)
  BY <1>1 DEF Live, PortTaken
<1>7. OpKnows'
  <2>1. CASE op'[o] = Idle
    BY <1>2, <2>1 DEF OpKnows, Idle
  <2>2. CASE op'[o] = [op[o] EXCEPT !.pc = "port"]
    BY <1>2, <1>4, <2>2 DEF OpKnows, Op
  <2>3. CASE op'[o] = [op[o] EXCEPT !.pc = "insert"] /\ ~PortTaken(op[o].host, op[o].port)
    <3>1. op'[o].pc = "insert" /\ op'[o].host = op[o].host /\ op'[o].port = op[o].port
      BY <1>4, <2>3 DEF Op
    <3> QED
      BY <1>2, <1>6, <2>3, <3>1 DEF OpKnows
  <2>4. CASE /\ op[o].pc = "load" /\ Live(op[o].server)
             /\ IF op[o].kind = "delete_server" THEN op'[o] = [op[o] EXCEPT !.pc = "tombstone"]
                                                ELSE op'[o] = [op[o] EXCEPT !.pc = "send"]
    <3>1. /\ op'[o].pc = IF op[o].kind = "delete_server" THEN "tombstone" ELSE "send"
          /\ op'[o].kind = op[o].kind /\ op'[o].server = op[o].server
      BY <1>4, <2>4 DEF Op
    <3>2. op[o].server \in Servers
      BY <2>4 DEF IInv, OpHas
    <3> QED
      BY <1>2, <1>5, <2>4, <3>1, <3>2 DEF OpKnows
  <2> QED
    BY <1>3, <2>1, <2>2, <2>3, <2>4
<1>8. \A s \in Servers : ~Deleting(s)
  BY <1>1, <1>2 DEF Deleting
<1> QED
  BY <1>1, <1>7, <1>8, OpsOnly

LEMMA InsertKeepsOne ==
    ASSUME IInv, OneInv, OneAtATime, NEW o \in Ops, NEW s \in Servers, Insert(o, s)
    PROVE  OneInv'
<1> DEFINE y == [host |-> op[o].host, port |-> op[o].port,
                 status |-> "deploying", deleted |-> FALSE]
<1>1. /\ row' = [row EXCEPT ![s] = y] /\ row[s] = None /\ op[o].pc = "insert"
      /\ UNCHANGED <<removed, rep, up, toAgent, toPlatform, real, drops>>
  BY DEF Insert
<1>2. /\ y.host = op[o].host /\ y.port = op[o].port /\ y.status = "deploying" /\ ~y.deleted
      /\ y \in Row /\ y.host \in Hosts
  BY <1>1 DEF Row, Statuses, IInv, OpHas
<1>3. y # None
  BY <1>2, NoneAssumption
<1> HIDE DEF y
<1>4. /\ \A t \in Servers : row'[t] = IF t = s THEN y ELSE row[t]
      /\ \A p \in Ops : p = o
  BY <1>1 DEF IInv, TypeOK, OneAtATime
<1>5. op'[o].pc = "send" /\ op'[o].kind = "deploy_server" /\ op'[o].server = s
  BY <1>1 DEF Insert, IInv, TypeOK, OpHas, Op
<1>6. ~PortTaken(op[o].host, op[o].port)
  BY <1>1 DEF OneInv, OpKnows
<1>7. \A t \in Servers : /\ t # s => (Live(t)' <=> Live(t)) /\ Queue(t)' = Queue(t)
                         /\ ~Deleting(t)
  BY <1>1, <1>4 DEF Live, Queue, Deleting
<1>8. Live(s)' /\ Queue(s)' = toAgent[y.host]
  BY <1>1, <1>2, <1>3, <1>4 DEF Live, Queue
<1>9. LiveIsNotDeleting'
  BY <1>2, <1>4, <1>7 DEF OneInv, LiveIsNotDeleting
<1>10. PortsExclusive'
  <2>1. \A t \in Servers : t # s /\ Live(t) => ~(row[t].host = y.host /\ row[t].port = y.port)
    BY <1>2, <1>6 DEF PortTaken, OneInv, LiveIsNotDeleting
  <2> QED
    BY <1>4, <1>7, <2>1 DEF OneInv, PortsExclusive
<1>11. OpKnows'
  BY <1>4, <1>5, <1>8 DEF OpKnows
<1>12. \A h \in Hosts : \A i \in 1 .. Len(toAgent[h]) :
          toAgent[h][i].server \in Servers /\ toAgent[h][i].server # s
  <2>1. ASSUME NEW h \in Hosts, NEW i \in 1 .. Len(toAgent[h]) PROVE toAgent[h][i] \in Message
    <3>1. toAgent \in [Hosts -> Seq(Message)]
      BY DEF IInv, TypeOK, Message
    <3> QED
      BY <3>1
  <2> QED
    BY <1>1, <2>1 DEF OneInv, QueueKnows, Message
<1>13. QueueKnows' /\ NothingAfterDelete'
  BY <1>1, <1>4, <1>12 DEF OneInv, QueueKnows, NothingAfterDelete
<1>14. MachineKnows'
  BY <1>1, <1>3, <1>4 DEF OneInv, MachineKnows
<1>15. \A k \in 0 .. Len(toAgent[y.host]) : ~Installed(s, k)'
  <2>1. real'[s] = "absent"
    BY <1>1, NoneAssumption DEF OneInv, MachineKnows
  <2>2. Len(toAgent[y.host]) \in Nat
    BY <1>2 DEF IInv, TypeOK
  <2> QED
    BY <1>2, <1>8, <1>12, <2>1, <2>2 DEF Installed, In
<1>16. \A k : \A t \in Servers : t # s => (Installed(t, k)' <=> Installed(t, k))
  BY <1>1, <1>7 DEF Installed, In
<1>17. Len(toAgent[y.host]) \in 0 .. Len(toAgent[y.host])
  BY <1>2 DEF IInv, TypeOK
<1>18. InstalledIsLive'
  BY <1>1, <1>4, <1>7, <1>8, <1>15, <1>16, <1>17 DEF OneInv, InstalledIsLive
<1>19. OneInstalled'
  <2> SUFFICES ASSUME drops = 0, NEW t \in Servers, NEW u \in Servers,
                      row'[t] # None, row'[u] # None, row'[t].host = row'[u].host,
                      row'[t].port = row'[u].port, NEW k \in 0 .. Len(Queue(t)'),
                      Installed(t, k)', Installed(u, k)', t # u
               PROVE  FALSE
    BY <1>1 DEF OneInstalled
  <2>1. Queue(t)' = toAgent[row'[t].host] /\ Queue(u)' = Queue(t)'
    BY <1>1 DEF Queue
  <2>2. CASE t = s \/ u = s
    BY <1>8, <1>15, <2>1, <2>2
  <2>3. CASE t # s /\ u # s
    BY <1>4, <1>7, <1>16, <2>3 DEF OneInv, OneInstalled
  <2> QED
    BY <2>2, <2>3
<1> QED
  BY <1>9, <1>10, <1>11, <1>13, <1>14, <1>18, <1>19 DEF OneInv

LEMMA TombstoneKeepsOne ==
    ASSUME IInv, OneInv, OneAtATime, NEW o \in Ops, Tombstone(o), NEW s, s = op[o].server
    PROVE  OneInv'
<1> DEFINE y == [row[s] EXCEPT !.status = "deleting", !.deleted = TRUE]
<1>1. /\ row' = [row EXCEPT ![s] = y] /\ op[o].pc = "tombstone"
      /\ UNCHANGED <<removed, rep, up, toAgent, toPlatform, real, drops>>
  BY DEF Tombstone, IInv, TypeOK
<1>2. s \in Servers /\ op[o].kind = "delete_server" /\ Live(s)
  BY <1>1 DEF IInv, OpHas, OneInv, OpKnows
<1>3. /\ y.host = row[s].host /\ y.port = row[s].port /\ y.deleted /\ y \in Row
  BY <1>2, RowFields DEF IInv, Row, Statuses, Live
<1>4. y # None
  BY <1>3, NoneAssumption
<1>5. op'[o].pc = "send" /\ op'[o].kind = "delete_server" /\ op'[o].server = s
  BY <1>1, <1>2 DEF Tombstone, Continue, IInv, TypeOK, Op
<1> HIDE DEF y
<1>6. /\ \A t \in Servers : row'[t] = IF t = s THEN y ELSE row[t]
      /\ \A p \in Ops : p = o
  BY <1>1 DEF IInv, TypeOK, OneAtATime
<1>7. \A t \in Servers : /\ t # s => (Live(t)' <=> Live(t))
                         /\ Queue(t)' = Queue(t) /\ ~Deleting(t)
                         /\ row'[t].host = row[t].host /\ row'[t].port = row[t].port
                         /\ (row'[t] # None <=> row[t] # None)
  BY <1>1, <1>2, <1>3, <1>4, <1>6 DEF Live, Queue, Deleting
<1>8. ~Live(s)' /\ Deleting(s)'
  BY <1>2, <1>3, <1>5, <1>6 DEF Live, Deleting
<1>9. LiveIsNotDeleting' /\ PortsExclusive'
  BY <1>6, <1>7, <1>8 DEF OneInv, LiveIsNotDeleting, PortsExclusive
<1>10. ~Told(s)'
  <2>1. toAgent \in [Hosts -> Seq(Message)] /\ row[s].host \in Hosts
    BY <1>2, RowFields DEF IInv, TypeOK, Message, Live
  <2>2. \A i \in 1 .. Len(Queue(s)) : ~(Queue(s)[i].type = "delete_server" /\ Queue(s)[i].server = s)
    BY <1>2, <2>1 DEF OneInv, QueueKnows, Queue, Live
  <2> QED
    BY <1>2, <1>7, <2>2 DEF Told, In
<1>11. OpKnows'
  BY <1>2, <1>5, <1>6, <1>8, <1>10 DEF OpKnows
<1>12. QueueKnows' /\ NothingAfterDelete'
  <2>1. \A h \in Hosts : \A i \in 1 .. Len(toAgent[h]) : toAgent[h][i].server \in Servers
    <3>1. toAgent \in [Hosts -> Seq(Message)]
      BY DEF IInv, TypeOK, Message
    <3>2. ASSUME NEW h \in Hosts, NEW i \in 1 .. Len(toAgent[h]) PROVE toAgent[h][i] \in Message
      BY <3>1
    <3> QED
      BY <3>2 DEF Message
  <2>2. QueueKnows'
    BY <1>1, <1>3, <1>6, <1>7, <2>1 DEF OneInv, QueueKnows
  <2> QED
    BY <1>1, <2>2 DEF OneInv, NothingAfterDelete
<1>13. MachineKnows'
  BY <1>1, <1>7 DEF OneInv, MachineKnows
<1>14. \A k : \A t \in Servers : Installed(t, k)' <=> Installed(t, k)
  BY <1>1, <1>7 DEF Installed, In
<1>15. InstalledIsLive' /\ OneInstalled'
  BY <1>1, <1>7, <1>8, <1>14 DEF OneInv, InstalledIsLive, OneInstalled
<1> QED
  BY <1>9, <1>11, <1>12, <1>13, <1>15 DEF OneInv

LEMMA WriteKeepsOne ==
    ASSUME IInv, OneInv, NEW r \in Reporters, Write(r), NEW s, s = rep[r].server
    PROVE  OneInv'
<1> DEFINE y == [row[s] EXCEPT !.status = rep[r].status]
<1>1. /\ row' = [row EXCEPT ![s] = y]
      /\ UNCHANGED <<removed, op, up, toAgent, toPlatform, real, drops>>
  BY DEF Write, IInv, TypeOK
<1>2. s \in Servers /\ row[s] # None /\ rep[r].status \in Reportable
  BY DEF IInv, RepHas, Write
<1>3. /\ y.host = row[s].host /\ y.port = row[s].port /\ y.deleted = row[s].deleted /\ y \in Row
      /\ y.status \in Reportable
  BY <1>2, RowFields DEF IInv, Row, Statuses, Reportable
<1>4. y # None
  BY <1>3, NoneAssumption
<1> HIDE DEF y
<1>5. \A t \in Servers : row'[t] = IF t = s THEN y ELSE row[t]
  BY <1>1 DEF IInv, TypeOK
<1>6. \A t \in Servers : /\ (Live(t)' <=> Live(t)) /\ Queue(t)' = Queue(t)
                         /\ (Deleting(t)' <=> Deleting(t))
                         /\ row'[t].host = row[t].host /\ row'[t].port = row[t].port
                         /\ row'[t].deleted = row[t].deleted
                         /\ (row'[t] # None <=> row[t] # None)
  BY <1>1, <1>2, <1>3, <1>4, <1>5 DEF Live, Queue, Deleting
<1>7. LiveIsNotDeleting' /\ PortsExclusive'
  BY <1>3, <1>5, <1>6 DEF OneInv, LiveIsNotDeleting, PortsExclusive, Reportable
<1>8. OpKnows'
  <2>1. \A h, p : PortTaken(h, p)' => PortTaken(h, p)
    BY <1>6 DEF PortTaken, OneInv, LiveIsNotDeleting
  <2>2. \A t \in Servers : Told(t)' <=> Told(t)
    BY <1>1, <1>6 DEF Told, In
  <2>3. \A o \in Ops : op[o].pc \in {"load", "tombstone", "send"} => op[o].server \in Servers
    BY DEF IInv, OpHas
  <2> QED
    BY <1>1, <1>6, <2>1, <2>2, <2>3 DEF OneInv, OpKnows
<1>9. QueueKnows' /\ NothingAfterDelete'
  <2>1. \A h \in Hosts : \A i \in 1 .. Len(toAgent[h]) : toAgent[h][i].server \in Servers
    <3>1. toAgent \in [Hosts -> Seq(Message)]
      BY DEF IInv, TypeOK, Message
    <3>2. ASSUME NEW h \in Hosts, NEW i \in 1 .. Len(toAgent[h]) PROVE toAgent[h][i] \in Message
      BY <3>1
    <3> QED
      BY <3>2 DEF Message
  <2>2. QueueKnows'
    BY <1>1, <1>6, <2>1 DEF OneInv, QueueKnows
  <2> QED
    BY <1>1, <2>2 DEF OneInv, NothingAfterDelete
<1>10. MachineKnows'
  BY <1>1, <1>6 DEF OneInv, MachineKnows
<1>11. \A k : \A t \in Servers : Installed(t, k)' <=> Installed(t, k)
  BY <1>1, <1>6 DEF Installed, In
<1>12. InstalledIsLive' /\ OneInstalled'
  BY <1>1, <1>6, <1>11 DEF OneInv, InstalledIsLive, OneInstalled
<1> QED
  BY <1>7, <1>8, <1>9, <1>10, <1>12 DEF OneInv

LEMMA DropKeepsOne ==
    ASSUME IInv, OneInv, NEW h \in Hosts, Drop(h)
    PROVE  OneInv'
<1>1. /\ toAgent' = [toAgent EXCEPT ![h] = <<>>] /\ drops' = drops + 1
      /\ UNCHANGED <<row, op, real>>
  BY DEF Drop
<1>2. \A g \in Hosts : toAgent'[g] = IF g = h THEN <<>> ELSE toAgent[g]
  BY <1>1 DEF IInv, TypeOK
<1>3. drops' # 0
  BY <1>1, BoundsAssumption DEF IInv, TypeOK
<1>4. LiveIsNotDeleting' /\ PortsExclusive'
  BY <1>1 DEF OneInv, LiveIsNotDeleting, PortsExclusive, Live
<1>5. QueueKnows' /\ NothingAfterDelete'
  BY <1>1, <1>2 DEF OneInv, QueueKnows, NothingAfterDelete
<1>6. \A s \in Servers : row[s] # None /\ Told(s)' => Told(s)
  <2>1. \A s \in Servers : row[s] # None => row[s].host \in Hosts
    BY RowFields DEF IInv
  <2> QED
    BY <1>1, <1>2, <2>1 DEF Told, Queue, In
<1>7. OpKnows'
  <2>1. \A o \in Ops : op[o].pc \in {"load", "tombstone", "send"}
            => op[o].server \in Servers /\ row[op[o].server] # None
    BY DEF IInv, OpHas
  <2>2. (\A s \in Servers : Live(s)' <=> Live(s)) /\ (\A g, p : PortTaken(g, p)' <=> PortTaken(g, p))
    BY <1>1 DEF Live, PortTaken
  <2> QED
    BY <1>1, <1>6, <2>1, <2>2 DEF OneInv, OpKnows
<1>8. MachineKnows'
  BY <1>1, <1>3 DEF OneInv, MachineKnows
<1> QED
  BY <1>3, <1>4, <1>5, <1>7, <1>8 DEF OneInv, InstalledIsLive, OneInstalled

LEMMA AgentReportsKeepsOne ==
    ASSUME IInv, OneInv, NEW h \in Hosts, NEW s \in Servers, AgentReports(h, s)
    PROVE  OneInv'
<1>1. /\ UNCHANGED <<row, op, up, toAgent, drops>>
      /\ row[s] # None
      /\ \E new \in {"running", "crashed"} : real' = [real EXCEPT ![s] = new]
      /\ real[s] # "absent"
  BY DEF AgentReports
<1>2. \A t \in Servers : real'[t] # "absent" <=> real[t] # "absent"
  BY <1>1 DEF IInv, TypeOK
<1>3. \A t \in Servers : /\ Queue(t)' = Queue(t) /\ (Live(t)' <=> Live(t))
                         /\ (Told(t)' <=> Told(t)) /\ (Deleting(t)' <=> Deleting(t))
  BY <1>1 DEF Queue, Live, Told, Deleting, In
<1>4. LiveIsNotDeleting' /\ PortsExclusive' /\ QueueKnows' /\ NothingAfterDelete'
  BY <1>1 DEF OneInv, LiveIsNotDeleting, PortsExclusive, QueueKnows, NothingAfterDelete, Live
<1>5. MachineKnows'
  BY <1>1, <1>2 DEF OneInv, MachineKnows
<1>6. OpKnows'
  BY <1>1 DEF OneInv, OpKnows, PortTaken, Live, Told, In, Queue
<1>7. \A k : \A t \in Servers : Installed(t, k)' <=> Installed(t, k)
  BY <1>1, <1>2, <1>3 DEF Installed, In
<1>8. InstalledIsLive' /\ OneInstalled'
  BY <1>1, <1>3, <1>7 DEF OneInv, InstalledIsLive, OneInstalled
<1> QED
  BY <1>4, <1>5, <1>6, <1>8 DEF OneInv

(* A command is sent: the queue of the server's host is one longer.        *)
LEMMA SentKeepsOne ==
    ASSUME IInv, OneInv, OneAtATime, NEW o \in Ops, NEW s \in Servers, NEW m \in Message,
           op[o].pc = "send", op[o].server = s, m.type = op[o].kind, m.server = s,
           NEW h, NEW q, NEW a \in Seq(Message), h = row[s].host, q = toAgent[h],
           Longer(a, q, m),
           toAgent' = [toAgent EXCEPT ![h] = a], Return(o),
           UNCHANGED <<row, up, real, drops>>
    PROVE  OneInv'
<1>1. /\ row[s] # None /\ h \in Hosts /\ toAgent \in [Hosts -> Seq(Message)] /\ q \in Seq(Message)
  <2>1. row[s] # None
    BY DEF IInv, OpHas
  <2>2. toAgent \in [Hosts -> Seq(Message)]
    BY DEF IInv, TypeOK, Message
  <2> QED
    BY <2>1, <2>2, RowFields DEF IInv
<1>2. /\ m.type = op[o].kind /\ m.server = s
      /\ IF m.type = "delete_server" THEN ~Live(s) /\ ~Told(s) ELSE Live(s)
  BY DEF OneInv, OpKnows
<1>3. \A g \in Hosts : toAgent'[g] = IF g = h THEN a ELSE toAgent[g]
  BY <1>1
<1>4. \A t \in Servers : Live(t)' <=> Live(t)
  BY DEF Live
<1>5. (\A p \in Ops : p = o) /\ op'[o].pc = "idle"
  BY DEF OneAtATime, Return, Idle, IInv, TypeOK
<1>6. LiveIsNotDeleting' /\ PortsExclusive' /\ MachineKnows'
  BY <1>4 DEF OneInv, LiveIsNotDeleting, PortsExclusive, MachineKnows
<1>7. OpKnows'
  BY <1>5 DEF OpKnows
<1>8. /\ Len(q) \in Nat /\ Len(a) = Len(q) + 1
      /\ \A i \in 1 .. Len(q) : a[i] = q[i]
      /\ a[Len(q) + 1] = m
  BY <1>1 DEF Longer
<1>9. QueueKnows'
  <2>1. row[s].host = h
    OBVIOUS
  <2>2. m.type = "delete_server" => row[s].deleted
    BY <1>1, <1>2 DEF Live
  <2>3. ASSUME NEW i \in 1 .. Len(a)
        PROVE  /\ row[a[i].server] # None /\ row[a[i].server].host = h
               /\ a[i].type = "delete_server" => row[a[i].server].deleted
    <3>1. CASE i = Len(q) + 1
      BY <1>1, <1>2, <1>8, <2>1, <2>2, <3>1
    <3>2. CASE i # Len(q) + 1
      <4>1. i \in 1 .. Len(q)
        BY <1>8, <3>2
      <4>2. a[i] = q[i]
        BY <1>8, <4>1
      <4>3. /\ row[q[i].server] # None /\ row[q[i].server].host = h
            /\ q[i].type = "delete_server" => row[q[i].server].deleted
        BY <1>1, <4>1 DEF OneInv, QueueKnows
      <4> QED
        BY <4>2, <4>3
    <3> QED
      BY <3>1, <3>2
  <2>4. ASSUME NEW g \in Hosts, NEW i \in 1 .. Len(toAgent'[g])
        PROVE  /\ row[toAgent'[g][i].server] # None /\ row[toAgent'[g][i].server].host = g
               /\ toAgent'[g][i].type = "delete_server" => row[toAgent'[g][i].server].deleted
    <3>1. CASE g = h
      <4>1. toAgent'[g] = a /\ i \in 1 .. Len(a)
        BY <1>3, <2>4, <3>1
      <4> QED
        BY <2>3, <3>1, <4>1
    <3>2. CASE g # h
      BY <1>3, <2>4, <3>2 DEF OneInv, QueueKnows
    <3> QED
      BY <3>1, <3>2
  <2> QED
    BY <2>4 DEF QueueKnows
<1>10. NothingAfterDelete'
  <2>1. \A i \in 1 .. Len(q) : q[i].server = s /\ q[i].type = "delete_server" => FALSE
    <3>1. ASSUME NEW i \in 1 .. Len(q), q[i].server = s, q[i].type = "delete_server" PROVE FALSE
      <4>1. row[s].deleted
        BY <1>1, <3>1 DEF OneInv, QueueKnows
      <4>2. Told(s)
        BY <3>1 DEF Told, In, Queue
      <4> QED
        BY <1>2, <4>1, <4>2 DEF Live
    <3> QED
      BY <3>1
  <2>2. ASSUME NEW i \in 1 .. Len(a), NEW j \in 1 .. Len(a),
               a[i].server = a[j].server, a[i].type = "delete_server"
        PROVE  j <= i
    <3>1. CASE i = Len(q) + 1
      BY <1>8, <3>1
    <3>2. CASE i # Len(q) + 1
      <4>1. i \in 1 .. Len(q) /\ a[i] = q[i]
        BY <1>8, <3>2
      <4>2. CASE j = Len(q) + 1
        BY <1>2, <1>8, <2>1, <2>2, <4>1, <4>2
      <4>3. CASE j # Len(q) + 1
        <5>1. j \in 1 .. Len(q) /\ a[j] = q[j]
          BY <1>8, <4>3
        <5> QED
          BY <1>1, <2>2, <4>1, <5>1 DEF OneInv, NothingAfterDelete
      <4> QED
        BY <4>2, <4>3
    <3> QED
      BY <3>1, <3>2
  <2>3. ASSUME NEW g \in Hosts, NEW i \in 1 .. Len(toAgent'[g]), NEW j \in 1 .. Len(toAgent'[g]),
               toAgent'[g][i].server = toAgent'[g][j].server, toAgent'[g][i].type = "delete_server"
        PROVE  j <= i
    BY <1>3, <2>2, <2>3 DEF OneInv, NothingAfterDelete
  <2> QED
    BY <2>3 DEF NothingAfterDelete
<1>11. ASSUME NEW t \in Servers, row[t] # None
       PROVE  /\ row[t].host # h => Queue(t)' = Queue(t)
              /\ row[t].host = h => Queue(t)' = a /\ Queue(t) = q
  BY <1>1, <1>3, <1>11, RowFields DEF Queue, IInv
<1>12. ASSUME NEW t \in Servers, row[t] # None, row[t].host = h, NEW k
       PROVE  Installed(t, k)' <=> /\ real[t] # "absent" \/ In(a, k, "deploy_server", t)
                                  /\ ~In(a, k, "delete_server", t)
  BY <1>11, <1>12 DEF Installed, In
<1>13. ASSUME NEW t \in Servers, row[t] # None, row[t].host = h, NEW k
       PROVE  Installed(t, k) <=> /\ real[t] # "absent" \/ In(q, k, "deploy_server", t)
                                 /\ ~In(q, k, "delete_server", t)
  BY <1>11, <1>13 DEF Installed
<1>14. ASSUME NEW t \in Servers, row[t] # None, row[t].host = h, NEW k \in 0 .. Len(q)
       PROVE  Installed(t, k)' <=> Installed(t, k)
  <2>1. ASSUME NEW type PROVE In(a, k, type, t) <=> In(q, k, type, t)
    BY <1>1, InLonger
  <2> QED
    BY <1>14, <1>12, <1>13, <2>1
<1>15. ASSUME NEW t \in Servers, row[t] # None, row[t].host # h, NEW k
       PROVE  Installed(t, k)' <=> Installed(t, k)
  BY <1>11, <1>15 DEF Installed, In
<1>16. ASSUME NEW t \in Servers, row[t] # None, row[t].host = h, Installed(t, Len(q) + 1)'
       PROVE  \/ t # s /\ Installed(t, Len(q))
              \/ t = s /\ m.type # "delete_server"
  <2>1. ASSUME NEW type
        PROVE  In(a, Len(q) + 1, type, t)
                  <=> In(q, Len(q), type, t) \/ (m.type = type /\ m.server = t)
    BY <1>1, InLonger
  <2>2. (real[t] # "absent" \/ In(a, Len(q) + 1, "deploy_server", t))
        /\ ~In(a, Len(q) + 1, "delete_server", t)
    BY <1>16, <1>12
  <2> QED
    BY <1>2, <1>16, <1>13, <2>1, <2>2
<1>17. ASSUME drops = 0, NEW t \in Servers, row[t] # None, row[t].host = h,
              Installed(t, Len(q) + 1)'
       PROVE  Live(t)
  <2>1. CASE t = s
    BY <1>2, <1>16, <1>17, <2>1
  <2>2. CASE t # s
    <3>1. Installed(t, Len(Queue(t)))
      BY <1>11, <1>16, <1>17, <2>2
    <3>2. ~Deleting(t)
      BY <1>5, <2>2 DEF Deleting
    <3> QED
      BY <1>17, <3>1, <3>2 DEF OneInv, InstalledIsLive
  <2> QED
    BY <2>1, <2>2
<1>18. InstalledIsLive'
  <2> SUFFICES ASSUME drops = 0, NEW t \in Servers, row[t] # None,
                      Installed(t, Len(Queue(t)))'
               PROVE  Live(t)
    BY <1>4 DEF InstalledIsLive
  <2>1. CASE row[t].host = h
    <3>1. Installed(t, Len(a))'
      <4>1. Len(Queue(t))' = Len(a)
        BY <1>11, <2>1
      <4> QED
        BY <1>12, <2>1, <4>1 DEF Installed
    <3>2. Len(a) = Len(q) + 1
      BY <1>8
    <3> QED
      BY <1>17, <2>1, <3>1, <3>2
  <2>2. CASE row[t].host # h
    <3>1. Installed(t, Len(Queue(t)))
      BY <1>11, <1>15, <2>2
    <3>2. t # s
      BY <2>2
    <3>3. ~Deleting(t)
      BY <1>5, <3>2 DEF Deleting
    <3> QED
      BY <3>1, <3>3 DEF OneInv, InstalledIsLive
  <2> QED
    BY <2>1, <2>2
<1>19. OneInstalled'
  <2> SUFFICES ASSUME drops = 0, NEW t \in Servers, NEW u \in Servers,
                      row[t] # None, row[u] # None, row[t].host = row[u].host,
                      row[t].port = row[u].port, NEW k \in 0 .. Len(Queue(t)'),
                      Installed(t, k)', Installed(u, k)'
               PROVE  t = u
    BY DEF OneInstalled
  <2>1. CASE row[t].host # h
    BY <1>11, <1>15, <2>1 DEF OneInv, OneInstalled
  <2>2. CASE row[t].host = h /\ k = Len(q) + 1
    BY <1>17, <2>2 DEF OneInv, PortsExclusive
  <2>3. CASE row[t].host = h /\ k # Len(q) + 1
    <3>1. Len(a) = Len(q) + 1 /\ Queue(t)' = a /\ Queue(t) = q
      BY <1>8, <1>11, <2>3
    <3>2. k \in 0 .. Len(q)
      BY <1>8, <2>3, <3>1
    <3>3. Installed(t, k) /\ Installed(u, k)
      BY <1>14, <2>3, <3>2
    <3> QED
      BY <3>1, <3>2, <3>3 DEF OneInv, OneInstalled
  <2> QED
    BY <2>1, <2>2, <2>3
<1> QED
  BY <1>6, <1>7, <1>9, <1>10, <1>18, <1>19 DEF OneInv

(* A command is sent, or nobody is there to take it.                       *)
LEMMA SendKeepsOne ==
    ASSUME IInv, OneInv, OneAtATime, NEW o \in Ops, Send(o)
    PROVE  OneInv'
<1>1. /\ op[o].pc = "send" /\ op[o].server \in Servers /\ row[op[o].server] # None
      /\ op[o].kind \in Commands /\ row[op[o].server].host \in Hosts
      /\ UNCHANGED <<row, up, real, drops>> /\ Return(o)
  BY RowFields DEF Send, IInv, OpHas
<1>2. CASE up[row[op[o].server].host]
  <2> DEFINE m == [type |-> op[o].kind, server |-> op[o].server]
  <2>1. m \in Message
    BY <1>1 DEF Message
  <2>2. toAgent' = [toAgent EXCEPT ![row[op[o].server].host] = Append(@, m)]
    BY <1>2 DEF Send
  <2> QED
    <3> DEFINE h == row[op[o].server].host
    <3>1. h \in Hosts /\ toAgent[h] \in Seq(Message)
      BY <1>1 DEF IInv, TypeOK, Message
    <3>2. /\ Append(toAgent[h], m) \in Seq(Message)
          /\ Longer(Append(toAgent[h], m), toAgent[h], m)
      BY <2>1, <3>1, AppendIsLonger
    <3>3. m.type = op[o].kind /\ m.server = op[o].server
      OBVIOUS
    <3> HIDE DEF m
    <3>4. PICK a \in Seq(Message) : a = Append(toAgent[h], m) /\ Longer(a, toAgent[h], m)
      BY <3>2
    <3>5. toAgent' = [toAgent EXCEPT ![h] = a]
      BY <2>2, <3>4
    <3> QED
      BY <1>1, <2>1, <3>3, <3>4, <3>5, SentKeepsOne
<1>3. CASE ~up[row[op[o].server].host]
  <2>1. UNCHANGED toAgent
    BY <1>3 DEF Send
  <2>2. drops # 0
    BY <1>1, <1>3 DEF OneInv, MachineKnows
  <2>3. OpKnows'
    BY <1>1 DEF OneAtATime, OpKnows, Return, Idle, IInv, TypeOK
  <2>4. LiveIsNotDeleting' /\ PortsExclusive' /\ QueueKnows' /\ NothingAfterDelete' /\ MachineKnows'
    BY <1>1, <2>1 DEF OneInv, LiveIsNotDeleting, PortsExclusive, QueueKnows, NothingAfterDelete,
                      MachineKnows, Live
  <2> QED
    BY <1>1, <2>2, <2>3, <2>4 DEF OneInv, InstalledIsLive, OneInstalled
<1> QED
  BY <1>2, <1>3

(* The command at the head of h's queue q is of this type and about v; r   *)
(* is what is left of the queue, and new what becomes of v.                *)
Obeyed(h, q, r, v, type, new) ==
    /\ q = toAgent[h] /\ Len(q) = Len(r) + 1 /\ \A i \in 1 .. Len(r) : r[i] = q[i + 1]
    /\ q[1].type = type /\ q[1].server = v
    /\ toAgent' = [toAgent EXCEPT ![h] = r] /\ real' = [real EXCEPT ![v] = new]
    /\ type = "delete_server" => new = "absent"
    /\ type \notin {"deploy_server", "delete_server"} => (new # "absent" => real[v] # "absent")
    /\ UNCHANGED <<row, op, up, drops>>

(* A command is obeyed: the queue of the host is one shorter, and what the *)
(* machine will have in the end is what it would have had.                 *)
LEMMA ObeyedKeepsOne ==
    ASSUME IInv, OneInv, NEW h \in Hosts, NEW q \in Seq(Message), NEW r \in Seq(Message),
           NEW v \in Servers, NEW type, NEW new, Obeyed(h, q, r, v, type, new)
    PROVE  OneInv'
<1> USE DEF Obeyed
<1>1. /\ Len(q) \in Nat /\ Len(r) \in Nat /\ 1 \in 1 .. Len(q)
      /\ \A g \in Hosts : toAgent'[g] = IF g = h THEN r ELSE toAgent[g]
      /\ \A t \in Servers : real'[t] = IF t = v THEN new ELSE real[t]
      /\ \A i \in 1 .. Len(r) : i + 1 \in 1 .. Len(q)
  BY DEF IInv, TypeOK
<1>2. row[v] # None /\ row[v].host = h
  BY <1>1 DEF OneInv, QueueKnows
<1>3. \A t \in Servers : (Live(t)' <=> Live(t)) /\ (Deleting(t)' <=> Deleting(t))
  BY DEF Live, Deleting
<1>4. LiveIsNotDeleting' /\ PortsExclusive'
  BY <1>3 DEF OneInv, LiveIsNotDeleting, PortsExclusive
<1>5. QueueKnows'
  <2>1. ASSUME NEW i \in 1 .. Len(r)
        PROVE  /\ row[r[i].server] # None /\ row[r[i].server].host = h
               /\ r[i].type = "delete_server" => row[r[i].server].deleted
    <3>1. i + 1 \in 1 .. Len(q) /\ r[i] = q[i + 1]
      BY <1>1
    <3>2. /\ row[q[i + 1].server] # None /\ row[q[i + 1].server].host = h
          /\ q[i + 1].type = "delete_server" => row[q[i + 1].server].deleted
      BY <3>1 DEF OneInv, QueueKnows
    <3> QED
      BY <3>1, <3>2
  <2>2. ASSUME NEW g \in Hosts, NEW i \in 1 .. Len(toAgent'[g])
        PROVE  /\ row[toAgent'[g][i].server] # None /\ row[toAgent'[g][i].server].host = g
               /\ toAgent'[g][i].type = "delete_server" => row[toAgent'[g][i].server].deleted
    <3>1. CASE g = h
      <4>1. toAgent'[g] = r /\ i \in 1 .. Len(r)
        BY <1>1, <2>2, <3>1
      <4> QED
        BY <2>1, <3>1, <4>1
    <3>2. CASE g # h
      BY <1>1, <2>2, <3>2 DEF OneInv, QueueKnows
    <3> QED
      BY <3>1, <3>2
  <2> QED
    BY <2>2 DEF QueueKnows
<1>6. ASSUME NEW i \in 1 .. Len(q), NEW j \in 1 .. Len(q),
             q[i].server = q[j].server, q[i].type = "delete_server"
      PROVE  j <= i
  BY <1>6 DEF OneInv, NothingAfterDelete
<1>7. NothingAfterDelete'
  <2>1. ASSUME NEW i \in 1 .. Len(r), NEW j \in 1 .. Len(r),
               r[i].server = r[j].server, r[i].type = "delete_server"
        PROVE  j <= i
    <3>1. /\ i + 1 \in 1 .. Len(q) /\ r[i] = q[i + 1]
          /\ j + 1 \in 1 .. Len(q) /\ r[j] = q[j + 1]
      BY <1>1
    <3>2. q[i + 1].server = q[j + 1].server /\ q[i + 1].type = "delete_server"
      BY <2>1, <3>1
    <3>3. j + 1 <= i + 1
      BY <1>6, <3>1, <3>2
    <3> QED
      BY <1>1, <3>3
  <2>2. ASSUME NEW g \in Hosts, NEW i \in 1 .. Len(toAgent'[g]), NEW j \in 1 .. Len(toAgent'[g]),
               toAgent'[g][i].server = toAgent'[g][j].server, toAgent'[g][i].type = "delete_server"
        PROVE  j <= i
    <3>1. CASE g = h
      <4>1. toAgent'[g] = r /\ i \in 1 .. Len(r) /\ j \in 1 .. Len(r)
        BY <1>1, <2>2, <3>1
      <4> QED
        BY <2>1, <2>2, <4>1
    <3>2. CASE g # h
      BY <1>1, <2>2, <3>2 DEF OneInv, NothingAfterDelete
    <3> QED
      BY <3>1, <3>2
  <2> QED
    BY <2>2 DEF NothingAfterDelete
<1>8. MachineKnows'
  BY <1>1, <1>2 DEF OneInv, MachineKnows
<1>9. \A t \in Servers : /\ row[t].host # h => Queue(t)' = Queue(t)
                         /\ row[t].host = h => Queue(t)' = r /\ Queue(t) = q
  <2>1. ASSUME NEW t \in Servers, row[t].host # h PROVE Queue(t)' = Queue(t)
    BY <2>1 DEF Queue, IInv, TypeOK
  <2>2. ASSUME NEW t \in Servers, row[t].host = h PROVE Queue(t)' = r /\ Queue(t) = q
    BY <1>1, <2>2 DEF Queue
  <2> QED
    BY <2>1, <2>2
<1>10. ASSUME NEW t \in Servers, NEW ty, NEW k \in 0 .. Len(r)
       PROVE  In(q, k + 1, ty, t) <=> (type = ty /\ v = t) \/ In(r, k, ty, t)
  <2>1. ASSUME In(q, k + 1, ty, t) PROVE (type = ty /\ v = t) \/ In(r, k, ty, t)
    <3>1. PICK i \in 1 .. k + 1 : q[i].type = ty /\ q[i].server = t
      BY <2>1 DEF In
    <3>2. CASE i = 1
      BY <3>1, <3>2
    <3>3. CASE i # 1
      <4>1. i - 1 \in 1 .. k /\ i - 1 \in 1 .. Len(r) /\ (i - 1) + 1 = i
        BY <1>1, <1>10, <3>3
      <4>2. r[i - 1] = q[i]
        BY <4>1
      <4> QED
        BY <3>1, <4>1, <4>2 DEF In
    <3> QED
      BY <3>2, <3>3
  <2>2. ASSUME type = ty /\ v = t PROVE In(q, k + 1, ty, t)
    <3>1. 1 \in 1 .. k + 1
      BY <1>1
    <3> QED
      BY <2>2, <3>1 DEF In
  <2>3. ASSUME In(r, k, ty, t) PROVE In(q, k + 1, ty, t)
    <3>1. PICK i \in 1 .. k : r[i].type = ty /\ r[i].server = t
      BY <2>3 DEF In
    <3>2. i + 1 \in 1 .. k + 1 /\ i \in 1 .. Len(r)
      BY <1>1, <1>10
    <3>3. r[i] = q[i + 1]
      BY <3>2
    <3> QED
      BY <3>1, <3>2, <3>3 DEF In
  <2> QED
    BY <2>1, <2>2, <2>3
<1>11. ASSUME NEW t \in Servers, row[t].host = h, NEW k
       PROVE  Installed(t, k)' <=> /\ real'[t] # "absent" \/ In(r, k, "deploy_server", t)
                                  /\ ~In(r, k, "delete_server", t)
  BY <1>9, <1>11 DEF Installed, In
<1>12. ASSUME NEW t \in Servers, row[t].host = h, NEW k
       PROVE  Installed(t, k) <=> /\ real[t] # "absent" \/ In(q, k, "deploy_server", t)
                                 /\ ~In(q, k, "delete_server", t)
  BY <1>9, <1>12 DEF Installed
<1>13. ASSUME NEW t \in Servers, row[t].host # h, NEW k
       PROVE  Installed(t, k)' <=> Installed(t, k)
  BY <1>1, <1>2, <1>9, <1>13 DEF Installed, In
<1>14. ASSUME NEW t \in Servers, row[t].host = h, NEW k \in 0 .. Len(r), Installed(t, k)'
       PROVE  Installed(t, k + 1)
  <2>1. /\ real'[t] # "absent" \/ In(r, k, "deploy_server", t)
        /\ ~In(r, k, "delete_server", t)
    BY <1>11, <1>14
  <2>2. CASE t # v
    BY <1>1, <1>10, <1>12, <1>14, <2>1, <2>2
  <2>3. CASE t = v /\ type = "delete_server"
    <3>1. In(r, k, "deploy_server", t)
      BY <1>1, <2>1, <2>3
    <3>2. PICK i \in 1 .. k : r[i].server = v
      BY <2>3, <3>1 DEF In
    <3>3. i \in 1 .. Len(r)
      BY <1>1, <1>14
    <3>4. i + 1 \in 1 .. Len(q) /\ q[i + 1].server = v
      BY <1>1, <3>2, <3>3
    <3>5. i + 1 <= 1
      BY <1>1, <1>6, <2>3, <3>4
    <3> QED
      BY <3>3, <3>5
  <2>4. CASE t = v /\ type = "deploy_server"
    BY <1>10, <1>12, <1>14, <2>1, <2>4
  <2>5. CASE t = v /\ type \notin {"deploy_server", "delete_server"}
    <3>1. real'[t] # "absent" => real[t] # "absent"
      BY <1>1, <2>5
    <3> QED
      BY <1>10, <1>12, <1>14, <2>1, <2>5, <3>1
  <2> QED
    BY <2>2, <2>3, <2>4, <2>5
<1>15. Len(r) \in 0 .. Len(r)
  BY <1>1
<1>16. ASSUME NEW t \in Servers, row[t] # None, Told(t)' PROVE Told(t)
  <2>1. CASE row[t].host = h
    <3>1. In(r, Len(r), "delete_server", t)
      BY <1>9, <1>16, <2>1 DEF Told, In
    <3>2. In(q, Len(q), "delete_server", t)
      BY <1>10, <1>15, <3>1
    <3> QED
      BY <1>9, <2>1, <3>2 DEF Told
  <2>2. CASE row[t].host # h
    BY <1>9, <1>16, <2>2 DEF Told, In
  <2> QED
    BY <2>1, <2>2
<1>17. OpKnows'
  <2>1. \A o \in Ops : op[o].pc \in {"load", "tombstone", "send"}
            => op[o].server \in Servers /\ row[op[o].server] # None
    BY DEF IInv, OpHas
  <2>2. \A g, p : PortTaken(g, p)' <=> PortTaken(g, p)
    BY DEF Live, PortTaken
  <2> QED
    BY <1>3, <1>16, <2>1, <2>2 DEF OneInv, OpKnows
<1>18. InstalledIsLive'
  <2> SUFFICES ASSUME drops = 0, NEW t \in Servers, row[t] # None,
                      Installed(t, Len(Queue(t)))'
               PROVE  Live(t) \/ Deleting(t)
    BY <1>3 DEF InstalledIsLive
  <2>1. Installed(t, Len(Queue(t)))
    <3>1. CASE row[t].host = h
      <4>1. Len(Queue(t))' = Len(r) /\ Len(Queue(t)) = Len(r) + 1
        BY <1>9, <3>1
      <4>2. Installed(t, Len(r))'
        BY <1>11, <3>1, <4>1 DEF Installed
      <4> QED
        BY <1>14, <1>15, <3>1, <4>1, <4>2
    <3>2. CASE row[t].host # h
      BY <1>9, <1>13, <3>2
    <3> QED
      BY <3>1, <3>2
  <2> QED
    BY <2>1 DEF OneInv, InstalledIsLive
<1>19. OneInstalled'
  <2> SUFFICES ASSUME drops = 0, NEW t \in Servers, NEW u \in Servers,
                      row[t] # None, row[u] # None, row[t].host = row[u].host,
                      row[t].port = row[u].port, NEW k \in 0 .. Len(Queue(t)'),
                      Installed(t, k)', Installed(u, k)'
               PROVE  t = u
    BY DEF OneInstalled
  <2>1. CASE row[t].host # h
    BY <1>9, <1>13, <2>1 DEF OneInv, OneInstalled
  <2>2. CASE row[t].host = h
    <3>1. Queue(t)' = r /\ Queue(t) = q
      BY <1>9, <2>2
    <3>2. k \in 0 .. Len(r) /\ k + 1 \in 0 .. Len(q)
      BY <1>1, <3>1
    <3>3. Installed(t, k + 1) /\ Installed(u, k + 1)
      BY <1>14, <2>2, <3>2
    <3> QED
      BY <3>1, <3>2, <3>3 DEF OneInv, OneInstalled
  <2> QED
    BY <2>1, <2>2
<1> QED
  BY <1>4, <1>5, <1>7, <1>8, <1>17, <1>18, <1>19 DEF OneInv

(* Only a deploy command puts a server on a machine, and a delete command  *)
(* takes it off.                                                           *)
LEMMA EffectOnPresence ==
    ASSUME NEW type \in Commands, NEW state
    PROVE  /\ type = "delete_server" => Effect(type, state) = "absent"
           /\ type \notin {"deploy_server", "delete_server"} /\ Effect(type, state) # "absent"
                 => state # "absent"
<1>1. CASE type = "delete_server"
  BY <1>1 DEF Effect
<1>2. CASE type = "deploy_server"
  BY <1>2
<1>3. CASE type = "stop_server"
  BY <1>3 DEF Effect
<1>4. CASE type \in {"start_server", "restart_server"}
  BY <1>4 DEF Effect
<1> QED
  BY <1>1, <1>2, <1>3, <1>4 DEF Commands, Lifecycle

(* What is left of a queue when its first message is taken.                *)
LEMMA Shorter ==
    ASSUME NEW q \in Seq(Message), q # <<>>
    PROVE  /\ Tail(q) \in Seq(Message) /\ Len(q) = Len(Tail(q)) + 1
           /\ \A i \in 1 .. Len(Tail(q)) : Tail(q)[i] = q[i + 1]
           /\ Head(q) = q[1] /\ q[1] \in Message
  OBVIOUS

(* The agent obeys a command, whatever it is.                              *)
LEMMA AgentObeysKeepsOne ==
    ASSUME IInv, OneInv, NEW h \in Hosts, AgentObeys(h)
    PROVE  OneInv'
<1>1. toAgent[h] \in Seq(Message) /\ toAgent[h] # <<>>
  <2>1. toAgent \in [Hosts -> Seq(Message)]
    BY DEF IInv, TypeOK, Message
  <2> QED
    BY <2>1 DEF AgentObeys
<1>2. PICK q \in Seq(Message) : q = toAgent[h]
  BY <1>1
<1>3. /\ Tail(q) \in Seq(Message) /\ Len(q) = Len(Tail(q)) + 1
      /\ \A i \in 1 .. Len(Tail(q)) : Tail(q)[i] = q[i + 1]
      /\ Head(q) = q[1] /\ q[1] \in Message
  BY <1>1, <1>2, Shorter
<1>4. PICK r \in Seq(Message) :
          r = Tail(q) /\ Len(q) = Len(r) + 1 /\ \A i \in 1 .. Len(r) : r[i] = q[i + 1]
  BY <1>3
<1>5. PICK v \in Servers, type \in Commands : v = q[1].server /\ type = q[1].type
  BY <1>3 DEF Message
<1>6. PICK new : new = Effect(type, real[v])
  OBVIOUS
<1>7. /\ toAgent' = [toAgent EXCEPT ![h] = r] /\ real' = [real EXCEPT ![v] = new]
      /\ UNCHANGED <<row, op, up, drops>>
  BY <1>2, <1>3, <1>4, <1>5, <1>6 DEF AgentObeys
<1>8. /\ type = "delete_server" => new = "absent"
      /\ type \notin {"deploy_server", "delete_server"} => (new # "absent" => real[v] # "absent")
  BY <1>6, EffectOnPresence
<1> QED
  <2>1. Obeyed(h, q, r, v, type, new)
    BY <1>2, <1>4, <1>5, <1>7, <1>8 DEF Obeyed
  <2> QED
    BY <2>1, ObeyedKeepsOne

-----------------------------------------------------------------------------
(* Every initial state satisfies the second invariant.                     *)
LEMMA InitOne == Init => OneInv
<1> SUFFICES ASSUME Init PROVE OneInv
  OBVIOUS
<1>1. \A s \in Servers : ~Live(s) /\ row[s] = None
  BY DEF Init, Live
<1>2. LiveIsNotDeleting /\ PortsExclusive /\ InstalledIsLive /\ OneInstalled
  BY <1>1 DEF LiveIsNotDeleting, PortsExclusive, InstalledIsLive, OneInstalled
<1>3. OpKnows
  BY DEF Init, OpKnows, Idle
<1>4. QueueKnows /\ NothingAfterDelete /\ MachineKnows
  BY DEF Init, QueueKnows, NothingAfterDelete, MachineKnows
<1> QED
  BY <1>2, <1>3, <1>4 DEF OneInv

(* Every step keeps it, if server actions run one at a time.               *)
LEMMA NextOne == OneAtATime /\ IInv /\ OneInv /\ [Next]_vars => OneInv'
<1> SUFFICES ASSUME OneAtATime, IInv, OneInv, [Next]_vars PROVE OneInv'
  OBVIOUS
<1>1. ASSUME NEW o \in Ops,
             \/ \E h \in Hosts, p \in Ports : BeginDeploy(o, h, p)
             \/ \E kind \in Lifecycle \cup {"delete_server"}, s \in Servers : BeginOther(o, kind, s)
      PROVE  OneInv'
  BY <1>1, BeginKeepsOne
<1>2. ASSUME NEW o \in Ops, Step(o) \/ OpFails(o) PROVE OneInv'
  <2>1. CASE FindHost(o) \/ CheckPort(o) \/ LoadOwnedServer(o) \/ OpFails(o)
    BY <2>1, ReadsKeepOne
  <2>2. CASE Tombstone(o)
    BY <2>2, TombstoneKeepsOne
  <2>3. CASE Send(o)
    BY <2>3, SendKeepsOne
  <2>4. CASE \E s \in Servers : Insert(o, s)
    BY <2>4, InsertKeepsOne
  <2> QED
    BY <1>2, <2>1, <2>2, <2>3, <2>4 DEF Step
<1>3. ASSUME NEW r \in Reporters, Handle(r) PROVE OneInv'
  <2>1. CASE (\E h \in Hosts : Arrive(r, h)) \/ Read(r)
    BY <2>1, OthersKeepOne DEF Arrive, Read
  <2>2. CASE Write(r)
    BY <2>2, WriteKeepsOne
  <2> QED
    BY <1>3, <2>1, <2>2 DEF Handle
<1>4. ASSUME NEW h \in Hosts, RemoveHost(h) \/ AgentObeys(h) \/ Drop(h) \/ Reconnect(h)
      PROVE  OneInv'
  <2>1. CASE RemoveHost(h)
    BY <2>1, OthersKeepOne DEF RemoveHost
  <2>2. CASE Reconnect(h)
    BY <2>2, OthersKeepOne DEF Reconnect, IInv, TypeOK
  <2>3. CASE AgentObeys(h)
    BY <2>3, AgentObeysKeepsOne
  <2>4. CASE Drop(h)
    BY <2>4, DropKeepsOne
  <2> QED
    BY <1>4, <2>1, <2>2, <2>3, <2>4
<1>5. ASSUME NEW h \in Hosts, NEW s \in Servers, AgentReports(h, s) PROVE OneInv'
  BY <1>5, AgentReportsKeepsOne
<1>6. ASSUME NEW h \in Hosts, NEW s \in Servers, NEW status, AgentErrs(h, s, status)
      PROVE  OneInv'
  BY <1>6, OthersKeepOne DEF AgentErrs
<1>7. CASE UNCHANGED vars
  BY <1>7, OthersKeepOne DEF vars
<1> QED
  BY <1>1, <1>2, <1>3, <1>4, <1>5, <1>6, <1>7 DEF Next

(* The second invariant always holds, if server actions run one at a time. *)
LEMMA OneInvariance ==
    ASSUME OneAtATime
    PROVE  Spec => []OneInv
<1>1. IInv /\ OneInv /\ [Next]_vars => OneInv'
  BY NextOne
<1> QED
  BY <1>1, InitOne, Invariance, PTL DEF Spec

(* If server actions run one at a time, no agent is ever told anything     *)
(* about a server after it was told to delete it, however connections      *)
(* break and reports arrive.                                               *)
THEOREM DeletesAreLast ==
    ASSUME OneAtATime
    PROVE  Spec => []NothingAfterDelete
<1>1. OneInv => NothingAfterDelete
  BY DEF OneInv
<1>2. Spec => []OneInv
  BY OneInvariance
<1> QED
  BY <1>1, <1>2, PTL

(* If server actions run one at a time, no two servers of a host have the  *)
(* same port in the database, nor on the machine unless a connection broke.*)
THEOREM PortsAreOnes ==
    ASSUME OneAtATime
    PROVE  Spec => []PortsAreExclusive
<1>1. IInv /\ OneInv => PortsExclusiveOnHost
  <2> SUFFICES ASSUME IInv, OneInv, NEW s \in Servers, NEW t \in Servers, drops = 0,
                      real[s] # "absent", real[t] # "absent",
                      row[s].host = row[t].host, row[s].port = row[t].port
               PROVE  s = t
    BY DEF PortsExclusiveOnHost
  <2>1. row[s] # None /\ row[t] # None
    BY DEF OneInv, MachineKnows
  <2>2. Queue(s) \in Seq(Message)
    BY <2>1, RowFields DEF IInv, TypeOK, Queue, Message
  <2>3. Installed(s, 0) /\ Installed(t, 0)
    BY DEF Installed, In
  <2>4. 0 \in 0 .. Len(Queue(s))
    BY <2>2
  <2> QED
    BY <2>1, <2>3, <2>4 DEF OneInv, OneInstalled
<1>2. IInv /\ OneInv => PortsAreExclusive
  BY <1>1 DEF OneInv, PortsAreExclusive
<1>3. Spec => []OneInv
  BY OneInvariance
<1> QED
  BY <1>2, <1>3, Invariance, PTL

-----------------------------------------------------------------------------
(* One report at a time.                                                   *)

OneReporter == \A q, r \in Reporters : q = r

Reports(s) == toPlatform[row[s].host]

(* The i-th report under way is the last one about s.                      *)
LastAbout(s, i) ==
    /\ Reports(s)[i].server = s
    /\ \A j \in i + 1 .. Len(Reports(s)) : Reports(s)[j].server # s

NoneUnderWay(s) == \A i \in 1 .. Len(Reports(s)) : Reports(s)[i].server # s

(* Reporter r has a report about s that counts.                            *)
Handles(r, s) == rep[r].pc # "idle" /\ rep[r].server = s /\ rep[r].host = row[s].host

(* The newest of the last report under way, the one that is handled and    *)
(* the row's status says what has become of the server.                    *)
Newest(s) ==
    /\ \A i \in 1 .. Len(Reports(s)) : LastAbout(s, i) => Reports(s)[i].status = real[s]
    /\ NoneUnderWay(s) => \A r \in Reporters : Handles(r, s) => rep[r].status = real[s]
    /\ NoneUnderWay(s) /\ (\A r \in Reporters : ~Handles(r, s)) => row[s].status = real[s]

(* Commands under way are for servers of their host.                       *)
CommandsKnow ==
    \A h \in Hosts : \A i \in 1 .. Len(toAgent[h]) :
        row[toAgent[h][i].server] # None /\ row[toAgent[h][i].server].host = h

LastReport == drops = 0 => \A s \in Servers : Live(s) /\ real[s] # "absent" => Newest(s)

ReportInv == CommandsKnow /\ MachineKnows /\ LastReport

(* Steps that leave reports and machines alone: a server that is live then *)
(* was live before with the same status, or is not on its machine.         *)
LEMMA RowsKeepReports ==
    ASSUME LastReport, UNCHANGED <<rep, toPlatform, real>>, drops' = 0 => drops = 0,
           \A s \in Servers : Live(s)' /\ real[s] # "absent"
              => Live(s) /\ row'[s].host = row[s].host /\ row'[s].status = row[s].status
    PROVE  LastReport'
<1> SUFFICES ASSUME drops' = 0, NEW s \in Servers, Live(s)', real'[s] # "absent"
             PROVE  Newest(s)'
  BY DEF LastReport
<1>1. Newest(s) /\ row'[s].host = row[s].host /\ row'[s].status = row[s].status
  BY DEF LastReport
<1>2. Reports(s)' = Reports(s)
  BY <1>1 DEF Reports
<1>3. (NoneUnderWay(s)' <=> NoneUnderWay(s)) /\ \A i : LastAbout(s, i)' <=> LastAbout(s, i)
  BY <1>2 DEF NoneUnderWay, LastAbout
<1>4. \A r \in Reporters : Handles(r, s)' <=> Handles(r, s)
  BY <1>1 DEF Handles
<1> QED
  BY <1>1, <1>2, <1>3, <1>4 DEF Newest

(* A sequence with an element at its end, and one without its head.        *)
LEMMA Appended ==
    ASSUME NEW S, NEW q \in Seq(S), NEW m \in S
    PROVE  \E a \in Seq(S) : /\ a = Append(q, m) /\ Len(a) = Len(q) + 1 /\ Len(q) \in Nat
                             /\ a[Len(q) + 1] = m /\ \A i \in 1 .. Len(q) : a[i] = q[i]
<1>1. /\ Append(q, m) \in Seq(S) /\ Len(Append(q, m)) = Len(q) + 1 /\ Len(q) \in Nat
      /\ Append(q, m)[Len(q) + 1] = m /\ \A i \in 1 .. Len(q) : Append(q, m)[i] = q[i]
  OBVIOUS
<1> WITNESS Append(q, m) \in Seq(S)
<1> QED
  BY <1>1

LEMMA Beheaded ==
    ASSUME NEW S, NEW q \in Seq(S), q # <<>>
    PROVE  \E t \in Seq(S) : /\ t = Tail(q) /\ Len(q) = Len(t) + 1 /\ Len(t) \in Nat
                             /\ Head(q) = q[1] /\ q[1] \in S
                             /\ \A i \in 1 .. Len(t) : t[i] = q[i + 1]
<1>1. /\ Tail(q) \in Seq(S) /\ Len(q) = Len(Tail(q)) + 1 /\ Len(Tail(q)) \in Nat
      /\ Head(q) = q[1] /\ q[1] \in S /\ \A i \in 1 .. Len(Tail(q)) : Tail(q)[i] = q[i + 1]
  OBVIOUS
<1> WITNESS Tail(q) \in Seq(S)
<1> QED
  BY <1>1

(* A report that is sent is the newest of its server.                      *)
LEMMA TellIsNewest ==
    ASSUME IInv, NEW h \in Hosts, up[h], NEW v \in Servers, NEW st \in Reportable, Tell(h, v, st),
           UNCHANGED <<row, rep>>, NEW s \in Servers, row[s] # None
    PROVE  /\ (s # v \/ row[s].host # h) /\ Newest(s) /\ real'[s] = real[s] => Newest(s)'
           /\ s = v /\ row[s].host = h /\ real'[s] = st => Newest(s)'
<1> DEFINE n == [server |-> v, status |-> st]
<1>1. n \in Notice /\ n.server = v /\ n.status = st
  BY DEF Notice
<1>2. toPlatform \in [Hosts -> Seq(Notice)]
  BY DEF IInv, TypeOK, Notice
<1>3. toPlatform' = [toPlatform EXCEPT ![h] = Append(@, n)]
  BY DEF Tell
<1> HIDE DEF n
<1>4. row[s].host \in Hosts
  BY RowFields DEF IInv
<1>5. CASE row[s].host # h
  <2>1. Reports(s)' = Reports(s)
    BY <1>2, <1>3, <1>4, <1>5 DEF Reports
  <2>2. (NoneUnderWay(s)' <=> NoneUnderWay(s)) /\ \A i : LastAbout(s, i)' <=> LastAbout(s, i)
    BY <2>1 DEF NoneUnderWay, LastAbout
  <2> QED
    BY <1>5, <2>1, <2>2 DEF Newest, Handles
<1>6. CASE row[s].host = h
  <2>1. PICK q \in Seq(Notice) : q = Reports(s)
    BY <1>2, <1>4 DEF Reports
  <2>2. Reports(s)' = Append(q, n)
    BY <1>2, <1>3, <1>6, <2>1 DEF Reports
  <2>3. PICK a \in Seq(Notice) : /\ a = Append(q, n) /\ Len(a) = Len(q) + 1 /\ Len(q) \in Nat
                                 /\ a[Len(q) + 1] = n /\ \A i \in 1 .. Len(q) : a[i] = q[i]
    BY <1>1, Appended
  <2>4. CASE s # v
    <3>1. NoneUnderWay(s)' <=> NoneUnderWay(s)
      BY <1>1, <2>1, <2>2, <2>3, <2>4 DEF NoneUnderWay
    <3>2. \A i \in 1 .. Len(a) : LastAbout(s, i)' => i \in 1 .. Len(q) /\ LastAbout(s, i)
      BY <1>1, <2>1, <2>2, <2>3, <2>4 DEF LastAbout
    <3> QED
      BY <1>6, <2>1, <2>2, <2>3, <2>4, <3>1, <3>2 DEF Newest, Handles
  <2>5. CASE s = v
    <3>1. ~NoneUnderWay(s)'
      <4>1. Len(q) + 1 \in 1 .. Len(a)
        BY <2>3
      <4> QED
        BY <1>1, <2>2, <2>3, <2>5, <4>1 DEF NoneUnderWay
    <3>2. \A i \in 1 .. Len(a) : LastAbout(s, i)' => i = Len(q) + 1
      BY <1>1, <2>2, <2>3, <2>5 DEF LastAbout
    <3> QED
      BY <1>1, <1>6, <2>2, <2>3, <2>5, <3>1, <3>2 DEF Newest
  <2> QED
    BY <2>4, <2>5
<1> QED
  BY <1>5, <1>6

(* The report that is taken is the oldest.                                 *)
LEMMA ArriveKeepsReports ==
    ASSUME OneReporter, IInv, LastReport, NEW r \in Reporters, NEW h \in Hosts, Arrive(r, h)
    PROVE  LastReport'
<1> SUFFICES ASSUME drops' = 0, NEW s \in Servers, Live(s)', real'[s] # "absent"
             PROVE  Newest(s)'
  BY DEF LastReport
<1>1. /\ UNCHANGED <<row, real, drops>> /\ rep[r].pc = "idle" /\ toPlatform[h] # <<>>
      /\ toPlatform' = [toPlatform EXCEPT ![h] = Tail(@)]
  BY DEF Arrive
<1>2. row[s] # None /\ Newest(s)
  BY <1>1 DEF LastReport, Live
<1>3. row[s].host \in Hosts
  BY <1>2, RowFields DEF IInv
<1>4. toPlatform \in [Hosts -> Seq(Notice)]
  BY DEF IInv, TypeOK, Notice
<1>5. \A x \in Reporters : x = r
  BY DEF OneReporter
<1>6. /\ rep'[r].pc = "read" /\ rep'[r].host = h /\ rep'[r].server = Head(toPlatform[h]).server
      /\ rep'[r].status = Head(toPlatform[h]).status
  BY DEF Arrive, IInv, TypeOK
<1>7. CASE row[s].host # h
  <2>1. Reports(s)' = Reports(s)
    BY <1>1, <1>3, <1>4, <1>7 DEF Reports
  <2>2. (NoneUnderWay(s)' <=> NoneUnderWay(s)) /\ \A i : LastAbout(s, i)' <=> LastAbout(s, i)
    BY <2>1 DEF NoneUnderWay, LastAbout
  <2>3. \A x \in Reporters : ~Handles(x, s) /\ ~Handles(x, s)'
    BY <1>1, <1>5, <1>6, <1>7 DEF Handles
  <2> QED
    BY <1>1, <1>2, <2>1, <2>2, <2>3 DEF Newest
<1>8. CASE row[s].host = h
  <2>1. PICK q \in Seq(Notice) : q = Reports(s) /\ q # <<>> /\ q = toPlatform[h]
    BY <1>1, <1>3, <1>4, <1>8 DEF Reports
  <2>2. PICK t \in Seq(Notice) : /\ t = Tail(q) /\ Len(q) = Len(t) + 1 /\ Len(t) \in Nat
                                 /\ Head(q) = q[1] /\ \A i \in 1 .. Len(t) : t[i] = q[i + 1]
    BY <2>1, Beheaded
  <2>3. Reports(s)' = t
    BY <1>1, <1>4, <1>8, <2>1, <2>2 DEF Reports
  <2>4. \A i \in 1 .. Len(t) : LastAbout(s, i)' => i + 1 \in 1 .. Len(q) /\ LastAbout(s, i + 1)
    <3> SUFFICES ASSUME NEW i \in 1 .. Len(t), LastAbout(s, i)'
                 PROVE  i + 1 \in 1 .. Len(q) /\ LastAbout(s, i + 1)
      OBVIOUS
    <3>1. t[i].server = s /\ \A j \in i + 1 .. Len(t) : t[j].server # s
      BY <2>3 DEF LastAbout
    <3>2. \A j \in i + 2 .. Len(q) : j - 1 \in i + 1 .. Len(t) /\ q[j] = t[j - 1]
      BY <2>2
    <3>3. q[i + 1].server = s
      BY <2>2, <3>1
    <3>4. \A j \in (i + 1) + 1 .. Len(q) : q[j].server # s
      <4> SUFFICES ASSUME NEW j \in (i + 1) + 1 .. Len(q) PROVE q[j].server # s
        OBVIOUS
      <4>1. j \in i + 2 .. Len(q)
        OBVIOUS
      <4> QED
        BY <3>1, <3>2, <4>1
    <3> QED
      BY <2>1, <2>2, <3>3, <3>4 DEF LastAbout
  <2>5. \A i \in 1 .. Len(t) : LastAbout(s, i)' => t[i].status = real[s]
    BY <1>2, <2>1, <2>2, <2>4 DEF Newest
  <2>6. CASE NoneUnderWay(s)'
    <3>1. \A i \in 1 .. Len(t) : t[i].server # s
      BY <2>3, <2>6 DEF NoneUnderWay
    <3>2. \A i \in 2 .. Len(q) : i - 1 \in 1 .. Len(t) /\ q[i] = t[i - 1]
      BY <2>2
    <3>3. \A i \in 2 .. Len(q) : q[i].server # s
      BY <3>1, <3>2
    <3>4. CASE q[1].server = s
      <4>1. 1 \in 1 .. Len(Reports(s)) /\ LastAbout(s, 1)
        BY <2>1, <2>2, <3>3, <3>4 DEF LastAbout
      <4>2. q[1].status = real[s]
        BY <1>2, <2>1, <4>1 DEF Newest
      <4>3. rep'[r].status = real[s] /\ Handles(r, s)'
        BY <1>1, <1>6, <1>8, <2>1, <2>2, <3>4, <4>2 DEF Handles
      <4> QED
        BY <1>1, <1>5, <2>3, <2>5, <4>3 DEF Newest
    <3>5. CASE q[1].server # s
      <4>1. NoneUnderWay(s)
        BY <2>1, <3>3, <3>5 DEF NoneUnderWay
      <4>2. \A x \in Reporters : ~Handles(x, s) /\ ~Handles(x, s)'
        BY <1>1, <1>5, <1>6, <2>1, <2>2, <3>5 DEF Handles
      <4> QED
        BY <1>1, <1>2, <2>3, <2>5, <4>1, <4>2 DEF Newest
    <3> QED
      BY <3>4, <3>5
  <2> QED
    BY <1>1, <2>3, <2>5, <2>6 DEF Newest
<1> QED
  BY <1>7, <1>8

(* It is dropped, or stays in hand, or is written.                         *)
LEMMA ReadKeepsReports ==
    ASSUME OneReporter, IInv, LastReport, NEW r \in Reporters, Read(r) \/ Write(r)
    PROVE  LastReport'
<1> SUFFICES ASSUME drops' = 0, NEW s \in Servers, Live(s)', real'[s] # "absent"
             PROVE  Newest(s)'
  BY DEF LastReport
<1>1. UNCHANGED <<toPlatform, real, drops>> /\ rep[r].pc # "idle"
  BY DEF Read, Write
<1>2. \A x \in Reporters : x = r
  BY DEF OneReporter
<1>3. rep[r] \in Report /\ rep[r].server \in Servers /\ rep[r].host \in Hosts
  BY <1>1 DEF IInv, TypeOK, RepHas
<1>4. CASE Read(r)
  <2>1. UNCHANGED row
    BY <1>4 DEF Read
  <2>2. Newest(s) /\ row[s] # None
    BY <1>1, <2>1 DEF LastReport, Live
  <2>3. Handles(r, s)' <=> Handles(r, s)
    <3>1. CASE row[rep[r].server] # None /\ row[rep[r].server].host = rep[r].host
      <4>1. rep'[r] = [rep[r] EXCEPT !.pc = "write"]
        BY <1>4, <3>1 DEF Read, IInv, TypeOK
      <4>2. rep'[r].pc = "write" /\ rep'[r].server = rep[r].server /\ rep'[r].host = rep[r].host
        BY <1>3, <4>1 DEF Report
      <4> QED
        BY <1>1, <2>1, <4>2 DEF Handles
    <3>2. CASE ~(row[rep[r].server] # None /\ row[rep[r].server].host = rep[r].host)
      <4>1. rep'[r] = NoReport
        BY <1>4, <3>2 DEF Read, IInv, TypeOK
      <4> QED
        BY <2>1, <2>2, <3>2, <4>1 DEF Handles, NoReport
    <3> QED
      BY <3>1, <3>2
  <2>4. Handles(r, s)' => rep'[r].status = rep[r].status
    <3>1. rep'[r] = NoReport \/ rep'[r] = [rep[r] EXCEPT !.pc = "write"]
      BY <1>4 DEF Read, IInv, TypeOK
    <3> QED
      BY <1>3, <3>1 DEF Handles, NoReport, Report
  <2>5. Reports(s)' = Reports(s)
    BY <1>1, <2>1 DEF Reports
  <2>6. (NoneUnderWay(s)' <=> NoneUnderWay(s)) /\ \A i : LastAbout(s, i)' <=> LastAbout(s, i)
    BY <2>5 DEF NoneUnderWay, LastAbout
  <2> QED
    BY <1>1, <1>2, <2>1, <2>2, <2>3, <2>4, <2>5, <2>6 DEF Newest
<1>5. CASE Write(r)
  <2> DEFINE v == rep[r].server
             y == [row[v] EXCEPT !.status = rep[r].status]
  <2>1. row[v] # None /\ row[v].host = rep[r].host
    BY <1>5 DEF Write, IInv, RepHas
  <2>2. row' = [row EXCEPT ![v] = y] /\ rep'[r] = NoReport
    BY <1>5, <1>3 DEF Write, IInv, TypeOK
  <2>3. y.status = rep[r].status /\ y.host = row[v].host /\ y.deleted = row[v].deleted
    BY <1>3, <2>1, RowFields DEF IInv, Row
  <2>4. \A u \in Servers : row'[u] = IF u = v THEN y ELSE row[u]
    BY <1>3, <2>2 DEF IInv, TypeOK
  <2> HIDE DEF y, v
  <2>5. Live(s) /\ row'[s].host = row[s].host
    BY <2>1, <2>3, <2>4 DEF Live
  <2>6. Newest(s)
    BY <1>1, <2>5 DEF LastReport
  <2>7. Reports(s)' = Reports(s)
    BY <1>1, <2>5 DEF Reports
  <2>8. (NoneUnderWay(s)' <=> NoneUnderWay(s)) /\ \A i : LastAbout(s, i)' <=> LastAbout(s, i)
    BY <2>7 DEF NoneUnderWay, LastAbout
  <2>9. \A x \in Reporters : ~Handles(x, s)'
    BY <1>2, <2>2 DEF Handles, NoReport
  <2>10. CASE s = v
    <3>1. Handles(r, s) /\ row'[s].status = rep[r].status
      BY <1>1, <2>1, <2>3, <2>4, <2>10 DEF Handles, v
    <3> QED
      BY <1>1, <2>6, <2>7, <2>8, <2>9, <3>1 DEF Newest
  <2>11. CASE s # v
    <3>1. row'[s] = row[s] /\ ~Handles(r, s)
      BY <2>4, <2>11 DEF Handles, v
    <3> QED
      BY <1>1, <1>2, <2>6, <2>7, <2>8, <2>9, <3>1 DEF Newest
  <2> QED
    BY <2>10, <2>11
<1> QED
  BY <1>4, <1>5

(* What an agent does, it says.                                            *)
LEMMA AgentKeepsReports ==
    ASSUME IInv, ReportInv, NEW h \in Hosts,
           \/ AgentObeys(h)
           \/ \E s \in Servers : AgentReports(h, s)
           \/ \E s \in Servers, status \in {"running", "stopped"} : AgentErrs(h, s, status)
    PROVE  LastReport'
<1>1. UNCHANGED <<row, rep, up, drops>>
  BY DEF AgentObeys, AgentReports, AgentErrs
<1> SUFFICES ASSUME drops = 0, NEW s \in Servers, Live(s), real'[s] # "absent"
             PROVE  Newest(s)'
  BY <1>1 DEF LastReport, Live
<1>2. up[h] /\ row[s] # None
  BY DEF ReportInv, MachineKnows, Live
<1>3. CASE AgentObeys(h)
  <2>1. PICK cmd : cmd = Head(toAgent[h])
    OBVIOUS
  <2>2. cmd \in Message /\ cmd = toAgent[h][1] /\ 1 \in 1 .. Len(toAgent[h])
    <3>1. toAgent[h] \in Seq(Message) /\ toAgent[h] # <<>>
      BY <1>3 DEF IInv, TypeOK, Message, AgentObeys
    <3> QED
      BY <2>1, <3>1
  <2>3. PICK v \in Servers, type \in Commands : v = cmd.server /\ type = cmd.type
    BY <2>2 DEF Message
  <2>4. row[v] # None /\ row[v].host = h
    BY <2>2, <2>3 DEF ReportInv, CommandsKnow
  <2>5. PICK new : new = Effect(type, real[v])
    OBVIOUS
  <2>6. real' = [real EXCEPT ![v] = new] /\ Tell(h, v, Reported(new))
    BY <1>3, <2>1, <2>3, <2>5 DEF AgentObeys
  <2>7. new \in Reportable \cup {"absent"}
    BY <2>5 DEF Effect, Reportable, IInv, TypeOK
  <2>8. Reported(new) \in Reportable /\ (new # "absent" => Reported(new) = new)
    BY <2>7 DEF Reported, Reportable
  <2>9. CASE s = v
    <3>1. real'[s] = Reported(new)
      BY <2>6, <2>8, <2>9 DEF IInv, TypeOK
    <3> QED
      BY <1>1, <1>2, <2>4, <2>6, <2>8, <2>9, <3>1, TellIsNewest
  <2>10. CASE s # v
    <3>1. real'[s] = real[s]
      BY <2>6, <2>10 DEF IInv, TypeOK
    <3>2. Newest(s)
      BY <3>1 DEF ReportInv, LastReport
    <3> QED
      BY <1>1, <1>2, <2>6, <2>8, <2>10, <3>1, <3>2, TellIsNewest
  <2> QED
    BY <2>9, <2>10
<1>4. ASSUME NEW v \in Servers, AgentReports(h, v) PROVE Newest(s)'
  <2>1. PICK new \in {"running", "crashed"} : real' = [real EXCEPT ![v] = new] /\ Tell(h, v, new)
    BY <1>4 DEF AgentReports
  <2>2. new \in Reportable /\ row[v].host = h
    BY <1>4 DEF Reportable, AgentReports
  <2>3. CASE s = v
    <3>1. real'[s] = new
      BY <2>1, <2>3 DEF IInv, TypeOK
    <3> QED
      BY <1>1, <1>2, <2>1, <2>2, <2>3, <3>1, TellIsNewest
  <2>4. CASE s # v
    <3>1. real'[s] = real[s]
      BY <2>1, <2>4 DEF IInv, TypeOK
    <3>2. Newest(s)
      BY <3>1 DEF ReportInv, LastReport
    <3> QED
      BY <1>1, <1>2, <2>1, <2>2, <2>4, <3>1, <3>2, TellIsNewest
  <2> QED
    BY <2>3, <2>4
<1>5. ASSUME NEW v \in Servers, NEW status \in {"running", "stopped"}, AgentErrs(h, v, status)
      PROVE  Newest(s)'
  <2>1. Tell(h, v, status) /\ UNCHANGED real /\ row[v].host # h /\ status \in Reportable
    BY <1>5 DEF AgentErrs, Reportable
  <2>2. Newest(s)
    BY <2>1 DEF ReportInv, LastReport
  <2> QED
    BY <1>1, <1>2, <2>1, <2>2, TellIsNewest
<1> QED
  BY <1>3, <1>4, <1>5

(* No step makes a row anew, or moves it to another host, or brings it     *)
(* back.                                                                   *)
LEMMA RowsStay ==
    ASSUME IInv, [Next]_vars, NEW s \in Servers, row[s] # None
    PROVE  /\ row'[s] # None /\ row'[s].host = row[s].host
           /\ Live(s)' => Live(s)
           /\ Live(s)' /\ (\A r \in Reporters : ~Write(r)) => row'[s].status = row[s].status
<1>1. CASE UNCHANGED row
  BY <1>1 DEF Live
<1>2. ASSUME NEW o \in Ops, NEW t \in Servers, Insert(o, t)
      PROVE  row'[s] = row[s]
  BY <1>2 DEF Insert, IInv, TypeOK
<1>3. ASSUME NEW o \in Ops, Tombstone(o)
      PROVE  row'[s] # None /\ row'[s].host = row[s].host /\ (Live(s)' => row'[s] = row[s])
  <2> DEFINE v == op[o].server
             y == [row[v] EXCEPT !.status = "deleting", !.deleted = TRUE]
  <2>1. row' = [row EXCEPT ![v] = y] /\ v \in Servers /\ row[v] # None
    BY <1>3 DEF Tombstone, IInv, TypeOK, OpHas
  <2>2. y.host = row[v].host /\ y.deleted = TRUE /\ y # None
    BY <2>1, RowFields, NoneAssumption DEF IInv, Row, Statuses
  <2> HIDE DEF v, y
  <2> QED
    BY <2>1, <2>2 DEF IInv, TypeOK, Live
<1>4. ASSUME NEW r \in Reporters, Write(r)
      PROVE  row'[s] # None /\ row'[s].host = row[s].host /\ (Live(s)' => Live(s))
  <2> DEFINE v == rep[r].server
             y == [row[v] EXCEPT !.status = rep[r].status]
  <2>1. row' = [row EXCEPT ![v] = y] /\ v \in Servers /\ row[v] # None /\ rep[r].status \in Reportable
    BY <1>4 DEF Write, IInv, TypeOK, RepHas
  <2>2. y.host = row[v].host /\ y.deleted = row[v].deleted /\ y # None
    BY <2>1, RowFields, NoneAssumption DEF IInv, Row, Statuses, Reportable
  <2> HIDE DEF v, y
  <2> QED
    BY <2>1, <2>2 DEF IInv, TypeOK, Live
<1>5. \/ row' = row
      \/ \E o \in Ops, t \in Servers : Insert(o, t)
      \/ \E o \in Ops : Tombstone(o)
      \/ \E r \in Reporters : Write(r)
  <2>1. ASSUME NEW o \in Ops,
               FindHost(o) \/ CheckPort(o) \/ LoadOwnedServer(o) \/ OpFails(o)
        PROVE  row' = row
    BY <2>1 DEF OpFails, FindHost, CheckPort, LoadOwnedServer
  <2>8. ASSUME NEW o \in Ops, Send(o) PROVE row' = row
    BY <2>8 DEF Send
  <2>2. ASSUME NEW r \in Reporters, NEW h, Arrive(r, h) \/ Read(r) PROVE row' = row
    BY <2>2 DEF Arrive, Read
  <2>3. ASSUME NEW o \in Ops, NEW h, NEW p, BeginDeploy(o, h, p) PROVE row' = row
    BY <2>3 DEF BeginDeploy, Begin
  <2>4. ASSUME NEW o \in Ops, NEW kind, NEW t, BeginOther(o, kind, t) PROVE row' = row
    BY <2>4 DEF BeginOther, Begin
  <2>5. ASSUME NEW h \in Hosts, RemoveHost(h) \/ AgentObeys(h) \/ Drop(h) \/ Reconnect(h)
        PROVE  row' = row
    BY <2>5 DEF RemoveHost, AgentObeys, Drop, Reconnect
  <2>6. ASSUME NEW h, NEW t, NEW status, AgentReports(h, t) \/ AgentErrs(h, t, status)
        PROVE  row' = row
    BY <2>6 DEF AgentReports, AgentErrs
  <2>7. CASE UNCHANGED vars
    BY <2>7 DEF vars
  <2> QED
    BY <2>1, <2>2, <2>3, <2>4, <2>5, <2>6, <2>7, <2>8 DEF Next, Step, Handle
<1> QED
  BY <1>1, <1>2, <1>3, <1>4, <1>5 DEF Live

(* Commands are sent to the host of their server.                          *)
LEMMA CommandsStayKnown ==
    ASSUME IInv, CommandsKnow, [Next]_vars
    PROVE  CommandsKnow'
<1> SUFFICES ASSUME NEW h \in Hosts, NEW i \in 1 .. Len(toAgent'[h])
             PROVE  /\ row'[toAgent'[h][i].server] # None
                    /\ row'[toAgent'[h][i].server].host = h
  BY DEF CommandsKnow
<1>1. toAgent \in [Hosts -> Seq(Message)] /\ toAgent[h] \in Seq(Message)
  BY DEF IInv, TypeOK, Message
<1>2. ASSUME NEW j \in 1 .. Len(toAgent[h]), toAgent'[h][i].server = toAgent[h][j].server
      PROVE  /\ row'[toAgent'[h][i].server] # None
             /\ row'[toAgent'[h][i].server].host = h
  <2>1. toAgent[h][j] \in Message
    BY <1>1
  <2>3. toAgent[h][j].server \in Servers
    BY <2>1 DEF Message
  <2> QED
    BY <1>2, <2>3, RowsStay DEF CommandsKnow
<1>3. CASE toAgent'[h] = toAgent[h]
  BY <1>2, <1>3
<1>4. ASSUME NEW o \in Ops, Send(o)
      PROVE  /\ row'[toAgent'[h][i].server] # None
             /\ row'[toAgent'[h][i].server].host = h
  <2> DEFINE s == op[o].server
             m == [type |-> op[o].kind, server |-> s]
  <2>1. s \in Servers /\ row[s] # None /\ m \in Message /\ m.server = s
    BY <1>4 DEF Send, IInv, OpHas, Message
  <2>2. toAgent' = [toAgent EXCEPT ![row[s].host] = Append(@, m)] \/ toAgent' = toAgent
    BY <1>4 DEF Send
  <2>3. UNCHANGED row
    BY <1>4 DEF Send
  <2> HIDE DEF s, m
  <2>4. CASE toAgent'[h] = Append(toAgent[h], m) /\ row[s].host = h
    <3>0. PICK q \in Seq(Message) : q = toAgent[h]
      BY <1>1
    <3>1. PICK a \in Seq(Message) : /\ a = Append(q, m) /\ Len(a) = Len(q) + 1 /\ Len(q) \in Nat
                                    /\ a[Len(q) + 1] = m /\ \A k \in 1 .. Len(q) : a[k] = q[k]
      BY <2>1, Appended
    <3>2. i \in 1 .. Len(toAgent[h]) \/ i = Len(toAgent[h]) + 1
      BY <2>4, <3>0, <3>1
    <3>3. CASE i \in 1 .. Len(toAgent[h])
      BY <1>2, <2>4, <3>0, <3>1, <3>3
    <3>4. CASE i = Len(toAgent[h]) + 1
      BY <2>1, <2>3, <2>4, <3>0, <3>1, <3>4
    <3> QED
      BY <3>2, <3>3, <3>4
  <2>5. (toAgent'[h] = Append(toAgent[h], m) /\ row[s].host = h) \/ toAgent'[h] = toAgent[h]
    BY <1>1, <2>2
  <2> QED
    BY <1>3, <2>4, <2>5
<1>5. ASSUME NEW k \in Hosts, AgentObeys(k)
      PROVE  /\ row'[toAgent'[h][i].server] # None
             /\ row'[toAgent'[h][i].server].host = h
  <2>1. toAgent' = [toAgent EXCEPT ![k] = Tail(@)] /\ toAgent[k] # <<>>
    BY <1>5 DEF AgentObeys
  <2>2. CASE k = h
    <3>1. PICK t \in Seq(Message) : /\ t = Tail(toAgent[h]) /\ Len(toAgent[h]) = Len(t) + 1
                                    /\ Len(t) \in Nat
                                    /\ \A n \in 1 .. Len(t) : t[n] = toAgent[h][n + 1]
      BY <1>1, <2>1, <2>2, Beheaded
    <3>2. toAgent'[h] = t
      BY <1>1, <2>1, <2>2, <3>1
    <3>3. i + 1 \in 1 .. Len(toAgent[h]) /\ toAgent'[h][i] = toAgent[h][i + 1]
      BY <3>1, <3>2
    <3> QED
      BY <1>2, <3>3
  <2>3. CASE k # h
    BY <1>1, <1>3, <2>1, <2>3
  <2> QED
    BY <2>2, <2>3
<1>6. ASSUME NEW k \in Hosts, Drop(k)
      PROVE  /\ row'[toAgent'[h][i].server] # None
             /\ row'[toAgent'[h][i].server].host = h
  <2>1. toAgent' = [toAgent EXCEPT ![k] = <<>>]
    BY <1>6 DEF Drop
  <2>2. k # h
    <3>1. CASE k = h
      <4>1. toAgent'[h] = <<>>
        BY <1>1, <2>1, <3>1
      <4> QED
        BY <4>1
    <3> QED
      BY <3>1
  <2> QED
    BY <1>1, <1>3, <2>1, <2>2
<1>7. \/ toAgent' = toAgent
      \/ \E o \in Ops : Send(o)
      \/ \E k \in Hosts : AgentObeys(k) \/ Drop(k)
  <2>1. ASSUME NEW o \in Ops,
               FindHost(o) \/ CheckPort(o) \/ LoadOwnedServer(o) \/ Tombstone(o) \/ OpFails(o)
        PROVE  toAgent' = toAgent
    BY <2>1 DEF OpFails, FindHost, CheckPort, LoadOwnedServer, Tombstone
  <2>2. ASSUME NEW r \in Reporters, NEW k, Arrive(r, k) \/ Read(r) \/ Write(r)
        PROVE  toAgent' = toAgent
    BY <2>2 DEF Arrive, Read, Write
  <2>3. ASSUME NEW o \in Ops, NEW k, NEW p, BeginDeploy(o, k, p) PROVE toAgent' = toAgent
    BY <2>3 DEF BeginDeploy, Begin
  <2>4. ASSUME NEW o \in Ops, NEW kind, NEW t, BeginOther(o, kind, t) PROVE toAgent' = toAgent
    BY <2>4 DEF BeginOther, Begin
  <2>5. ASSUME NEW o \in Ops, NEW t, Insert(o, t) PROVE toAgent' = toAgent
    BY <2>5 DEF Insert
  <2>6. ASSUME NEW k \in Hosts, RemoveHost(k) \/ Reconnect(k) PROVE toAgent' = toAgent
    BY <2>6 DEF RemoveHost, Reconnect
  <2>7. ASSUME NEW k, NEW t, NEW status, AgentReports(k, t) \/ AgentErrs(k, t, status)
        PROVE  toAgent' = toAgent
    BY <2>7 DEF AgentReports, AgentErrs
  <2>8. CASE UNCHANGED vars
    BY <2>8 DEF vars
  <2> QED
    BY <2>1, <2>2, <2>3, <2>4, <2>5, <2>6, <2>7, <2>8 DEF Next, Step, Handle
<1> QED
  BY <1>3, <1>4, <1>5, <1>6, <1>7

(* Which steps change what: those of the agents and of the network, and    *)
(* the rest.                                                               *)
OwnSteps ==
    \/ \E h \in Hosts, r \in Reporters : Arrive(r, h)
    \/ \E r \in Reporters : Read(r) \/ Write(r)
    \/ \E h \in Hosts : AgentObeys(h) \/ Drop(h)
    \/ \E h \in Hosts, s \in Servers : AgentReports(h, s)
    \/ \E h \in Hosts, s \in Servers, status \in {"running", "stopped"} : AgentErrs(h, s, status)

LEMMA OtherSteps ==
    ASSUME [Next]_vars
    PROVE  \/ OwnSteps
           \/ /\ rep' = rep /\ toPlatform' = toPlatform /\ real' = real /\ drops' = drops
              /\ up' = up \/ \E h \in Hosts : Reconnect(h)
<1> DEFINE Still == rep' = rep /\ toPlatform' = toPlatform /\ real' = real /\ drops' = drops
<1>1. ASSUME NEW o \in Ops, FindHost(o) \/ CheckPort(o) \/ LoadOwnedServer(o) \/ OpFails(o)
      PROVE  Still /\ up' = up
  BY <1>1 DEF OpFails, FindHost, CheckPort, LoadOwnedServer
<1>2. ASSUME NEW o \in Ops, Send(o) PROVE Still /\ up' = up
  BY <1>2 DEF Send
<1>3. ASSUME NEW o \in Ops, NEW s, Tombstone(o) \/ Insert(o, s) PROVE Still /\ up' = up
  BY <1>3 DEF Tombstone, Insert
<1>4. ASSUME NEW o \in Ops, NEW h, NEW p, BeginDeploy(o, h, p) PROVE Still /\ up' = up
  BY <1>4 DEF BeginDeploy, Begin
<1>5. ASSUME NEW o \in Ops, NEW kind, NEW s, BeginOther(o, kind, s) PROVE Still /\ up' = up
  BY <1>5 DEF BeginOther, Begin
<1>6. ASSUME NEW h \in Hosts, RemoveHost(h) PROVE Still /\ up' = up
  BY <1>6 DEF RemoveHost
<1>7. ASSUME NEW h \in Hosts, Reconnect(h) PROVE Still
  BY <1>7 DEF Reconnect
<1>8. ASSUME UNCHANGED vars PROVE Still /\ up' = up
  BY <1>8 DEF vars
<1> HIDE DEF Still
<1>9. OwnSteps \/ (Still /\ (up' = up \/ \E h \in Hosts : Reconnect(h)))
  BY <1>1, <1>2, <1>3, <1>4, <1>5, <1>6, <1>7, <1>8 DEF Next, Step, Handle, OwnSteps
<1> QED
  BY <1>9 DEF Still

LEMMA InitReports == Init => ReportInv
  BY DEF Init, ReportInv, CommandsKnow, MachineKnows, LastReport, Live

(* Every step keeps the invariant, if reports are handled one at a time.   *)
LEMMA NextReports ==
    ASSUME OneReporter, IInv, ReportInv, [Next]_vars
    PROVE  ReportInv'
<1>1. CommandsKnow'
  BY CommandsStayKnown DEF ReportInv
<1>2. MachineKnows'
  <2>1. \A s \in Servers : row[s] # None => row'[s] # None
    BY RowsStay
  <2>2. ASSUME real' = real, up' = up, drops' = drops PROVE MachineKnows'
    BY <2>1, <2>2 DEF ReportInv, MachineKnows
  <2>3. ASSUME NEW h \in Hosts, AgentObeys(h) PROVE MachineKnows'
    <3>1. PICK cmd : cmd = Head(toAgent[h])
      OBVIOUS
    <3>2. cmd \in Message /\ cmd = toAgent[h][1] /\ 1 \in 1 .. Len(toAgent[h])
      <4>1. toAgent[h] \in Seq(Message) /\ toAgent[h] # <<>>
        BY <2>3 DEF IInv, TypeOK, Message, AgentObeys
      <4> QED
        BY <3>1, <4>1
    <3>3. row[cmd.server] # None /\ cmd.server \in Servers
      BY <3>2 DEF ReportInv, CommandsKnow, Message
    <3>4. \A s \in Servers : s # cmd.server => real'[s] = real[s]
      BY <2>3, <3>1, <3>3 DEF AgentObeys, IInv, TypeOK
    <3>5. UNCHANGED <<row, up, drops>>
      BY <2>3 DEF AgentObeys
    <3> QED
      BY <3>3, <3>4, <3>5 DEF ReportInv, MachineKnows
  <2>4. ASSUME NEW h \in Hosts, NEW v \in Servers, AgentReports(h, v) PROVE MachineKnows'
    <3>1. row[v] # None /\ UNCHANGED <<row, up, drops>>
      BY <2>4 DEF AgentReports
    <3>2. \A s \in Servers : s # v => real'[s] = real[s]
      BY <2>4 DEF AgentReports, IInv, TypeOK
    <3> QED
      BY <3>1, <3>2 DEF ReportInv, MachineKnows
  <2>5. ASSUME NEW h \in Hosts, Drop(h) PROVE MachineKnows'
    BY <2>5 DEF Drop, ReportInv, MachineKnows, IInv, TypeOK
  <2>6. ASSUME NEW h \in Hosts, Reconnect(h) PROVE MachineKnows'
    BY <2>6 DEF Reconnect, ReportInv, MachineKnows, IInv, TypeOK
  <2>7. ASSUME NEW r, NEW h, NEW s, NEW status,
               Arrive(r, h) \/ Read(r) \/ Write(r) \/ AgentErrs(h, s, status)
        PROVE  real' = real /\ up' = up /\ drops' = drops
    BY <2>7 DEF Arrive, Read, Write, AgentErrs
  <2> QED
    BY <2>2, <2>3, <2>4, <2>5, <2>6, <2>7, OtherSteps DEF OwnSteps
<1>3. LastReport'
  <2>1. ASSUME rep' = rep, toPlatform' = toPlatform, real' = real, drops' = drops
        PROVE  LastReport'
    <3>2. \A r \in Reporters : ~Write(r)
      BY <2>1 DEF Write, NoReport, IInv, TypeOK
    <3>1. \A s \in Servers : Live(s)' /\ real[s] # "absent"
              => Live(s) /\ row'[s].host = row[s].host /\ row'[s].status = row[s].status
      BY <2>1, <3>2, RowsStay DEF ReportInv, MachineKnows, Live
    <3> QED
      BY <2>1, <3>1, RowsKeepReports DEF ReportInv
  <2>2. ASSUME NEW r \in Reporters, NEW h \in Hosts, Arrive(r, h) PROVE LastReport'
    BY <2>2, ArriveKeepsReports DEF ReportInv
  <2>3. ASSUME NEW r \in Reporters, Read(r) \/ Write(r) PROVE LastReport'
    BY <2>3, ReadKeepsReports DEF ReportInv
  <2>4. ASSUME NEW h \in Hosts,
               \/ AgentObeys(h)
               \/ \E s \in Servers : AgentReports(h, s)
               \/ \E s \in Servers, status \in {"running", "stopped"} : AgentErrs(h, s, status)
        PROVE  LastReport'
    BY <2>4, AgentKeepsReports
  <2>5. ASSUME NEW h \in Hosts, Drop(h) PROVE LastReport'
    <3>1. drops' # 0
      BY <2>5 DEF Drop, IInv, TypeOK
    <3> QED
      BY <3>1 DEF LastReport
  <2> QED
    BY <2>1, <2>2, <2>3, <2>4, <2>5, OtherSteps DEF OwnSteps
<1> QED
  BY <1>1, <1>2, <1>3 DEF ReportInv

(* If the reports of the agents are handled one at a time, then, unless a  *)
(* connection broke, the status of a server that is live and installed is  *)
(* the one its agent reported last, once its reports are handled; it does  *)
(* not take that server actions run one at a time.                         *)
THEOREM StatusFollowsReports ==
    ASSUME OneReporter
    PROVE  Spec => []StatusIsLastReport
<1>1. IInv /\ ReportInv /\ [Next]_vars => ReportInv'
  BY NextReports
<1>2. ReportInv => StatusIsLastReport
  <2> SUFFICES ASSUME ReportInv, NEW s \in Servers, Live(s), real[s] # "absent", drops = 0, Quiet(s)
               PROVE  row[s].status = real[s]
    BY DEF StatusIsLastReport
  <2>1. NoneUnderWay(s) /\ \A r \in Reporters : ~Handles(r, s)
    BY DEF Quiet, NoneUnderWay, Handles, Reports
  <2> QED
    BY <2>1 DEF ReportInv, LastReport, Newest
<1> QED
  BY <1>1, <1>2, InitReports, Invariance, PTL DEF Spec

=============================================================================
