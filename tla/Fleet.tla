-------------------------------- MODULE Fleet -------------------------------
(***************************************************************************)
(* The dashboard: what its page (src/app/dashboard/page.tsx) selects of    *)
(* hosts, servers and games, the diagram computeLayout makes of it         *)
(* (src/components/app/traffic-flow.tsx) and the grid of running worlds.   *)
(*                                                                         *)
(* Rows are a set: their order decides only in which order nodes stand.    *)
(* A link has no width here, which is a matter of looks, but for where it  *)
(* leads.  Heights are counted in parts of a pixel, see Unit.              *)
(***************************************************************************)
EXTENDS Integers, FiniteSets, FiniteSetsExt

CONSTANTS MaxHosts, FleetServers, Games, MaxPlayers, NoServer, NoGame

VARIABLES
    hostSet,  \* hosts that are not deleted
    world     \* the game_servers rows

fleetVars == <<hostSet, world>>

HostIds == 1 .. MaxHosts
NodeKey == (HostIds \X {"host"}) \cup (Games \X {"game"}) \cup {<<NoGame, "players">>}

World == [host : HostIds, game : Games, status : {"running", "other", "deleted"},
          players : 0 .. MaxPlayers]

ASSUME FleetAssumption ==
    /\ MaxHosts \in Nat \ {0} /\ MaxPlayers \in Nat
    /\ IsFiniteSet(FleetServers) /\ NoServer \notin FleetServers /\ NoGame \notin Games

FleetTypeOK ==
    /\ hostSet \subseteq HostIds
    /\ world \in [FleetServers -> World \cup {NoServer}]

FleetInit ==
    /\ \E n \in 0 .. MaxHosts : hostSet = 1 .. n
    /\ world = [s \in FleetServers |-> NoServer]

-----------------------------------------------------------------------------
(* The SELECT.                                                             *)

LiveOn(h) == {s \in FleetServers : world[s] # NoServer /\ world[s].host = h
                                   /\ world[s].status # "deleted"}

(* hosts LEFT JOIN game_servers LEFT JOIN game_catalog: a host without     *)
(* servers has one row, without server, game and players.                  *)
RowOf(h, s) == [hostId |-> h, serverId |-> s, gameId |-> world[s].game,
                playerCount |-> world[s].players, running |-> world[s].status = "running"]
EmptyRow(h) == [hostId |-> h, serverId |-> NoServer, gameId |-> NoGame,
                playerCount |-> 0, running |-> FALSE]
FlowRows ==
    UNION {IF LiveOn(h) = {} THEN {EmptyRow(h)} ELSE {RowOf(h, s) : s \in LiveOn(h)} : h \in hostSet}

(* MUTANT: every row counts for a server.                                  *)
ServerCountOfRow(r) == 1

ServerCount(r) == IF r.serverId = NoServer THEN 0 ELSE 1

-----------------------------------------------------------------------------
(* computeLayout.                                                          *)

Aggregate(rows) ==
    [players |-> MapThenSumSet(LAMBDA r : r.playerCount, rows),
     servers |-> MapThenSumSet(ServerCount, rows)]

GamesOf(rows) == {r.gameId : r \in rows} \ {NoGame}

NoDiagram == [hasFlow |-> FALSE, hosts |-> [h \in {} |-> NoGame], games |-> [g \in {} |-> NoGame],
              players |-> 0, total |-> FALSE, links |-> {}]

(* No games and no servers: the placeholder, and so for no hosts.          *)
ComputeLayout(rows) ==
    LET hosts == {r.hostId : r \in rows}
        games == GamesOf(rows)
        all == Aggregate(rows) IN
    IF hosts = {} \/ (games = {} /\ all.servers = 0) THEN NoDiagram
    ELSE [hasFlow |-> TRUE,
          hosts |-> [h \in hosts |-> Aggregate({r \in rows : r.hostId = h})],
          games |-> [g \in games |-> Aggregate({r \in rows : r.gameId = g})],
          players |-> all.players,
          total |-> all.players # 0 \/ all.servers # 0,
          links |-> {<<<<r.hostId, "host">>, <<r.gameId, "game">>>> :
                        r \in {q \in rows : q.gameId # NoGame}}
                   \cup {<<<<g, "game">>, <<NoGame, "players">>>> : g \in games}]

Nodes(d) ==
    ({<<h, "host">> : h \in DOMAIN d.hosts} \cup {<<g, "game">> : g \in DOMAIN d.games})
    \cup IF d.total THEN {<<NoGame, "players">>} ELSE {}

(* layoutColumn for n items: its results, in 2n-ths of a pixel.            *)
Unit(n) == 2 * n
TopMargin == 36
Height == 420
UsableH == Height - TopMargin - 16
NodePad == 12
LabelY == 20

Least(a, b) == IF a < b THEN a ELSE b
Most(a, b) == IF a > b THEN a ELSE b

TotalPad(n) == NodePad * (n - 1)
BaseH(n) == Most(36 * Unit(n), Least(72 * Unit(n), 2 * (UsableH - TotalPad(n))))
TotalH(n) == BaseH(n) * n + TotalPad(n) * Unit(n)
StartY(n) == TopMargin * Unit(n) + ((UsableH * Unit(n) - TotalH(n)) \div 2)
NodeY(n, i) == StartY(n) + (i - 1) * (BaseH(n) + NodePad * Unit(n))

-----------------------------------------------------------------------------
(* What happens to the rows.  The page may be rendered at any moment.      *)

Deploy(s, h, g) ==
    /\ world[s] = NoServer /\ h \in hostSet
    /\ world' = [world EXCEPT ![s] = [host |-> h, game |-> g, status |-> "other", players |-> 0]]
    /\ UNCHANGED hostSet

(* A status report, with its count of players.  It stays when the server   *)
(* has stopped.                                                            *)
Report(s, status, players) ==
    /\ world[s] # NoServer /\ world[s].status # "deleted"
    /\ world' = [world EXCEPT ![s].status = status, ![s].players = players]
    /\ UNCHANGED hostSet

DeleteWorld(s) ==
    /\ world[s] # NoServer
    /\ world' = [world EXCEPT ![s].status = "deleted"]
    /\ UNCHANGED hostSet

(* The servers of a host that is removed keep their rows.                  *)
RemoveHost(h) ==
    /\ hostSet' = hostSet \ {h}
    /\ UNCHANGED world

(* worlds: the grid of what is running.                                    *)
Worlds == {r.serverId : r \in {q \in FlowRows : q.running}}

Diagram == ComputeLayout(FlowRows)

(* Bound: servers are on the first two hosts, and only those are removed.  *)
FleetNext ==
    \/ \E s \in FleetServers, h \in HostIds \cap {1, 2}, g \in Games : Deploy(s, h, g)
    \/ \E s \in FleetServers, status \in {"running", "other"}, players \in 0 .. MaxPlayers :
          Report(s, status, players)
    \/ \E s \in FleetServers : DeleteWorld(s)
    \/ \E h \in hostSet \cap {1, 2} : RemoveHost(h)

FleetSpec == FleetInit /\ [][FleetNext]_fleetVars

-----------------------------------------------------------------------------
SumOf(agg, Field(_)) == MapThenSumSet(LAMBDA k : Field(agg[k]), DOMAIN agg)

(* What the hosts' column counts is what the games' column counts and what *)
(* the total says, and a host has as many servers as it has.               *)
FlowConserves ==
    LET d == Diagram IN
    d.hasFlow =>
        /\ SumOf(d.hosts, LAMBDA a : a.players) = d.players
        /\ SumOf(d.games, LAMBDA a : a.players) = d.players
        /\ SumOf(d.hosts, LAMBDA a : a.servers) = SumOf(d.games, LAMBDA a : a.servers)
        /\ \A h \in hostSet : d.hosts[h].servers = Cardinality(LiveOn(h))

(* No link is left out for want of one of its ends, every host is in the   *)
(* diagram once there is one, and there is one if a world is running.      *)
LinksHaveEnds ==
    LET d == Diagram IN
    /\ \A link \in d.links : link[1] \in Nodes(d) /\ link[2] \in Nodes(d)
    /\ d.hasFlow => DOMAIN d.hosts = hostSet
    /\ Worlds # {} => d.hasFlow

(* The nodes of a column do not overlap, and up to eight of them stay      *)
(* between the column's label and the edge of the diagram.                 *)
ColumnFits(n) ==
    /\ \A i \in 1 .. n - 1 : NodeY(n, i) + BaseH(n) < NodeY(n, i + 1)
    /\ n \in 1 .. 8 => /\ NodeY(n, 1) > LabelY * Unit(n)
                       /\ NodeY(n, n) + BaseH(n) <= Height * Unit(n)

(* The diagram is true to the rows, and all of it can be seen.             *)
FleetIsTrue ==
    /\ FlowConserves
    /\ LinksHaveEnds
    /\ ColumnFits(Cardinality(DOMAIN Diagram.hosts)) /\ ColumnFits(Cardinality(DOMAIN Diagram.games))

=============================================================================
