----------------------------- MODULE LogStream ------------------------------
(***************************************************************************)
(* The live tail of one log, that of a host or that of a game server:      *)
(* handleLog (src/server/ws/agent-handler.ts) stores a line and publishes  *)
(* it on the LiveLogsBus (src/server/ws/live-logs-bus.ts), a GET of the    *)
(* log's route (src/app/api/stream/{host,server}/[id]/logs/route.ts)       *)
(* replays what is stored and then subscribes, and LiveLogsPanel           *)
(* (src/components/app/live-logs.tsx) shows both.                          *)
(*                                                                         *)
(* Lines are numbered in the order of their time stamps, which is that of  *)
(* the agent; each is handled on its own, and the SELECT of the replay and *)
(* the subscription are different moments.                                 *)
(***************************************************************************)
EXTENDS Naturals, Sequences, FiniteSets, OrderBy

CONSTANTS Tabs,         \* panels that are mounted over time
          MaxLines,     \* bound on the lines
          MaxRequests,  \* bound on the requests of the route
          ReplayLimit,  \* REPLAY_LIMIT
          RingLimit,    \* RING_LIMIT
          NoSource

VARIABLES
    line,        \* how far handleLog is with each line
    stored,      \* the rows of host_logs or game_server_logs
    request,     \* the GETs of the route, by number
    stream,      \* events under way to the browser, by request
    subscribed,  \* requests that listen on the bus
    gap,         \* lines published between a request's SELECT and its subscription
    tab          \* what each panel shows, and its EventSource

logVars == <<line, stored, request, stream, subscribed, gap, tab>>

Lines == 1 .. MaxLines
Requests == 1 .. MaxRequests

ASSUME LogAssumption ==
    /\ MaxLines \in Nat /\ MaxRequests \in Nat
    /\ ReplayLimit \in Nat \ {0} /\ RingLimit \in Nat \ {0}
    /\ NoSource \notin Tabs \cup Nat

NoRequest == [pc |-> "none", tab |-> NoSource, aborted |-> FALSE, recent |-> <<>>]
NoTab == [state |-> "none", source |-> NoSource, lines |-> <<>>]

LogTypeOK ==
    /\ line \in [Lines -> {"unsent", "find", "insert", "publish", "done"}]
    /\ stored \subseteq Lines
    /\ request \in [Requests -> [pc : {"none", "check", "select", "start", "streaming", "refused"},
                                 tab : Tabs \cup {NoSource}, aborted : BOOLEAN, recent : Seq(Lines)]]
    /\ stream \in [Requests -> Seq(Lines)]
    /\ subscribed \subseteq Requests
    /\ gap \in [Requests -> SUBSET Lines]
    /\ tab \in [Tabs -> [state : {"none", "mounted", "left"}, source : Requests \cup {NoSource},
                         lines : Seq(Lines)]]
    /\ \A t \in Tabs : Len(tab[t].lines) <= RingLimit
    /\ \A r \in Requests : Len(request[r].recent) <= ReplayLimit

LogInit ==
    /\ line = [n \in Lines |-> "unsent"]
    /\ stored = {}
    /\ request = [r \in Requests |-> NoRequest]
    /\ stream = [r \in Requests |-> <<>>]
    /\ subscribed = {}
    /\ gap = [r \in Requests |-> {}]
    /\ tab = [t \in Tabs |-> NoTab]

-----------------------------------------------------------------------------
(* handleLog.                                                              *)

(* The agent's messages arrive in order; a host's line needs no lookup.    *)
LogArrives(n) ==
    /\ line[n] = "unsent"
    /\ \A m \in 1 .. n - 1 : line[m] # "unsent"
    /\ line' \in {[line EXCEPT ![n] = "find"], [line EXCEPT ![n] = "insert"]}
    /\ UNCHANGED <<stored, request, stream, subscribed, gap, tab>>

(* The server is the host's own, or the line is ignored.                   *)
FindOwner(n) ==
    /\ line[n] = "find"
    /\ line' \in {[line EXCEPT ![n] = "insert"], [line EXCEPT ![n] = "done"]}
    /\ UNCHANGED <<stored, request, stream, subscribed, gap, tab>>

(* An INSERT that fails is logged, no more.                                *)
StoreLine(n) ==
    /\ line[n] = "insert"
    /\ stored' \in {stored, stored \cup {n}}
    /\ line' = [line EXCEPT ![n] = "publish"]
    /\ UNCHANGED <<request, stream, subscribed, gap, tab>>

(* Every listener is called at once.                                       *)
Publish(n) ==
    /\ line[n] = "publish"
    /\ stream' = [r \in Requests |-> IF r \in subscribed /\ ~request[r].aborted
                                     THEN Append(stream[r], n) ELSE stream[r]]
    /\ gap' = [r \in Requests |-> IF request[r].pc = "start" THEN gap[r] \cup {n} ELSE gap[r]]
    /\ line' = [line EXCEPT ![n] = "done"]
    /\ UNCHANGED <<stored, request, subscribed, tab>>

-----------------------------------------------------------------------------
(* The route.                                                              *)

(* The session and the ownership, or an answer that is no stream: the      *)
(* EventSource gives up for good.                                          *)
CheckRequest(r) ==
    /\ request[r].pc = "check"
    /\ request' \in {[request EXCEPT ![r].pc = "select"], [request EXCEPT ![r].pc = "refused"]}
    /\ UNCHANGED <<line, stored, stream, subscribed, gap, tab>>

(* MUTANT: the oldest rows are replayed, not the newest.                   *)
OldestStored ==
    LET all == Ascending(stored) IN
    IF Len(all) > ReplayLimit THEN SubSeq(all, 1, ReplayLimit) ELSE all

(* ORDER BY ts DESC LIMIT n, reversed.                                     *)
NewestStored ==
    LET all == Ascending(stored) IN
    IF Len(all) > ReplayLimit THEN SubSeq(all, Len(all) - ReplayLimit + 1, Len(all)) ELSE all

SelectRecent(r) ==
    /\ request[r].pc = "select"
    /\ request' = [request EXCEPT ![r].recent = NewestStored, ![r].pc = "start"]
    /\ UNCHANGED <<line, stored, stream, subscribed, gap, tab>>

(* start: the replay, the subscription and the listener for an abort, all  *)
(* at once.  An abort that came before is never heard of.                  *)
StartStream(r) ==
    /\ request[r].pc = "start"
    /\ stream' = [stream EXCEPT ![r] = IF request[r].aborted THEN <<>> ELSE request[r].recent]
    /\ subscribed' = subscribed \cup {r}
    /\ request' = [request EXCEPT ![r].pc = "streaming"]
    /\ UNCHANGED <<line, stored, gap, tab>>

Cleanup(r) == subscribed' = IF request[r].pc = "streaming" THEN subscribed \ {r} ELSE subscribed

(* The request is aborted and what was under way is lost.                  *)
Abort(r) ==
    /\ Cleanup(r)
    /\ request' = [request EXCEPT ![r].aborted = TRUE]
    /\ stream' = [stream EXCEPT ![r] = <<>>]

-----------------------------------------------------------------------------
(* The panel.                                                              *)

Get(r, t) ==
    /\ request[r] = NoRequest
    /\ \A q \in 1 .. r - 1 : request[q] # NoRequest
    /\ request' = [request EXCEPT ![r].pc = "check", ![r].tab = t]

MountTab(t, r) ==
    /\ tab[t] = NoTab
    /\ Get(r, t)
    /\ tab' = [tab EXCEPT ![t] = [state |-> "mounted", source |-> r, lines |-> <<>>]]
    /\ UNCHANGED <<line, stored, stream, subscribed, gap>>

Push(lines, n) ==
    Append(IF Len(lines) >= RingLimit
           THEN SubSeq(lines, Len(lines) - RingLimit + 2, Len(lines)) ELSE lines, n)

ReceiveLine(t) ==
    LET r == tab[t].source IN
    /\ r # NoSource
    /\ stream[r] # <<>>
    /\ tab' = [tab EXCEPT ![t].lines = Push(@, Head(stream[r]))]
    /\ stream' = [stream EXCEPT ![r] = Tail(@)]
    /\ UNCHANGED <<line, stored, request, subscribed, gap>>

(* The connection breaks, and the EventSource will try again: what the     *)
(* panel has is kept.                                                      *)
BreakStream(t) ==
    LET r == tab[t].source IN
    /\ r # NoSource
    /\ request[r].pc # "refused"
    /\ Abort(r)
    /\ tab' = [tab EXCEPT ![t].source = NoSource]
    /\ UNCHANGED <<line, stored, gap>>

Reopen(t, r) ==
    /\ tab[t].state = "mounted" /\ tab[t].source = NoSource
    /\ Get(r, t)
    /\ tab' = [tab EXCEPT ![t].source = r]
    /\ UNCHANGED <<line, stored, stream, subscribed, gap>>

LeaveTab(t) ==
    LET r == tab[t].source IN
    /\ tab[t].state = "mounted"
    /\ IF r # NoSource THEN Abort(r) ELSE UNCHANGED <<subscribed, request, stream>>
    /\ tab' = [tab EXCEPT ![t].state = "left", ![t].source = NoSource]
    /\ UNCHANGED <<line, stored, gap>>

-----------------------------------------------------------------------------
HandleLog(n) == FindOwner(n) \/ StoreLine(n) \/ Publish(n)
Route(r) == CheckRequest(r) \/ SelectRecent(r) \/ StartStream(r)

LogNext ==
    \/ \E n \in Lines : LogArrives(n) \/ HandleLog(n)
    \/ \E r \in Requests : Route(r)
    \/ \E t \in Tabs : ReceiveLine(t) \/ BreakStream(t) \/ LeaveTab(t)
    \/ \E t \in Tabs, r \in Requests : MountTab(t, r) \/ Reopen(t, r)

LogSpec == LogInit /\ [][LogNext]_logVars

-----------------------------------------------------------------------------
InPanel(t, n) == \E i \in 1 .. Len(tab[t].lines) : tab[t].lines[i] = n
RequestsOf(t) == {r \in Requests : request[r].tab = t}

(* A tab that has got all that was sent to it.                             *)
CaughtUp(t, r) == tab[t].source = r /\ request[r].pc = "streaming" /\ stream[r] = <<>>

(* Unless its ring is full, a panel with nothing under way has every line  *)
(* that is stored and was published, but for those that were published     *)
(* between a SELECT and the subscription, and those older than the replay  *)
(* goes back: no other listener, tab or break makes it miss one.           *)
MissedOnlyInTheGap ==
    \A t \in Tabs, r \in Requests, n \in Lines :
        CaughtUp(t, r) /\ Len(tab[t].lines) < RingLimit /\ n \in stored /\ line[n] = "done"
        => \/ InPanel(t, n)
           \/ n \in gap[r]
           \/ Cardinality({m \in stored : m > n}) >= ReplayLimit

(* A line is in a panel at most once more than it was replayed to it.      *)
RepeatsAreReplays ==
    \A t \in Tabs, n \in Lines :
        Cardinality({i \in 1 .. Len(tab[t].lines) : tab[t].lines[i] = n})
        <= 1 + Cardinality({r \in RequestsOf(t) : \E i \in 1 .. Len(request[r].recent) :
                                                      request[r].recent[i] = n})

=============================================================================
