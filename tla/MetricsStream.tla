---------------------------- MODULE MetricsStream ----------------------------
(***************************************************************************)
(* The live readings and the status of one host: heartbeats and changes of *)
(* status are published on the LiveMetricsBus                              *)
(* (src/server/ws/live-metrics-bus.ts), which keeps the last reading; a    *)
(* GET of src/app/api/stream/host/[id]/metrics/route.ts passes them on to  *)
(* a LiveMetricsPanel (src/components/app/live-metrics.tsx), which starts  *)
(* with the status its page was rendered with.                             *)
(*                                                                         *)
(* A status is written to the row and published when the statement has     *)
(* ended, two moments; a reading is published at once.  The removal of the *)
(* host, which writes a status too, is left out: the page is gone then.    *)
(***************************************************************************)
EXTENDS Naturals, Sequences

CONSTANTS Views,     \* panels that are mounted over time
          Writers,   \* changes of status that can be under way at a time
          MaxBeats,  \* bound on the heartbeats
          MaxEvents, \* bound on the events under way to a panel
          NoBeat

VARIABLES
    hostStatus, \* status in the hosts row
    writer,     \* status a run of handleAgentSocket or markOfflineIfStale has yet to publish
    beats,      \* heartbeats so far
    latest,     \* the bus's cache
    view,       \* each panel and its stream
    missed,     \* panels that were not subscribed when a status was published
    overlapped  \* were two changes of status under way at once, or was one never published

metVars == <<hostStatus, writer, beats, latest, view, missed, overlapped>>

HostStatus == {"online", "offline"}
Beats == 1 .. MaxBeats
Event == [type : {"metrics"}, value : Beats] \cup [type : {"status"}, value : HostStatus]

ASSUME MetricsAssumption ==
    MaxBeats \in Nat /\ MaxEvents \in Nat /\ NoBeat \notin Nat \cup HostStatus

NoView == [pc |-> "none", status |-> "offline", metrics |-> NoBeat, streaming |-> FALSE,
           events |-> <<>>]

MetTypeOK ==
    /\ hostStatus \in HostStatus
    /\ writer \in [Writers -> HostStatus \cup {"idle"}]
    /\ beats \in 0 .. MaxBeats
    /\ latest \in Beats \cup {NoBeat}
    /\ view \in [Views -> [pc : {"none", "check", "start", "streaming", "broken", "refused", "left"},
                           status : HostStatus, metrics : Beats \cup {NoBeat},
                           streaming : BOOLEAN, events : Seq(Event)]]
    /\ missed \subseteq Views
    /\ overlapped \in BOOLEAN

MetInit ==
    /\ hostStatus = "offline"
    /\ writer = [w \in Writers |-> "idle"]
    /\ beats = 0
    /\ latest = NoBeat
    /\ view = [v \in Views |-> NoView]
    /\ missed = {}
    /\ overlapped = FALSE

Events(v) == Len(view[v].events)
Listening(v) == view[v].pc = "streaming"
StatusUnderWay(v) == \E i \in 1 .. Events(v) : view[v].events[i].type = "status"

(* emit: the listeners are called at once.                                 *)
Emit(event) ==
    [v \in Views |-> IF Listening(v) THEN [view[v] EXCEPT !.events = Append(@, event)] ELSE view[v]]

-----------------------------------------------------------------------------
(* The platform's side of the agent's connection.                          *)

(* publishHeartbeat.  The row of the hour, which the same handler writes    *)
(* next, is in module Uptime.                                              *)
Beat ==
    /\ beats < MaxBeats
    /\ \A v \in Views : Events(v) < MaxEvents
    /\ beats' = beats + 1
    /\ latest' = beats'
    /\ view' = Emit([type |-> "metrics", value |-> beats'])
    /\ UNCHANGED <<hostStatus, writer, missed, overlapped>>

(* The UPDATE of hosts.status.                                             *)
WriteStatus(w, status) ==
    /\ writer[w] = "idle"
    /\ \A v \in Views : Events(v) < MaxEvents
    /\ hostStatus' = status
    /\ overlapped' = (overlapped \/ \E x \in Writers : writer[x] # "idle")
    /\ writer' = [writer EXCEPT ![w] = status]
    /\ UNCHANGED <<beats, latest, view, missed>>

(* The UPDATE of a hello that comes after one of markOfflineIfStale: the   *)
(* host is online again, and nobody is told.                               *)
HelloWrites ==
    /\ hostStatus = "offline"
    /\ hostStatus' = "online"
    /\ overlapped' = TRUE
    /\ UNCHANGED <<writer, beats, latest, view, missed>>

(* publishStatus; offline clears the cache.                                *)
PublishStatus(w) ==
    /\ writer[w] # "idle"
    /\ view' = Emit([type |-> "status", value |-> writer[w]])
    /\ missed' = missed \cup {v \in Views : ~Listening(v) /\ view[v].pc # "none"}
    /\ latest' = IF writer[w] = "offline" THEN NoBeat ELSE latest
    /\ writer' = [writer EXCEPT ![w] = "idle"]
    /\ UNCHANGED <<hostStatus, beats, overlapped>>

(* The process starts anew, with an empty bus; its streams break.          *)
RestartPlatform ==
    /\ \E v \in Views : Listening(v)
    /\ latest' = NoBeat
    /\ writer' = [w \in Writers |-> "idle"]
    /\ view' = [v \in Views |-> IF view[v].pc \in {"check", "start", "streaming"}
                                THEN [view[v] EXCEPT !.pc = "broken", !.streaming = FALSE,
                                                     !.events = <<>>]
                                ELSE view[v]]
    /\ missed' = missed \cup {v \in Views :
                                  \/ StatusUnderWay(v)
                                  \/ view[v].pc # "none" /\ (\E w \in Writers : writer[w] # "idle")}
    /\ UNCHANGED <<hostStatus, beats, overlapped>>

-----------------------------------------------------------------------------
(* The panel and its stream.                                               *)

(* The page is rendered with the status of the row, and the effect opens   *)
(* the EventSource, whose badge counts as streaming at once.               *)
MountView(v) ==
    /\ view[v] = NoView
    /\ view' = [view EXCEPT ![v] = [NoView EXCEPT !.pc = "check", !.status = hostStatus,
                                                  !.streaming = TRUE]]
    /\ UNCHANGED <<hostStatus, writer, beats, latest, missed, overlapped>>

(* The id, the session and the host; an answer that is no stream is final. *)
AuthorizeStream(v) ==
    /\ view[v].pc = "check"
    /\ view' \in {[view EXCEPT ![v].pc = "start"],
                  [view EXCEPT ![v].pc = "refused", ![v].streaming = FALSE]}
    /\ UNCHANGED <<hostStatus, writer, beats, latest, missed, overlapped>>

(* MUTANT: the listeners are attached without the cached reading.          *)
StartMetricsUncached(v) ==
    /\ view[v].pc = "start"
    /\ view' = [view EXCEPT ![v] = [@ EXCEPT !.pc = "streaming", !.streaming = TRUE, !.events = <<>>]]
    /\ UNCHANGED <<hostStatus, writer, beats, latest, missed, overlapped>>

(* start: the cached reading is sent and the listeners are attached, all   *)
(* at once.  The status is not sent.                                       *)
StartMetrics(v) ==
    /\ view[v].pc = "start"
    /\ view' = [view EXCEPT ![v] =
                   [@ EXCEPT !.pc = "streaming", !.streaming = TRUE,
                             !.events = IF latest = NoBeat THEN <<>>
                                        ELSE <<[type |-> "metrics", value |-> latest]>>]]
    /\ UNCHANGED <<hostStatus, writer, beats, latest, missed, overlapped>>

ReceiveEvent(v) ==
    /\ Listening(v)
    /\ view[v].events # <<>>
    /\ LET event == Head(view[v].events)  rest == Tail(view[v].events) IN
       view' = [view EXCEPT ![v] =
                   IF event.type = "metrics"
                   THEN [@ EXCEPT !.metrics = event.value, !.events = rest]
                   ELSE [@ EXCEPT !.status = event.value, !.events = rest]]
    /\ UNCHANGED <<hostStatus, writer, beats, latest, missed, overlapped>>

(* onerror; the EventSource tries again by itself.                         *)
BreakView(v) ==
    /\ view[v].pc \in {"check", "start", "streaming"}
    /\ view' = [view EXCEPT ![v].pc = "broken", ![v].streaming = FALSE, ![v].events = <<>>]
    /\ missed' = IF StatusUnderWay(v) THEN missed \cup {v} ELSE missed
    /\ UNCHANGED <<hostStatus, writer, beats, latest, overlapped>>

ReopenView(v) ==
    /\ view[v].pc = "broken"
    /\ view' = [view EXCEPT ![v].pc = "check"]
    /\ UNCHANGED <<hostStatus, writer, beats, latest, missed, overlapped>>

(* source.close; the abort takes the listeners off.                        *)
LeaveView(v) ==
    /\ view[v].pc \notin {"none", "left"}
    /\ view' = [view EXCEPT ![v] = [NoView EXCEPT !.pc = "left"]]
    /\ UNCHANGED <<hostStatus, writer, beats, latest, missed, overlapped>>

-----------------------------------------------------------------------------
MetNext ==
    \/ Beat \/ RestartPlatform \/ HelloWrites
    \/ \E w \in Writers : PublishStatus(w) \/ \E status \in HostStatus : WriteStatus(w, status)
    \/ \E v \in Views : \/ MountView(v) \/ AuthorizeStream(v) \/ StartMetrics(v) \/ ReceiveEvent(v)
                        \/ BreakView(v) \/ ReopenView(v) \/ LeaveView(v)

MetSpec == MetInit /\ [][MetNext]_metVars

-----------------------------------------------------------------------------
Settled(v) == Listening(v) /\ view[v].events = <<>>

(* A panel with nothing under way shows the reading the bus has kept: none *)
(* is lost between the replay and the subscription, whatever broke before. *)
MetricsAreLatest ==
    \A v \in Views : Settled(v) /\ latest # NoBeat => view[v].metrics = latest

(* And the status of the row, once a change is published, unless one was   *)
(* published while the panel was not listening, two were under way at      *)
(* once, or a late hello was not published: the status is not replayed.    *)
StatusIsCurrent ==
    \A v \in Views :
        Settled(v) /\ v \notin missed /\ ~overlapped /\ (\A w \in Writers : writer[w] = "idle")
        => view[v].status = hostStatus

=============================================================================
