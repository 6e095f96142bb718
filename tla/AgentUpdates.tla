---------------------------- MODULE AgentUpdates ----------------------------
(***************************************************************************)
(* Updates of one host's agent: the section of the host's page             *)
(* (src/app/dashboard/hosts/[id]/agent-updates-section.tsx), the server    *)
(* action triggerAgentUpdate (src/server/actions/agent-updates.ts), and    *)
(* the handlers of what the agent reports (handleAgentUpdateProgress and,  *)
(* for its version, handleHello in src/server/ws/agent-handler.ts).        *)
(*                                                                         *)
(* An agent that swaps its binary breaks its own connection; the new or    *)
(* the restored agent says hello and then how it ended.                    *)
(***************************************************************************)
EXTENDS AgentLink

CONSTANTS Updates,    \* ids the rows of agent_updates will get
          Handlers,   \* messages of the agent that can be handled at a time
          None

VARIABLES
    upd,      \* status of each agent_updates row, or None
    version,  \* agent_version of the hosts row
    trigger,  \* the run of triggerAgentUpdate
    handling, \* messages of the agent that are being handled
    agent,    \* the agent: its version, its job and how far it is
    section,  \* the section of the page, in one browser
    offline,  \* updates that were not sent
    lost,     \* updates of which a message was lost
    failed,   \* did a statement fail
    crossed   \* were two hellos handled at the same time, or was one not heard

updVars == <<upd, version, trigger, handling, agent, section, offline, lost, failed, crossed,
             link>>

Versions == {"old", "target"}  \* target: AGENT_UPDATE_VERSION
Ended == {"completed", "failed", "rolled_back"}
UpdStatus == Ended \cup {"running"}

ASSUME UpdatesAssumption == None \notin Updates \cup UpdStatus \cup Versions

NoTrigger == [pc |-> "idle", id |-> None]
NotHandling == [pc |-> "idle", msg |-> None]
Progress == [type : {"progress"}, id : Updates, phase : Ended \cup {"staged"}]
Hello == [type : {"hello"}, version : Versions]
Entry == [id : Updates, status : UpdStatus]
NoSection == [shown |-> FALSE, manifest |-> "loading", current |-> "old", list |-> {},
              confirming |-> FALSE, pending |-> FALSE]

UpdTypeOK ==
    /\ LinkTypeOK([type : {"update"}, id : Updates], Progress \cup Hello)
    /\ upd \in [Updates -> UpdStatus \cup {None}]
    /\ version \in Versions
    /\ trigger \in [pc : {"idle", "host", "insert", "send", "mark"}, id : Updates \cup {None}]
    /\ handling \in [Handlers -> [pc : {"idle", "find", "write"}, msg : Progress \cup Hello \cup {None}]]
    /\ agent \in [version : Versions, job : Updates \cup {None}, pc : {"idle", "working", "swapped"}]
    /\ section \in [shown : BOOLEAN, manifest : {"loading", "none", "some"}, current : Versions,
                    list : SUBSET Entry, confirming : BOOLEAN, pending : BOOLEAN]
    /\ offline \subseteq Updates /\ lost \subseteq Updates /\ failed \in BOOLEAN /\ crossed \in BOOLEAN

UpdInit ==
    /\ LinkInit
    /\ upd = [u \in Updates |-> None]
    /\ version = "old"
    /\ trigger = NoTrigger
    /\ handling = [h \in Handlers |-> NotHandling]
    /\ agent = [version |-> "old", job |-> None, pc |-> "idle"]
    /\ section = NoSection
    /\ offline = {} /\ lost = {} /\ failed = FALSE /\ crossed = FALSE

ghosts == <<offline, lost, failed, crossed>>

UpdateAgent(u) == [type |-> "update", id |-> u]

-----------------------------------------------------------------------------
(* The section of the page.                                                *)

Entries == {[id |-> u, status |-> upd[u]] : u \in {v \in Updates : upd[v] # None}}

(* The page is rendered with the rows and the version of that moment; what *)
(* the reader had on the screen before is gone.                            *)
Load ==
    /\ section' = [NoSection EXCEPT !.shown = TRUE, !.current = version, !.list = Entries]
    /\ UNCHANGED <<upd, version, trigger, handling, agent, ghosts, link>>

(* The manifest is fetched once.                                           *)
FetchManifest(result) ==
    /\ section.shown /\ section.manifest = "loading"
    /\ section' = [section EXCEPT !.manifest = result]
    /\ UNCHANGED <<upd, version, trigger, handling, agent, ghosts, link>>

UpgradeAvailable == section.manifest = "some" /\ section.current # "target"

Ask ==
    /\ section.shown /\ ~section.confirming /\ UpgradeAvailable /\ ~section.pending
    /\ section' = [section EXCEPT !.confirming = TRUE]
    /\ UNCHANGED <<upd, version, trigger, handling, agent, ghosts, link>>

Cancel ==
    /\ section.confirming /\ ~section.pending
    /\ section' = [section EXCEPT !.confirming = FALSE]
    /\ UNCHANGED <<upd, version, trigger, handling, agent, ghosts, link>>

(* onUpdate calls the action.  Bound: one at a time.                       *)
Confirm ==
    /\ section.confirming /\ ~section.pending
    /\ trigger.pc = "idle"
    /\ Room
    /\ section' = [section EXCEPT !.pending = TRUE]
    /\ trigger' = [NoTrigger EXCEPT !.pc = "host"]
    /\ UNCHANGED <<upd, version, handling, agent, ghosts, link>>

-----------------------------------------------------------------------------
(* triggerAgentUpdate.                                                     *)

(* The answer.  A new entry is put into the section's own list, and        *)
(* revalidatePath brings it the current version; an error leaves the       *)
(* question open.                                                          *)
Return(u) ==
    /\ trigger' = NoTrigger
    /\ section' = IF ~section.pending THEN section
                  ELSE IF u # None
                  THEN [section EXCEPT !.pending = FALSE, !.confirming = FALSE, !.current = version,
                                       !.list = section.list \cup {[id |-> u, status |-> "running"]}]
                  ELSE [section EXCEPT !.pending = FALSE]

(* The host is not found, or no target is configured.                      *)
RefuseTrigger ==
    /\ trigger.pc = "host"
    /\ Return(None)
    /\ UNCHANGED <<upd, version, handling, agent, ghosts, link>>

FindHostToUpdate ==
    /\ trigger.pc = "host"
    /\ trigger' = [trigger EXCEPT !.pc = "insert"]
    /\ UNCHANGED <<upd, version, handling, agent, section, ghosts, link>>

(* Nothing asks whether an update of the host is running already.          *)
InsertUpdate(u) ==
    /\ trigger.pc = "insert"
    /\ upd[u] = None
    /\ upd' = [upd EXCEPT ![u] = "running"]
    /\ trigger' = [trigger EXCEPT !.pc = "send", !.id = u]
    /\ UNCHANGED <<version, handling, agent, section, ghosts, link>>

(* MUTANT: what cannot be sent now is kept for the next connection.        *)
SendUpdateLater ==
    /\ trigger.pc = "send"
    /\ toAgent' = Append(toAgent, UpdateAgent(trigger.id))
    /\ IF up THEN Return(trigger.id) /\ UNCHANGED offline
       ELSE /\ trigger' = [trigger EXCEPT !.pc = "mark"]
            /\ offline' = offline \cup {trigger.id}
            /\ UNCHANGED section
    /\ UNCHANGED <<upd, version, handling, agent, lost, failed, crossed, up, toPlatform, drops>>

SendUpdate ==
    /\ trigger.pc = "send"
    /\ SendToHost(UpdateAgent(trigger.id))
    /\ IF up THEN Return(trigger.id) /\ UNCHANGED offline
       ELSE /\ trigger' = [trigger EXCEPT !.pc = "mark"]
            /\ offline' = offline \cup {trigger.id}
            /\ UNCHANGED section
    /\ UNCHANGED <<upd, version, handling, agent, lost, failed, crossed, up, toPlatform, drops>>

MarkOffline ==
    /\ trigger.pc = "mark"
    /\ upd' = [upd EXCEPT ![trigger.id] = "failed"]
    /\ Return(None)
    /\ UNCHANGED <<version, handling, agent, ghosts, link>>

(* A statement fails: the action throws, and the page shows its error      *)
(* boundary instead of the section.                                        *)
TriggerFails ==
    /\ trigger.pc \in {"host", "insert", "mark"}
    /\ trigger' = NoTrigger
    /\ failed' = TRUE
    /\ section' = IF section.pending THEN NoSection ELSE section
    /\ UNCHANGED <<upd, version, handling, agent, offline, lost, crossed, link>>

-----------------------------------------------------------------------------
(* The handlers.                                                           *)

Take(h) ==
    /\ handling[h].pc = "idle"
    /\ toPlatform # <<>>
    /\ LET msg == Head(toPlatform) IN
       /\ msg.type \in {"hello", "progress"}
       /\ handling' = [handling EXCEPT ![h] =
                          [pc |-> IF msg.type = "hello" THEN "write" ELSE "find", msg |-> msg]]
       /\ crossed' = (crossed \/ (msg.type = "hello" /\ \E g \in Handlers :
                          handling[g].pc = "write" /\ handling[g].msg.type = "hello"))
    /\ toPlatform' = Tail(toPlatform)
    /\ UNCHANGED <<upd, version, trigger, agent, section, offline, lost, failed, up, toAgent, drops>>

(* The host and the update are read; a phase in between is only logged.    *)
FindUpdate(h) ==
    LET msg == handling[h].msg IN
    /\ handling[h].pc = "find"
    /\ handling' = [handling EXCEPT ![h] = IF upd[msg.id] # None /\ msg.phase \in Ended
                                           THEN [@ EXCEPT !.pc = "write"] ELSE NotHandling]
    /\ UNCHANGED <<upd, version, trigger, agent, section, ghosts, link>>

WriteProgress(h) ==
    LET msg == handling[h].msg IN
    /\ handling[h].pc = "write" /\ msg.type = "progress"
    /\ upd' = [upd EXCEPT ![msg.id] = IF msg.phase \in Ended THEN msg.phase ELSE "running"]
    /\ handling' = [handling EXCEPT ![h] = NotHandling]
    /\ UNCHANGED <<version, trigger, agent, section, ghosts, link>>

WriteHello(h) ==
    LET msg == handling[h].msg IN
    /\ handling[h].pc = "write" /\ msg.type = "hello"
    /\ version' = msg.version
    /\ handling' = [handling EXCEPT ![h] = NotHandling]
    /\ UNCHANGED <<upd, trigger, agent, section, ghosts, link>>

HandlerFails(h) ==
    /\ handling[h].pc # "idle"
    /\ handling' = [handling EXCEPT ![h] = NotHandling]
    /\ failed' = TRUE
    /\ UNCHANGED <<upd, version, trigger, agent, section, offline, lost, crossed, link>>

-----------------------------------------------------------------------------
(* The agent, as the protocol describes it.                                *)

AgentStarts ==
    /\ agent.pc = "idle" /\ toAgent # <<>> /\ Head(toAgent).type = "update"
    /\ agent' = [agent EXCEPT !.job = Head(toAgent).id, !.pc = "working"]
    /\ toAgent' = Tail(toAgent)
    /\ UNCHANGED <<upd, version, trigger, handling, section, ghosts, up, toPlatform,
                   drops>>

(* The download or its signature is bad.                                   *)
AgentGivesUp ==
    /\ agent.pc = "working" /\ up /\ Room
    /\ Tell([type |-> "progress", id |-> agent.job, phase |-> "failed"])
    /\ agent' = [agent EXCEPT !.job = None, !.pc = "idle"]
    /\ UNCHANGED <<upd, version, trigger, handling, section, ghosts, up, toAgent,
                   drops>>

AgentStages ==
    /\ agent.pc = "working" /\ up /\ Room
    /\ Tell([type |-> "progress", id |-> agent.job, phase |-> "staged"])
    /\ agent' = [agent EXCEPT !.pc = "swapped"]
    /\ UNCHANGED <<upd, version, trigger, handling, section, ghosts, up, toAgent,
                   drops>>

UnderWay ==
    {toAgent[i].id : i \in 1 .. Len(toAgent)}
    \cup {toPlatform[i].id : i \in {j \in 1 .. Len(toPlatform) :
                                      toPlatform[j].type = "progress" /\ toPlatform[j].phase \in Ended}}

(* The swap ends the connection, in whatever state it finds it.            *)
Swap ==
    /\ agent.pc = "swapped" /\ up
    /\ up' = FALSE
    /\ lost' = lost \cup UnderWay
    /\ toAgent' = <<>> /\ toPlatform' = <<>>
    /\ UNCHANGED <<upd, version, trigger, handling, agent, section, offline, failed, crossed, drops>>

(* The listener for messages is attached two awaits after the agent may    *)
(* send: what comes before is lost.                                        *)
HeardFrom(msgs) ==
    \E n \in 0 .. Len(msgs) :
        /\ toPlatform' = SubSeq(msgs, n + 1, Len(msgs))
        /\ crossed' = (crossed \/ n > 0)
        /\ lost' = lost \cup {msgs[i].id : i \in {j \in 1 .. n : msgs[j].type = "progress"}}

(* The new agent comes up, or the old one is put back.                     *)
SwapEnds(phase) ==
    LET new == IF phase = "completed" THEN "target" ELSE agent.version IN
    /\ agent.pc = "swapped" /\ ~up
    /\ up' = TRUE
    /\ HeardFrom(<<[type |-> "hello", version |-> new],
                   [type |-> "progress", id |-> agent.job, phase |-> phase]>>)
    /\ agent' = [version |-> new, job |-> None, pc |-> "idle"]
    /\ UNCHANGED <<upd, version, trigger, handling, section, offline, failed, toAgent, drops>>

UpdDrop ==
    /\ Drop
    /\ lost' = lost \cup UnderWay
    /\ UNCHANGED <<upd, version, trigger, handling, agent, section, offline, failed, crossed>>

UpdReconnect ==
    /\ agent.pc # "swapped" /\ ~up
    /\ up' = TRUE
    /\ HeardFrom(<<[type |-> "hello", version |-> agent.version]>>)
    /\ UNCHANGED <<upd, version, trigger, handling, agent, section, offline, failed, toAgent, drops>>

-----------------------------------------------------------------------------
Trigger == FindHostToUpdate \/ (\E u \in Updates : InsertUpdate(u)) \/ SendUpdate \/ MarkOffline
Write(h) == FindUpdate(h) \/ WriteProgress(h) \/ WriteHello(h)
AgentWorks == AgentStarts \/ AgentGivesUp \/ AgentStages
SwapDone == \E phase \in {"completed", "rolled_back"} : SwapEnds(phase)

UpdNext ==
    \/ Load \/ Ask \/ Cancel \/ Confirm \/ (\E result \in {"none", "some"} : FetchManifest(result))
    \/ Trigger \/ RefuseTrigger \/ TriggerFails
    \/ \E h \in Handlers : Take(h) \/ Write(h) \/ HandlerFails(h)
    \/ AgentWorks \/ Swap \/ SwapDone \/ UpdDrop \/ UpdReconnect

(* The action and the handlers go on, and the agent does its job; but its  *)
(* connection need not come back, except after a swap.                     *)
UpdFairness ==
    /\ WF_updVars(Trigger \/ RefuseTrigger)
    /\ WF_updVars(\E h \in Handlers : Take(h))
    /\ \A h \in Handlers : WF_updVars(Write(h))
    /\ WF_updVars(AgentWorks) /\ WF_updVars(Swap) /\ WF_updVars(SwapDone)

UpdSpec == UpdInit /\ [][UpdNext]_updVars /\ UpdFairness

-----------------------------------------------------------------------------
(* How an update ended is final, however its reports are handled.          *)
EndedUpdatesStay ==
    [][\A u \in Updates : upd[u] \in Ended => upd'[u] = upd[u]]_updVars

(* What was marked failed for want of a connection is not tried by the     *)
(* agent after all.                                                        *)
OfflineNeverRuns ==
    \A u \in offline : agent.job # u /\ \A i \in 1 .. Len(toAgent) : toAgent[i].id # u

(* The history a page shows is of rows that exist and that were sent or    *)
(* have ended, and it is behind them only where it still says "running".   *)
HistoryIsTrue ==
    \A e \in section.list :
        /\ upd[e.id] # None
        /\ e.status # "running" => e.status = upd[e.id]

(* Once the agent's messages are handled, the host's version is that of    *)
(* the agent that is connected, unless the UPDATEs of two hellos crossed   *)
(* or a hello came before its listener.                                    *)
VersionSettles ==
    up /\ toPlatform = <<>> /\ agent.pc # "swapped" /\ ~failed /\ ~crossed
       /\ (\A h \in Handlers : handling[h].pc = "idle") => version = agent.version

(* Every update ends, unless a message about it was lost with a connection *)
(* or a statement failed; for ever running is only what was lost.          *)
UpdatesEnd ==
    \A u \in Updates : upd[u] = "running" ~>
        (upd[u] \in Ended \/ u \in lost \/ failed \/ (drops > 0 /\ ~up))

=============================================================================
