--------------------------- MODULE Relays_proofs ----------------------------
(***************************************************************************)
(* Proofs about the components of MCRelays: the terminal, the updates of   *)
(* the agents, and the inbox.                                              *)
(***************************************************************************)
EXTENDS MCRelays, OrderBy_proofs, TLAPS

-----------------------------------------------------------------------------
(* Agent updates.  An update that is under way is in one hand at a time:   *)
(* the action's, the link's to the agent, the agent's, the link's back, or *)
(* a handler's.                                                            *)

HandlingRec == [pc : {"idle", "find", "write"}, msg : Progress \cup Hello \cup {None}]
TriggerRec == [pc : {"idle", "host", "insert", "send", "mark"}, id : Updates \cup {None}]
AgentRec == [version : Versions, job : Updates \cup {None}, pc : {"idle", "working", "swapped"}]
SectionRec == [shown : BOOLEAN, manifest : {"loading", "none", "some"}, current : Versions,
               list : SUBSET Entry, confirming : BOOLEAN, pending : BOOLEAN]
UpdCommand == [type : {"update"}, id : Updates]

EndMsg(m) == m.type = "progress" /\ m.phase \in Ended

Pending(u) == trigger.pc \in {"send", "mark"} /\ trigger.id = u
Queued(u) == \E i \in 1 .. Len(toAgent) : toAgent[i].id = u
AtWork(u) == agent.job = u
Reported(u) == \E i \in 1 .. Len(toPlatform) : EndMsg(toPlatform[i]) /\ toPlatform[i].id = u
Heard(u) == \E h \in Handlers : /\ handling[h].pc # "idle" /\ EndMsg(handling[h].msg)
                                /\ handling[h].msg.id = u

OneCommand == \A i, j \in 1 .. Len(toAgent) : toAgent[i].id = toAgent[j].id => i = j
OneReport == \A i, j \in 1 .. Len(toPlatform) :
    EndMsg(toPlatform[i]) /\ EndMsg(toPlatform[j]) /\ toPlatform[i].id = toPlatform[j].id => i = j
OneHandler == \A g, h \in Handlers :
    handling[g].pc # "idle" /\ handling[h].pc # "idle" /\ EndMsg(handling[g].msg)
        /\ EndMsg(handling[h].msg) /\ handling[g].msg.id = handling[h].msg.id => g = h

OneHand ==
    \A u \in Updates :
        /\ Pending(u) => ~Queued(u) /\ ~AtWork(u) /\ ~Reported(u) /\ ~Heard(u)
        /\ Queued(u) => ~AtWork(u) /\ ~Reported(u) /\ ~Heard(u)
        /\ AtWork(u) => ~Reported(u) /\ ~Heard(u)
        /\ Reported(u) => ~Heard(u)
        /\ Pending(u) \/ Queued(u) \/ AtWork(u) \/ Reported(u) \/ Heard(u) => upd[u] = "running"

Shapes ==
    /\ trigger.pc \in {"send", "mark"} <=> trigger.id # None
    /\ agent.pc = "idle" <=> agent.job = None
    /\ \A h \in Handlers :
          /\ handling[h].pc # "idle" => handling[h].msg \in Progress \cup Hello
          /\ handling[h].pc = "find" => handling[h].msg.type = "progress"
          /\ handling[h].pc = "write" /\ handling[h].msg.type = "progress"
                => handling[h].msg.phase \in Ended

(* What was not sent is not sent later.                                    *)
NotSent == \A u \in offline : /\ ~Queued(u) /\ ~AtWork(u) /\ upd[u] # None
                              /\ trigger.pc = "send" => trigger.id # u

(* The latest hello under way is that of the agent that is connected.      *)
HelloQueued == \E i \in 1 .. Len(toPlatform) : toPlatform[i].type = "hello"
Saying(h) == handling[h].pc = "write" /\ handling[h].msg.type = "hello"
LatestHello ==
    ~failed /\ ~crossed =>
        /\ \A g, h \in Handlers : Saying(g) /\ Saying(h) => g = h
        /\ up => /\ \A i \in 1 .. Len(toPlatform) :
                       toPlatform[i].type = "hello" => toPlatform[i].version = agent.version
                 /\ ~HelloQueued =>
                       /\ \A h \in Handlers : Saying(h) => handling[h].msg.version = agent.version
                       /\ (\A h \in Handlers : ~Saying(h)) => version = agent.version

ListTrue(entries) ==
    \A e \in entries : upd[e.id] # None /\ (e.status # "running" => e.status = upd[e.id])

UpdInv ==
    /\ UpdTypeOK /\ Shapes
    /\ OneCommand /\ OneReport /\ OneHandler /\ OneHand
    /\ NotSent /\ LatestHello /\ ListTrue(section.list)

LEMMA UpdFacts == UpdInv => UpdTypeOK /\ HistoryIsTrue /\ OfflineNeverRuns /\ VersionSettles
<1> SUFFICES ASSUME UpdInv PROVE UpdTypeOK /\ HistoryIsTrue /\ OfflineNeverRuns /\ VersionSettles
  OBVIOUS
<1>1. HistoryIsTrue
  BY DEF UpdInv, ListTrue, HistoryIsTrue
<1>2. OfflineNeverRuns
  BY DEF UpdInv, NotSent, OfflineNeverRuns, Queued, AtWork
<1>3. VersionSettles
  <2> SUFFICES ASSUME up, toPlatform = <<>>, ~failed, ~crossed,
                      \A h \in Handlers : handling[h].pc = "idle"
               PROVE  version = agent.version
    BY DEF VersionSettles
  <2>1. ~HelloQueued
    BY DEF HelloQueued
  <2> QED
    BY <2>1 DEF UpdInv, LatestHello, Saying
<1> QED
  BY <1>1, <1>2, <1>3 DEF UpdInv

LEMMA UpdTypes ==
    ASSUME UpdTypeOK
    PROVE  /\ handling \in [Handlers -> HandlingRec] /\ trigger \in TriggerRec /\ agent \in AgentRec
           /\ section \in SectionRec /\ toAgent \in Seq(UpdCommand) /\ toPlatform \in Seq(Progress \cup Hello)
           /\ upd \in [Updates -> UpdStatus \cup {None}]
  BY DEF UpdTypeOK, LinkTypeOK, HandlingRec, TriggerRec, AgentRec, SectionRec, UpdCommand

LEMMA MessageKinds ==
    /\ \A m \in Progress : m.type = "progress" /\ m.id \in Updates /\ m.phase \in Ended \cup {"staged"}
    /\ \A m \in Hello : m.type = "hello" /\ m.version \in Versions /\ ~EndMsg(m)
    /\ \A m \in Progress \cup Hello : m.type = "progress" => m \in Progress
    /\ \A m \in Progress \cup Hello : m.type = "hello" => m \in Hello
  BY DEF Progress, Hello, EndMsg

LEMMA NoneIsNothing ==
    /\ None \notin Updates /\ None # "running" /\ None # "failed" /\ None \notin Ended
    /\ "running" \notin Ended /\ "failed" \in Ended /\ "running" \in UpdStatus /\ Ended \subseteq UpdStatus
    /\ "staged" \notin Ended
  BY UpdatesAssumption DEF UpdStatus, Ended

LEMMA UpdStart == UpdInit => UpdInv
<1> SUFFICES ASSUME UpdInit PROVE UpdInv
  OBVIOUS
<1>1. /\ toAgent = <<>> /\ toPlatform = <<>> /\ Len(toAgent) = 0 /\ Len(toPlatform) = 0 /\ up = TRUE
      /\ <<>> \in Seq(UpdCommand) /\ <<>> \in Seq(Progress \cup Hello) /\ drops \in 0 .. MaxDrops
  BY LinkAssumption DEF UpdInit, LinkInit
<1>2. \A h \in Handlers : handling[h].pc = "idle" /\ handling[h].msg = None
  BY DEF UpdInit, NotHandling
<1>3. UpdTypeOK
  BY <1>1 DEF UpdInit, UpdTypeOK, LinkTypeOK, UpdCommand, NotHandling, NoTrigger, NoSection, Versions
<1>4. Shapes
  BY <1>2 DEF UpdInit, Shapes, NoTrigger
<1>5. \A u \in Updates : ~Pending(u) /\ ~Queued(u) /\ ~AtWork(u) /\ ~Reported(u) /\ ~Heard(u)
  BY <1>1, <1>2, NoneIsNothing DEF UpdInit, Pending, Queued, AtWork, Reported, Heard, NoTrigger
<1>6. OneCommand /\ OneReport /\ OneHandler
  BY <1>1, <1>2 DEF OneCommand, OneReport, OneHandler
<1>7. NotSent /\ ListTrue(section.list)
  BY DEF UpdInit, NotSent, ListTrue, NoSection
<1>8. LatestHello
  BY <1>1, <1>2 DEF UpdInit, LatestHello, Saying
<1> QED
  BY <1>3, <1>4, <1>5, <1>6, <1>7, <1>8 DEF UpdInv, OneHand

-----------------------------------------------------------------------------
(* How the hands change.                                                   *)

LEMMA CommandSent ==
    ASSUME UpdTypeOK, NEW v \in Updates, toAgent' = Append(toAgent, UpdateAgent(v))
    PROVE  /\ toAgent' \in Seq(UpdCommand)
           /\ \A u : Queued(u)' <=> Queued(u) \/ u = v
           /\ OneCommand /\ ~Queued(v) => OneCommand'
<1> DEFINE m == UpdateAgent(v)
<1>1. toAgent \in Seq(UpdCommand) /\ m \in UpdCommand /\ m.id = v
  BY UpdTypes DEF UpdateAgent, UpdCommand
<1> HIDE DEF m
<1>2. /\ toAgent' = Append(toAgent, m) /\ Len(toAgent') = Len(toAgent) + 1 /\ toAgent'[Len(toAgent) + 1] = m
      /\ \A i \in 1 .. Len(toAgent) : toAgent'[i] = toAgent[i]
      /\ toAgent' \in Seq(UpdCommand) /\ Len(toAgent) \in Nat
  BY <1>1 DEF m
<1> QED
  BY <1>1, <1>2 DEF Queued, OneCommand

LEMMA CommandTaken ==
    ASSUME UpdTypeOK, OneCommand, toAgent # <<>>, toAgent' = Tail(toAgent)
    PROVE  /\ toAgent' \in Seq(UpdCommand)
           /\ Head(toAgent).id \in Updates /\ Queued(Head(toAgent).id)
           /\ \A u : Queued(u)' => Queued(u) /\ u # Head(toAgent).id
           /\ OneCommand'
<1>1. /\ toAgent \in Seq(UpdCommand) /\ Len(toAgent) \in Nat \ {0} /\ Head(toAgent) = toAgent[1]
      /\ toAgent' \in Seq(UpdCommand) /\ Len(toAgent') = Len(toAgent) - 1
      /\ \A i \in 1 .. Len(toAgent') : toAgent'[i] = toAgent[i + 1] /\ i + 1 \in 1 .. Len(toAgent)
  BY UpdTypes
<1>2. toAgent[1] \in UpdCommand
  BY <1>1
<1>3. toAgent[1].id \in Updates /\ Queued(toAgent[1].id)
  BY <1>1, <1>2 DEF Queued, UpdCommand
<1>4. ASSUME NEW i \in 1 .. Len(toAgent') PROVE toAgent'[i].id # toAgent[1].id
  <2>1. i + 1 \in 1 .. Len(toAgent) /\ 1 \in 1 .. Len(toAgent) /\ i + 1 # 1 /\ toAgent'[i] = toAgent[i + 1]
    BY <1>1
  <2> QED
    BY <2>1 DEF OneCommand
<1>6. \A u : Queued(u)' => Queued(u) /\ u # toAgent[1].id
  BY <1>1, <1>4 DEF Queued
<1>7. OneCommand'
  <2> SUFFICES ASSUME NEW i \in 1 .. Len(toAgent'), NEW j \in 1 .. Len(toAgent'), toAgent'[i].id = toAgent'[j].id
               PROVE  i = j
    BY DEF OneCommand
  <2>1. i + 1 = j + 1
    BY <1>1 DEF OneCommand
  <2> QED
    BY <1>1, <2>1
<1> QED
  BY <1>1, <1>3, <1>6, <1>7

LEMMA MessageTold ==
    ASSUME UpdTypeOK, NEW m \in Progress \cup Hello, toPlatform' = Append(toPlatform, m)
    PROVE  /\ toPlatform' \in Seq(Progress \cup Hello)
           /\ \A u : Reported(u)' <=> Reported(u) \/ (EndMsg(m) /\ u = m.id)
           /\ OneReport /\ (EndMsg(m) => ~Reported(m.id)) => OneReport'
           /\ \A i \in 1 .. Len(toPlatform') :
                 (i \in 1 .. Len(toPlatform) /\ toPlatform'[i] = toPlatform[i]) \/ toPlatform'[i] = m
           /\ HelloQueued => HelloQueued'
<1>1. /\ toPlatform \in Seq(Progress \cup Hello) /\ Len(toPlatform) \in Nat
      /\ Len(toPlatform') = Len(toPlatform) + 1 /\ toPlatform'[Len(toPlatform) + 1] = m
      /\ \A i \in 1 .. Len(toPlatform) : toPlatform'[i] = toPlatform[i]
      /\ toPlatform' \in Seq(Progress \cup Hello)
  BY UpdTypes
<1> QED
  BY <1>1 DEF Reported, OneReport, HelloQueued, EndMsg

LEMMA MessageTaken ==
    ASSUME UpdTypeOK, OneReport, toPlatform # <<>>, toPlatform' = Tail(toPlatform)
    PROVE  LET m == Head(toPlatform) IN
           /\ toPlatform' \in Seq(Progress \cup Hello) /\ m \in Progress \cup Hello /\ m = toPlatform[1]
           /\ 1 \in 1 .. Len(toPlatform)
           /\ EndMsg(m) => Reported(m.id)
           /\ \A u : Reported(u)' => Reported(u) /\ ~(EndMsg(m) /\ u = m.id)
           /\ OneReport'
           /\ \A i \in 1 .. Len(toPlatform') : i + 1 \in 1 .. Len(toPlatform) /\ toPlatform'[i] = toPlatform[i + 1]
           /\ HelloQueued => HelloQueued' \/ m.type = "hello"
<1> DEFINE m == Head(toPlatform)
<1>1. /\ toPlatform \in Seq(Progress \cup Hello) /\ Len(toPlatform) \in Nat \ {0} /\ m = toPlatform[1]
      /\ toPlatform' \in Seq(Progress \cup Hello) /\ Len(toPlatform') = Len(toPlatform) - 1
      /\ \A i \in 1 .. Len(toPlatform') : toPlatform'[i] = toPlatform[i + 1] /\ i + 1 \in 1 .. Len(toPlatform)
      /\ \A i \in 1 .. Len(toPlatform) : i = 1 \/ (i - 1 \in 1 .. Len(toPlatform') /\ toPlatform'[i - 1] = toPlatform[i])
  BY UpdTypes
<1>2. m \in Progress \cup Hello /\ 1 \in 1 .. Len(toPlatform)
  BY <1>1
<1> HIDE DEF m
<1>3. EndMsg(m) => Reported(m.id)
  BY <1>1, <1>2 DEF Reported
<1>4. \A u : Reported(u)' => Reported(u) /\ ~(EndMsg(m) /\ u = m.id)
  <2>1. \A u : Reported(u)' => Reported(u)
    BY <1>1 DEF Reported
  <2>2. ASSUME EndMsg(m), NEW i \in 1 .. Len(toPlatform'), EndMsg(toPlatform'[i]), toPlatform'[i].id = m.id
        PROVE  FALSE
    <3>1. i + 1 \in 1 .. Len(toPlatform) /\ i + 1 # 1 /\ toPlatform'[i] = toPlatform[i + 1]
      BY <1>1
    <3> QED
      BY <1>1, <1>2, <2>2, <3>1 DEF OneReport
  <2> QED
    BY <2>1, <2>2 DEF Reported
<1>5. OneReport'
  BY <1>1 DEF OneReport
<1>6. HelloQueued => HelloQueued' \/ m.type = "hello"
  BY <1>1 DEF HelloQueued
<1> QED
  BY <1>1, <1>2, <1>3, <1>4, <1>5, <1>6 DEF m

LEMMA HandlerMoves ==
    ASSUME UpdTypeOK, NEW h \in Handlers, NEW x \in HandlingRec, handling' = [handling EXCEPT ![h] = x]
    PROVE  /\ handling' \in [Handlers -> HandlingRec]
           /\ \A g \in Handlers : handling'[g] = IF g = h THEN x ELSE handling[g]
<1>1. handling \in [Handlers -> HandlingRec]
  BY UpdTypes
<1> QED
  BY <1>1

(* A handler that lets go, or goes on with what it has.                    *)
LEMMA HandlerGoesOn ==
    ASSUME UpdTypeOK, OneHandler, NEW h \in Handlers, NEW x \in HandlingRec,
           handling' = [handling EXCEPT ![h] = x],
           x.pc # "idle" => handling[h].pc # "idle" /\ x.msg = handling[h].msg
    PROVE  OneHandler' /\ \A u : Heard(u)' => Heard(u)
<1>1. \A g \in Handlers : handling'[g] = IF g = h THEN x ELSE handling[g]
  BY HandlerMoves
<1>2. \A g \in Handlers : handling'[g].pc # "idle" => handling[g].pc # "idle" /\ handling'[g].msg = handling[g].msg
  BY <1>1
<1> HIDE DEF EndMsg
<1>3. OneHandler'
  BY <1>2 DEF OneHandler
<1>4. \A u : Heard(u)' => Heard(u)
  BY <1>2 DEF Heard
<1> QED
  BY <1>3, <1>4

-----------------------------------------------------------------------------
(* What a step leaves as it is.                                            *)

LEMMA SameHello ==
    ASSUME UpdInv, version' = version, up' = up, toPlatform' = toPlatform, handling' = handling,
           agent'.version = agent.version, failed => failed', crossed => crossed'
    PROVE  LatestHello'
  BY DEF UpdInv, LatestHello, HelloQueued, Saying

(* A step of the section and of the action, before anything is inserted or *)
(* after everything is done.                                               *)
LEMMA PageStep ==
    ASSUME UpdInv, UNCHANGED <<upd, version, handling, agent, offline, lost, crossed, link>>,
           failed' \in BOOLEAN, failed => failed',
           section' \in SectionRec, ListTrue(section'.list),
           trigger' \in TriggerRec, trigger' = trigger \/ (trigger'.pc \notin {"send", "mark"} /\ trigger'.id = None)
    PROVE  UpdInv'
<1>1. UpdTypeOK'
  BY DEF UpdInv, UpdTypeOK, LinkTypeOK, link, SectionRec, TriggerRec
<1>2. Shapes'
  BY DEF UpdInv, Shapes
<1>3. /\ toAgent' = toAgent /\ toPlatform' = toPlatform /\ handling' = handling /\ agent' = agent
      /\ upd' = upd /\ offline' = offline /\ up' = up /\ version' = version /\ crossed' = crossed
  BY DEF link
<1>4. \A u : /\ Queued(u)' = Queued(u) /\ AtWork(u)' = AtWork(u) /\ Reported(u)' = Reported(u)
             /\ Heard(u)' = Heard(u)
  BY <1>3 DEF Queued, AtWork, Reported, Heard
<1>5. \A u \in Updates : Pending(u)' => Pending(u)
  BY DEF Pending
<1>6. OneCommand' /\ OneReport' /\ OneHandler'
  BY <1>3 DEF UpdInv, OneCommand, OneReport, OneHandler
<1>7. OneHand'
  BY <1>3, <1>4, <1>5 DEF UpdInv, OneHand
<1>8. NotSent'
  BY <1>3, <1>4 DEF UpdInv, NotSent
<1>9. LatestHello'
  BY <1>3, SameHello
<1>10. ListTrue(section.list)'
  BY <1>3 DEF ListTrue
<1> QED
  BY <1>1, <1>2, <1>6, <1>7, <1>8, <1>9, <1>10 DEF UpdInv

LEMMA NewSection ==
    NoSection \in SectionRec /\ NoSection.list = {} /\ NoTrigger \in TriggerRec
    /\ NoTrigger.pc = "idle" /\ NoTrigger.id = None
  BY DEF NoSection, SectionRec, NoTrigger, TriggerRec, Versions, Entry

LEMMA Returned ==
    ASSUME UpdTypeOK, NEW u \in Updates \cup {None}, Return(u)
    PROVE  /\ section' \in SectionRec /\ trigger' = NoTrigger
           /\ section'.list \subseteq section.list \cup {[id |-> u, status |-> "running"]}
           /\ u = None => section'.list = section.list
<1>1. section \in SectionRec /\ version \in Versions
  BY UpdTypes DEF UpdTypeOK
<1>2. CASE ~section.pending
  BY <1>1, <1>2 DEF Return
<1>3. CASE section.pending /\ u # None
  <2> DEFINE e == [id |-> u, status |-> "running"]
             after == section.list \cup {e}
             x == [section EXCEPT !.pending = FALSE, !.confirming = FALSE, !.current = version, !.list = after]
  <2>1. e \in Entry
    BY <1>3, NoneIsNothing DEF Entry
  <2>2. after \in SUBSET Entry
    BY <1>1, <2>1 DEF SectionRec
  <2>3. section' = x
    BY <1>3 DEF Return
  <2> HIDE DEF after
  <2>4. x \in SectionRec /\ x.list = after
    BY <1>1, <2>2 DEF SectionRec
  <2> HIDE DEF x
  <2> QED
    BY <1>3, <2>3, <2>4 DEF Return, after
<1>4. CASE section.pending /\ u = None
  <2> DEFINE x == [section EXCEPT !.pending = FALSE]
  <2>1. x \in SectionRec /\ x.list = section.list
    BY <1>1 DEF SectionRec
  <2>2. section' = x
    BY <1>4 DEF Return
  <2> HIDE DEF x
  <2> QED
    BY <1>4, <2>1, <2>2 DEF Return
<1> QED
  BY <1>2, <1>3, <1>4

(* The rows the page is rendered with.                                     *)
LEMMA Rendered == ASSUME UpdTypeOK PROVE Entries \in SUBSET Entry /\ ListTrue(Entries)
  BY UpdTypes DEF Entries, Entry, ListTrue

LEMMA SectionKeeps ==
    ASSUME UpdInv, \/ Load \/ Ask \/ Cancel \/ Confirm
                   \/ \E result \in {"none", "some"} : FetchManifest(result)
    PROVE  UpdInv'
<1>0. /\ UpdTypeOK /\ section \in SectionRec /\ trigger \in TriggerRec /\ ListTrue(section.list)
      /\ failed \in BOOLEAN /\ version \in Versions
  BY UpdTypes DEF UpdInv, UpdTypeOK
<1>1. CASE Load
  <2> DEFINE x == [NoSection EXCEPT !.shown = TRUE, !.current = version, !.list = Entries]
  <2>1. x \in SectionRec /\ x.list = Entries
    BY <1>0, Rendered, NewSection DEF SectionRec
  <2>2. section' = x /\ trigger' = trigger
    BY <1>1 DEF Load
  <2> HIDE DEF x
  <2> QED
    BY <1>0, <1>1, <2>1, <2>2, Rendered, PageStep DEF Load, ghosts
<1>2. ASSUME NEW x \in SectionRec, x.list = section.list, section' = x, trigger' = trigger,
             UNCHANGED <<upd, version, handling, agent, ghosts, link>>
      PROVE  UpdInv'
  BY <1>0, <1>2, PageStep DEF ghosts
<1>3. CASE Ask
  <2>1. [section EXCEPT !.confirming = TRUE] \in SectionRec
        /\ [section EXCEPT !.confirming = TRUE].list = section.list
    BY <1>0 DEF SectionRec
  <2> QED
    BY <1>2, <1>3, <2>1 DEF Ask
<1>4. CASE Cancel
  <2>1. [section EXCEPT !.confirming = FALSE] \in SectionRec
        /\ [section EXCEPT !.confirming = FALSE].list = section.list
    BY <1>0 DEF SectionRec
  <2> QED
    BY <1>2, <1>4, <2>1 DEF Cancel
<1>5. ASSUME NEW result \in {"none", "some"}, FetchManifest(result) PROVE UpdInv'
  <2>1. [section EXCEPT !.manifest = result] \in SectionRec
        /\ [section EXCEPT !.manifest = result].list = section.list
    BY <1>0 DEF SectionRec
  <2> QED
    BY <1>2, <1>5, <2>1 DEF FetchManifest
<1>6. CASE Confirm
  <2> DEFINE x == [section EXCEPT !.pending = TRUE]
             y == [NoTrigger EXCEPT !.pc = "host"]
  <2>1. x \in SectionRec /\ x.list = section.list
    BY <1>0 DEF SectionRec
  <2>2. y \in TriggerRec /\ y.pc = "host" /\ y.id = None
    BY NewSection DEF TriggerRec
  <2>3. section' = x /\ trigger' = y
    BY <1>6 DEF Confirm
  <2> HIDE DEF x, y
  <2> QED
    BY <1>0, <1>6, <2>1, <2>2, <2>3, PageStep DEF Confirm, ghosts
<1> QED
  BY <1>1, <1>3, <1>4, <1>5, <1>6

LEMMA RefuseKeeps == ASSUME UpdInv, RefuseTrigger \/ FindHostToUpdate \/ TriggerFails PROVE UpdInv'
<1>0. /\ UpdTypeOK /\ section \in SectionRec /\ trigger \in TriggerRec /\ ListTrue(section.list)
      /\ failed \in BOOLEAN
  BY UpdTypes DEF UpdInv, UpdTypeOK
<1>1. CASE RefuseTrigger
  <2>1. section' \in SectionRec /\ section'.list = section.list /\ trigger' = NoTrigger
    BY <1>0, <1>1, Returned DEF RefuseTrigger
  <2> QED
    BY <1>0, <1>1, <2>1, NewSection, PageStep DEF RefuseTrigger, ghosts
<1>2. CASE FindHostToUpdate
  <2> DEFINE y == [trigger EXCEPT !.pc = "insert"]
  <2>1. y \in TriggerRec /\ y.pc = "insert" /\ y.id = None
    BY <1>0, <1>2 DEF TriggerRec, FindHostToUpdate, UpdInv, Shapes
  <2>2. trigger' = y
    BY <1>2 DEF FindHostToUpdate
  <2> HIDE DEF y
  <2> QED
    BY <1>0, <1>2, <2>1, <2>2, PageStep DEF FindHostToUpdate, ghosts
<1>3. CASE TriggerFails
  <2>1. section' \in SectionRec /\ ListTrue(section'.list)
    BY <1>0, <1>3, NewSection DEF TriggerFails, ListTrue
  <2> QED
    BY <1>0, <1>3, <2>1, NewSection, PageStep DEF TriggerFails
<1> QED
  BY <1>1, <1>2, <1>3

LEMMA InsertKeeps == ASSUME UpdInv, NEW v \in Updates, InsertUpdate(v) PROVE UpdInv'
<1>0. UpdTypeOK /\ trigger \in TriggerRec /\ upd \in [Updates -> UpdStatus \cup {None}] /\ section \in SectionRec
  BY UpdTypes DEF UpdInv
<1> DEFINE y == [trigger EXCEPT !.pc = "send", !.id = v]
<1>1. y \in TriggerRec /\ y.pc = "send" /\ y.id = v
  BY <1>0 DEF TriggerRec
<1>2. trigger' = y
  BY DEF InsertUpdate
<1> HIDE DEF y
<1>3. /\ toAgent' = toAgent /\ toPlatform' = toPlatform /\ handling' = handling /\ agent' = agent
      /\ section' = section /\ offline' = offline /\ up' = up /\ version' = version
      /\ failed' = failed /\ crossed' = crossed /\ drops' = drops /\ lost' = lost
      /\ upd[v] = None /\ trigger.pc = "insert"
  BY DEF InsertUpdate, link, ghosts
<1>4. /\ upd' \in [Updates -> UpdStatus \cup {None}]
      /\ \A u \in Updates : upd'[u] = IF u = v THEN "running" ELSE upd[u]
  BY <1>0, NoneIsNothing DEF InsertUpdate
<1>5. UpdTypeOK'
  BY <1>0, <1>1, <1>2, <1>3, <1>4 DEF UpdTypeOK, LinkTypeOK, TriggerRec
<1>6. Shapes'
  BY <1>1, <1>2, <1>3, NoneIsNothing DEF UpdInv, Shapes
<1>7. \A u : /\ Queued(u)' = Queued(u) /\ AtWork(u)' = AtWork(u) /\ Reported(u)' = Reported(u)
             /\ Heard(u)' = Heard(u)
  BY <1>3 DEF Queued, AtWork, Reported, Heard
<1>8. \A u : Pending(u)' => u = v
  BY <1>1, <1>2 DEF Pending
<1>9. OneCommand' /\ OneReport' /\ OneHandler'
  BY <1>3 DEF UpdInv, OneCommand, OneReport, OneHandler
<1>10. ~Queued(v) /\ ~AtWork(v) /\ ~Reported(v) /\ ~Heard(v)
  BY <1>3, NoneIsNothing DEF UpdInv, OneHand
<1>11. OneHand'
  BY <1>4, <1>7, <1>8, <1>10 DEF UpdInv, OneHand
<1>12. NotSent'
  <2>1. \A u \in offline : u \in Updates /\ u # v
    BY <1>0, <1>3 DEF UpdInv, NotSent, UpdTypeOK
  <2> QED
    BY <1>1, <1>2, <1>3, <1>4, <1>7, <2>1 DEF UpdInv, NotSent
<1>13. LatestHello'
  BY <1>3, SameHello
<1>14. ListTrue(section.list)'
  <2>1. \A e \in section.list : e.id \in Updates /\ e.id # v
    BY <1>0, <1>3 DEF SectionRec, Entry, UpdInv, ListTrue
  <2> QED
    BY <1>3, <1>4, <2>1 DEF UpdInv, ListTrue
<1> QED
  BY <1>5, <1>6, <1>9, <1>11, <1>12, <1>13, <1>14 DEF UpdInv

LEMMA SendKeeps == ASSUME UpdInv, SendUpdate PROVE UpdInv'
<1>0. /\ UpdTypeOK /\ trigger \in TriggerRec /\ upd \in [Updates -> UpdStatus \cup {None}]
      /\ section \in SectionRec /\ toAgent \in Seq(UpdCommand)
  BY UpdTypes DEF UpdInv
<1> DEFINE v == trigger.id
<1>1. v \in Updates /\ Pending(v) /\ trigger.pc = "send" /\ v # None
  BY <1>0, NoneIsNothing DEF SendUpdate, TriggerRec, UpdInv, Shapes, Pending
<1>2. ~Queued(v) /\ ~AtWork(v) /\ ~Reported(v) /\ ~Heard(v) /\ upd[v] = "running"
  BY <1>1 DEF UpdInv, OneHand
<1>3. /\ toPlatform' = toPlatform /\ handling' = handling /\ agent' = agent
      /\ up' = up /\ version' = version /\ upd' = upd
      /\ failed' = failed /\ crossed' = crossed /\ drops' = drops /\ lost' = lost
  BY DEF SendUpdate
<1>4. \A u : AtWork(u)' = AtWork(u) /\ Reported(u)' = Reported(u) /\ Heard(u)' = Heard(u)
  BY <1>3 DEF AtWork, Reported, Heard
<1>5. OneReport' /\ OneHandler' /\ LatestHello'
  BY <1>3, SameHello DEF UpdInv, OneReport, OneHandler
<1>6. CASE up
  <2>1. toAgent' = Append(toAgent, UpdateAgent(v)) /\ offline' = offline /\ Return(v)
    BY <1>6 DEF SendUpdate, SendToHost
  <2> HIDE DEF v
  <2>2. /\ toAgent' \in Seq(UpdCommand) /\ \A u : Queued(u)' <=> Queued(u) \/ u = v
        /\ OneCommand'
    BY <1>0, <1>1, <1>2, <2>1, CommandSent DEF UpdInv
  <2>3. /\ section' \in SectionRec /\ trigger' = NoTrigger
        /\ section'.list \subseteq section.list \cup {[id |-> v, status |-> "running"]}
    BY <1>0, <1>1, <2>1, Returned
  <2>4. UpdTypeOK'
    BY <1>0, <1>3, <2>1, <2>2, <2>3, NewSection DEF UpdTypeOK, LinkTypeOK, TriggerRec, SectionRec, UpdCommand
  <2>5. Shapes'
    BY <1>3, <2>3, NewSection DEF UpdInv, Shapes
  <2>6. \A u : ~Pending(u)'
    BY <2>3, NewSection DEF Pending
  <2>7. OneHand'
    BY <1>2, <1>3, <1>4, <2>2, <2>6 DEF UpdInv, OneHand
  <2>8. NotSent'
    <3>1. v \notin offline
      BY <1>1 DEF UpdInv, NotSent, v
    <3> QED
      BY <1>3, <1>4, <2>1, <2>2, <2>3, <3>1, NewSection DEF UpdInv, NotSent
  <2>9. ListTrue(section.list)'
    BY <1>2, <1>3, <2>3, NoneIsNothing DEF UpdInv, ListTrue
  <2> QED
    BY <1>5, <2>2, <2>4, <2>5, <2>7, <2>8, <2>9 DEF UpdInv
<1>7. CASE ~up
  <2> DEFINE y == [trigger EXCEPT !.pc = "mark"]
  <2>1. y \in TriggerRec /\ y.pc = "mark" /\ y.id = v
    BY <1>0 DEF TriggerRec
  <2>2. /\ trigger' = y /\ offline' = offline \cup {v} /\ section' = section
        /\ toAgent' = toAgent
    BY <1>7 DEF SendUpdate, SendToHost
  <2> HIDE DEF y, v
  <2>3. UpdTypeOK'
    BY <1>0, <1>1, <1>3, <2>1, <2>2 DEF UpdTypeOK, LinkTypeOK, TriggerRec
  <2>4. Shapes'
    BY <1>1, <1>3, <2>1, <2>2 DEF UpdInv, Shapes
  <2>5. \A u : Queued(u)' = Queued(u)
    BY <2>2 DEF Queued
  <2>6. \A u : Pending(u)' => Pending(u)
    BY <1>1, <2>1, <2>2 DEF Pending, v
  <2>7. OneHand'
    BY <1>3, <1>4, <2>5, <2>6 DEF UpdInv, OneHand
  <2>8. NotSent'
    BY <1>2, <1>3, <1>4, <2>1, <2>2, <2>5, NoneIsNothing DEF UpdInv, NotSent
  <2>9. ListTrue(section.list)' /\ OneCommand'
    BY <1>3, <2>2 DEF UpdInv, ListTrue, OneCommand
  <2> QED
    BY <1>5, <2>3, <2>4, <2>7, <2>8, <2>9 DEF UpdInv
<1> QED
  BY <1>6, <1>7

LEMMA MarkKeeps == ASSUME UpdInv, MarkOffline PROVE UpdInv'
<1>0. /\ UpdTypeOK /\ trigger \in TriggerRec /\ upd \in [Updates -> UpdStatus \cup {None}]
      /\ section \in SectionRec
  BY UpdTypes DEF UpdInv
<1> DEFINE v == trigger.id
<1>1. v \in Updates /\ Pending(v) /\ v # None
  BY <1>0, NoneIsNothing DEF MarkOffline, TriggerRec, UpdInv, Shapes, Pending
<1>2. ~Queued(v) /\ ~AtWork(v) /\ ~Reported(v) /\ ~Heard(v) /\ upd[v] = "running"
  BY <1>1 DEF UpdInv, OneHand
<1>3. /\ toAgent' = toAgent /\ toPlatform' = toPlatform /\ handling' = handling /\ agent' = agent
      /\ up' = up /\ version' = version /\ offline' = offline
      /\ failed' = failed /\ crossed' = crossed /\ drops' = drops /\ lost' = lost
  BY DEF MarkOffline, link, ghosts
<1>4. /\ section' \in SectionRec /\ trigger' = NoTrigger /\ section'.list = section.list
  BY <1>0, Returned DEF MarkOffline
<1>5. /\ upd' \in [Updates -> UpdStatus \cup {None}]
      /\ \A u \in Updates : upd'[u] = IF u = v THEN "failed" ELSE upd[u]
  BY <1>0, NoneIsNothing DEF MarkOffline
<1> HIDE DEF v
<1>6. UpdTypeOK'
  BY <1>0, <1>3, <1>4, <1>5, NewSection DEF UpdTypeOK, LinkTypeOK, TriggerRec, SectionRec
<1>7. Shapes'
  BY <1>3, <1>4, NewSection DEF UpdInv, Shapes
<1>8. \A u : /\ Queued(u)' = Queued(u) /\ AtWork(u)' = AtWork(u) /\ Reported(u)' = Reported(u)
             /\ Heard(u)' = Heard(u) /\ ~Pending(u)'
  BY <1>3, <1>4, NewSection DEF Queued, AtWork, Reported, Heard, Pending
<1>9. OneCommand' /\ OneReport' /\ OneHandler' /\ LatestHello'
  BY <1>3, SameHello DEF UpdInv, OneCommand, OneReport, OneHandler
<1>10. OneHand'
  BY <1>2, <1>5, <1>8 DEF UpdInv, OneHand
<1>11. NotSent'
  <2>1. \A u \in offline : u \in Updates /\ upd'[u] # None
    BY <1>0, <1>5, NoneIsNothing DEF UpdInv, NotSent, UpdTypeOK
  <2> QED
    BY <1>3, <1>4, <1>8, <2>1, NewSection DEF UpdInv, NotSent
<1>12. ListTrue(section.list)'
  <2>1. \A e \in section.list : e.id \in Updates
    BY <1>0 DEF SectionRec, Entry
  <2> QED
    BY <1>2, <1>4, <1>5, <2>1, NoneIsNothing DEF UpdInv, ListTrue
<1> QED
  BY <1>6, <1>7, <1>9, <1>10, <1>11, <1>12 DEF UpdInv

(* A handler that lets go of its message, or goes on with it: nobody but   *)
(* it, the failure of a statement and perhaps the version has changed.     *)
LEMMA HandlerStep ==
    ASSUME UpdInv, NEW h \in Handlers, NEW x \in HandlingRec, handling' = [handling EXCEPT ![h] = x],
           x = NotHandling \/ (/\ handling[h].pc = "find" /\ x.pc = "write" /\ x.msg = handling[h].msg
                              /\ x.msg.phase \in Ended),
           UNCHANGED <<upd, trigger, agent, section, offline, lost, crossed, link>>,
           failed' \in BOOLEAN, failed => failed', version' \in Versions,
           \/ Saying(h) /\ version' = handling[h].msg.version
           \/ version' = version /\ (Saying(h) => failed')
    PROVE  UpdInv'
<1>0. /\ UpdTypeOK /\ handling' \in [Handlers -> HandlingRec]
      /\ \A g \in Handlers : handling'[g] = IF g = h THEN x ELSE handling[g]
      /\ toAgent' = toAgent /\ toPlatform' = toPlatform /\ up' = up /\ drops' = drops
  BY HandlerMoves DEF UpdInv, link
<1>1. UpdTypeOK'
  BY <1>0 DEF UpdTypeOK, LinkTypeOK, HandlingRec
<1>2. NotHandling.pc = "idle" /\ NotHandling.msg = None
  BY DEF NotHandling
<1>3. x.pc # "idle" => handling[h].pc # "idle" /\ x.msg = handling[h].msg
  BY <1>2
<1>4. OneHandler' /\ \A u : Heard(u)' => Heard(u)
  BY <1>0, <1>3, HandlerGoesOn DEF UpdInv
<1>5. Shapes'
  <2>1. ASSUME NEW g \in Handlers
        PROVE  /\ handling'[g].pc # "idle" => handling'[g].msg \in Progress \cup Hello
               /\ handling'[g].pc = "find" => handling'[g].msg.type = "progress"
               /\ handling'[g].pc = "write" /\ handling'[g].msg.type = "progress"
                     => handling'[g].msg.phase \in Ended
    <3>1. CASE g # h
      BY <1>0, <3>1 DEF UpdInv, Shapes
    <3>2. CASE g = h
      BY <1>0, <1>2, <3>2 DEF UpdInv, Shapes
    <3> QED
      BY <3>1, <3>2
  <2> QED
    BY <2>1 DEF UpdInv, Shapes
<1>6. \A u : /\ Queued(u)' = Queued(u) /\ AtWork(u)' = AtWork(u) /\ Reported(u)' = Reported(u)
             /\ Pending(u)' = Pending(u)
  BY <1>0 DEF Queued, AtWork, Reported, Pending
<1>7. OneCommand' /\ OneReport' /\ ListTrue(section.list)'
  BY <1>0 DEF UpdInv, OneCommand, OneReport, ListTrue
<1>8. OneHand'
  BY <1>4, <1>6 DEF UpdInv, OneHand
<1>9. NotSent'
  BY <1>6 DEF UpdInv, NotSent
<1>10. LatestHello'
  <2>1. \A g \in Handlers : Saying(g)' => /\ g # h /\ Saying(g)
                                          /\ handling'[g].msg.version = handling[g].msg.version
    <3>1. handling[h].pc = "find" => handling[h].msg.type = "progress"
      BY DEF UpdInv, Shapes
    <3> QED
      BY <1>0, <1>2, <3>1 DEF Saying
  <2>2. \A g \in Handlers : Saying(g) /\ g # h => Saying(g)'
    BY <1>0 DEF Saying
  <2>3. HelloQueued' = HelloQueued
    BY <1>0 DEF HelloQueued
  <2> QED
    BY <1>0, <2>1, <2>2, <2>3 DEF UpdInv, LatestHello
<1> QED
  BY <1>1, <1>4, <1>5, <1>7, <1>8, <1>9, <1>10 DEF UpdInv

LEMMA FindKeeps == ASSUME UpdInv, NEW h \in Handlers, FindUpdate(h) PROVE UpdInv'
<1>0. handling[h] \in HandlingRec /\ handling[h].pc = "find" /\ failed \in BOOLEAN /\ version \in Versions
  BY UpdTypes DEF UpdInv, FindUpdate, UpdTypeOK
<1>1. NotHandling \in HandlingRec
  BY DEF NotHandling, HandlingRec
<1> DEFINE on == upd[handling[h].msg.id] # None /\ handling[h].msg.phase \in Ended
           w == [handling[h] EXCEPT !.pc = "write"]
<1>2. w \in HandlingRec /\ w.pc = "write" /\ w.msg = handling[h].msg
  BY <1>0 DEF HandlingRec
<1>3. /\ on => handling' = [handling EXCEPT ![h] = w]
      /\ ~on => handling' = [handling EXCEPT ![h] = NotHandling]
  BY UpdTypes DEF FindUpdate, UpdInv
<1>4. on => handling[h].msg.phase \in Ended
  OBVIOUS
<1>5. ~Saying(h)
  BY <1>0 DEF Saying
<1> HIDE DEF on, w
<1>6. CASE on
  BY <1>0, <1>2, <1>3, <1>4, <1>5, <1>6, HandlerStep DEF FindUpdate, ghosts
<1>7. CASE ~on
  BY <1>0, <1>1, <1>3, <1>5, <1>7, HandlerStep DEF FindUpdate, ghosts
<1> QED
  BY <1>6, <1>7

LEMMA HelloKeeps == ASSUME UpdInv, NEW h \in Handlers, WriteHello(h) \/ HandlerFails(h) PROVE UpdInv'
<1>0. /\ handling[h] \in HandlingRec /\ failed \in BOOLEAN /\ version \in Versions
      /\ NotHandling \in HandlingRec
  BY UpdTypes DEF UpdInv, UpdTypeOK, NotHandling, HandlingRec
<1>1. CASE WriteHello(h)
  <2>1. Saying(h) /\ version' = handling[h].msg.version
    BY <1>1 DEF WriteHello, Saying
  <2>2. handling[h].msg \in Hello
    <3>1. handling[h].msg \in Progress \cup Hello
      BY <1>0, <1>1 DEF HandlingRec, UpdInv, Shapes, WriteHello
    <3> QED
      BY <1>1, <3>1, MessageKinds DEF WriteHello
  <2>3. version' \in Versions
    BY <2>1, <2>2, MessageKinds
  <2> QED
    BY <1>0, <1>1, <2>1, <2>3, HandlerStep DEF WriteHello, ghosts
<1>2. CASE HandlerFails(h)
  BY <1>0, <1>2, HandlerStep DEF HandlerFails
<1> QED
  BY <1>1, <1>2

(* An update ends once: the handler had the only word about it.            *)
LEMMA ProgressFacts ==
    ASSUME UpdInv, NEW h \in Handlers, WriteProgress(h)
    PROVE  LET v == handling[h].msg.id  phase == handling[h].msg.phase IN
           /\ v \in Updates /\ phase \in Ended /\ Heard(v) /\ upd[v] = "running"
           /\ upd' = [upd EXCEPT ![v] = phase]
           /\ EndMsg(handling[h].msg) /\ handling[h].pc # "idle"
<1>1. handling[h] \in HandlingRec /\ handling[h].pc = "write" /\ handling[h].msg.type = "progress"
  BY UpdTypes DEF UpdInv, WriteProgress
<1>2. handling[h].msg \in Progress \cup Hello /\ handling[h].msg.phase \in Ended
  BY <1>1 DEF HandlingRec, UpdInv, Shapes
<1>3. handling[h].msg.id \in Updates
  BY <1>1, <1>2, MessageKinds
<1>4. EndMsg(handling[h].msg) /\ Heard(handling[h].msg.id)
  BY <1>1, <1>2 DEF EndMsg, Heard
<1> QED
  BY <1>1, <1>2, <1>3, <1>4 DEF UpdInv, OneHand, WriteProgress

LEMMA ProgressKeeps == ASSUME UpdInv, NEW h \in Handlers, WriteProgress(h) PROVE UpdInv'
<1> DEFINE v == handling[h].msg.id
           phase == handling[h].msg.phase
<1>0. /\ UpdTypeOK /\ upd \in [Updates -> UpdStatus \cup {None}] /\ section \in SectionRec
      /\ NotHandling \in HandlingRec /\ NotHandling.pc = "idle" /\ NotHandling.msg = None
  BY UpdTypes DEF UpdInv, NotHandling, HandlingRec
<1>1. /\ v \in Updates /\ phase \in Ended /\ Heard(v) /\ upd[v] = "running"
      /\ upd' = [upd EXCEPT ![v] = phase]
      /\ EndMsg(handling[h].msg) /\ handling[h].pc # "idle"
  BY ProgressFacts
<1>2. /\ toAgent' = toAgent /\ toPlatform' = toPlatform /\ agent' = agent /\ section' = section
      /\ up' = up /\ version' = version /\ offline' = offline /\ trigger' = trigger
      /\ failed' = failed /\ crossed' = crossed /\ drops' = drops /\ lost' = lost
      /\ handling' = [handling EXCEPT ![h] = NotHandling]
      /\ handling[h].pc = "write" /\ handling[h].msg.type = "progress"
  BY DEF WriteProgress, link, ghosts
<1>3. /\ handling' \in [Handlers -> HandlingRec]
      /\ \A g \in Handlers : handling'[g] = IF g = h THEN NotHandling ELSE handling[g]
  BY <1>0, <1>2, HandlerMoves
<1>4. /\ upd' \in [Updates -> UpdStatus \cup {None}]
      /\ \A u \in Updates : upd'[u] = IF u = v THEN phase ELSE upd[u]
  BY <1>0, <1>1, NoneIsNothing
<1>5. UpdTypeOK'
  BY <1>0, <1>2, <1>3, <1>4 DEF UpdTypeOK, LinkTypeOK, HandlingRec
<1>6. Shapes'
  BY <1>0, <1>2, <1>3 DEF UpdInv, Shapes
<1>7. \A u : /\ Queued(u)' = Queued(u) /\ AtWork(u)' = AtWork(u) /\ Reported(u)' = Reported(u)
             /\ Pending(u)' = Pending(u)
  BY <1>2 DEF Queued, AtWork, Reported, Pending
<1>8. OneHandler' /\ \A u : Heard(u)' => Heard(u)
  BY <1>0, <1>2, HandlerGoesOn DEF UpdInv
<1>9. \A u : Heard(u)' => u # v
  <2> SUFFICES ASSUME NEW g \in Handlers, handling'[g].pc # "idle", EndMsg(handling'[g].msg),
                      handling'[g].msg.id = v
               PROVE  FALSE
    BY DEF Heard, EndMsg
  <2>1. g # h /\ handling'[g] = handling[g]
    BY <1>0, <1>3
  <2> QED
    BY <1>1, <2>1 DEF UpdInv, OneHandler, EndMsg
<1>10. OneCommand' /\ OneReport'
  BY <1>2 DEF UpdInv, OneCommand, OneReport
<1> HIDE DEF v, phase
<1>11. OneHand'
  BY <1>1, <1>4, <1>7, <1>8, <1>9 DEF UpdInv, OneHand
<1>12. NotSent'
  <2>1. \A u \in offline : u \in Updates /\ upd'[u] # None
    BY <1>0, <1>1, <1>4, NoneIsNothing DEF UpdInv, NotSent, UpdTypeOK
  <2> QED
    BY <1>2, <1>7, <2>1 DEF UpdInv, NotSent
<1>13. LatestHello'
  <2>1. \A g \in Handlers : /\ Saying(g)' = Saying(g)
                            /\ Saying(g) => handling'[g] = handling[g]
    BY <1>0, <1>2, <1>3 DEF Saying
  <2>2. HelloQueued' = HelloQueued
    BY <1>2 DEF HelloQueued
  <2> QED
    BY <1>2, <2>1, <2>2 DEF UpdInv, LatestHello
<1>14. ListTrue(section.list)'
  <2>1. \A e \in section.list : e.id \in Updates
    BY <1>0 DEF SectionRec, Entry
  <2> QED
    BY <1>1, <1>2, <1>4, <2>1, NoneIsNothing DEF UpdInv, ListTrue
<1> QED
  BY <1>5, <1>6, <1>8, <1>10, <1>11, <1>12, <1>13, <1>14 DEF UpdInv

(* A message comes to a handler.                                           *)
LEMMA TakeKeeps == ASSUME UpdInv, NEW h \in Handlers, Take(h) PROVE UpdInv'
<1> DEFINE m == Head(toPlatform)
           x == [pc |-> IF m.type = "hello" THEN "write" ELSE "find", msg |-> m]
<1>0. /\ UpdTypeOK /\ handling[h].pc = "idle" /\ toPlatform # <<>> /\ toPlatform' = Tail(toPlatform)
      /\ OneReport
  BY DEF UpdInv, Take
<1>1. /\ toPlatform' \in Seq(Progress \cup Hello) /\ m \in Progress \cup Hello /\ m = toPlatform[1]
      /\ 1 \in 1 .. Len(toPlatform)
      /\ EndMsg(m) => Reported(m.id)
      /\ \A u : Reported(u)' => Reported(u) /\ ~(EndMsg(m) /\ u = m.id)
      /\ OneReport'
      /\ \A i \in 1 .. Len(toPlatform') : i + 1 \in 1 .. Len(toPlatform) /\ toPlatform'[i] = toPlatform[i + 1]
      /\ HelloQueued => HelloQueued' \/ m.type = "hello"
  BY <1>0, MessageTaken
<1>2. /\ handling' = [handling EXCEPT ![h] = x]
      /\ crossed' = (crossed \/ (m.type = "hello" /\ \E g \in Handlers : Saying(g)))
      /\ toAgent' = toAgent /\ agent' = agent /\ section' = section /\ upd' = upd
      /\ up' = up /\ version' = version /\ offline' = offline /\ trigger' = trigger
      /\ failed' = failed /\ drops' = drops /\ lost' = lost
  BY DEF Take, Saying
<1> HIDE DEF m
<1>3. x \in HandlingRec /\ x.msg = m /\ x.pc # "idle"
  BY <1>1 DEF HandlingRec
<1>4. x.pc = IF m.type = "hello" THEN "write" ELSE "find"
  OBVIOUS
<1>5. m.type = "hello" \/ m.type = "progress"
  BY <1>1, MessageKinds
<1> HIDE DEF x
<1>6. /\ handling' \in [Handlers -> HandlingRec]
      /\ \A g \in Handlers : handling'[g] = IF g = h THEN x ELSE handling[g]
  BY <1>0, <1>2, <1>3, HandlerMoves
<1>7. UpdTypeOK'
  <2>1. crossed' \in BOOLEAN
    BY <1>0, <1>2 DEF UpdTypeOK
  <2> QED
    BY <1>0, <1>1, <1>2, <1>6, <2>1 DEF UpdTypeOK, LinkTypeOK, HandlingRec
<1>8. Shapes'
  <2>1. ASSUME NEW g \in Handlers
        PROVE  /\ handling'[g].pc # "idle" => handling'[g].msg \in Progress \cup Hello
               /\ handling'[g].pc = "find" => handling'[g].msg.type = "progress"
               /\ handling'[g].pc = "write" /\ handling'[g].msg.type = "progress"
                     => handling'[g].msg.phase \in Ended
    <3>1. CASE g # h
      BY <1>6, <3>1 DEF UpdInv, Shapes
    <3>2. CASE g = h
      BY <1>1, <1>3, <1>4, <1>5, <1>6, <3>2
    <3> QED
      BY <3>1, <3>2
  <2> QED
    BY <1>2, <2>1 DEF UpdInv, Shapes
<1>9. \A u : Queued(u)' = Queued(u) /\ AtWork(u)' = AtWork(u) /\ Pending(u)' = Pending(u)
  BY <1>2 DEF Queued, AtWork, Pending
<1>10. \A u : Heard(u)' => Heard(u) \/ (EndMsg(m) /\ u = m.id)
  BY <1>3, <1>6 DEF Heard, EndMsg
<1>11. EndMsg(m) => m.id \in Updates /\ ~Heard(m.id)
  BY <1>1, MessageKinds DEF UpdInv, OneHand, EndMsg
<1>12. OneHandler'
  <2> SUFFICES ASSUME NEW f \in Handlers, NEW g \in Handlers, f # g,
                      handling'[f].pc # "idle", handling'[g].pc # "idle",
                      EndMsg(handling'[f].msg), EndMsg(handling'[g].msg), handling'[f].msg.id = handling'[g].msg.id
               PROVE  FALSE
    BY DEF OneHandler, EndMsg
  <2>1. CASE f # h /\ g # h
    <3>1. handling'[f] = handling[f] /\ handling'[g] = handling[g]
      BY <1>6, <2>1
    <3> QED
      BY <3>1 DEF UpdInv, OneHandler, EndMsg
  <2>2. CASE f = h
    <3>1. handling'[f].msg = m /\ handling'[g] = handling[g]
      BY <1>3, <1>6, <2>2
    <3> QED
      BY <1>11, <3>1 DEF Heard, EndMsg
  <2>3. CASE g = h
    <3>1. handling'[g].msg = m /\ handling'[f] = handling[f]
      BY <1>3, <1>6, <2>3
    <3> QED
      BY <1>11, <3>1 DEF Heard, EndMsg
  <2> QED
    BY <2>1, <2>2, <2>3
<1>13. OneHand'
  BY <1>1, <1>2, <1>9, <1>10 DEF UpdInv, OneHand
<1>14. NotSent'
  BY <1>2, <1>9 DEF UpdInv, NotSent
<1>15. OneCommand' /\ ListTrue(section.list)'
  BY <1>2 DEF UpdInv, OneCommand, ListTrue
<1>16. LatestHello'
  <2> SUFFICES ASSUME ~failed, ~crossed' PROVE LatestHello'
    BY <1>2 DEF LatestHello
  <2>1. ~crossed /\ (m.type = "hello" => \A g \in Handlers : ~Saying(g))
    BY <1>2
  <2>2. \A g \in Handlers : /\ g # h => (Saying(g)' <=> Saying(g)) /\ handling'[g] = handling[g]
                            /\ g = h => (Saying(g)' <=> m.type = "hello") /\ handling'[g].msg = m
    BY <1>3, <1>4, <1>5, <1>6 DEF Saying
  <2>3. ~Saying(h)
    BY <1>0 DEF Saying
  <2>4. \A f, g \in Handlers : Saying(f)' /\ Saying(g)' => f = g
    BY <1>2, <2>1, <2>2 DEF UpdInv, LatestHello
  <2>5. up => \A i \in 1 .. Len(toPlatform') : toPlatform'[i].type = "hello" => toPlatform'[i].version = agent.version
    BY <1>1, <1>2, <2>1 DEF UpdInv, LatestHello
  <2>6. CASE m.type = "hello"
    <3>1. up => m.version = agent.version
      BY <1>1, <1>2, <2>1, <2>6 DEF UpdInv, LatestHello
    <3>2. \A g \in Handlers : Saying(g)' => handling'[g].msg = m
      BY <2>1, <2>2, <2>6
    <3>3. Saying(h)'
      BY <2>2, <2>6
    <3> QED
      BY <1>2, <2>4, <2>5, <3>1, <3>2, <3>3 DEF LatestHello
  <2>7. CASE m.type # "hello"
    <3>1. \A g \in Handlers : (Saying(g)' <=> Saying(g)) /\ (Saying(g) => handling'[g] = handling[g])
      BY <2>2, <2>3, <2>7
    <3>2. HelloQueued => HelloQueued'
      BY <1>1, <2>7
    <3> QED
      BY <1>2, <2>1, <2>4, <2>5, <3>1, <3>2 DEF UpdInv, LatestHello
  <2> QED
    BY <2>6, <2>7
<1> QED
  BY <1>1, <1>7, <1>8, <1>12, <1>13, <1>14, <1>15, <1>16 DEF UpdInv

-----------------------------------------------------------------------------
(* The agent and its connection.                                           *)

LEMMA StartsKeeps == ASSUME UpdInv, AgentStarts PROVE UpdInv'
<1> DEFINE v == Head(toAgent).id
           a == [agent EXCEPT !.job = v, !.pc = "working"]
<1>0. UpdTypeOK /\ agent \in AgentRec /\ OneCommand
  BY UpdTypes DEF UpdInv
<1>1. /\ toAgent' \in Seq(UpdCommand) /\ v \in Updates /\ Queued(v)
      /\ \A u : Queued(u)' => Queued(u) /\ u # v
      /\ OneCommand'
  BY <1>0, CommandTaken DEF AgentStarts
<1>2. a \in AgentRec /\ a.job = v /\ a.pc = "working" /\ a.version = agent.version
  BY <1>0, <1>1 DEF AgentRec
<1>3. /\ agent' = a /\ toPlatform' = toPlatform /\ section' = section /\ upd' = upd
      /\ handling' = handling /\ up' = up /\ version' = version /\ offline' = offline
      /\ trigger' = trigger /\ failed' = failed /\ crossed' = crossed /\ drops' = drops /\ lost' = lost
  BY DEF AgentStarts, ghosts
<1> HIDE DEF a, v
<1>4. UpdTypeOK'
  BY <1>0, <1>1, <1>2, <1>3 DEF UpdTypeOK, LinkTypeOK, AgentRec, UpdCommand
<1>5. Shapes'
  BY <1>1, <1>2, <1>3, NoneIsNothing DEF UpdInv, Shapes
<1>6. \A u : /\ Reported(u)' = Reported(u) /\ Heard(u)' = Heard(u) /\ Pending(u)' = Pending(u)
             /\ AtWork(u)' => u = v
  BY <1>2, <1>3 DEF Reported, Heard, Pending, AtWork
<1>7. OneHand'
  BY <1>1, <1>3, <1>6 DEF UpdInv, OneHand
<1>8. NotSent'
  BY <1>1, <1>3, <1>6 DEF UpdInv, NotSent
<1>9. LatestHello' /\ OneReport' /\ OneHandler' /\ ListTrue(section.list)'
  BY <1>2, <1>3, SameHello DEF UpdInv, OneReport, OneHandler, ListTrue
<1> QED
  BY <1>1, <1>4, <1>5, <1>7, <1>8, <1>9 DEF UpdInv

(* The agent says how far it is, with its last word or not.                *)
LEMMA TellKeeps == ASSUME UpdInv, AgentGivesUp \/ AgentStages PROVE UpdInv'
<1> DEFINE v == agent.job
           phase == IF AgentGivesUp THEN "failed" ELSE "staged"
           m == [type |-> "progress", id |-> v, phase |-> phase]
<1>0. UpdTypeOK /\ agent \in AgentRec /\ OneReport
  BY UpdTypes DEF UpdInv
<1>1. agent.pc = "working" /\ v \in Updates /\ AtWork(v) /\ v # None
  BY <1>0, NoneIsNothing DEF AgentRec, UpdInv, Shapes, AtWork, AgentGivesUp, AgentStages
<1>2. phase \in Ended \cup {"staged"}
  BY DEF Ended
<1>3. m \in Progress /\ m.id = v /\ m.phase = phase /\ m.type = "progress"
  BY <1>1, <1>2 DEF Progress
<1>4. /\ toPlatform' = Append(toPlatform, m)
      /\ agent' \in AgentRec /\ agent'.version = agent.version
      /\ \/ phase = "failed" /\ agent'.job = None /\ agent'.pc = "idle"
         \/ phase = "staged" /\ agent'.job = v /\ agent'.pc = "swapped"
  <2>1. CASE AgentGivesUp
    BY <1>0, <2>1 DEF AgentGivesUp, Tell, AgentRec
  <2>2. CASE ~AgentGivesUp
    <3>1. AgentStages
      BY <2>2
    <3> QED
      BY <1>0, <1>1, <2>2, <3>1 DEF AgentStages, Tell, AgentRec
  <2> QED
    BY <2>1, <2>2
<1>5. /\ toAgent' = toAgent /\ section' = section /\ upd' = upd
      /\ handling' = handling /\ up' = up /\ version' = version /\ offline' = offline
      /\ trigger' = trigger /\ failed' = failed /\ crossed' = crossed /\ drops' = drops /\ lost' = lost
  BY DEF AgentGivesUp, AgentStages, ghosts
<1> HIDE DEF m, phase
<1>6. EndMsg(m) => phase = "failed"
  BY <1>2, <1>3, <1>4, NoneIsNothing DEF EndMsg
<1>7. ~Reported(v) /\ ~Heard(v) /\ ~Pending(v) /\ ~Queued(v)
  BY <1>1 DEF UpdInv, OneHand
<1>8. m \in Progress \cup Hello
  BY <1>3
<1>9. /\ toPlatform' \in Seq(Progress \cup Hello)
      /\ \A u : Reported(u)' <=> Reported(u) \/ (EndMsg(m) /\ u = v)
      /\ OneReport'
      /\ \A i \in 1 .. Len(toPlatform') :
            (i \in 1 .. Len(toPlatform) /\ toPlatform'[i] = toPlatform[i]) \/ toPlatform'[i] = m
      /\ HelloQueued => HelloQueued'
  BY <1>0, <1>3, <1>4, <1>7, <1>8, MessageTold
<1>10. UpdTypeOK'
  BY <1>0, <1>4, <1>5, <1>9 DEF UpdTypeOK, LinkTypeOK, AgentRec
<1>11. Shapes'
  BY <1>1, <1>4, <1>5 DEF UpdInv, Shapes
<1>12. \A u : Queued(u)' = Queued(u) /\ Heard(u)' = Heard(u) /\ Pending(u)' = Pending(u)
  BY <1>5 DEF Queued, Heard, Pending
<1>13. \A u \in Updates : AtWork(u)' => AtWork(u) /\ ~(EndMsg(m) /\ u = v)
  BY <1>4, <1>6, NoneIsNothing DEF AtWork
<1> HIDE DEF v
<1>14. OneHand'
  BY <1>1, <1>5, <1>7, <1>9, <1>12, <1>13 DEF UpdInv, OneHand
<1>15. NotSent'
  <2>1. offline \subseteq Updates
    BY <1>0 DEF UpdTypeOK
  <2> QED
    BY <1>5, <1>12, <1>13, <2>1 DEF UpdInv, NotSent
<1>16. LatestHello'
  <2>1. \A i \in 1 .. Len(toPlatform') : toPlatform'[i].type = "hello" =>
             i \in 1 .. Len(toPlatform) /\ toPlatform'[i] = toPlatform[i]
    BY <1>3, <1>9
  <2>2. HelloQueued' => HelloQueued
    BY <2>1 DEF HelloQueued
  <2>3. \A g \in Handlers : Saying(g)' = Saying(g) /\ handling'[g] = handling[g]
    BY <1>5 DEF Saying
  <2> QED
    BY <1>4, <1>5, <1>9, <2>1, <2>2, <2>3 DEF UpdInv, LatestHello
<1>17. OneCommand' /\ OneHandler' /\ ListTrue(section.list)'
  BY <1>5 DEF UpdInv, OneCommand, OneHandler, ListTrue
<1> QED
  BY <1>9, <1>10, <1>11, <1>14, <1>15, <1>16, <1>17 DEF UpdInv

(* The connection ends, by the agent's own doing or not.                   *)
LEMMA ConnectionEnds ==
    ASSUME UpdInv, up' = FALSE, toAgent' = <<>>, toPlatform' = <<>>, drops' \in 0 .. MaxDrops,
           UNCHANGED <<upd, version, trigger, handling, agent, section, offline, failed, crossed>>,
           lost' \subseteq Updates
    PROVE  UpdInv'
<1>1. Len(toAgent') = 0 /\ Len(toPlatform') = 0 /\ <<>> \in Seq(UpdCommand) /\ <<>> \in Seq(Progress \cup Hello)
  OBVIOUS
<1>2. UpdTypeOK'
  <2>1. toAgent' \in Seq(UpdCommand) /\ toPlatform' \in Seq(Progress \cup Hello) /\ up' \in BOOLEAN
    BY <1>1
  <2> QED
    BY <2>1 DEF UpdInv, UpdTypeOK, LinkTypeOK, UpdCommand
<1>3. Shapes' /\ OneHandler' /\ ListTrue(section.list)'
  BY DEF UpdInv, Shapes, OneHandler, ListTrue
<1>4. OneCommand' /\ OneReport' /\ \A u : ~Queued(u)' /\ ~Reported(u)'
  BY <1>1 DEF OneCommand, OneReport, Queued, Reported
<1>5. \A u : Heard(u)' = Heard(u) /\ Pending(u)' = Pending(u) /\ AtWork(u)' = AtWork(u)
  BY DEF Heard, Pending, AtWork
<1>6. OneHand'
  BY <1>4, <1>5 DEF UpdInv, OneHand
<1>7. NotSent'
  BY <1>4, <1>5 DEF UpdInv, NotSent
<1>8. LatestHello'
  BY DEF UpdInv, LatestHello, Saying
<1> QED
  BY <1>2, <1>3, <1>4, <1>6, <1>7, <1>8 DEF UpdInv

LEMMA UnderWayTypes == ASSUME UpdTypeOK PROVE UnderWay \subseteq Updates
<1>1. toAgent \in Seq(UpdCommand) /\ toPlatform \in Seq(Progress \cup Hello)
  BY UpdTypes
<1>2. \A i \in 1 .. Len(toAgent) : toAgent[i].id \in Updates
  <2>1. \A i \in 1 .. Len(toAgent) : toAgent[i] \in UpdCommand
    BY <1>1
  <2> QED
    BY <2>1 DEF UpdCommand
<1>3. \A j \in 1 .. Len(toPlatform) : toPlatform[j].type = "progress" => toPlatform[j].id \in Updates
  BY <1>1, MessageKinds
<1> QED
  BY <1>2, <1>3 DEF UnderWay

LEMMA EndsKeep == ASSUME UpdInv, Swap \/ UpdDrop PROVE UpdInv'
<1>1. UnderWay \subseteq Updates /\ lost \subseteq Updates /\ drops \in 0 .. MaxDrops /\ MaxDrops \in Nat
  BY UnderWayTypes, LinkAssumption DEF UpdInv, UpdTypeOK, LinkTypeOK
<1>2. CASE Swap
  <2>1. drops' \in 0 .. MaxDrops /\ lost' \subseteq Updates
    BY <1>1, <1>2 DEF Swap
  <2> QED
    BY <1>2, <2>1, ConnectionEnds DEF Swap
<1>3. CASE UpdDrop
  <2>1. drops' \in 0 .. MaxDrops /\ lost' \subseteq Updates
    BY <1>1, <1>3 DEF UpdDrop, Drop
  <2> QED
    BY <1>3, <2>1, ConnectionEnds DEF UpdDrop, Drop
<1> QED
  BY <1>2, <1>3

(* The agent connects: a hello first, and perhaps how its update ended.    *)
LEMMA Connects ==
    ASSUME UpdInv, ~up, up' = TRUE,
           NEW msgs \in Seq(Progress \cup Hello), HeardFrom(msgs),
           msgs[1] \in Hello, Len(msgs) \in 1 .. 2, agent'.version = msgs[1].version,
           Len(msgs) = 2 => msgs[2] \in Progress /\ msgs[2].id = agent.job /\ agent'.job = None,
           agent' \in AgentRec, agent'.job \in {None, agent.job},
           agent'.pc = "idle" <=> agent'.job = None,
           UNCHANGED <<upd, version, trigger, handling, section, offline, failed, toAgent, drops>>
    PROVE  UpdInv'
<1>0. UpdTypeOK /\ Len(msgs) \in Nat /\ lost \subseteq Updates /\ crossed \in BOOLEAN
  BY DEF UpdInv, UpdTypeOK
<1>1. PICK n \in 0 .. Len(msgs) :
         /\ toPlatform' = SubSeq(msgs, n + 1, Len(msgs))
         /\ crossed' = (crossed \/ n > 0)
         /\ lost' = lost \cup {msgs[i].id : i \in {j \in 1 .. n : msgs[j].type = "progress"}}
  BY Zenon DEF HeardFrom
<1>2. \A i \in 1 .. Len(msgs) : msgs[i] \in Progress \cup Hello
  OBVIOUS
<1>3. /\ toPlatform' \in Seq(Progress \cup Hello) /\ Len(toPlatform') = Len(msgs) - n
      /\ \A i \in 1 .. Len(toPlatform') : toPlatform'[i] = msgs[i + n] /\ i + n \in 1 .. Len(msgs)
  BY <1>0, <1>1
<1>4. lost' \subseteq Updates
  BY <1>0, <1>1, <1>2, MessageKinds
<1>5. UpdTypeOK'
  BY <1>0, <1>1, <1>3, <1>4 DEF UpdTypeOK, LinkTypeOK, AgentRec
<1>6. Shapes'
  BY DEF UpdInv, Shapes
<1>7. \A i \in 1 .. Len(toPlatform') : EndMsg(toPlatform'[i]) => i + n = 2 /\ toPlatform'[i] = msgs[2]
  <2>1. ~EndMsg(msgs[1])
    BY MessageKinds
  <2> QED
    BY <1>0, <1>1, <1>3, <2>1
<1>8. OneReport'
  <2> SUFFICES ASSUME NEW i \in 1 .. Len(toPlatform'), NEW j \in 1 .. Len(toPlatform'),
                      EndMsg(toPlatform'[i]), EndMsg(toPlatform'[j])
               PROVE  i = j
    BY DEF OneReport, EndMsg
  <2>1. i + n = 2 /\ j + n = 2
    BY <1>7
  <2> QED
    BY <1>1, <2>1
<1>9. \A u : Reported(u)' => AtWork(u) /\ agent'.job = None
  <2> SUFFICES ASSUME NEW i \in 1 .. Len(toPlatform'), EndMsg(toPlatform'[i])
               PROVE  toPlatform'[i].id = agent.job /\ agent'.job = None
    BY DEF Reported, AtWork, EndMsg
  <2>1. i + n = 2 /\ toPlatform'[i] = msgs[2] /\ i + n \in 1 .. Len(msgs)
    BY <1>3, <1>7
  <2>2. Len(msgs) = 2
    BY <2>1
  <2> QED
    BY <2>1, <2>2
<1>10. \A u : /\ Heard(u)' = Heard(u) /\ Pending(u)' = Pending(u) /\ Queued(u)' = Queued(u)
  BY DEF Heard, Pending, Queued
<1>11. \A u \in Updates : AtWork(u)' => AtWork(u) /\ agent'.job # None
  BY NoneIsNothing DEF AtWork
<1>12. OneHand'
  BY <1>9, <1>10, <1>11 DEF UpdInv, OneHand
<1>13. NotSent'
  BY <1>0, <1>10, <1>11 DEF UpdInv, NotSent, UpdTypeOK
<1>14. OneCommand' /\ OneHandler' /\ ListTrue(section.list)'
  BY DEF UpdInv, OneCommand, OneHandler, ListTrue
<1>15. LatestHello'
  <2> SUFFICES ASSUME ~failed, ~crossed' PROVE LatestHello'
    BY DEF LatestHello
  <2>0. ~(crossed \/ n > 0)
    BY <1>1, Zenon
  <2>1. n = 0 /\ ~crossed
    BY <2>0
  <2>2. \A i \in 1 .. Len(toPlatform') : toPlatform'[i] = msgs[i] /\ i \in 1 .. Len(msgs)
    BY <1>0, <1>3, <2>1
  <2>3. Len(toPlatform') = Len(msgs) /\ 1 \in 1 .. Len(toPlatform')
    BY <1>0, <1>3, <2>1
  <2>4. HelloQueued'
    BY <2>2, <2>3, MessageKinds DEF HelloQueued
  <2>5. \A i \in 1 .. Len(toPlatform') : toPlatform'[i].type = "hello" => toPlatform'[i].version = agent'.version
    BY <1>0, <2>2, MessageKinds
  <2>6. \A g \in Handlers : Saying(g)' = Saying(g)
    BY DEF Saying
  <2> QED
    BY <2>1, <2>4, <2>5, <2>6 DEF UpdInv, LatestHello
<1> QED
  BY <1>5, <1>6, <1>8, <1>12, <1>13, <1>14, <1>15 DEF UpdInv

LEMMA ConnectKeeps == ASSUME UpdInv, SwapDone \/ UpdReconnect PROVE UpdInv'
<1>0. agent \in AgentRec
  BY UpdTypes DEF UpdInv
<1>1. ASSUME NEW phase \in {"completed", "rolled_back"}, SwapEnds(phase) PROVE UpdInv'
  <2> DEFINE new == IF phase = "completed" THEN "target" ELSE agent.version
             hello == [type |-> "hello", version |-> new]
             word == [type |-> "progress", id |-> agent.job, phase |-> phase]
             msgs == <<hello, word>>
  <2>1. agent.job \in Updates /\ new \in Versions
    BY <1>0, <1>1 DEF SwapEnds, AgentRec, UpdInv, Shapes, Versions
  <2>2. hello \in Hello /\ hello.version = new
    BY <2>1 DEF Hello
  <2>3. word \in Progress /\ word.id = agent.job
    BY <2>1 DEF Progress, Ended
  <2>4. HeardFrom(msgs) /\ agent' = [version |-> new, job |-> None, pc |-> "idle"] /\ ~up /\ up' = TRUE
        /\ UNCHANGED <<upd, version, trigger, handling, section, offline, failed, toAgent, drops>>
    BY <1>1 DEF SwapEnds
  <2> HIDE DEF hello, word, new
  <2>5. msgs \in Seq(Progress \cup Hello) /\ msgs[1] = hello /\ msgs[2] = word /\ Len(msgs) = 2
    BY <2>2, <2>3
  <2> HIDE DEF msgs
  <2>6. agent' \in AgentRec /\ agent'.version = new /\ agent'.job = None /\ agent'.pc = "idle"
    BY <2>1, <2>4 DEF AgentRec
  <2> QED
    BY <2>2, <2>3, <2>4, <2>5, <2>6, Connects
<1>2. CASE UpdReconnect
  <2> DEFINE hello == [type |-> "hello", version |-> agent.version]
             msgs == <<hello>>
  <2>1. hello \in Hello /\ hello.version = agent.version
    BY <1>0 DEF Hello, AgentRec
  <2>2. HeardFrom(msgs) /\ agent' = agent /\ ~up /\ up' = TRUE
        /\ UNCHANGED <<upd, version, trigger, handling, section, offline, failed, toAgent, drops>>
    BY <1>2 DEF UpdReconnect
  <2> HIDE DEF hello
  <2>3. msgs \in Seq(Progress \cup Hello) /\ msgs[1] = hello /\ Len(msgs) = 1
    BY <2>1
  <2> HIDE DEF msgs
  <2>4. agent'.pc = "idle" <=> agent'.job = None
    BY <2>2 DEF UpdInv, Shapes
  <2>5. agent' \in AgentRec /\ agent'.job \in {None, agent.job} /\ agent'.version = msgs[1].version
    BY <1>0, <2>1, <2>2, <2>3
  <2>6. msgs[1] \in Hello /\ Len(msgs) \in 1 .. 2 /\ Len(msgs) # 2
    BY <2>1, <2>3
  <2> QED
    BY <2>2, <2>3, <2>4, <2>5, <2>6, Connects
<1> QED
  BY <1>1, <1>2 DEF SwapDone

LEMMA UpdKeeps ==
    UpdInv /\ [UpdNext]_updVars => UpdInv'
<1> SUFFICES ASSUME UpdInv, [UpdNext]_updVars PROVE UpdInv'
  OBVIOUS
<1>1. CASE UNCHANGED updVars
  <2>1. /\ section \in SectionRec /\ trigger \in TriggerRec /\ ListTrue(section.list)
        /\ failed \in BOOLEAN
    BY UpdTypes DEF UpdInv, UpdTypeOK
  <2> QED
    BY <1>1, <2>1, PageStep DEF updVars
<1>2. ASSUME NEW h \in Handlers, Take(h) \/ Write(h) \/ HandlerFails(h) PROVE UpdInv'
  BY <1>2, TakeKeeps, FindKeeps, ProgressKeeps, HelloKeeps DEF Write
<1>3. CASE Trigger \/ RefuseTrigger \/ TriggerFails
  BY <1>3, RefuseKeeps, InsertKeeps, SendKeeps, MarkKeeps DEF Trigger
<1>4. CASE AgentWorks \/ Swap \/ SwapDone \/ UpdDrop \/ UpdReconnect
  BY <1>4, StartsKeeps, TellKeeps, EndsKeep, ConnectKeeps DEF AgentWorks
<1> QED
  BY <1>1, <1>2, <1>3, <1>4, SectionKeeps DEF UpdNext

(* A step that is not of a component leaves what it owns alone.            *)
LEMMA UpdPart ==
    ASSUME part = "update", [RelaysNext]_<<part, ownTerm, ownUpd, link, inboxVars>>
    PROVE  part' = "update" /\ [UpdNext]_updVars
<1>1. CASE UNCHANGED <<part, ownTerm, ownUpd, link, inboxVars>>
  BY <1>1 DEF ownUpd, updVars
<1>2. CASE RelaysNext
  BY <1>2 DEF RelaysNext
<1> QED
  BY <1>1, <1>2

(* With any number of updates and of handlers, and connections that break  *)
(* at any time: the history a page shows is of rows there are and behind   *)
(* them only where it says "running", what could not be sent is not tried  *)
(* after all, and the host's version settles on that of its agent.         *)
THEOREM UpdatesTrue == RelaysSpec => []UpdatesAreTrue
<1> DEFINE Inv == part = "update" => UpdInv
<1>1. RelaysInit => Inv
  BY UpdStart DEF RelaysInit
<1>2. Inv /\ [RelaysNext]_<<part, ownTerm, ownUpd, link, inboxVars>> => Inv'
  <2> SUFFICES ASSUME Inv, [RelaysNext]_<<part, ownTerm, ownUpd, link, inboxVars>>, part' = "update"
               PROVE  UpdInv'
    OBVIOUS
  <2>1. part = "update"
    BY DEF RelaysNext
  <2> QED
    BY <2>1, UpdPart, UpdKeeps
<1>3. Inv => UpdatesAreTrue
  BY UpdFacts DEF UpdatesAreTrue
<1> HIDE DEF Inv
<1> QED
  BY <1>1, <1>2, <1>3, PTL DEF RelaysSpec

(* How an update ended is final.                                           *)
LEMMA EndedStays ==
    ASSUME UpdInv, [UpdNext]_updVars, NEW u \in Updates, upd[u] \in Ended
    PROVE  upd'[u] = upd[u]
<1>0. upd \in [Updates -> UpdStatus \cup {None}]
  BY UpdTypes DEF UpdInv
<1>1. CASE upd' = upd
  BY <1>1
<1>2. ASSUME NEW v \in Updates, InsertUpdate(v) PROVE upd'[u] = upd[u]
  BY <1>0, <1>2, NoneIsNothing DEF InsertUpdate
<1>3. CASE MarkOffline
  <2>1. trigger.id \in Updates /\ Pending(trigger.id)
    BY <1>3, UpdTypes, NoneIsNothing DEF MarkOffline, TriggerRec, UpdInv, Shapes, Pending
  <2>2. upd[trigger.id] = "running"
    BY <2>1 DEF UpdInv, OneHand
  <2> QED
    BY <1>0, <1>3, <2>2, NoneIsNothing DEF MarkOffline
<1>4. ASSUME NEW h \in Handlers, WriteProgress(h) PROVE upd'[u] = upd[u]
  <2>1. /\ upd[handling[h].msg.id] = "running"
        /\ upd' = [upd EXCEPT ![handling[h].msg.id] = handling[h].msg.phase]
    BY <1>4, ProgressFacts
  <2> QED
    BY <1>0, <2>1, NoneIsNothing
<1>5. CASE UNCHANGED updVars
  BY <1>5 DEF updVars
<1>6. CASE UpdNext
  <2>1. ASSUME NEW h \in Handlers, Take(h) \/ Write(h) \/ HandlerFails(h) PROVE upd'[u] = upd[u]
    BY <1>1, <1>4, <2>1 DEF Take, Write, FindUpdate, WriteHello, HandlerFails
  <2>2. CASE Trigger \/ RefuseTrigger \/ TriggerFails
    BY <1>1, <1>2, <1>3, <2>2 DEF Trigger, RefuseTrigger, TriggerFails, FindHostToUpdate, SendUpdate
  <2>3. CASE AgentWorks \/ Swap \/ SwapDone \/ UpdDrop \/ UpdReconnect
    BY <1>1, <2>3 DEF AgentWorks, AgentStarts, AgentGivesUp, AgentStages, Swap, SwapDone, SwapEnds,
       UpdDrop, UpdReconnect
  <2>4. CASE \/ Load \/ Ask \/ Cancel \/ Confirm
             \/ \E result \in {"none", "some"} : FetchManifest(result)
    BY <1>1, <2>4 DEF Load, Ask, Cancel, Confirm, FetchManifest
  <2> QED
    BY <1>6, <2>1, <2>2, <2>3, <2>4 DEF UpdNext
<1> QED
  BY <1>5, <1>6

(* What an agent has reported last about an update is what its row says    *)
(* for good, in whatever order handlers write and whatever is lost.        *)
THEOREM UpdatesStay == RelaysSpec => EndedUpdatesStay
<1> DEFINE Inv == part = "update" => UpdInv
           Stay == \A u \in Updates : upd[u] \in Ended => upd'[u] = upd[u]
<1>1. RelaysInit => Inv
  BY UpdStart DEF RelaysInit
<1>2. Inv /\ [RelaysNext]_<<part, ownTerm, ownUpd, link, inboxVars>> => Inv'
  <2> SUFFICES ASSUME Inv, [RelaysNext]_<<part, ownTerm, ownUpd, link, inboxVars>>, part' = "update"
               PROVE  UpdInv'
    OBVIOUS
  <2>1. part = "update"
    BY DEF RelaysNext
  <2> QED
    BY <2>1, UpdPart, UpdKeeps
<1>3. Inv /\ [RelaysNext]_<<part, ownTerm, ownUpd, link, inboxVars>> => [Stay]_updVars
  <2> SUFFICES ASSUME Inv, [RelaysNext]_<<part, ownTerm, ownUpd, link, inboxVars>> PROVE Stay
    OBVIOUS
  <2>1. CASE part = "update"
    BY <2>1, UpdPart, EndedStays
  <2>2. CASE part # "update"
    BY <2>2 DEF RelaysNext, ownUpd
  <2> QED
    BY <2>1, <2>2
<1> HIDE DEF Inv, Stay
<1>4. RelaysSpec => [][Stay]_updVars
  BY <1>1, <1>2, <1>3, PTL DEF RelaysSpec
<1> QED
  BY <1>4 DEF EndedUpdatesStay, Stay

-----------------------------------------------------------------------------
(* The terminal.  What follows is of one panel, and of its share of what   *)
(* is under way between the platform and the agent.                        *)

BrowserMsg == [type : {"terminal_input", "close"}, n : 0 .. MaxChunks]
PanelMsg == [type : {"open", "data", "closed", "error", "close"}, n : 0 .. MaxChunks]
PanelStatus == {"none", "connecting", "open", "closed", "error", "left", "abandoned"}
HandlerStatus == {"none", "session", "host", "listening", "returned", "rejected"}

Early(p) == handler[p] \in {"none", "session", "host", "rejected"}
LastIsClose(p) == toBrowser[p] # <<>> /\ toBrowser[p][Len(toBrowser[p])].type = "close"

(* What may come after a message in the socket to the browser.             *)
BrowserQueue(p) ==
    \A i \in 1 .. Len(toBrowser[p]) :
        /\ toBrowser[p][i].type = "open" => i = 1 /\ shown[p] = <<>>
        /\ toBrowser[p][i].type \in {"open", "data"} => handler[p] = "listening"
        /\ toBrowser[p][i].type \in {"closed", "error", "close"} =>
              /\ browser[p] = "closed"
              /\ \A j \in i + 1 .. Len(toBrowser[p]) : toBrowser[p][j].type = "close"
        /\ toBrowser[p][i].type = "close" => i = Len(toBrowser[p])

(* A panel is open only with a session behind it, or the word that there   *)
(* is none under way to it.                                                *)
PanelHolds(p) ==
    /\ panel[p] = "none" => handler[p] = "none" /\ client[p] = "none" /\ fromBrowser[p] = <<>>
    /\ Early(p) => toBrowser[p] = <<>> /\ typed[p] = unheard[p]
    /\ panel[p] = "connecting" => typed[p] = unheard[p]
    /\ panel[p] = "open" => client[p] = "open" /\ handler[p] = "listening"
    /\ client[p] = "open" /\ Early(p) => panel[p] = "connecting"
    /\ client[p] = "open" => browser[p] = "open" \/ LastIsClose(p)
    /\ client[p] = "open" /\ handler[p] = "listening" => p \in sessions \/ LastIsClose(p)
    /\ \A i \in 1 .. Len(fromBrowser[p]) : fromBrowser[p][i].type = "close" => client[p] # "open"
    /\ BrowserQueue(p)

InputOf(m, p) == m.type = "terminal_input" /\ m.panel = p
OpenOf(m, p) == m.type = "terminal_open" /\ m.panel = p
DataOf(m, p) == m.type = "terminal_data" /\ m.panel = p

(* The agent hears of a session from its start to its end.                 *)
AgentHears(p) ==
    /\ handler[p] # "listening" =>
          /\ p \notin sessions /\ pty[p] = "none" /\ printed[p] = 0 /\ shown[p] = <<>> /\ got[p] = <<>>
          /\ \A i \in 1 .. Len(toAgent) : toAgent[i].panel # p
          /\ \A i \in 1 .. Len(toPlatform) : toPlatform[i].panel # p
    /\ \A i \in 1 .. Len(toAgent) : toAgent[i].type = "terminal_close" /\ toAgent[i].panel = p =>
          p \notin sessions /\ \A j \in i + 1 .. Len(toAgent) : toAgent[j].panel # p
    /\ \A i \in 1 .. Len(toAgent) : OpenOf(toAgent[i], p) =>
          pty[p] = "none" /\ \A j \in 1 .. i - 1 : toAgent[j].panel # p

(* Output is shown, is under way to the browser, or is under way to the    *)
(* platform, in the order it was printed.                                  *)
OutputOrdered(p) ==
    /\ \A i \in 1 .. Len(shown[p]) : /\ shown[p][i] <= printed[p]
                                      /\ \A j \in 1 .. i - 1 : shown[p][j] < shown[p][i]
    /\ \A k \in 1 .. Len(toBrowser[p]) : toBrowser[p][k].type = "data" =>
          /\ toBrowser[p][k].n \in 1 .. printed[p]
          /\ \A i \in 1 .. Len(shown[p]) : shown[p][i] < toBrowser[p][k].n
          /\ \A l \in 1 .. k - 1 : toBrowser[p][l].type = "data" => toBrowser[p][l].n < toBrowser[p][k].n
    /\ \A i \in 1 .. Len(toPlatform) : DataOf(toPlatform[i], p) =>
          /\ toPlatform[i].n \in 1 .. printed[p]
          /\ \A j \in 1 .. Len(shown[p]) : shown[p][j] < toPlatform[i].n
          /\ \A k \in 1 .. Len(toBrowser[p]) : toBrowser[p][k].type = "data" => toBrowser[p][k].n < toPlatform[i].n
          /\ \A j \in 1 .. i - 1 : DataOf(toPlatform[j], p) => toPlatform[j].n < toPlatform[i].n

OpenAhead(p) == IF toBrowser[p] # <<>> /\ toBrowser[p][1].type = "open" THEN 1 ELSE 0
Sent(p) == Len(shown[p]) + Len(toBrowser[p]) - OpenAhead(p)

(* All that was printed and not sent to the panel is under way.            *)
NoneMissing(p) ==
    /\ \A i \in 1 .. Len(toPlatform) : DataOf(toPlatform[i], p) => toPlatform[i].n > Sent(p)
    /\ \A n \in Sent(p) + 1 .. printed[p] :
          \E i \in 1 .. Len(toPlatform) : DataOf(toPlatform[i], p) /\ toPlatform[i].n = n

OutputWhole(p) ==
    drops = 0 =>
        /\ \A i \in 1 .. Len(shown[p]) : shown[p][i] = i
        /\ client[p] = "open" =>
              /\ \A k \in 1 .. Len(toBrowser[p]) : toBrowser[p][k].type = "data" =>
                    toBrowser[p][k].n = Len(shown[p]) + k - OpenAhead(p)
              /\ p \in sessions /\ browser[p] = "open" => NoneMissing(p)

(* Keystrokes are at the shell, under way to it, or under way to the       *)
(* platform, in the order they were typed.                                 *)
KeysOrdered(p) ==
    /\ \A i \in 1 .. Len(got[p]) : /\ got[p][i] <= typed[p]
                                    /\ \A j \in 1 .. i - 1 : got[p][j] < got[p][i]
    /\ \A k \in 1 .. Len(toAgent) : InputOf(toAgent[k], p) =>
          /\ toAgent[k].n \in 1 .. typed[p]
          /\ \A i \in 1 .. Len(got[p]) : got[p][i] < toAgent[k].n
          /\ \A l \in 1 .. k - 1 : InputOf(toAgent[l], p) => toAgent[l].n < toAgent[k].n
    /\ \A i \in 1 .. Len(fromBrowser[p]) : fromBrowser[p][i].type = "terminal_input" =>
          /\ fromBrowser[p][i].n \in 1 .. typed[p]
          /\ \A j \in 1 .. Len(got[p]) : got[p][j] < fromBrowser[p][i].n
          /\ \A k \in 1 .. Len(toAgent) : InputOf(toAgent[k], p) => toAgent[k].n < fromBrowser[p][i].n
          /\ \A j \in 1 .. i - 1 : fromBrowser[p][j].type = "terminal_input" =>
                fromBrowser[p][j].n < fromBrowser[p][i].n

Got(p, n) == \E i \in 1 .. Len(got[p]) : got[p][i] = n
ToShell(p, n) == \E k \in 1 .. Len(toAgent) : InputOf(toAgent[k], p) /\ toAgent[k].n = n
FromPanel(p, n) == \E i \in 1 .. Len(fromBrowser[p]) : /\ fromBrowser[p][i].type = "terminal_input"
                                                     /\ fromBrowser[p][i].n = n

(* No keystroke that was heard is lost on its way while there is a shell.  *)
KeysWhole(p) ==
    drops = 0 =>
        /\ \A i \in 1 .. Len(got[p]) : got[p][i] > unheard[p] + 1 => i > 1 /\ got[p][i - 1] = got[p][i] - 1
        /\ pty[p] = "none" =>
              /\ p \in sessions => \E j \in 1 .. Len(toAgent) : OpenOf(toAgent[j], p)
              /\ \A k \in 1 .. Len(toAgent) : InputOf(toAgent[k], p) =>
                    \E j \in 1 .. k - 1 : OpenOf(toAgent[j], p)
        /\ pty[p] # "exited" =>
              /\ \A n \in unheard[p] + 2 .. typed[p] :
                    ToShell(p, n) => Got(p, n - 1) \/ ToShell(p, n - 1)
              /\ p \in sessions => \A n \in unheard[p] + 1 .. typed[p] :
                    Got(p, n) \/ ToShell(p, n) \/ FromPanel(p, n)

LinkHolds == ~up => drops > 0 /\ toAgent = <<>> /\ toPlatform = <<>>

PanelInv(p) ==
    /\ PanelHolds(p) /\ AgentHears(p)
    /\ OutputOrdered(p) /\ OutputWhole(p) /\ KeysOrdered(p) /\ KeysWhole(p)

TermInv == TermTypeOK /\ LinkHolds /\ \A p \in Panels : PanelInv(p)

LEMMA TermTypes ==
    ASSUME TermTypeOK
    PROVE  /\ toAgent \in Seq(TermCommand) /\ toPlatform \in Seq(TermMessage)
           /\ up \in BOOLEAN /\ drops \in Nat /\ MaxDrops \in Nat
           /\ panel \in [Panels -> PanelStatus] /\ client \in [Panels -> {"none", "open", "closed"}]
           /\ typed \in [Panels -> 0 .. MaxChunks] /\ unheard \in [Panels -> 0 .. MaxChunks]
           /\ shown \in [Panels -> Seq(Chunks)] /\ got \in [Panels -> Seq(Chunks)]
           /\ fromBrowser \in [Panels -> Seq(BrowserMsg)] /\ toBrowser \in [Panels -> Seq(PanelMsg)]
           /\ handler \in [Panels -> HandlerStatus] /\ browser \in [Panels -> {"none", "open", "closed"}]
           /\ pty \in [Panels -> {"none", "running", "exited"}] /\ printed \in [Panels -> 0 .. MaxChunks]
           /\ sessions \subseteq Panels
<1>1. toAgent \in Seq(TermCommand) /\ toPlatform \in Seq(TermMessage) /\ up \in BOOLEAN /\ drops \in 0 .. MaxDrops
  BY DEF TermTypeOK, LinkTypeOK
<1>2. drops \in Nat /\ MaxDrops \in Nat
  BY <1>1, LinkAssumption
<1>3. /\ panel \in [Panels -> PanelStatus] /\ client \in [Panels -> {"none", "open", "closed"}]
      /\ handler \in [Panels -> HandlerStatus] /\ browser \in [Panels -> {"none", "open", "closed"}]
      /\ pty \in [Panels -> {"none", "running", "exited"}] /\ sessions \subseteq Panels
  BY DEF TermTypeOK, PanelStatus, HandlerStatus
<1>4. /\ typed \in [Panels -> 0 .. MaxChunks] /\ unheard \in [Panels -> 0 .. MaxChunks]
      /\ printed \in [Panels -> 0 .. MaxChunks]
  BY DEF TermTypeOK
<1>5. /\ shown \in [Panels -> Seq(Chunks)] /\ got \in [Panels -> Seq(Chunks)]
      /\ fromBrowser \in [Panels -> Seq(BrowserMsg)] /\ toBrowser \in [Panels -> Seq(PanelMsg)]
  BY DEF TermTypeOK, BrowserMsg, PanelMsg
<1> QED
  BY <1>1, <1>2, <1>3, <1>4, <1>5

LEMMA TermFacts ==
    TermInv => TermTypeOK /\ OpenMeansBound /\ NothingAfterClose /\ OutputInOrder /\ KeysReachShell
<1> SUFFICES ASSUME TermInv
             PROVE  TermTypeOK /\ OpenMeansBound /\ NothingAfterClose /\ OutputInOrder /\ KeysReachShell
  OBVIOUS
<1>0. /\ toAgent \in Seq(TermCommand) /\ shown \in [Panels -> Seq(Chunks)]
      /\ got \in [Panels -> Seq(Chunks)]
  BY TermTypes DEF TermInv
<1>1. OpenMeansBound
  BY DEF TermInv, PanelInv, PanelHolds, LastIsClose, OpenMeansBound
<1>2. NothingAfterClose
  <2>1. ASSUME NEW i \in 1 .. Len(toAgent), NEW j \in 1 .. Len(toAgent),
               toAgent[i].type = "terminal_close", toAgent[i].panel = toAgent[j].panel
        PROVE  j <= i
    <3>1. toAgent[i] \in TermCommand /\ Len(toAgent) \in Nat
      BY <1>0
    <3>2. toAgent[i].panel \in Panels
      BY <3>1 DEF TermCommand
    <3>3. \A k \in i + 1 .. Len(toAgent) : toAgent[k].panel # toAgent[i].panel
      BY <2>1, <3>2 DEF TermInv, PanelInv, AgentHears
    <3> QED
      BY <2>1, <3>1, <3>3
  <2> QED
    BY <2>1 DEF NothingAfterClose, TermInv, PanelInv, PanelHolds, BrowserQueue
<1>3. OutputInOrder
  <2> SUFFICES ASSUME NEW p \in Panels, NEW i \in 1 .. Len(shown[p])
               PROVE  /\ i > 1 => shown[p][i] > shown[p][i - 1]
                      /\ drops = 0 => shown[p][i] = i
    BY DEF OutputInOrder
  <2>1. i > 1 => i - 1 \in 1 .. i - 1 /\ i - 1 \in 1 .. Len(shown[p])
    BY <1>0
  <2>2. shown[p][i] \in Nat /\ (i > 1 => shown[p][i - 1] \in Nat)
    <3>1. \A k \in 1 .. Len(shown[p]) : shown[p][k] \in Chunks
      BY <1>0
    <3> QED
      BY <2>1, <3>1, TerminalAssumption DEF Chunks
  <2> QED
    BY <2>1, <2>2 DEF TermInv, PanelInv, OutputOrdered, OutputWhole
<1>4. KeysReachShell
  <2> SUFFICES ASSUME NEW p \in Panels, NEW i \in 1 .. Len(got[p])
               PROVE  /\ i > 1 => got[p][i] > got[p][i - 1]
                      /\ drops = 0 /\ got[p][i] > unheard[p] + 1 => i > 1 /\ got[p][i - 1] = got[p][i] - 1
    BY DEF KeysReachShell
  <2>1. i > 1 => i - 1 \in 1 .. i - 1 /\ i - 1 \in 1 .. Len(got[p])
    BY <1>0
  <2>2. got[p][i] \in Nat /\ (i > 1 => got[p][i - 1] \in Nat)
    <3>1. \A k \in 1 .. Len(got[p]) : got[p][k] \in Chunks
      BY <1>0
    <3> QED
      BY <2>1, <3>1, TerminalAssumption DEF Chunks
  <2> QED
    BY <2>1, <2>2 DEF TermInv, PanelInv, KeysOrdered, KeysWhole
<1> QED
  BY <1>1, <1>2, <1>3, <1>4 DEF TermInv

LEMMA TermStart == TermInit => TermInv
<1> SUFFICES ASSUME TermInit PROVE TermInv
  OBVIOUS
<1>1. /\ toAgent = <<>> /\ toPlatform = <<>> /\ Len(toAgent) = 0 /\ Len(toPlatform) = 0 /\ up = TRUE /\ drops = 0
      /\ <<>> \in Seq(TermCommand) /\ <<>> \in Seq(TermMessage) /\ drops \in 0 .. MaxDrops
  BY LinkAssumption DEF TermInit, LinkInit
<1>2. TermTypeOK
  <2>1. /\ <<>> \in Seq(Chunks) /\ <<>> \in Seq(BrowserMsg) /\ <<>> \in Seq(PanelMsg)
        /\ 0 \in 0 .. MaxChunks
    BY TerminalAssumption
  <2>2. LinkTypeOK(TermCommand, TermMessage)
    BY <1>1 DEF LinkTypeOK
  <2>3. /\ panel \in [Panels -> PanelStatus] /\ client \in [Panels -> {"none", "open", "closed"}]
        /\ handler \in [Panels -> HandlerStatus] /\ browser \in [Panels -> {"none", "open", "closed"}]
        /\ pty \in [Panels -> {"none", "running", "exited"}] /\ sessions \subseteq Panels
    BY DEF TermInit, PanelStatus, HandlerStatus
  <2>4. /\ typed \in [Panels -> 0 .. MaxChunks] /\ unheard \in [Panels -> 0 .. MaxChunks]
        /\ printed \in [Panels -> 0 .. MaxChunks]
    BY <2>1 DEF TermInit
  <2>5. /\ shown \in [Panels -> Seq(Chunks)] /\ got \in [Panels -> Seq(Chunks)]
        /\ fromBrowser \in [Panels -> Seq(BrowserMsg)] /\ toBrowser \in [Panels -> Seq(PanelMsg)]
    BY <2>1 DEF TermInit
  <2> QED
    BY <2>2, <2>3, <2>4, <2>5 DEF TermTypeOK, BrowserMsg, PanelMsg, PanelStatus, HandlerStatus
<1>3. LinkHolds
  BY <1>1 DEF LinkHolds
<1>4. ASSUME NEW p \in Panels PROVE PanelInv(p)
  <2>1. /\ panel[p] = "none" /\ client[p] = "none" /\ typed[p] = 0 /\ unheard[p] = 0 /\ shown[p] = <<>>
        /\ Len(shown[p]) = 0 /\ fromBrowser[p] = <<>> /\ Len(fromBrowser[p]) = 0 /\ toBrowser[p] = <<>>
        /\ Len(toBrowser[p]) = 0 /\ handler[p] = "none" /\ browser[p] = "none" /\ p \notin sessions
        /\ pty[p] = "none" /\ got[p] = <<>> /\ Len(got[p]) = 0 /\ printed[p] = 0
    BY DEF TermInit
  <2>2. PanelHolds(p)
    BY <2>1 DEF PanelHolds, BrowserQueue, Early
  <2>3. AgentHears(p)
    BY <1>1, <2>1 DEF AgentHears
  <2>4. OutputOrdered(p) /\ OutputWhole(p)
    BY <1>1, <2>1 DEF OutputOrdered, OutputWhole
  <2>5. KeysOrdered(p) /\ KeysWhole(p)
    BY <1>1, <2>1 DEF KeysOrdered, KeysWhole
  <2> QED
    BY <2>2, <2>3, <2>4, <2>5 DEF PanelInv
<1> QED
  BY <1>2, <1>3, <1>4 DEF TermInv

(* Sequences: what an append, two messages more, and a tail hold.          *)
LEMMA AppendHolds ==
    ASSUME NEW S, NEW s \in Seq(S), NEW e
    PROVE  /\ Len(s) \in Nat /\ Len(Append(s, e)) = Len(s) + 1
           /\ Append(s, e)[Len(s) + 1] = e
           /\ \A i \in 1 .. Len(s) : Append(s, e)[i] = s[i]
  OBVIOUS

LEMMA TwoMore ==
    ASSUME NEW S, NEW s \in Seq(S), NEW e \in S, NEW f \in S
    PROVE  /\ s \o <<e, f>> \in Seq(S) /\ Len(s \o <<e, f>>) = Len(s) + 2 /\ Len(s) \in Nat
           /\ (s \o <<e, f>>)[Len(s) + 1] = e /\ (s \o <<e, f>>)[Len(s) + 2] = f
           /\ \A i \in 1 .. Len(s) : (s \o <<e, f>>)[i] = s[i]
<1>1. <<e, f>> \in Seq(S) /\ Len(<<e, f>>) = 2 /\ <<e, f>>[1] = e /\ <<e, f>>[2] = f
  OBVIOUS
<1> QED
  BY <1>1

LEMMA OneMore ==
    ASSUME NEW S, NEW s \in Seq(S), NEW e \in S
    PROVE  /\ s \o <<e>> \in Seq(S) /\ Len(s \o <<e>>) = Len(s) + 1 /\ Len(s) \in Nat
           /\ (s \o <<e>>)[Len(s) + 1] = e
           /\ \A i \in 1 .. Len(s) : (s \o <<e>>)[i] = s[i]
<1>1. <<e>> \in Seq(S) /\ Len(<<e>>) = 1 /\ <<e>>[1] = e
  OBVIOUS
<1> QED
  BY <1>1

LEMMA TailHolds ==
    ASSUME NEW S, NEW s \in Seq(S), s # <<>>
    PROVE  /\ Len(s) \in Nat /\ Len(s) >= 1 /\ Head(s) = s[1] /\ Head(s) \in S
           /\ Tail(s) \in Seq(S) /\ Len(Tail(s)) = Len(s) - 1
           /\ \A i \in 1 .. Len(s) - 1 : Tail(s)[i] = s[i + 1]
  OBVIOUS

(* A queue t holds the messages of panel p, of the given types, that s     *)
(* holds, the first d messages of s aside: none it did not hold, and all.  *)
Comes(s, t, d, p, types) ==
    /\ d \in {0, 1} /\ Len(s) \in Nat /\ Len(t) \in Nat
    /\ \A i \in 1 .. Len(t) : t[i].panel = p /\ t[i].type \in types =>
          i + d \in 1 .. Len(s) /\ t[i] = s[i + d]

Kept(s, t, d, p, types) ==
    /\ Comes(s, t, d, p, types)
    /\ \A i \in 1 .. Len(s) : s[i].panel = p /\ s[i].type \in types =>
          i - d \in 1 .. Len(t) /\ s[i] = t[i - d]

LEMMA KeptSame ==
    ASSUME NEW S, NEW s \in Seq(S), NEW p, NEW types PROVE Kept(s, s, 0, p, types)
<1>1. Len(s) \in Nat
  OBVIOUS
<1> QED
  BY <1>1 DEF Kept, Comes

LEMMA KeptAppend ==
    ASSUME NEW S, NEW s \in Seq(S), NEW e, NEW p, NEW types, e.panel # p \/ e.type \notin types
    PROVE  Kept(s, Append(s, e), 0, p, types)
<1>1. /\ Len(s) \in Nat /\ Len(Append(s, e)) = Len(s) + 1 /\ Append(s, e)[Len(s) + 1] = e
      /\ \A i \in 1 .. Len(s) : Append(s, e)[i] = s[i]
  BY AppendHolds
<1> DEFINE t == Append(s, e)
<1> HIDE DEF t
<1>2. /\ Len(s) \in Nat /\ Len(t) = Len(s) + 1 /\ t[Len(s) + 1] = e
      /\ \A i \in 1 .. Len(s) : t[i] = s[i]
  BY <1>1 DEF t
<1>3. \A i \in 1 .. Len(t) : i \in 1 .. Len(s) \/ i = Len(s) + 1
  BY <1>2
<1> QED
  BY <1>2, <1>3 DEF Kept, Comes, t

LEMMA KeptTail ==
    ASSUME NEW S, NEW s \in Seq(S), NEW p, NEW types, s # <<>>,
           Head(s).panel # p \/ Head(s).type \notin types
    PROVE  Kept(s, Tail(s), 1, p, types)
<1> DEFINE t == Tail(s)
<1>1. /\ Len(s) \in Nat /\ Len(s) >= 1 /\ Head(s) = s[1] /\ Len(t) = Len(s) - 1
      /\ \A i \in 1 .. Len(s) - 1 : t[i] = s[i + 1]
  BY TailHolds
<1> HIDE DEF t
<1>2. \A i \in 1 .. Len(s) : i = 1 \/ (i - 1 \in 1 .. Len(t) /\ t[i - 1] = s[i])
  <2> SUFFICES ASSUME NEW i \in 1 .. Len(s), i # 1 PROVE i - 1 \in 1 .. Len(t) /\ t[i - 1] = s[i]
    OBVIOUS
  <2>1. i - 1 \in 1 .. Len(s) - 1 /\ (i - 1) + 1 = i
    BY <1>1
  <2> QED
    BY <1>1, <2>1
<1>3. \A i \in 1 .. Len(t) : i + 1 \in 1 .. Len(s) /\ t[i] = s[i + 1]
  BY <1>1
<1> QED
  BY <1>1, <1>2, <1>3 DEF Kept, Comes, t

LEMMA KeptFewer ==
    ASSUME NEW s, NEW t, NEW d, NEW p, NEW types, NEW fewer \in SUBSET types, Kept(s, t, d, p, types)
    PROVE  Kept(s, t, d, p, fewer)
  BY DEF Kept, Comes

LEMMA TailComes ==
    ASSUME NEW S, NEW s \in Seq(S), NEW p, NEW types, s # <<>> PROVE Comes(s, Tail(s), 1, p, types)
<1> DEFINE t == Tail(s)
<1>1. /\ Len(s) \in Nat /\ Len(s) >= 1 /\ Len(t) = Len(s) - 1
      /\ \A i \in 1 .. Len(s) - 1 : t[i] = s[i + 1]
  BY TailHolds
<1> HIDE DEF t
<1>2. \A i \in 1 .. Len(t) : i + 1 \in 1 .. Len(s) /\ t[i] = s[i + 1]
  BY <1>1
<1> QED
  BY <1>1, <1>2 DEF Comes, t

CommandTypes == {"terminal_open", "terminal_input", "terminal_close"}
KeyTypes == {"terminal_open", "terminal_input"}
MessageTypes == {"terminal_data", "terminal_closed"}

(* What a step leaves alone of each part of the invariant.                 *)
LEMMA HearsFrame ==
    ASSUME TermTypeOK, TermTypeOK', NEW p \in Panels, AgentHears(p), NEW d, NEW e,
           handler'[p] = "listening" <=> handler[p] = "listening", p \in sessions' => p \in sessions,
           pty'[p] = pty[p], printed'[p] = printed[p] \/ handler[p] = "listening",
           shown'[p] = shown[p] \/ handler[p] = "listening", got'[p] = got[p],
           Comes(toAgent, toAgent', d, p, CommandTypes),
           handler[p] = "listening" \/ Comes(toPlatform, toPlatform', e, p, MessageTypes)
    PROVE  AgentHears(p)'
<1>1. /\ \A i \in 1 .. Len(toAgent') : toAgent'[i] \in TermCommand
      /\ \A i \in 1 .. Len(toPlatform') : toPlatform'[i] \in TermMessage
      /\ Len(toAgent') \in Nat /\ Len(toAgent) \in Nat
  <2>1. toAgent \in Seq(TermCommand) /\ toAgent' \in Seq(TermCommand) /\ toPlatform' \in Seq(TermMessage)
    BY DEF TermTypeOK, LinkTypeOK
  <2> QED
    BY <2>1
<1>2. /\ \A i \in 1 .. Len(toAgent') : toAgent'[i].type \in CommandTypes
      /\ \A i \in 1 .. Len(toPlatform') : toPlatform'[i].type \in MessageTypes
  BY <1>1 DEF TermCommand, TermMessage, CommandTypes, MessageTypes
<1>3. /\ \A i \in 1 .. Len(toAgent') : toAgent'[i].panel = p =>
            i + d \in 1 .. Len(toAgent) /\ toAgent'[i] = toAgent[i + d]
      /\ handler[p] # "listening" => \A i \in 1 .. Len(toPlatform') : toPlatform'[i].panel = p =>
            i + e \in 1 .. Len(toPlatform) /\ toPlatform'[i] = toPlatform[i + e]
      /\ d \in {0, 1}
  BY <1>2 DEF Comes
<1>4. ASSUME handler'[p] # "listening"
      PROVE  /\ p \notin sessions' /\ pty'[p] = "none" /\ printed'[p] = 0 /\ shown'[p] = <<>> /\ got'[p] = <<>>
             /\ \A i \in 1 .. Len(toAgent') : toAgent'[i].panel # p
             /\ \A i \in 1 .. Len(toPlatform') : toPlatform'[i].panel # p
  BY <1>3, <1>4 DEF AgentHears
<1>5. ASSUME NEW i \in 1 .. Len(toAgent'), toAgent'[i].type = "terminal_close", toAgent'[i].panel = p
      PROVE  p \notin sessions' /\ \A j \in i + 1 .. Len(toAgent') : toAgent'[j].panel # p
  <2>1. i + d \in 1 .. Len(toAgent) /\ toAgent'[i] = toAgent[i + d]
    BY <1>3, <1>5
  <2>2. p \notin sessions /\ \A j \in i + d + 1 .. Len(toAgent) : toAgent[j].panel # p
    BY <1>5, <2>1 DEF AgentHears
  <2>3. ASSUME NEW j \in i + 1 .. Len(toAgent'), toAgent'[j].panel = p PROVE FALSE
    <3>1. j \in 1 .. Len(toAgent')
      BY <1>1
    <3>2. j + d \in 1 .. Len(toAgent) /\ toAgent'[j] = toAgent[j + d]
      BY <1>3, <2>3, <3>1
    <3>3. j + d \in i + d + 1 .. Len(toAgent)
      BY <1>1, <1>3, <3>1, <3>2
    <3> QED
      BY <2>2, <2>3, <3>2, <3>3
  <2> QED
    BY <2>2, <2>3
<1>6. ASSUME NEW i \in 1 .. Len(toAgent'), OpenOf(toAgent'[i], p)
      PROVE  pty'[p] = "none" /\ \A j \in 1 .. i - 1 : toAgent'[j].panel # p
  <2>1. i + d \in 1 .. Len(toAgent) /\ toAgent'[i] = toAgent[i + d]
    BY <1>3, <1>6 DEF OpenOf
  <2>0. OpenOf(toAgent[i + d], p)
    BY <1>6, <2>1 DEF OpenOf
  <2>2. pty[p] = "none" /\ \A j \in 1 .. i + d - 1 : toAgent[j].panel # p
    <3>1. \A k \in 1 .. Len(toAgent) : OpenOf(toAgent[k], p) =>
             pty[p] = "none" /\ \A j \in 1 .. k - 1 : toAgent[j].panel # p
      BY Zenon DEF AgentHears
    <3> QED
      BY <1>3, <2>0, <2>1, <3>1
  <2>3. ASSUME NEW j \in 1 .. i - 1, toAgent'[j].panel = p PROVE FALSE
    <3>1. j \in 1 .. Len(toAgent')
      BY <1>1
    <3>2. j + d \in 1 .. Len(toAgent) /\ toAgent'[j] = toAgent[j + d]
      BY <1>3, <2>3, <3>1
    <3>3. j + d \in 1 .. i + d - 1
      BY <1>1, <1>3, <3>1, <3>2
    <3> QED
      BY <2>2, <2>3, <3>2, <3>3
  <2> QED
    BY <2>2, <2>3
<1>7. (\A i \in 1 .. Len(toAgent) : OpenOf(toAgent[i], p) =>
          pty[p] = "none" /\ \A j \in 1 .. i - 1 : toAgent[j].panel # p)'
  BY <1>6 DEF OpenOf
<1> QED
  BY <1>4, <1>5, <1>7 DEF AgentHears

LEMMA OrderedFrame ==
    ASSUME NEW p \in Panels, OutputOrdered(p), NEW d,
           shown'[p] = shown[p], printed'[p] = printed[p], toBrowser'[p] = toBrowser[p],
           Comes(toPlatform, toPlatform', d, p, {"terminal_data"})
    PROVE  OutputOrdered(p)'
<1>1. /\ d \in {0, 1} /\ Len(toPlatform) \in Nat /\ Len(toPlatform') \in Nat
      /\ \A i \in 1 .. Len(toPlatform') : DataOf(toPlatform'[i], p) =>
            i + d \in 1 .. Len(toPlatform) /\ toPlatform'[i] = toPlatform[i + d]
  BY DEF Comes, DataOf
<1>2. ASSUME NEW i \in 1 .. Len(toPlatform'), DataOf(toPlatform'[i], p)
      PROVE  /\ toPlatform'[i].n \in 1 .. printed[p]
             /\ \A j \in 1 .. Len(shown[p]) : shown[p][j] < toPlatform'[i].n
             /\ \A k \in 1 .. Len(toBrowser[p]) :
                   toBrowser[p][k].type = "data" => toBrowser[p][k].n < toPlatform'[i].n
             /\ \A j \in 1 .. i - 1 : DataOf(toPlatform'[j], p) => toPlatform'[j].n < toPlatform'[i].n
  <2>1. i + d \in 1 .. Len(toPlatform) /\ toPlatform'[i] = toPlatform[i + d]
    BY <1>1, <1>2
  <2>2. ASSUME NEW j \in 1 .. i - 1, DataOf(toPlatform'[j], p) PROVE toPlatform'[j].n < toPlatform'[i].n
    <3>1. j \in 1 .. Len(toPlatform')
      BY <1>1
    <3>2. j + d \in 1 .. Len(toPlatform) /\ toPlatform'[j] = toPlatform[j + d]
      BY <1>1, <2>2, <3>1
    <3>3. j + d \in 1 .. i + d - 1
      BY <1>1, <2>1, <3>1, <3>2
    <3>4. DataOf(toPlatform[i + d], p) /\ DataOf(toPlatform[j + d], p)
      BY <1>2, <2>1, <2>2, <3>2
    <3>5. toPlatform[j + d].n < toPlatform[i + d].n
      <4>1. \A k \in 1 .. Len(toPlatform) : DataOf(toPlatform[k], p) =>
               \A l \in 1 .. k - 1 : DataOf(toPlatform[l], p) => toPlatform[l].n < toPlatform[k].n
        BY DEF OutputOrdered
      <4> QED
        BY <1>1, <2>1, <3>3, <3>4, <4>1
    <3> QED
      BY <2>1, <3>2, <3>5
  <2> QED
    BY <1>2, <2>1, <2>2 DEF OutputOrdered
<1>3. \A m : DataOf(m, p)' <=> DataOf(m, p)
  BY DEF DataOf
<1> QED
  BY <1>2 DEF OutputOrdered, DataOf

LEMMA WholeFrame ==
    ASSUME NEW p \in Panels, OutputWhole(p), NEW d, drops' = drops,
           shown'[p] = shown[p], printed'[p] = printed[p], toBrowser'[p] = toBrowser[p],
           client'[p] = "open" => client[p] = "open", p \in sessions' => p \in sessions,
           browser'[p] = "open" => browser[p] = "open",
           Kept(toPlatform, toPlatform', d, p, {"terminal_data"})
    PROVE  OutputWhole(p)'
<1>1. /\ d \in {0, 1} /\ Len(toPlatform) \in Nat /\ Len(toPlatform') \in Nat
      /\ \A i \in 1 .. Len(toPlatform') : DataOf(toPlatform'[i], p) =>
            i + d \in 1 .. Len(toPlatform) /\ toPlatform'[i] = toPlatform[i + d]
      /\ \A i \in 1 .. Len(toPlatform) : DataOf(toPlatform[i], p) =>
            i - d \in 1 .. Len(toPlatform') /\ toPlatform[i] = toPlatform'[i - d]
  BY DEF Kept, Comes, DataOf
<1>2. OpenAhead(p)' = OpenAhead(p) /\ Sent(p)' = Sent(p)
  BY DEF OpenAhead, Sent
<1>3. ASSUME NoneMissing(p) PROVE NoneMissing(p)'
  <2>1. \A i \in 1 .. Len(toPlatform') : DataOf(toPlatform'[i], p) => toPlatform'[i].n > Sent(p)
    BY <1>1, <1>3 DEF NoneMissing
  <2>2. ASSUME NEW n \in Sent(p) + 1 .. printed[p]
        PROVE  \E i \in 1 .. Len(toPlatform') : DataOf(toPlatform'[i], p) /\ toPlatform'[i].n = n
    <3>1. PICK i \in 1 .. Len(toPlatform) : DataOf(toPlatform[i], p) /\ toPlatform[i].n = n
      BY <1>3 DEF NoneMissing
    <3>2. i - d \in 1 .. Len(toPlatform') /\ toPlatform[i] = toPlatform'[i - d]
      BY <1>1, <3>1
    <3> QED
      BY <3>1, <3>2
  <2> QED
    BY <1>2, <2>1, <2>2 DEF NoneMissing, DataOf
<1> QED
  BY <1>2, <1>3 DEF OutputWhole

(* Likewise for what a panel has sent: the same keystrokes are in t as in  *)
(* s, the first d messages of s aside.                                     *)
KeptInputs(s, t, d) ==
    /\ d \in {0, 1} /\ Len(s) \in Nat /\ Len(t) \in Nat
    /\ \A i \in 1 .. Len(t) : t[i].type = "terminal_input" => i + d \in 1 .. Len(s) /\ t[i] = s[i + d]
    /\ \A i \in 1 .. Len(s) : s[i].type = "terminal_input" => i - d \in 1 .. Len(t) /\ s[i] = t[i - d]

LEMMA InputsSame == ASSUME NEW S, NEW s \in Seq(S) PROVE KeptInputs(s, s, 0)
<1>1. Len(s) \in Nat
  OBVIOUS
<1> QED
  BY <1>1 DEF KeptInputs

LEMMA InputsAppend ==
    ASSUME NEW S, NEW s \in Seq(S), NEW e, e.type # "terminal_input" PROVE KeptInputs(s, Append(s, e), 0)
<1> DEFINE t == Append(s, e)
<1>1. /\ Len(s) \in Nat /\ Len(t) = Len(s) + 1 /\ t[Len(s) + 1] = e
      /\ \A i \in 1 .. Len(s) : t[i] = s[i]
  BY AppendHolds
<1> HIDE DEF t
<1>2. \A i \in 1 .. Len(t) : i \in 1 .. Len(s) \/ i = Len(s) + 1
  BY <1>1
<1> QED
  BY <1>1, <1>2 DEF KeptInputs, t

LEMMA InputsTail ==
    ASSUME NEW S, NEW s \in Seq(S), s # <<>>, Head(s).type # "terminal_input" PROVE KeptInputs(s, Tail(s), 1)
<1> DEFINE t == Tail(s)
<1>1. /\ Len(s) \in Nat /\ Len(s) >= 1 /\ Head(s) = s[1] /\ Len(t) = Len(s) - 1
      /\ \A i \in 1 .. Len(s) - 1 : t[i] = s[i + 1]
  BY TailHolds
<1> HIDE DEF t
<1>2. \A i \in 1 .. Len(s) : i = 1 \/ (i - 1 \in 1 .. Len(t) /\ t[i - 1] = s[i])
  <2> SUFFICES ASSUME NEW i \in 1 .. Len(s), i # 1 PROVE i - 1 \in 1 .. Len(t) /\ t[i - 1] = s[i]
    OBVIOUS
  <2>1. i - 1 \in 1 .. Len(s) - 1 /\ (i - 1) + 1 = i
    BY <1>1
  <2> QED
    BY <1>1, <2>1
<1>3. \A i \in 1 .. Len(t) : i + 1 \in 1 .. Len(s) /\ t[i] = s[i + 1]
  BY <1>1
<1> QED
  BY <1>1, <1>2, <1>3 DEF KeptInputs, t

LEMMA KeysFrame ==
    ASSUME NEW p \in Panels, KeysOrdered(p), NEW d, NEW f,
           got'[p] = got[p], typed'[p] = typed[p], KeptInputs(fromBrowser[p], fromBrowser'[p], f),
           Comes(toAgent, toAgent', d, p, KeyTypes)
    PROVE  KeysOrdered(p)'
<1>1. /\ d \in {0, 1} /\ Len(toAgent) \in Nat /\ Len(toAgent') \in Nat
      /\ \A i \in 1 .. Len(toAgent') : InputOf(toAgent'[i], p) =>
            i + d \in 1 .. Len(toAgent) /\ toAgent'[i] = toAgent[i + d]
  BY DEF Comes, InputOf, KeyTypes
<1>2. \A k \in 1 .. Len(toAgent) : InputOf(toAgent[k], p) =>
          /\ toAgent[k].n \in 1 .. typed[p]
          /\ \A i \in 1 .. Len(got[p]) : got[p][i] < toAgent[k].n
          /\ \A l \in 1 .. k - 1 : InputOf(toAgent[l], p) => toAgent[l].n < toAgent[k].n
  BY DEF KeysOrdered
<1>3. ASSUME NEW k \in 1 .. Len(toAgent'), InputOf(toAgent'[k], p)
      PROVE  /\ toAgent'[k].n \in 1 .. typed[p]
             /\ \A i \in 1 .. Len(got[p]) : got[p][i] < toAgent'[k].n
             /\ \A l \in 1 .. k - 1 : InputOf(toAgent'[l], p) => toAgent'[l].n < toAgent'[k].n
  <2>1. k + d \in 1 .. Len(toAgent) /\ toAgent'[k] = toAgent[k + d]
    BY <1>1, <1>3
  <2>2. ASSUME NEW l \in 1 .. k - 1, InputOf(toAgent'[l], p) PROVE toAgent'[l].n < toAgent'[k].n
    <3>1. l \in 1 .. Len(toAgent')
      BY <1>1
    <3>2. l + d \in 1 .. Len(toAgent) /\ toAgent'[l] = toAgent[l + d]
      BY <1>1, <2>2, <3>1
    <3>3. l + d \in 1 .. k + d - 1
      BY <1>1, <2>1, <3>1, <3>2
    <3>4. InputOf(toAgent[k + d], p) /\ InputOf(toAgent[l + d], p)
      BY <1>3, <2>1, <2>2, <3>2
    <3> QED
      BY <1>1, <1>2, <2>1, <3>2, <3>3, <3>4
  <2> QED
    BY <1>1, <1>2, <1>3, <2>1, <2>2
<1>4. /\ f \in {0, 1} /\ Len(fromBrowser[p]) \in Nat /\ Len(fromBrowser'[p]) \in Nat
      /\ \A i \in 1 .. Len(fromBrowser'[p]) : fromBrowser'[p][i].type = "terminal_input" =>
            i + f \in 1 .. Len(fromBrowser[p]) /\ fromBrowser'[p][i] = fromBrowser[p][i + f]
  BY DEF KeptInputs
<1>5. \A i \in 1 .. Len(fromBrowser[p]) : fromBrowser[p][i].type = "terminal_input" =>
          /\ fromBrowser[p][i].n \in 1 .. typed[p]
          /\ \A j \in 1 .. Len(got[p]) : got[p][j] < fromBrowser[p][i].n
          /\ \A k \in 1 .. Len(toAgent) : InputOf(toAgent[k], p) => toAgent[k].n < fromBrowser[p][i].n
          /\ \A j \in 1 .. i - 1 : fromBrowser[p][j].type = "terminal_input" =>
                fromBrowser[p][j].n < fromBrowser[p][i].n
  BY DEF KeysOrdered
<1>6. ASSUME NEW i \in 1 .. Len(fromBrowser'[p]), fromBrowser'[p][i].type = "terminal_input"
      PROVE  /\ fromBrowser'[p][i].n \in 1 .. typed[p]
             /\ \A j \in 1 .. Len(got[p]) : got[p][j] < fromBrowser'[p][i].n
             /\ \A k \in 1 .. Len(toAgent') : InputOf(toAgent'[k], p) => toAgent'[k].n < fromBrowser'[p][i].n
             /\ \A j \in 1 .. i - 1 : fromBrowser'[p][j].type = "terminal_input" =>
                   fromBrowser'[p][j].n < fromBrowser'[p][i].n
  <2>1. i + f \in 1 .. Len(fromBrowser[p]) /\ fromBrowser'[p][i] = fromBrowser[p][i + f]
    BY <1>4, <1>6
  <2>2. ASSUME NEW j \in 1 .. i - 1, fromBrowser'[p][j].type = "terminal_input"
        PROVE  fromBrowser'[p][j].n < fromBrowser'[p][i].n
    <3>1. j \in 1 .. Len(fromBrowser'[p])
      BY <1>4
    <3>2. j + f \in 1 .. Len(fromBrowser[p]) /\ fromBrowser'[p][j] = fromBrowser[p][j + f]
      BY <1>4, <2>2, <3>1
    <3>3. j + f \in 1 .. i + f - 1
      BY <1>4, <2>1, <3>1, <3>2
    <3> QED
      BY <1>4, <1>5, <1>6, <2>1, <2>2, <3>2, <3>3
  <2>3. \A k \in 1 .. Len(toAgent) : InputOf(toAgent[k], p) => toAgent[k].n < fromBrowser[p][i + f].n
    BY <1>4, <1>5, <1>6, <2>1
  <2> QED
    BY <1>1, <1>4, <1>5, <1>6, <2>1, <2>2, <2>3
<1>7. \A i \in 1 .. Len(got[p]) : /\ got[p][i] <= typed[p]
                                  /\ \A j \in 1 .. i - 1 : got[p][j] < got[p][i]
  BY DEF KeysOrdered
<1> QED
  BY <1>3, <1>6, <1>7 DEF KeysOrdered, InputOf

(* What is under way to the shell, in a queue that kept it.                *)
LEMMA ShellHears ==
    ASSUME NEW p, NEW d, Kept(toAgent, toAgent', d, p, KeyTypes)
    PROVE  /\ d \in {0, 1} /\ Len(toAgent) \in Nat /\ Len(toAgent') \in Nat
           /\ \A i \in 1 .. Len(toAgent') : InputOf(toAgent'[i], p) \/ OpenOf(toAgent'[i], p) =>
                 i + d \in 1 .. Len(toAgent) /\ toAgent'[i] = toAgent[i + d]
           /\ \A i \in 1 .. Len(toAgent) : InputOf(toAgent[i], p) \/ OpenOf(toAgent[i], p) =>
                 i - d \in 1 .. Len(toAgent') /\ toAgent[i] = toAgent'[i - d]
           /\ \A n : ToShell(p, n)' <=> ToShell(p, n)
<1>1. /\ d \in {0, 1} /\ Len(toAgent) \in Nat /\ Len(toAgent') \in Nat
      /\ \A i \in 1 .. Len(toAgent') : InputOf(toAgent'[i], p) \/ OpenOf(toAgent'[i], p) =>
            i + d \in 1 .. Len(toAgent) /\ toAgent'[i] = toAgent[i + d]
      /\ \A i \in 1 .. Len(toAgent) : InputOf(toAgent[i], p) \/ OpenOf(toAgent[i], p) =>
            i - d \in 1 .. Len(toAgent') /\ toAgent[i] = toAgent'[i - d]
  BY DEF Kept, Comes, InputOf, OpenOf, KeyTypes
<1>2. ASSUME NEW n, NEW i \in 1 .. Len(toAgent'), InputOf(toAgent'[i], p), toAgent'[i].n = n
      PROVE  ToShell(p, n)
  <2>1. i + d \in 1 .. Len(toAgent) /\ toAgent'[i] = toAgent[i + d]
    BY <1>1, <1>2
  <2> QED
    BY <1>2, <2>1 DEF ToShell
<1>3. ASSUME NEW n, NEW i \in 1 .. Len(toAgent), InputOf(toAgent[i], p), toAgent[i].n = n
      PROVE  ToShell(p, n)'
  <2>1. i - d \in 1 .. Len(toAgent') /\ toAgent[i] = toAgent'[i - d]
    BY <1>1, <1>3
  <2> QED
    BY <1>3, <2>1 DEF ToShell, InputOf
<1>4. \A n : ToShell(p, n)' <=> ToShell(p, n)
  BY <1>2, <1>3 DEF ToShell, InputOf
<1> QED
  BY <1>1, <1>4

LEMMA InputsKept ==
    ASSUME NEW p, NEW d, KeptInputs(fromBrowser[p], fromBrowser'[p], d)
    PROVE  \A n : FromPanel(p, n)' <=> FromPanel(p, n)
<1>1. ASSUME NEW n, NEW i \in 1 .. Len(fromBrowser'[p]), fromBrowser'[p][i].type = "terminal_input",
             fromBrowser'[p][i].n = n
      PROVE  FromPanel(p, n)
  <2>1. i + d \in 1 .. Len(fromBrowser[p]) /\ fromBrowser'[p][i] = fromBrowser[p][i + d]
    BY <1>1 DEF KeptInputs
  <2> QED
    BY <1>1, <2>1 DEF FromPanel
<1>2. ASSUME NEW n, NEW i \in 1 .. Len(fromBrowser[p]), fromBrowser[p][i].type = "terminal_input",
             fromBrowser[p][i].n = n
      PROVE  FromPanel(p, n)'
  <2>1. i - d \in 1 .. Len(fromBrowser'[p]) /\ fromBrowser[p][i] = fromBrowser'[p][i - d]
    BY <1>2 DEF KeptInputs
  <2> QED
    BY <1>2, <2>1 DEF FromPanel
<1> QED
  BY <1>1, <1>2 DEF FromPanel

LEMMA KeysWholeFrame ==
    ASSUME NEW p \in Panels, KeysWhole(p), NEW d, NEW f, drops' = drops,
           got'[p] = got[p], typed'[p] = typed[p], unheard'[p] = unheard[p], pty'[p] = pty[p],
           KeptInputs(fromBrowser[p], fromBrowser'[p], f), p \in sessions' => p \in sessions,
           Kept(toAgent, toAgent', d, p, KeyTypes)
    PROVE  KeysWhole(p)'
<1> SUFFICES ASSUME drops = 0
             PROVE  KeysWhole(p)'
  BY DEF KeysWhole
<1>1. /\ d \in {0, 1} /\ Len(toAgent) \in Nat /\ Len(toAgent') \in Nat
      /\ \A i \in 1 .. Len(toAgent') : InputOf(toAgent'[i], p) \/ OpenOf(toAgent'[i], p) =>
            i + d \in 1 .. Len(toAgent) /\ toAgent'[i] = toAgent[i + d]
      /\ \A i \in 1 .. Len(toAgent) : InputOf(toAgent[i], p) \/ OpenOf(toAgent[i], p) =>
            i - d \in 1 .. Len(toAgent') /\ toAgent[i] = toAgent'[i - d]
  BY ShellHears
<1>2. \A n : ToShell(p, n)' <=> ToShell(p, n)
  BY ShellHears
<1>3. \A n : (Got(p, n)' <=> Got(p, n)) /\ (FromPanel(p, n)' <=> FromPanel(p, n))
  <2>1. \A n : Got(p, n)' <=> Got(p, n)
    BY DEF Got
  <2>2. \A n : FromPanel(p, n)' <=> FromPanel(p, n)
    BY InputsKept
  <2> QED
    BY <2>1, <2>2
<1>4. ASSUME pty[p] = "none", p \in sessions PROVE \E j \in 1 .. Len(toAgent') : OpenOf(toAgent'[j], p)
  <2>1. PICK j \in 1 .. Len(toAgent) : OpenOf(toAgent[j], p)
    BY <1>4 DEF KeysWhole
  <2>2. j - d \in 1 .. Len(toAgent') /\ toAgent[j] = toAgent'[j - d]
    BY <1>1, <2>1
  <2> QED
    BY <2>1, <2>2
<1>5. ASSUME pty[p] = "none", NEW k \in 1 .. Len(toAgent'), InputOf(toAgent'[k], p)
      PROVE  \E j \in 1 .. k - 1 : OpenOf(toAgent'[j], p)
  <2>1. k + d \in 1 .. Len(toAgent) /\ toAgent'[k] = toAgent[k + d]
    BY <1>1, <1>5
  <2>2. PICK j \in 1 .. k + d - 1 : OpenOf(toAgent[j], p)
    <3>1. InputOf(toAgent[k + d], p)
      BY <1>5, <2>1
    <3>2. \A l \in 1 .. Len(toAgent) : InputOf(toAgent[l], p) => \E j \in 1 .. l - 1 : OpenOf(toAgent[j], p)
      BY <1>5 DEF KeysWhole
    <3> QED
      BY <1>1, <2>1, <3>1, <3>2
  <2>3. j \in 1 .. Len(toAgent)
    BY <1>1, <2>1
  <2>4. j - d \in 1 .. Len(toAgent') /\ toAgent[j] = toAgent'[j - d]
    BY <1>1, <2>2, <2>3
  <2>5. j - d \in 1 .. k - 1
    BY <1>1, <2>1, <2>4
  <2> QED
    BY <2>2, <2>4, <2>5
<1>7. /\ \A i \in 1 .. Len(got[p]) : got[p][i] > unheard[p] + 1 => i > 1 /\ got[p][i - 1] = got[p][i] - 1
      /\ pty[p] # "exited" /\ p \in sessions => \A n \in unheard[p] + 1 .. typed[p] :
            Got(p, n) \/ ToShell(p, n) \/ FromPanel(p, n)
      /\ pty[p] # "exited" => \A n \in unheard[p] + 2 .. typed[p] :
            ToShell(p, n) => Got(p, n - 1) \/ ToShell(p, n - 1)
  BY DEF KeysWhole
<1>8. \A m : (InputOf(m, p)' <=> InputOf(m, p)) /\ (OpenOf(m, p)' <=> OpenOf(m, p))
  BY DEF InputOf, OpenOf
<1> DEFINE A == \A k \in 1 .. Len(toAgent') : InputOf(toAgent'[k], p)
                   => \E j \in 1 .. k - 1 : OpenOf(toAgent'[j], p)
<1>9. pty[p] = "none" => /\ p \in sessions' => \E j \in 1 .. Len(toAgent') : OpenOf(toAgent'[j], p)
                         /\ A
  BY <1>4, <1>5
<1>10. ASSUME pty[p] # "exited"
       PROVE  /\ \A n \in unheard[p] + 2 .. typed[p] :
                    ToShell(p, n)' => Got(p, n - 1)' \/ ToShell(p, n - 1)'
              /\ p \in sessions' => \A n \in unheard[p] + 1 .. typed[p] :
                    Got(p, n)' \/ ToShell(p, n)' \/ FromPanel(p, n)'
  BY <1>2, <1>3, <1>7, <1>10
<1> QED
  <2>1. \A n : (Got(p, n)' <=> Got(p, n)) /\ (FromPanel(p, n)' <=> FromPanel(p, n)) /\ (ToShell(p, n)' <=> ToShell(p, n))
    BY <1>2, <1>3
  <2> QED
    BY <1>7, <1>8, <1>9, <1>10, <2>1 DEF KeysWhole

(* A panel that does not act.                                              *)
PanelSame(q) ==
    /\ panel'[q] = panel[q] /\ client'[q] = client[q] /\ typed'[q] = typed[q] /\ unheard'[q] = unheard[q]
    /\ shown'[q] = shown[q] /\ fromBrowser'[q] = fromBrowser[q] /\ toBrowser'[q] = toBrowser[q]
    /\ handler'[q] = handler[q] /\ browser'[q] = browser[q] /\ (q \in sessions' <=> q \in sessions)
    /\ pty'[q] = pty[q] /\ got'[q] = got[q] /\ printed'[q] = printed[q]

LEMMA NothingTyped ==
    ASSUME TermTypeOK, NEW q \in Panels, fromBrowser'[q] = fromBrowser[q]
    PROVE  KeptInputs(fromBrowser[q], fromBrowser'[q], 0)
<1>1. fromBrowser[q] \in Seq(BrowserMsg)
  BY TermTypes
<1> QED
  BY <1>1, InputsSame

LEMMA HoldsFrame ==
    ASSUME NEW q \in Panels, PanelHolds(q), panel'[q] = panel[q], client'[q] = client[q],
           typed'[q] = typed[q], unheard'[q] = unheard[q], shown'[q] = shown[q],
           fromBrowser'[q] = fromBrowser[q], toBrowser'[q] = toBrowser[q], handler'[q] = handler[q],
           browser'[q] = browser[q], q \in sessions' <=> q \in sessions
    PROVE  PanelHolds(q)'
<1>1. (Early(q)' <=> Early(q)) /\ (LastIsClose(q)' <=> LastIsClose(q)) /\ (BrowserQueue(q)' <=> BrowserQueue(q))
  BY DEF Early, LastIsClose, BrowserQueue
<1> QED
  BY <1>1 DEF PanelHolds

LEMMA OthersKeep ==
    ASSUME TermInv, TermTypeOK', NEW q \in Panels, PanelSame(q), drops' = drops, NEW d, NEW e,
           Kept(toAgent, toAgent', d, q, CommandTypes), Kept(toPlatform, toPlatform', e, q, MessageTypes)
    PROVE  PanelInv(q)'
<1>0. TermTypeOK /\ PanelInv(q)
  BY DEF TermInv
<1>1. Kept(toAgent, toAgent', d, q, KeyTypes) /\ Kept(toPlatform, toPlatform', e, q, {"terminal_data"})
  BY KeptFewer DEF CommandTypes, KeyTypes, MessageTypes
<1>2. PanelHolds(q)'
  BY <1>0, HoldsFrame DEF PanelSame, PanelInv
<1>3. AgentHears(q)'
  BY <1>0, HearsFrame DEF PanelSame, PanelInv, Kept
<1>4. OutputOrdered(q)' /\ OutputWhole(q)'
  BY <1>0, <1>1, OrderedFrame, WholeFrame DEF PanelSame, PanelInv, Kept
<1>5. KeysOrdered(q)' /\ KeysWhole(q)'
  BY <1>0, <1>1, NothingTyped, KeysFrame, KeysWholeFrame DEF PanelSame, PanelInv, Kept
<1> QED
  BY <1>2, <1>3, <1>4, <1>5 DEF PanelInv

LEMMA OnePanel ==
    ASSUME TermInv, TermTypeOK', LinkHolds', drops' = drops, NEW p \in Panels, PanelInv(p)',
           \A q \in Panels \ {p} : PanelSame(q), NEW d, NEW e,
           \A q \in Panels \ {p} : /\ Kept(toAgent, toAgent', d, q, CommandTypes)
                                   /\ Kept(toPlatform, toPlatform', e, q, MessageTypes)
    PROVE  TermInv'
<1>1. \A q \in Panels : PanelInv(q)'
  BY OthersKeep
<1> QED
  BY <1>1 DEF TermInv

(* The common case: nothing is sent to the agent or heard from it.         *)
LEMMA AtPanel ==
    ASSUME TermInv, TermTypeOK', UNCHANGED link, NEW p \in Panels, PanelInv(p)',
           \A q \in Panels \ {p} : PanelSame(q)
    PROVE  TermInv'
<1>1. /\ toAgent \in Seq(TermCommand) /\ toPlatform \in Seq(TermMessage)
      /\ toAgent' = toAgent /\ toPlatform' = toPlatform /\ up' = up /\ drops' = drops
  BY TermTypes DEF TermInv, link
<1>2. LinkHolds'
  BY <1>1 DEF TermInv, LinkHolds
<1>3. \A q \in Panels \ {p} : /\ Kept(toAgent, toAgent', 0, q, CommandTypes)
                               /\ Kept(toPlatform, toPlatform', 0, q, MessageTypes)
  BY <1>1, KeptSame
<1> QED
  BY <1>1, <1>2, <1>3, OnePanel

LEMMA TypesAgain ==
    ASSUME LinkTypeOK(TermCommand, TermMessage)',
           panel' \in [Panels -> PanelStatus], client' \in [Panels -> {"none", "open", "closed"}],
           typed' \in [Panels -> 0 .. MaxChunks], unheard' \in [Panels -> 0 .. MaxChunks],
           shown' \in [Panels -> Seq(Chunks)], got' \in [Panels -> Seq(Chunks)],
           fromBrowser' \in [Panels -> Seq(BrowserMsg)], toBrowser' \in [Panels -> Seq(PanelMsg)],
           handler' \in [Panels -> HandlerStatus], browser' \in [Panels -> {"none", "open", "closed"}],
           pty' \in [Panels -> {"none", "running", "exited"}], printed' \in [Panels -> 0 .. MaxChunks],
           sessions' \subseteq Panels
    PROVE  TermTypeOK'
  BY DEF TermTypeOK, BrowserMsg, PanelMsg, PanelStatus, HandlerStatus, Chunks, TermCommand, TermMessage

LEMMA LinkSame == ASSUME TermTypeOK, UNCHANGED link PROVE LinkTypeOK(TermCommand, TermMessage)'
  BY DEF TermTypeOK, LinkTypeOK, link, TermCommand, TermMessage

LEMMA NothingRelayed ==
    ASSUME TermInv, NEW p, UNCHANGED link
    PROVE  /\ Kept(toAgent, toAgent', 0, p, KeyTypes) /\ Comes(toAgent, toAgent', 0, p, KeyTypes)
           /\ Kept(toPlatform, toPlatform', 0, p, {"terminal_data"})
           /\ Comes(toPlatform, toPlatform', 0, p, {"terminal_data"})
           /\ Comes(toAgent, toAgent', 0, p, CommandTypes) /\ Comes(toPlatform, toPlatform', 0, p, MessageTypes)
<1>1. /\ toAgent \in Seq(TermCommand) /\ toPlatform \in Seq(TermMessage)
      /\ toAgent' = toAgent /\ toPlatform' = toPlatform
  BY TermTypes DEF TermInv, link
<1> QED
  BY <1>1, KeptSame DEF Kept

LEMMA RefusesKeep ==
    ASSUME TermInv, NEW p \in Panels, handler[p] \in {"session", "host"}, Refuse(p)
    PROVE  TermInv'
<1> DEFINE msgs == <<Msg("error", 0), Msg("close", 0)>>
<1>0. /\ TermTypeOK /\ PanelInv(p) /\ Early(p) /\ UNCHANGED link
      /\ UNCHANGED <<panel, client, typed, unheard, shown, fromBrowser, sessions, pty, got, printed>>
      /\ browser' = [browser EXCEPT ![p] = "closed"] /\ handler' = [handler EXCEPT ![p] = "returned"]
  BY DEF TermInv, Refuse, inBrowser, onHost, Early
<1>1. /\ toBrowser \in [Panels -> Seq(PanelMsg)] /\ toBrowser[p] = <<>>
      /\ handler \in [Panels -> HandlerStatus] /\ browser \in [Panels -> {"none", "open", "closed"}]
  BY <1>0, TermTypes DEF PanelInv, PanelHolds
<1>2. /\ msgs \in Seq(PanelMsg) /\ <<>> \o msgs = msgs /\ Len(msgs) = 2 /\ msgs # <<>>
      /\ msgs[1].type = "error" /\ msgs[2].type = "close"
  BY TerminalAssumption DEF PanelMsg, Msg
<1>3. toBrowser' = IF browser[p] = "open" THEN [toBrowser EXCEPT ![p] = msgs] ELSE toBrowser
  BY <1>1, <1>2 DEF Refuse, ToBrowser
<1> HIDE DEF msgs
<1>4. TermTypeOK'
  <2>1. toBrowser' \in [Panels -> Seq(PanelMsg)]
    BY <1>1, <1>2, <1>3
  <2>2. handler' \in [Panels -> HandlerStatus] /\ browser' \in [Panels -> {"none", "open", "closed"}]
    BY <1>0, <1>1 DEF HandlerStatus
  <2> QED
    BY <1>0, <2>1, <2>2, TermTypes, TypesAgain, LinkSame
<1>5. \A q \in Panels \ {p} : PanelSame(q)
  BY <1>0, <1>1, <1>3 DEF PanelSame
<1>6. /\ browser'[p] = "closed" /\ handler'[p] = "returned" /\ toBrowser'[p] \in {<<>>, msgs}
      /\ browser[p] = "open" => toBrowser'[p] = msgs
  BY <1>0, <1>1, <1>3
<1>7. \A i \in 1 .. Len(toBrowser'[p]) : toBrowser'[p] = msgs /\ Len(toBrowser'[p]) = 2 /\ (i = 1 \/ i = 2)
  <2>1. CASE toBrowser'[p] = msgs
    <3>1. Len(toBrowser'[p]) = 2
      BY <1>2, <2>1, Zenon
    <3> QED
      BY <2>1, <3>1
  <2>2. CASE toBrowser'[p] = <<>>
    <3>1. Len(toBrowser'[p]) = 0
      BY <2>2
    <3> QED
      BY <3>1
  <2> QED
    BY <1>6, <2>1, <2>2
<1>8. PanelHolds(p)'
  <2>1. browser[p] = "open" => LastIsClose(p)'
    BY <1>2, <1>6 DEF LastIsClose
  <2>2. client[p] = "open" => browser[p] = "open"
    BY <1>0, <1>1 DEF PanelInv, PanelHolds, LastIsClose
  <2>3. BrowserQueue(p)'
    <3>1. \A i \in 1 .. Len(toBrowser'[p]) :
             /\ toBrowser'[p][i].type \in {"error", "close"}
             /\ toBrowser'[p][i].type = "close" <=> i = 2
             /\ Len(toBrowser'[p]) = 2
      BY <1>2, <1>7
    <3>2. ASSUME NEW i \in 1 .. Len(toBrowser'[p])
          PROVE  \A j \in i + 1 .. Len(toBrowser'[p]) : toBrowser'[p][j].type = "close"
      <4>1. \A j \in i + 1 .. Len(toBrowser'[p]) : j = 2 /\ j \in 1 .. Len(toBrowser'[p])
        BY <3>1, <1>7
      <4> QED
        BY <3>1, <4>1
    <3>3. \A i \in 1 .. Len(toBrowser'[p]) :
             /\ toBrowser'[p][i].type \notin {"open", "data"}
             /\ toBrowser'[p][i].type = "close" => i = Len(toBrowser'[p])
      BY <3>1
    <3> QED
      BY <1>6, <3>2, <3>3 DEF BrowserQueue
  <2> QED
    BY <1>0, <1>6, <2>1, <2>2, <2>3 DEF PanelInv, PanelHolds, Early
<1>9. AgentHears(p)'
  BY <1>0, <1>6 DEF PanelInv, AgentHears, Early, link, OpenOf
<1>10. /\ p \notin sessions /\ shown[p] = <<>> /\ Len(shown[p]) = 0
       /\ \A i \in 1 .. Len(toPlatform) : ~DataOf(toPlatform[i], p)
  BY <1>0 DEF PanelInv, AgentHears, Early, DataOf
<1>11. \A k \in 1 .. Len(toBrowser'[p]) : toBrowser'[p][k].type # "data"
  BY <1>2, <1>7
<1>12. OutputOrdered(p)' /\ OutputWhole(p)'
  BY <1>0, <1>10, <1>11 DEF OutputOrdered, OutputWhole, link, DataOf
<1>13. KeysOrdered(p)' /\ KeysWhole(p)'
  BY <1>0, NothingRelayed, NothingTyped, KeysFrame, KeysWholeFrame DEF PanelInv, link
<1> QED
  BY <1>0, <1>4, <1>5, <1>8, <1>9, <1>12, <1>13, AtPanel DEF PanelInv

LEMMA HandlerKeeps ==
    ASSUME TermInv, NEW p \in Panels, CheckSession(p) \/ NoHost(p) \/ HandlerRejects(p)
    PROVE  TermInv'
<1> SUFFICES ASSUME NEW at \in {"host", "rejected"}, handler[p] \in {"session", "host"},
                    handler' = [handler EXCEPT ![p] = at],
                    UNCHANGED <<inBrowser, fromBrowser, toBrowser, browser, sessions, onHost, link>>
             PROVE  TermInv'
  BY RefusesKeep DEF CheckSession, NoHost, HandlerRejects
<1>0. /\ TermTypeOK /\ PanelInv(p) /\ UNCHANGED link
      /\ UNCHANGED <<panel, client, typed, unheard, shown, fromBrowser, toBrowser, browser, sessions, pty,
                     got, printed>>
  BY DEF TermInv, inBrowser, onHost
<1>1. handler \in [Panels -> HandlerStatus]
  BY <1>0, TermTypes
<1>2. handler' \in [Panels -> HandlerStatus] /\ handler'[p] = at
  BY <1>1 DEF HandlerStatus
<1>3. TermTypeOK'
  BY <1>0, <1>2, TermTypes, TypesAgain, LinkSame
<1>4. \A q \in Panels \ {p} : PanelSame(q)
  BY <1>0, <1>1 DEF PanelSame
<1>5. PanelHolds(p)'
  <2>1. Early(p) /\ Early(p)' /\ toBrowser[p] = <<>> /\ Len(toBrowser[p]) = 0
    BY <1>0, <1>2 DEF PanelInv, PanelHolds, Early
  <2>2. BrowserQueue(p)' /\ (LastIsClose(p)' <=> LastIsClose(p))
    BY <1>0, <2>1 DEF BrowserQueue, LastIsClose
  <2>3. /\ panel[p] \notin {"none", "open"} /\ typed[p] = unheard[p]
        /\ client[p] = "open" => panel[p] = "connecting" /\ (browser[p] = "open" \/ LastIsClose(p))
        /\ \A i \in 1 .. Len(fromBrowser[p]) : fromBrowser[p][i].type = "close" => client[p] # "open"
    BY <1>0, <2>1 DEF PanelInv, PanelHolds
  <2>4. handler'[p] # "listening" /\ handler'[p] # "none"
    BY <1>2
  <2>5. /\ panel'[p] = panel[p] /\ client'[p] = client[p] /\ typed'[p] = typed[p]
        /\ unheard'[p] = unheard[p] /\ fromBrowser'[p] = fromBrowser[p] /\ toBrowser'[p] = <<>>
        /\ browser'[p] = browser[p]
    BY <1>0, <2>1
  <2> QED
    BY <2>2, <2>3, <2>4, <2>5 DEF PanelHolds
<1>6. AgentHears(p)'
  <2>1. handler'[p] = "listening" <=> handler[p] = "listening"
    BY <1>2
  <2>2. /\ pty'[p] = pty[p] /\ printed'[p] = printed[p] /\ got'[p] = got[p] /\ shown'[p] = shown[p]
        /\ sessions' = sessions
    BY <1>0
  <2>3. /\ Comes(toAgent, toAgent', 0, p, CommandTypes) /\ Comes(toPlatform, toPlatform', 0, p, MessageTypes)
    BY <1>0, NothingRelayed
  <2>4. AgentHears(p)
    BY <1>0 DEF PanelInv
  <2> QED
    BY <1>0, <1>3, <2>1, <2>2, <2>3, <2>4, HearsFrame
<1>7. OutputOrdered(p)' /\ OutputWhole(p)'
  BY <1>0, NothingRelayed, OrderedFrame, WholeFrame DEF PanelInv, link
<1>8. KeysOrdered(p)' /\ KeysWhole(p)'
  BY <1>0, NothingRelayed, NothingTyped, KeysFrame, KeysWholeFrame DEF PanelInv, link
<1> QED
  BY <1>0, <1>3, <1>4, <1>5, <1>6, <1>7, <1>8, AtPanel DEF PanelInv

LEMMA MountKeeps == ASSUME TermInv, NEW p \in Panels, Mount(p) PROVE TermInv'
<1>0. /\ TermTypeOK /\ PanelInv(p) /\ UNCHANGED link /\ panel[p] = "none"
      /\ panel' = [panel EXCEPT ![p] = "connecting"] /\ client' = [client EXCEPT ![p] = "open"]
      /\ handler' = [handler EXCEPT ![p] = "session"] /\ browser' = [browser EXCEPT ![p] = "open"]
      /\ UNCHANGED <<typed, unheard, shown, fromBrowser, toBrowser, sessions, pty, got, printed>>
  BY DEF TermInv, Mount, onHost
<1>1. /\ panel \in [Panels -> PanelStatus] /\ client \in [Panels -> {"none", "open", "closed"}]
      /\ handler \in [Panels -> HandlerStatus] /\ browser \in [Panels -> {"none", "open", "closed"}]
  BY <1>0, TermTypes
<1>2. /\ panel'[p] = "connecting" /\ client'[p] = "open" /\ handler'[p] = "session" /\ browser'[p] = "open"
      /\ panel' \in [Panels -> PanelStatus] /\ client' \in [Panels -> {"none", "open", "closed"}]
      /\ handler' \in [Panels -> HandlerStatus] /\ browser' \in [Panels -> {"none", "open", "closed"}]
  BY <1>0, <1>1 DEF PanelStatus, HandlerStatus
<1>3. TermTypeOK'
  BY <1>0, <1>2, TermTypes, TypesAgain, LinkSame
<1>4. \A q \in Panels \ {p} : PanelSame(q)
  BY <1>0, <1>1 DEF PanelSame
<1>5. /\ handler[p] = "none" /\ fromBrowser[p] = <<>> /\ toBrowser[p] = <<>> /\ typed[p] = unheard[p]
      /\ Len(toBrowser[p]) = 0 /\ Len(fromBrowser[p]) = 0
  BY <1>0 DEF PanelInv, PanelHolds, Early
<1>6. PanelHolds(p)'
  <2>1. BrowserQueue(p)'
    BY <1>0, <1>5 DEF BrowserQueue
  <2> QED
    BY <1>0, <1>2, <1>5, <2>1 DEF PanelHolds
<1>7. AgentHears(p)'
  <2>1. handler'[p] = "listening" <=> handler[p] = "listening"
    BY <1>2, <1>5
  <2> QED
    BY <1>0, <1>3, <2>1, NothingRelayed, HearsFrame DEF PanelInv
<1>8. OutputOrdered(p)'
  BY <1>0, NothingRelayed, OrderedFrame DEF PanelInv
<1>9. OutputWhole(p)'
  <2>1. /\ p \notin sessions /\ shown[p] = <<>> /\ Len(shown[p]) = 0
    BY <1>0, <1>5 DEF PanelInv, AgentHears
  <2> QED
    BY <1>0, <1>5, <2>1 DEF OutputWhole
<1>10. KeysOrdered(p)' /\ KeysWhole(p)'
  BY <1>0, NothingRelayed, NothingTyped, KeysFrame, KeysWholeFrame DEF PanelInv, link
<1> QED
  BY <1>0, <1>3, <1>4, <1>6, <1>7, <1>8, <1>9, <1>10, AtPanel DEF PanelInv

(* The panel is left, or its socket breaks.                                *)
LEMMA PanelEnds ==
    ASSUME TermInv, NEW p \in Panels, NEW status \in {"left", "abandoned", "error", "closed"},
           panel' = [panel EXCEPT ![p] = status], client' = [client EXCEPT ![p] = "closed"],
           \/ fromBrowser' = [fromBrowser EXCEPT ![p] = Append(fromBrowser[p], Msg("close", 0))]
           \/ fromBrowser' = fromBrowser,
           toBrowser' = [toBrowser EXCEPT ![p] = <<>>],
           UNCHANGED <<typed, unheard, shown, handler, browser, sessions, onHost, link>>
    PROVE  TermInv'
<1>0. /\ TermTypeOK /\ PanelInv(p) /\ UNCHANGED link
      /\ UNCHANGED <<typed, unheard, shown, handler, browser, sessions, pty, got, printed>>
  BY DEF TermInv, onHost
<1>1. /\ panel \in [Panels -> PanelStatus] /\ client \in [Panels -> {"none", "open", "closed"}]
      /\ fromBrowser \in [Panels -> Seq(BrowserMsg)] /\ toBrowser \in [Panels -> Seq(PanelMsg)]
      /\ shown \in [Panels -> Seq(Chunks)] /\ drops \in Nat
  BY <1>0, TermTypes
<1>2. /\ panel'[p] = status /\ client'[p] = "closed" /\ toBrowser'[p] = <<>> /\ Len(toBrowser'[p]) = 0
      /\ panel' \in [Panels -> PanelStatus] /\ client' \in [Panels -> {"none", "open", "closed"}]
  BY <1>1 DEF PanelStatus
<1>3. toBrowser' \in [Panels -> Seq(PanelMsg)]
  <2>1. <<>> \in Seq(PanelMsg)
    OBVIOUS
  <2> QED
    BY <1>1, <2>1
<1>4. Msg("close", 0) \in BrowserMsg /\ Msg("close", 0).type = "close"
  BY TerminalAssumption DEF Msg, BrowserMsg
<1>5. /\ fromBrowser' \in [Panels -> Seq(BrowserMsg)]
      /\ fromBrowser'[p] = fromBrowser[p] \/ fromBrowser'[p] = Append(fromBrowser[p], Msg("close", 0))
      /\ fromBrowser[p] \in Seq(BrowserMsg)
  <2>1. Append(fromBrowser[p], Msg("close", 0)) \in Seq(BrowserMsg) /\ fromBrowser[p] \in Seq(BrowserMsg)
    BY <1>1, <1>4
  <2> QED
    BY <1>1, <2>1
<1>6. TermTypeOK'
  BY <1>0, <1>2, <1>3, <1>5, TermTypes, TypesAgain, LinkSame
<1>7. \A q \in Panels \ {p} : PanelSame(q)
  BY <1>0, <1>1 DEF PanelSame
<1>8. PanelHolds(p)'
  <2>1. BrowserQueue(p)'
    BY <1>2 DEF BrowserQueue
  <2>2. Early(p)' => typed'[p] = unheard'[p]
    BY <1>0 DEF PanelInv, PanelHolds, Early
  <2> QED
    BY <1>2, <2>1, <2>2 DEF PanelHolds
<1>9. AgentHears(p)'
  BY <1>0, <1>6, NothingRelayed, HearsFrame DEF PanelInv
<1>10. OutputOrdered(p)'
  BY <1>0, <1>2 DEF PanelInv, OutputOrdered, link, DataOf
<1>11. OutputWhole(p)'
  BY <1>0, <1>2 DEF PanelInv, OutputWhole, link
<1>12. KeptInputs(fromBrowser[p], fromBrowser'[p], 0)
  <2>1. CASE fromBrowser'[p] = fromBrowser[p]
    BY <1>5, <2>1, InputsSame
  <2>2. CASE fromBrowser'[p] = Append(fromBrowser[p], Msg("close", 0))
    BY <1>4, <1>5, <2>2, InputsAppend
  <2> QED
    BY <1>5, <2>1, <2>2
<1>13. KeysOrdered(p)' /\ KeysWhole(p)'
  BY <1>0, <1>12, NothingRelayed, KeysFrame, KeysWholeFrame DEF PanelInv, link
<1> QED
  BY <1>0, <1>6, <1>7, <1>8, <1>9, <1>10, <1>11, <1>13, AtPanel DEF PanelInv

LEMMA LeaveKeeps == ASSUME TermInv, NEW p \in Panels, Leave(p) \/ BreakSocket(p) PROVE TermInv'
<1>0. panel \in [Panels -> PanelStatus] /\ fromBrowser \in [Panels -> Seq(BrowserMsg)]
  BY TermTypes DEF TermInv
<1>1. CASE Leave(p)
  <2> DEFINE status == IF panel[p] = "open" THEN "left" ELSE "abandoned"
  <2>1. status \in {"left", "abandoned", "error", "closed"}
    OBVIOUS
  <2>2. panel' = [panel EXCEPT ![p] = status]
    BY <1>0, <1>1 DEF Leave
  <2> HIDE DEF status
  <2>3. \/ fromBrowser' = [fromBrowser EXCEPT ![p] = Append(fromBrowser[p], Msg("close", 0))]
        \/ fromBrowser' = fromBrowser
    BY <1>0, <1>1 DEF Leave
  <2> QED
    BY <1>1, <2>1, <2>2, <2>3, PanelEnds DEF Leave
<1>2. ASSUME BreakSocket(p), panel' = [panel EXCEPT ![p] = "error"] PROVE TermInv'
  BY <1>0, <1>2, PanelEnds DEF BreakSocket
<1>3. ASSUME BreakSocket(p),
             panel' = [panel EXCEPT ![p] = IF @ \in {"closed", "error"} THEN @ ELSE "closed"]
      PROVE TermInv'
  <2> DEFINE status == IF panel[p] \in {"closed", "error"} THEN panel[p] ELSE "closed"
  <2>1. status \in {"left", "abandoned", "error", "closed"}
    OBVIOUS
  <2>2. panel' = [panel EXCEPT ![p] = status]
    BY <1>0, <1>3
  <2> HIDE DEF status
  <2> QED
    BY <1>0, <1>3, <2>1, <2>2, PanelEnds DEF BreakSocket
<1> QED
  BY <1>1, <1>2, <1>3 DEF BreakSocket

LEMMA TypeKeeps == ASSUME TermInv, NEW p \in Panels, Type(p) PROVE TermInv'
<1>0. /\ TermTypeOK /\ PanelInv(p) /\ UNCHANGED link /\ client[p] = "open" /\ typed[p] < MaxChunks
      /\ UNCHANGED <<panel, client, shown, toBrowser, handler, browser, sessions, pty, got, printed>>
  BY DEF TermInv, Type, onHost
<1>1. /\ typed \in [Panels -> 0 .. MaxChunks] /\ unheard \in [Panels -> 0 .. MaxChunks]
      /\ fromBrowser \in [Panels -> Seq(BrowserMsg)] /\ fromBrowser[p] \in Seq(BrowserMsg)
      /\ typed[p] \in Nat /\ unheard[p] \in Nat
  BY <1>0, TermTypes, TerminalAssumption
<1>n. PICK n \in 1 .. MaxChunks : n = typed[p] + 1
  BY <1>0, <1>1, TerminalAssumption
<1> DEFINE early == IF panel[p] = "connecting" THEN unheard[p] + 1 ELSE unheard[p]
           key == Msg("terminal_input", n)
<1>2. n \in 1 .. MaxChunks /\ early \in 0 .. MaxChunks
  <2>1. panel[p] = "connecting" => unheard[p] = typed[p]
    BY <1>0 DEF PanelInv, PanelHolds
  <2> QED
    BY <1>0, <1>1, <1>n, <2>1, TerminalAssumption
<1>3. /\ typed' = [typed EXCEPT ![p] = n] /\ typed'[p] = n
      /\ unheard' = [unheard EXCEPT ![p] = early] /\ unheard'[p] = early
      /\ fromBrowser' = [fromBrowser EXCEPT ![p] = Append(fromBrowser[p], key)]
  BY <1>1, <1>n DEF Type
<1>4. key \in BrowserMsg /\ key.type = "terminal_input" /\ key.n = n
  BY <1>2 DEF Msg, BrowserMsg
<1>5. /\ early >= unheard[p] /\ n = typed[p] + 1 /\ early \in Nat
      /\ panel[p] = "connecting" => early = n
      /\ panel[p] # "connecting" => early = unheard[p]
  <2>1. panel[p] = "connecting" => unheard[p] = typed[p]
    BY <1>0 DEF PanelInv, PanelHolds
  <2> QED
    BY <1>1, <1>n, <2>1
<1> HIDE DEF early, key
<1>6. Append(fromBrowser[p], key) \in Seq(BrowserMsg) /\ fromBrowser'[p] = Append(fromBrowser[p], key)
  BY <1>1, <1>3, <1>4
<1>7. TermTypeOK'
  <2>1. /\ typed' \in [Panels -> 0 .. MaxChunks] /\ unheard' \in [Panels -> 0 .. MaxChunks]
        /\ fromBrowser' \in [Panels -> Seq(BrowserMsg)]
    BY <1>1, <1>2, <1>3, <1>6
  <2> QED
    BY <1>0, <2>1, TermTypes, TypesAgain, LinkSame
<1>8. \A q \in Panels \ {p} : PanelSame(q)
  BY <1>0, <1>1, <1>3 DEF PanelSame
<1> DEFINE s == fromBrowser[p]
           t == fromBrowser'[p]
<1>9. /\ Len(s) \in Nat /\ Len(t) = Len(s) + 1 /\ t[Len(s) + 1] = key /\ \A i \in 1 .. Len(s) : t[i] = s[i]
  BY <1>1, <1>6, AppendHolds
<1>10. \A i \in 1 .. Len(t) : i \in 1 .. Len(s) \/ i = Len(s) + 1
  BY <1>9
<1>11. PanelHolds(p)'
  <2>1. \A i \in 1 .. Len(t) : t[i].type # "close"
    BY <1>0, <1>4, <1>9, <1>10 DEF PanelInv, PanelHolds
  <2>2. /\ panel[p] # "none" /\ Early(p) => panel[p] = "connecting"
    BY <1>0 DEF PanelInv, PanelHolds
  <2>3. (Early(p)' <=> Early(p)) /\ (LastIsClose(p)' <=> LastIsClose(p)) /\ (BrowserQueue(p)' <=> BrowserQueue(p))
    BY <1>0 DEF Early, LastIsClose, BrowserQueue
  <2> QED
    BY <1>0, <1>3, <1>5, <2>1, <2>2, <2>3 DEF PanelInv, PanelHolds
<1>12. AgentHears(p)'
  BY <1>0, <1>7, NothingRelayed, HearsFrame DEF PanelInv
<1>13. OutputOrdered(p)' /\ OutputWhole(p)'
  BY <1>0, NothingRelayed, OrderedFrame, WholeFrame DEF PanelInv, link
<1>14. KeysOrdered(p)'
  <2>0. toAgent' = toAgent /\ got' = got /\ KeysOrdered(p)
    BY <1>0 DEF link, PanelInv
  <2>1. ASSUME NEW i \in 1 .. Len(got[p])
        PROVE  got[p][i] <= typed[p] /\ got[p][i] <= n /\ \A j \in 1 .. i - 1 : got[p][j] < got[p][i]
    <3>1. got[p][i] \in Nat
      <4>1. got[p] \in Seq(Chunks)
        BY <1>0, TermTypes
      <4> QED
        BY <4>1, TerminalAssumption DEF Chunks
    <3> QED
      BY <1>1, <1>5, <2>0, <3>1 DEF KeysOrdered
  <2>2. ASSUME NEW k \in 1 .. Len(toAgent), InputOf(toAgent[k], p)
        PROVE  /\ toAgent[k].n \in 1 .. n /\ toAgent[k].n < n
               /\ \A i \in 1 .. Len(got[p]) : got[p][i] < toAgent[k].n
               /\ \A l \in 1 .. k - 1 : InputOf(toAgent[l], p) => toAgent[l].n < toAgent[k].n
    BY <1>1, <1>5, <2>0, <2>2 DEF KeysOrdered
  <2>3. ASSUME NEW i \in 1 .. Len(s), s[i].type = "terminal_input"
        PROVE  /\ s[i].n \in 1 .. n /\ s[i].n < n
               /\ \A j \in 1 .. Len(got[p]) : got[p][j] < s[i].n
               /\ \A k \in 1 .. Len(toAgent) : InputOf(toAgent[k], p) => toAgent[k].n < s[i].n
               /\ \A j \in 1 .. i - 1 : s[j].type = "terminal_input" => s[j].n < s[i].n
    BY <1>1, <1>5, <2>0, <2>3 DEF KeysOrdered
  <2>4. ASSUME NEW i \in 1 .. Len(t), t[i].type = "terminal_input"
        PROVE  /\ t[i].n \in 1 .. n
               /\ \A j \in 1 .. Len(got[p]) : got[p][j] < t[i].n
               /\ \A k \in 1 .. Len(toAgent) : InputOf(toAgent[k], p) => toAgent[k].n < t[i].n
               /\ \A j \in 1 .. i - 1 : t[j].type = "terminal_input" => t[j].n < t[i].n
    <3>1. CASE i \in 1 .. Len(s)
      <4>1. t[i] = s[i] /\ \A j \in 1 .. i - 1 : j \in 1 .. Len(s) /\ t[j] = s[j]
        BY <1>9, <3>1
      <4> QED
        BY <2>3, <2>4, <3>1, <4>1
    <3>2. CASE i = Len(s) + 1
      <4>1. t[i].n = n /\ \A j \in 1 .. i - 1 : j \in 1 .. Len(s) /\ t[j] = s[j]
        BY <1>4, <1>9, <3>2
      <4>2. \A j \in 1 .. Len(got[p]) : got[p][j] < n
        <5> SUFFICES ASSUME NEW j \in 1 .. Len(got[p]) PROVE got[p][j] < n
          OBVIOUS
        <5>1. got[p][j] \in Nat
          <6>1. got[p] \in Seq(Chunks)
            BY <1>0, TermTypes
          <6> QED
            BY <6>1, TerminalAssumption DEF Chunks
        <5> QED
          BY <1>1, <1>5, <2>1, <5>1
      <4>3. n \in 1 .. n
        BY <1>1, <1>5
      <4> QED
        BY <2>2, <2>3, <4>1, <4>2, <4>3
    <3> QED
      BY <1>10, <3>1, <3>2
  <2> HIDE DEF t
  <2>5. \A m : InputOf(m, p)' <=> InputOf(m, p)
    BY DEF InputOf
  <2> QED
    BY <1>3, <2>0, <2>1, <2>2, <2>4 DEF KeysOrdered, InputOf, t
<1>15. KeysWhole(p)'
  <2> SUFFICES ASSUME drops = 0 PROVE KeysWhole(p)'
    BY <1>0 DEF KeysWhole, link
  <2>0. toAgent' = toAgent /\ got' = got /\ pty' = pty /\ sessions' = sessions /\ KeysWhole(p) /\ KeysOrdered(p)
    BY <1>0 DEF link, PanelInv
  <2>1. \A m : (Got(p, m)' <=> Got(p, m)) /\ (ToShell(p, m)' <=> ToShell(p, m))
    BY <2>0 DEF Got, ToShell, InputOf
  <2>2. \A m : FromPanel(p, m) => FromPanel(p, m)'
    <3> SUFFICES ASSUME NEW m, NEW i \in 1 .. Len(s), s[i].type = "terminal_input", s[i].n = m
                 PROVE  FromPanel(p, m)'
      BY DEF FromPanel
    <3>1. i \in 1 .. Len(t) /\ t[i] = s[i]
      BY <1>9
    <3> QED
      BY <3>1 DEF FromPanel
  <2>3. FromPanel(p, n)'
    <3> DEFINE i == Len(s) + 1
    <3>1. i \in 1 .. Len(t) /\ t[i] = key
      BY <1>9
    <3> HIDE DEF i
    <3>2. t[i].type = "terminal_input" /\ t[i].n = n
      BY <1>4, <3>1
    <3> QED
      BY <3>1, <3>2 DEF FromPanel
  <2>4. ~ToShell(p, n)
    <3> SUFFICES ASSUME NEW k \in 1 .. Len(toAgent), InputOf(toAgent[k], p), toAgent[k].n = n PROVE FALSE
      BY DEF ToShell
    <3>1. toAgent[k].n \in 1 .. typed[p]
      BY <2>0 DEF KeysOrdered
    <3> QED
      BY <1>1, <1>5, <3>1
  <2>5. ASSUME NEW i \in 1 .. Len(got[p]), got[p][i] > early + 1
        PROVE  i > 1 /\ got[p][i - 1] = got[p][i] - 1
    <3>1. got[p][i] \in Nat
      <4>1. got[p] \in Seq(Chunks)
        BY <1>0, TermTypes
      <4> QED
        BY <4>1, TerminalAssumption DEF Chunks
    <3>2. got[p][i] > unheard[p] + 1
      BY <1>1, <1>5, <2>5, <3>1
    <3> QED
      BY <2>0, <3>2 DEF KeysWhole
  <2>6. ASSUME pty[p] # "exited"
        PROVE  /\ \A m \in early + 2 .. n : ToShell(p, m) => Got(p, m - 1) \/ ToShell(p, m - 1)
               /\ p \in sessions => \A m \in early + 1 .. n : Got(p, m) \/ ToShell(p, m) \/ FromPanel(p, m)'
    <3>1. \A m \in early + 2 .. n : m = n \/ m \in unheard[p] + 2 .. typed[p]
      BY <1>1, <1>5
    <3>2. \A m \in early + 1 .. n : m = n \/ m \in unheard[p] + 1 .. typed[p]
      BY <1>1, <1>5
    <3>3. /\ \A m \in unheard[p] + 2 .. typed[p] : ToShell(p, m) => Got(p, m - 1) \/ ToShell(p, m - 1)
          /\ p \in sessions => \A m \in unheard[p] + 1 .. typed[p] :
                Got(p, m) \/ ToShell(p, m) \/ FromPanel(p, m)
      BY <2>0, <2>6 DEF KeysWhole
    <3>4. \A m \in early + 2 .. n : ToShell(p, m) => Got(p, m - 1) \/ ToShell(p, m - 1)
      <4> SUFFICES ASSUME NEW m \in early + 2 .. n, ToShell(p, m) PROVE Got(p, m - 1) \/ ToShell(p, m - 1)
        OBVIOUS
      <4>1. m # n
        BY <2>4
      <4> QED
        BY <3>1, <3>3, <4>1
    <3>5. ASSUME p \in sessions, NEW m \in early + 1 .. n PROVE Got(p, m) \/ ToShell(p, m) \/ FromPanel(p, m)'
      BY <2>2, <2>3, <3>2, <3>3, <3>5
    <3> QED
      BY <3>4, <3>5
  <2>7. pty[p] = "none" =>
              /\ p \in sessions => \E j \in 1 .. Len(toAgent) : OpenOf(toAgent[j], p)
              /\ \A k \in 1 .. Len(toAgent) : InputOf(toAgent[k], p) =>
                    \E j \in 1 .. k - 1 : OpenOf(toAgent[j], p)
    BY <2>0 DEF KeysWhole
  <2>8. \A m : (InputOf(m, p)' <=> InputOf(m, p)) /\ (OpenOf(m, p)' <=> OpenOf(m, p))
    BY DEF InputOf, OpenOf
  <2> QED
    BY <1>3, <2>0, <2>1, <2>5, <2>6, <2>7, <2>8 DEF KeysWhole
<1> QED
  BY <1>0, <1>7, <1>8, <1>11, <1>12, <1>13, <1>14, <1>15, AtPanel DEF PanelInv

LEMMA ReceiveKeeps == ASSUME TermInv, NEW p \in Panels, Receive(p) PROVE TermInv'
<1>0. /\ TermTypeOK /\ PanelInv(p) /\ UNCHANGED link /\ client[p] = "open" /\ toBrowser[p] # <<>>
      /\ UNCHANGED <<typed, unheard, fromBrowser, handler, browser, sessions, pty, got, printed>>
      /\ toBrowser' = [toBrowser EXCEPT ![p] = Tail(toBrowser[p])]
  BY TermTypes DEF TermInv, Receive, onHost
<1>1. /\ panel \in [Panels -> PanelStatus] /\ client \in [Panels -> {"none", "open", "closed"}]
      /\ shown \in [Panels -> Seq(Chunks)] /\ shown[p] \in Seq(Chunks) /\ panel[p] \in PanelStatus
      /\ toBrowser \in [Panels -> Seq(PanelMsg)] /\ toBrowser[p] \in Seq(PanelMsg)
      /\ printed[p] \in 0 .. MaxChunks /\ drops \in Nat
  BY <1>0, TermTypes
<1> DEFINE b == toBrowser[p]
           t == toBrowser'[p]
<1>2. /\ Len(b) \in Nat /\ Len(b) >= 1 /\ Head(b) = b[1] /\ Head(b) \in PanelMsg /\ Tail(b) \in Seq(PanelMsg)
      /\ Len(Tail(b)) = Len(b) - 1 /\ \A i \in 1 .. Len(b) - 1 : Tail(b)[i] = b[i + 1]
  BY <1>0, <1>1, TailHolds
<1>3. PICK msg \in PanelMsg : msg = b[1] /\ msg = Head(b)
  BY <1>2
<1>4. toBrowser' \in [Panels -> Seq(PanelMsg)] /\ t = Tail(b)
  BY <1>0, <1>1, <1>2
<1>5. /\ Len(t) = Len(b) - 1 /\ Len(t) \in Nat
      /\ \A i \in 1 .. Len(t) : i + 1 \in 1 .. Len(b) /\ t[i] = b[i + 1]
  BY <1>2, <1>4
<1>6. /\ msg.type \in {"open", "data", "closed", "error", "close"} /\ 1 \in 1 .. Len(b)
      /\ msg.type = "open" => shown[p] = <<>>
      /\ msg.type \in {"open", "data"} => handler[p] = "listening"
      /\ msg.type \in {"closed", "error", "close"} =>
            browser[p] = "closed" /\ \A i \in 1 .. Len(t) : t[i].type = "close"
      /\ \A i \in 1 .. Len(t) : t[i].type # "open"
  <2>0. BrowserQueue(p) /\ 1 \in 1 .. Len(b)
    BY <1>0, <1>2 DEF PanelInv, PanelHolds
  <2>1. msg.type \in {"open", "data", "closed", "error", "close"}
    BY <1>3 DEF PanelMsg
  <2>2. msg.type = "open" => shown[p] = <<>>
    BY <1>3, <2>0 DEF BrowserQueue
  <2>3. msg.type \in {"open", "data"} => handler[p] = "listening"
    BY <1>3, <2>0 DEF BrowserQueue
  <2>4. ASSUME msg.type \in {"closed", "error", "close"}
        PROVE  browser[p] = "closed" /\ \A i \in 1 .. Len(t) : t[i].type = "close"
    <3>1. browser[p] = "closed" /\ \A j \in 1 + 1 .. Len(b) : b[j].type = "close"
      BY <1>3, <2>0, <2>4 DEF BrowserQueue
    <3>2. \A i \in 1 .. Len(t) : i + 1 \in 1 + 1 .. Len(b)
      BY <1>2, <1>5
    <3> QED
      BY <1>5, <3>1, <3>2
  <2>5. \A i \in 1 .. Len(t) : t[i].type # "open"
    <3>1. \A i \in 1 .. Len(t) : i + 1 # 1 /\ i + 1 \in 1 .. Len(b) /\ t[i] = b[i + 1]
      BY <1>5
    <3> QED
      BY <2>0, <3>1 DEF BrowserQueue
  <2> QED
    BY <2>0, <2>1, <2>2, <2>3, <2>4, <2>5
<1>7. PICK status \in PanelStatus :
         /\ panel' = [panel EXCEPT ![p] = status]
         /\ msg.type \in {"open", "closed", "error"} => status = msg.type
         /\ msg.type = "close" => status \in {"closed", "error"}
         /\ msg.type = "data" => status = panel[p]
  <2> DEFINE status == CASE msg.type \in {"open", "closed", "error"} -> msg.type
                         [] msg.type = "close" /\ panel[p] \notin {"closed", "error"} -> "closed"
                         [] OTHER -> panel[p]
  <2>1. panel' = [panel EXCEPT ![p] = status]
    BY <1>1, <1>3 DEF Receive
  <2>2. /\ msg.type \in {"open", "closed", "error"} => status = msg.type
        /\ msg.type = "close" => status \in {"closed", "error"}
        /\ msg.type = "data" => status = panel[p]
    OBVIOUS
  <2> HIDE DEF status
  <2>3. status \in PanelStatus
    BY <1>1, <1>6, <2>2 DEF PanelStatus
  <2> QED
    BY <2>1, <2>2, <2>3
<1>8. PICK ready \in {"open", "closed"} :
         client' = [client EXCEPT ![p] = ready] /\ (ready = "closed" <=> msg.type = "close")
  <2> DEFINE ready == IF msg.type = "close" THEN "closed" ELSE client[p]
  <2>1. client' = [client EXCEPT ![p] = ready]
    BY <1>1, <1>3 DEF Receive
  <2>2. ready \in {"open", "closed"} /\ (ready = "closed" <=> msg.type = "close")
    BY <1>0
  <2> HIDE DEF ready
  <2> QED
    BY <2>1, <2>2
<1>9. msg.type = "data" => msg.n \in 1 .. printed[p] /\ msg.n \in Chunks
  BY <1>0, <1>1, <1>3, <1>6, TerminalAssumption DEF PanelInv, OutputOrdered, Chunks
<1>10. PICK seen \in Seq(Chunks) :
          /\ shown' = [shown EXCEPT ![p] = seen]
          /\ msg.type = "data" => seen = Append(shown[p], msg.n)
          /\ msg.type # "data" => seen = shown[p]
  <2>1. msg.type = "data" => Append(shown[p], msg.n) \in Seq(Chunks)
    BY <1>1, <1>9
  <2> DEFINE seen == IF msg.type = "data" THEN Append(shown[p], msg.n) ELSE shown[p]
  <2>2. shown' = [shown EXCEPT ![p] = seen]
    BY <1>1, <1>3 DEF Receive
  <2>3. seen \in Seq(Chunks)
    BY <1>1, <2>1
  <2> QED
    BY <2>2, <2>3
<1>11. /\ panel'[p] = status /\ client'[p] = ready /\ shown'[p] = seen
       /\ panel' \in [Panels -> PanelStatus] /\ client' \in [Panels -> {"none", "open", "closed"}]
       /\ shown' \in [Panels -> Seq(Chunks)]
  BY <1>1, <1>7, <1>8, <1>10
<1>12. TermTypeOK'
  BY <1>0, <1>4, <1>11, TermTypes, TypesAgain, LinkSame
<1>13. \A q \in Panels \ {p} : PanelSame(q)
  BY <1>0, <1>1, <1>7, <1>8, <1>10 DEF PanelSame
<1> HIDE DEF b, t
<1>14. PanelHolds(p)'
  <2>1. panel[p] # "none" /\ ~Early(p) /\ ~Early(p)'
    BY <1>0 DEF PanelInv, PanelHolds, Early
  <2>2. LastIsClose(p) /\ ready = "open" => LastIsClose(p)'
    <3> SUFFICES ASSUME LastIsClose(p), ready = "open" PROVE LastIsClose(p)'
      OBVIOUS
    <3>1. b[Len(b)].type = "close" /\ msg.type # "close"
      BY <1>8 DEF LastIsClose, b
    <3>2. Len(b) # 1
      BY <1>3, <3>1
    <3>3. Len(t) \in 1 .. Len(t) /\ Len(t) + 1 = Len(b)
      BY <1>2, <1>5, <3>2
    <3>4. t[Len(t)].type = "close"
      BY <1>5, <3>1, <3>3
    <3>5. t # <<>>
      BY <3>3
    <3> QED
      BY <3>4, <3>5 DEF LastIsClose, t
  <2>3. status # "none" /\ (status = "connecting" => panel[p] = "connecting")
        /\ (status = "open" => ready = "open" /\ handler[p] = "listening")
    BY <1>0, <1>6, <1>7, <1>8, <2>1 DEF PanelInv, PanelHolds
  <2>4. ASSUME NEW i \in 1 .. Len(t)
        PROVE  /\ t[i].type # "open" /\ (t[i].type = "data" => handler[p] = "listening")
               /\ t[i].type \in {"closed", "error", "close"} =>
                     browser[p] = "closed" /\ \A j \in i + 1 .. Len(t) : t[j].type = "close"
               /\ t[i].type = "close" => i = Len(t)
    <3>1. i + 1 \in 1 .. Len(b) /\ t[i] = b[i + 1]
      BY <1>5
    <3>2. /\ b[i + 1].type = "data" => handler[p] = "listening"
          /\ b[i + 1].type \in {"closed", "error", "close"} =>
                browser[p] = "closed" /\ \A j \in i + 1 + 1 .. Len(b) : b[j].type = "close"
          /\ b[i + 1].type = "close" => i + 1 = Len(b)
      BY <1>0, <3>1 DEF PanelInv, PanelHolds, BrowserQueue, b
    <3>3. \A j \in i + 1 .. Len(t) : j + 1 \in i + 1 + 1 .. Len(b) /\ t[j] = b[j + 1]
      BY <1>2, <1>5
    <3>4. \A j \in i + 1 .. Len(t) : b[i + 1].type \in {"closed", "error", "close"} => b[j + 1].type = "close"
      BY <3>2, <3>3
    <3>5. i + 1 = Len(b) => i = Len(t)
      BY <1>2, <1>5
    <3>6. t[i].type # "open"
      BY <1>6
    <3> QED
      BY <3>1, <3>2, <3>3, <3>4, <3>5, <3>6
  <2>5. BrowserQueue(p)'
    BY <1>0, <2>4 DEF BrowserQueue, t
  <2>6. /\ ready = "open" => browser[p] = "open" \/ LastIsClose(p)'
        /\ ready = "open" /\ handler[p] = "listening" => p \in sessions \/ LastIsClose(p)'
        /\ \A i \in 1 .. Len(fromBrowser[p]) : fromBrowser[p][i].type # "close"
        /\ panel[p] = "connecting" => typed[p] = unheard[p]
    BY <1>0, <2>2 DEF PanelInv, PanelHolds
  <2> QED
    BY <1>0, <1>11, <2>1, <2>3, <2>5, <2>6 DEF PanelHolds
<1>15. AgentHears(p)'
  <2>1. shown'[p] = shown[p] \/ handler[p] = "listening"
    BY <1>6, <1>10, <1>11
  <2> QED
    BY <1>0, <1>12, <2>1, NothingRelayed, HearsFrame DEF PanelInv
<1>16. /\ Len(shown[p]) \in Nat /\ Len(seen) \in Nat
       /\ msg.type = "data" => /\ Len(seen) = Len(shown[p]) + 1 /\ seen[Len(shown[p]) + 1] = msg.n
                               /\ \A i \in 1 .. Len(shown[p]) : seen[i] = shown[p][i]
       /\ \A i \in 1 .. Len(seen) : i \in 1 .. Len(shown[p]) \/ (msg.type = "data" /\ i = Len(shown[p]) + 1)
       /\ \A i \in 1 .. Len(shown[p]) : seen[i] = shown[p][i]
  <2>1. CASE msg.type = "data"
    BY <1>1, <1>10, <2>1, AppendHolds
  <2>2. CASE msg.type # "data"
    BY <1>1, <1>10, <2>2
  <2> QED
    BY <2>1, <2>2
<1>17. OutputOrdered(p)'
  <2>0. OutputOrdered(p) /\ toPlatform' = toPlatform /\ printed' = printed
    BY <1>0 DEF PanelInv, link
  <2>1. /\ msg.type = "data" => /\ msg.n \in 1 .. printed[p]
                                /\ \A i \in 1 .. Len(shown[p]) : shown[p][i] < msg.n
        /\ \A k \in 1 .. Len(b) : b[k].type = "data" =>
              /\ b[k].n \in 1 .. printed[p]
              /\ \A i \in 1 .. Len(shown[p]) : shown[p][i] < b[k].n
              /\ \A l \in 1 .. k - 1 : b[l].type = "data" => b[l].n < b[k].n
    BY <1>3, <1>6, <2>0 DEF OutputOrdered, b
  <2>2. ASSUME NEW i \in 1 .. Len(seen)
        PROVE  seen[i] <= printed[p] /\ \A j \in 1 .. i - 1 : seen[j] < seen[i]
    <3>1. CASE i \in 1 .. Len(shown[p])
      <4>1. seen[i] = shown[p][i] /\ \A j \in 1 .. i - 1 : j \in 1 .. Len(shown[p]) /\ seen[j] = shown[p][j]
        BY <1>16, <3>1
      <4> QED
        BY <2>0, <3>1, <4>1 DEF OutputOrdered
    <3>2. CASE msg.type = "data" /\ i = Len(shown[p]) + 1
      <4>1. seen[i] = msg.n /\ \A j \in 1 .. i - 1 : j \in 1 .. Len(shown[p]) /\ seen[j] = shown[p][j]
        BY <1>16, <3>2
      <4> QED
        BY <1>1, <2>1, <3>2, <4>1
    <3> QED
      BY <1>16, <3>1, <3>2
  <2>3. ASSUME NEW k \in 1 .. Len(t), t[k].type = "data"
        PROVE  /\ t[k].n \in 1 .. printed[p]
               /\ \A i \in 1 .. Len(seen) : seen[i] < t[k].n
               /\ \A l \in 1 .. k - 1 : t[l].type = "data" => t[l].n < t[k].n
    <3>1. k + 1 \in 1 .. Len(b) /\ t[k] = b[k + 1] /\ 1 \in 1 .. k + 1 - 1
          /\ \A l \in 1 .. k - 1 : l + 1 \in 1 .. k + 1 - 1 /\ t[l] = b[l + 1]
      BY <1>5
    <3>2. /\ b[k + 1].n \in 1 .. printed[p]
          /\ \A i \in 1 .. Len(shown[p]) : shown[p][i] < b[k + 1].n
          /\ \A l \in 1 .. k + 1 - 1 : b[l].type = "data" => b[l].n < b[k + 1].n
      BY <2>1, <2>3, <3>1
    <3>3. msg.type = "data" => msg.n < b[k + 1].n
      BY <1>3, <3>1, <3>2
    <3> QED
      BY <1>16, <3>1, <3>2, <3>3
  <2>4. ASSUME NEW i \in 1 .. Len(toPlatform), DataOf(toPlatform[i], p)
        PROVE  /\ toPlatform[i].n \in 1 .. printed[p]
               /\ \A j \in 1 .. Len(seen) : seen[j] < toPlatform[i].n
               /\ \A k \in 1 .. Len(t) : t[k].type = "data" => t[k].n < toPlatform[i].n
               /\ \A j \in 1 .. i - 1 : DataOf(toPlatform[j], p) => toPlatform[j].n < toPlatform[i].n
    <3>1. /\ toPlatform[i].n \in 1 .. printed[p]
          /\ \A j \in 1 .. Len(shown[p]) : shown[p][j] < toPlatform[i].n
          /\ \A k \in 1 .. Len(b) : b[k].type = "data" => b[k].n < toPlatform[i].n
          /\ \A j \in 1 .. i - 1 : DataOf(toPlatform[j], p) => toPlatform[j].n < toPlatform[i].n
      BY <2>0, <2>4 DEF OutputOrdered, b
    <3>2. msg.type = "data" => msg.n < toPlatform[i].n
      BY <1>3, <1>6, <3>1
    <3> QED
      BY <1>5, <1>16, <3>1, <3>2
  <2>5. \A m : DataOf(m, p)' <=> DataOf(m, p)
    BY DEF DataOf
  <2> QED
    BY <1>11, <2>0, <2>2, <2>3, <2>4, <2>5 DEF OutputOrdered, t
<1>18. OutputWhole(p)'
  <2> SUFFICES ASSUME drops = 0 PROVE OutputWhole(p)'
    BY <1>0 DEF OutputWhole, link
  <2>0. /\ toPlatform' = toPlatform /\ printed' = printed /\ sessions' = sessions /\ browser' = browser
        /\ \A i \in 1 .. Len(shown[p]) : shown[p][i] = i
        /\ \A k \in 1 .. Len(b) : b[k].type = "data" => b[k].n = Len(shown[p]) + k - OpenAhead(p)
        /\ p \in sessions /\ browser[p] = "open" => NoneMissing(p)
    BY <1>0 DEF PanelInv, link, OutputWhole, b
  <2>1. OpenAhead(p)' = 0
    <3>1. t # <<>> => 1 \in 1 .. Len(t)
      BY <1>5 DEF t
    <3> QED
      BY <1>6, <3>1 DEF OpenAhead, t
  <2>2. /\ msg.type = "open" => OpenAhead(p) = 1
        /\ msg.type # "open" => OpenAhead(p) = 0
    BY <1>0, <1>3 DEF OpenAhead, b
  <2>3. msg.type = "data" => msg.n = Len(shown[p]) + 1
    BY <1>3, <1>6, <1>16, <2>0, <2>2
  <2>4. \A i \in 1 .. Len(seen) : seen[i] = i
    BY <1>16, <2>0, <2>3
  <2>5. \A k \in 1 .. Len(t) : t[k].type = "data" => t[k].n = Len(seen) + k
    <3> SUFFICES ASSUME NEW k \in 1 .. Len(t), t[k].type = "data" PROVE t[k].n = Len(seen) + k
      OBVIOUS
    <3>1. k + 1 \in 1 .. Len(b) /\ t[k] = b[k + 1]
      BY <1>5
    <3>2. t[k].n = Len(shown[p]) + (k + 1) - OpenAhead(p)
      BY <2>0, <3>1
    <3>3. msg.type \in {"open", "data"}
      BY <1>6
    <3>4. CASE msg.type = "open"
      <4>1. Len(seen) = Len(shown[p]) /\ OpenAhead(p) = 1
        BY <1>10, <2>2, <3>4
      <4> QED
        BY <1>16, <3>1, <3>2, <4>1
    <3>5. CASE msg.type = "data"
      <4>1. Len(seen) = Len(shown[p]) + 1 /\ OpenAhead(p) = 0
        BY <1>16, <2>2, <3>5
      <4>2. k \in Nat /\ Len(shown[p]) \in Nat
        BY <1>5, <1>16
      <4>3. t[k].n = Len(shown[p]) + (k + 1)
        BY <3>2, <4>1, <4>2
      <4>4. Len(seen) + k = Len(shown[p]) + (k + 1)
        <5>1. \A x, y \in Nat : x + 1 + y = x + (y + 1)
          OBVIOUS
        <5> QED
          BY <4>1, <4>2, <5>1, Zenon
      <4> QED
        BY <4>3, <4>4, Zenon
    <3> QED
      BY <3>3, <3>4, <3>5
  <2>6. ASSUME p \in sessions, browser[p] = "open" PROVE NoneMissing(p)'
    <3>1. msg.type \in {"open", "data"}
      BY <1>6, <2>6
    <3>2. Len(seen) + Len(t) = Len(shown[p]) + Len(b) - OpenAhead(p)
      <4>1. CASE msg.type = "open"
        <5>1. Len(seen) = Len(shown[p]) /\ OpenAhead(p) = 1
          BY <1>10, <2>2, <4>1
        <5> QED
          BY <1>2, <1>5, <1>16, <5>1
      <4>2. CASE msg.type = "data"
        <5>1. Len(seen) = Len(shown[p]) + 1 /\ OpenAhead(p) = 0
          BY <1>16, <2>2, <4>2
        <5> QED
          BY <1>2, <1>5, <1>16, <5>1
      <4> QED
        BY <3>1, <4>1, <4>2
    <3>3. Sent(p)' = Sent(p)
      BY <1>2, <1>5, <1>11, <1>16, <2>1, <3>2 DEF Sent, b, t
    <3> QED
      BY <2>0, <2>6, <3>3 DEF NoneMissing, DataOf
  <2>7. \A k \in 1 .. Len(t) : t[k].type = "data" => t[k].n = Len(seen) + k - 0
    BY <1>16, <2>5
  <2> QED
    BY <1>11, <2>0, <2>1, <2>4, <2>6, <2>7 DEF OutputWhole, t
<1>19. KeysOrdered(p)' /\ KeysWhole(p)'
  BY <1>0, NothingRelayed, NothingTyped, KeysFrame, KeysWholeFrame DEF PanelInv, link
<1> QED
  BY <1>0, <1>12, <1>13, <1>14, <1>15, <1>17, <1>18, <1>19, AtPanel DEF PanelInv

LEMMA CommandShapes ==
    ASSUME NEW p \in Panels, NEW type \in CommandTypes, NEW n \in 0 .. MaxChunks
    PROVE  /\ Command(type, p, n) \in TermCommand /\ Command(type, p, n).panel = p
           /\ Command(type, p, n).type = type /\ Command(type, p, n).n = n
  BY DEF Command, TermCommand, CommandTypes

LEMMA HostTold ==
    ASSUME TermTypeOK, NEW m \in TermCommand, SendToHost(m), drops' = drops
    PROVE  /\ toAgent' \in Seq(TermCommand)
           /\ \A q, types : m.panel # q \/ m.type \notin types => Kept(toAgent, toAgent', 0, q, types)
           /\ LinkHolds /\ up' = up /\ toPlatform' = toPlatform => LinkHolds'
<1>0. toAgent \in Seq(TermCommand)
  BY TermTypes
<1>1. CASE up
  <2>1. toAgent' = Append(toAgent, m)
    BY <1>1 DEF SendToHost
  <2>2. toAgent' \in Seq(TermCommand)
    BY <1>0, <2>1
  <2> QED
    BY <1>0, <1>1, <2>1, <2>2, KeptAppend DEF LinkHolds
<1>2. CASE ~up
  BY <1>0, <1>2, KeptSame DEF LinkHolds, SendToHost
<1> QED
  BY <1>1, <1>2

LEMMA BindKeeps == ASSUME TermInv, NEW p \in Panels, Bind(p) PROVE TermInv'
<1> DEFINE cmd == Command("terminal_open", p, 0)
           word == Msg("open", 0)
<1>0. /\ TermTypeOK /\ PanelInv(p) /\ LinkHolds /\ handler[p] = "host" /\ up
      /\ UNCHANGED <<panel, client, typed, unheard, shown, fromBrowser, browser, pty, got, printed, up,
                     toPlatform, drops>>
      /\ sessions' = sessions \cup {p} /\ handler' = [handler EXCEPT ![p] = "listening"]
      /\ SendToHost(cmd)
  BY DEF TermInv, Bind, inBrowser, onHost
<1>1. cmd \in TermCommand /\ cmd.panel = p /\ cmd.type = "terminal_open"
  BY CommandShapes, TerminalAssumption DEF CommandTypes
<1>2. /\ word \in PanelMsg /\ word.type = "open" /\ <<>> \o <<word>> = <<word>> /\ <<word>> \in Seq(PanelMsg)
      /\ Len(<<word>>) = 1 /\ <<word>>[1] = word
  BY TerminalAssumption DEF PanelMsg, Msg
<1>3. /\ toAgent \in Seq(TermCommand) /\ toPlatform \in Seq(TermMessage) /\ sessions \subseteq Panels
      /\ handler \in [Panels -> HandlerStatus] /\ toBrowser \in [Panels -> Seq(PanelMsg)]
      /\ printed[p] \in Nat
  BY <1>0, TermTypes, TerminalAssumption
<1>4. /\ Early(p) /\ toBrowser[p] = <<>> /\ typed[p] = unheard[p] /\ p \notin sessions /\ pty[p] = "none"
      /\ printed[p] = 0 /\ shown[p] = <<>> /\ got[p] = <<>> /\ Len(shown[p]) = 0 /\ Len(got[p]) = 0
      /\ Len(toBrowser[p]) = 0
      /\ \A i \in 1 .. Len(toAgent) : toAgent[i].panel # p
      /\ \A i \in 1 .. Len(toPlatform) : toPlatform[i].panel # p
  BY <1>0 DEF PanelInv, PanelHolds, AgentHears, Early
<1>5. toBrowser' = IF browser[p] = "open" THEN [toBrowser EXCEPT ![p] = <<word>>] ELSE toBrowser
  BY <1>2, <1>3, <1>4 DEF Bind, ToBrowser
<1> HIDE DEF cmd, word
<1>6. /\ toAgent' = Append(toAgent, cmd) /\ Len(toAgent) \in Nat /\ Len(toAgent') = Len(toAgent) + 1
      /\ toAgent'[Len(toAgent) + 1] = cmd /\ \A i \in 1 .. Len(toAgent) : toAgent'[i] = toAgent[i]
      /\ toAgent' \in Seq(TermCommand)
  BY <1>0, <1>1, <1>3, AppendHolds, HostTold DEF SendToHost
<1>7. \A i \in 1 .. Len(toAgent') : i \in 1 .. Len(toAgent) \/ (i = Len(toAgent) + 1 /\ toAgent'[i] = cmd)
  BY <1>6
<1>8. TermTypeOK'
  <2>1. LinkTypeOK(TermCommand, TermMessage)'
    <3>1. up \in BOOLEAN /\ drops \in 0 .. MaxDrops
      BY <1>0 DEF TermTypeOK, LinkTypeOK
    <3> QED
      BY <1>0, <1>3, <1>6, <3>1 DEF LinkTypeOK, TermCommand, TermMessage
  <2>2. toBrowser' \in [Panels -> Seq(PanelMsg)]
    BY <1>2, <1>3, <1>5
  <2>3. handler' \in [Panels -> HandlerStatus] /\ sessions' \subseteq Panels
    BY <1>0, <1>3 DEF HandlerStatus
  <2> QED
    BY <1>0, <2>1, <2>2, <2>3, TermTypes, TypesAgain
<1>9. \A q \in Panels \ {p} : /\ PanelSame(q) /\ Kept(toAgent, toAgent', 0, q, CommandTypes)
                               /\ Kept(toPlatform, toPlatform', 0, q, MessageTypes)
  <2> SUFFICES ASSUME NEW q \in Panels \ {p}
               PROVE  /\ PanelSame(q) /\ Kept(toAgent, toAgent', 0, q, CommandTypes)
                      /\ Kept(toPlatform, toPlatform', 0, q, MessageTypes)
    OBVIOUS
  <2>1. PanelSame(q)
    BY <1>0, <1>3, <1>5 DEF PanelSame
  <2>2. Kept(toAgent, toAgent', 0, q, CommandTypes)
    BY <1>0, <1>1, HostTold
  <2> QED
    BY <1>0, <1>3, <2>1, <2>2, KeptSame
<1>10. LinkHolds'
  BY <1>0 DEF LinkHolds
<1>11. /\ handler'[p] = "listening" /\ p \in sessions'
       /\ toBrowser'[p] \in {<<>>, <<word>>}
  BY <1>0, <1>3, <1>4, <1>5
<1>12. \A i \in 1 .. Len(toBrowser'[p]) : i = 1 /\ toBrowser'[p][i] = word
  <2>1. CASE toBrowser'[p] = <<>>
    <3>1. Len(toBrowser'[p]) = 0
      BY <2>1
    <3> QED
      BY <3>1
  <2>2. CASE toBrowser'[p] = <<word>>
    BY <1>2, <2>2
  <2> QED
    BY <1>11, <2>1, <2>2
<1>13. PanelHolds(p)'
  <2>1. BrowserQueue(p)'
    BY <1>0, <1>2, <1>4, <1>11, <1>12 DEF BrowserQueue
  <2>2. /\ panel[p] # "none" /\ panel[p] # "open" /\ (client[p] = "open" => browser[p] = "open")
        /\ \A i \in 1 .. Len(fromBrowser[p]) : fromBrowser[p][i].type = "close" => client[p] # "open"
    BY <1>0, <1>4 DEF PanelInv, PanelHolds, LastIsClose
  <2>3. ~Early(p)'
    BY <1>11 DEF Early
  <2> QED
    BY <1>0, <1>4, <1>11, <2>1, <2>2, <2>3 DEF PanelHolds
<1>14. AgentHears(p)'
  <2>1. ASSUME NEW i \in 1 .. Len(toAgent'), toAgent'[i].panel = p
        PROVE  toAgent'[i].type = "terminal_open" /\ \A j \in 1 .. i - 1 : toAgent'[j].panel # p
    <3>1. i = Len(toAgent) + 1 /\ toAgent'[i] = cmd
      BY <1>4, <1>6, <1>7, <2>1
    <3> QED
      BY <1>1, <1>4, <1>6, <3>1
  <2> QED
    BY <1>0, <1>4, <1>11, <2>1 DEF AgentHears, OpenOf
<1>15. OutputOrdered(p)'
  BY <1>0, <1>2, <1>4, <1>12 DEF OutputOrdered, DataOf
<1>16. OutputWhole(p)'
  <2>1. Sent(p)' = 0
    <3>1. CASE toBrowser'[p] = <<>>
      <4>1. Len(toBrowser'[p]) = 0 /\ OpenAhead(p)' = 0
        BY <3>1 DEF OpenAhead
      <4> QED
        BY <1>0, <1>4, <4>1 DEF Sent
    <3>2. CASE toBrowser'[p] = <<word>>
      <4>1. Len(toBrowser'[p]) = 1 /\ OpenAhead(p)' = 1
        <5>1. <<word>> # <<>> /\ <<word>>[1].type = "open"
          BY <1>2
        <5> QED
          BY <1>2, <3>2, <5>1 DEF OpenAhead
      <4> QED
        BY <1>0, <1>4, <4>1 DEF Sent
    <3> QED
      BY <1>11, <3>1, <3>2
  <2>2. NoneMissing(p)'
    BY <1>0, <1>4, <2>1 DEF NoneMissing, DataOf
  <2> QED
    BY <1>0, <1>2, <1>4, <1>12, <2>2 DEF OutputWhole
<1>17. \A i \in 1 .. Len(toAgent') : ~InputOf(toAgent'[i], p)
  BY <1>1, <1>4, <1>6, <1>7 DEF InputOf
<1>18. KeysOrdered(p)'
  BY <1>0, <1>4, <1>17 DEF PanelInv, KeysOrdered, InputOf
<1>19. KeysWhole(p)'
  <2>1. \A n : ~ToShell(p, n)'
    BY <1>17 DEF ToShell, InputOf
  <2>2. \E j \in 1 .. Len(toAgent') : OpenOf(toAgent'[j], p)
    <3>1. Len(toAgent') \in 1 .. Len(toAgent') /\ toAgent'[Len(toAgent')] = cmd
      BY <1>6
    <3> QED
      BY <1>1, <3>1 DEF OpenOf
  <2>3. typed'[p] = unheard'[p] /\ unheard[p] \in Nat
    BY <1>0, <1>4, TermTypes, TerminalAssumption
  <2> QED
    BY <1>0, <1>4, <1>17, <2>1, <2>2, <2>3 DEF KeysWhole, InputOf, OpenOf
<1> QED
  BY <1>0, <1>8, <1>9, <1>10, <1>13, <1>14, <1>15, <1>16, <1>18, <1>19, OnePanel DEF PanelInv

(* A session that ends, for whatever reason, is the agent's to close.      *)
LEMMA CloseHeard ==
    ASSUME TermInv, TermTypeOK', NEW p \in Panels, EndSession(p), drops' = drops,
           handler'[p] = handler[p], pty'[p] = pty[p], printed'[p] = printed[p], shown'[p] = shown[p],
           got'[p] = got[p], NEW e, handler[p] = "listening" \/ Comes(toPlatform, toPlatform', e, p, MessageTypes)
    PROVE  AgentHears(p)' /\ Kept(toAgent, toAgent', 0, p, KeyTypes)
<1> DEFINE cmd == Command("terminal_close", p, 0)
<1>0. /\ TermTypeOK /\ AgentHears(p) /\ toAgent \in Seq(TermCommand) /\ toPlatform \in Seq(TermMessage)
      /\ p \notin sessions'
  BY TermTypes DEF TermInv, PanelInv, EndSession
<1>1. cmd \in TermCommand /\ cmd.panel = p /\ cmd.type = "terminal_close"
  BY CommandShapes, TerminalAssumption DEF CommandTypes
<1>2. CASE p \notin sessions \/ ~up
  <2>1. toAgent' = toAgent
    BY <1>2 DEF EndSession, SendToHost
  <2>2. Kept(toAgent, toAgent', 0, p, KeyTypes) /\ Kept(toAgent, toAgent', 0, p, CommandTypes)
    BY <1>0, <2>1, KeptSame
  <2> QED
    BY <1>0, <2>2, HearsFrame DEF Kept
<1>3. CASE p \in sessions /\ up
  <2>0. toAgent' = Append(toAgent, cmd)
    BY <1>3 DEF EndSession, SendToHost
  <2> HIDE DEF cmd
  <2>1. /\ Len(toAgent) \in Nat /\ Len(toAgent') = Len(toAgent) + 1
        /\ toAgent'[Len(toAgent) + 1] = cmd /\ \A i \in 1 .. Len(toAgent) : toAgent'[i] = toAgent[i]
    BY <1>0, <2>0, AppendHolds
  <2>2. \A i \in 1 .. Len(toAgent') : i \in 1 .. Len(toAgent) \/ i = Len(toAgent) + 1
    BY <2>1
  <2>3. Kept(toAgent, toAgent', 0, p, KeyTypes)
    BY <1>0, <1>1, <2>0, KeptAppend DEF KeyTypes
  <2>4. handler[p] = "listening"
    BY <1>0, <1>3 DEF AgentHears
  <2>5. \A i \in 1 .. Len(toAgent) : toAgent[i].type = "terminal_close" => toAgent[i].panel # p
    BY <1>0, <1>3 DEF AgentHears
  <2>6. ASSUME NEW i \in 1 .. Len(toAgent'), toAgent'[i].type = "terminal_close", toAgent'[i].panel = p
        PROVE  \A j \in i + 1 .. Len(toAgent') : toAgent'[j].panel # p
    <3>1. i = Len(toAgent')
      BY <2>1, <2>2, <2>5, <2>6
    <3> QED
      BY <2>1, <3>1
  <2>7. ASSUME NEW i \in 1 .. Len(toAgent'), OpenOf(toAgent'[i], p)
        PROVE  pty[p] = "none" /\ \A j \in 1 .. i - 1 : toAgent'[j].panel # p
    <3>1. i \in 1 .. Len(toAgent) /\ toAgent'[i] = toAgent[i]
      BY <1>1, <2>1, <2>2, <2>7 DEF OpenOf
    <3>2. \A j \in 1 .. i - 1 : j \in 1 .. Len(toAgent) /\ toAgent'[j] = toAgent[j]
      <4>1. \A j \in 1 .. i - 1 : j \in 1 .. Len(toAgent)
        BY <2>1, <3>1
      <4> QED
        BY <2>1, <4>1
    <3> QED
      BY <1>0, <2>7, <3>1, <3>2 DEF AgentHears
  <2>8. \A m : OpenOf(m, p)' <=> OpenOf(m, p)
    BY DEF OpenOf
  <2>9. AgentHears(p)'
    BY <1>0, <2>4, <2>6, <2>7, <2>8 DEF AgentHears
  <2> QED
    BY <2>3, <2>9
<1> QED
  BY <1>2, <1>3

LEMMA HearCloseKeeps == ASSUME TermInv, NEW p \in Panels, HearClose(p) PROVE TermInv'
<1>0. /\ TermTypeOK /\ PanelInv(p) /\ LinkHolds /\ fromBrowser[p] # <<>> /\ Head(fromBrowser[p]).type = "close"
      /\ UNCHANGED <<panel, client, typed, unheard, shown, toBrowser, handler, pty, got, printed, up,
                     toPlatform, drops>>
      /\ browser' = [browser EXCEPT ![p] = "closed"]
      /\ fromBrowser' = [fromBrowser EXCEPT ![p] = Tail(fromBrowser[p])]
  BY TermTypes DEF TermInv, HearClose, inBrowser, onHost
<1>1. /\ toAgent \in Seq(TermCommand) /\ toPlatform \in Seq(TermMessage) /\ sessions \subseteq Panels
      /\ browser \in [Panels -> {"none", "open", "closed"}]
      /\ fromBrowser \in [Panels -> Seq(BrowserMsg)] /\ fromBrowser[p] \in Seq(BrowserMsg)
  BY <1>0, TermTypes
<1>2. /\ Tail(fromBrowser[p]) \in Seq(BrowserMsg) /\ 1 \in 1 .. Len(fromBrowser[p])
      /\ Head(fromBrowser[p]) = fromBrowser[p][1]
  BY <1>0, <1>1, TailHolds
<1>3. EndSession(p)
  <2>1. CASE handler[p] = "listening"
    BY <2>1 DEF HearClose
  <2>2. CASE handler[p] # "listening"
    <3>1. p \notin sessions /\ sessions' = sessions /\ toAgent' = toAgent
      BY <1>0, <2>2 DEF HearClose, PanelInv, AgentHears
    <3> QED
      BY <3>1 DEF EndSession
  <2> QED
    BY <2>1, <2>2
<1> DEFINE cmd == Command("terminal_close", p, 0)
<1>4. cmd \in TermCommand /\ cmd.panel = p
  BY CommandShapes, TerminalAssumption DEF CommandTypes
<1>5. (SendToHost(cmd) \/ toAgent' = toAgent) /\ sessions' = sessions \ {p}
  BY <1>3 DEF EndSession
<1> HIDE DEF cmd
<1>6. /\ toAgent' \in Seq(TermCommand) /\ LinkHolds'
      /\ \A q \in Panels \ {p} : Kept(toAgent, toAgent', 0, q, CommandTypes)
  <2>1. CASE SendToHost(cmd)
    BY <1>0, <1>4, <2>1, HostTold
  <2>2. CASE toAgent' = toAgent
    BY <1>0, <1>1, <2>2, KeptSame DEF LinkHolds
  <2> QED
    BY <1>5, <2>1, <2>2
<1>7. TermTypeOK'
  <2>1. LinkTypeOK(TermCommand, TermMessage)'
    <3>1. up \in BOOLEAN /\ drops \in 0 .. MaxDrops
      BY <1>0 DEF TermTypeOK, LinkTypeOK
    <3> QED
      BY <1>0, <1>1, <1>6, <3>1 DEF LinkTypeOK, TermCommand, TermMessage
  <2>2. /\ fromBrowser' \in [Panels -> Seq(BrowserMsg)] /\ sessions' \subseteq Panels
        /\ browser' \in [Panels -> {"none", "open", "closed"}]
    BY <1>0, <1>1, <1>2, <1>5
  <2> QED
    BY <1>0, <2>1, <2>2, TermTypes, TypesAgain
<1>8. \A q \in Panels \ {p} : /\ PanelSame(q) /\ Kept(toAgent, toAgent', 0, q, CommandTypes)
                               /\ Kept(toPlatform, toPlatform', 0, q, MessageTypes)
  <2>1. \A q \in Panels \ {p} : PanelSame(q)
    BY <1>0, <1>1, <1>5 DEF PanelSame
  <2> QED
    BY <1>0, <1>1, <1>6, <2>1, KeptSame
<1>9. /\ browser'[p] = "closed" /\ fromBrowser'[p] = Tail(fromBrowser[p])
      /\ client[p] # "open" /\ p \notin sessions'
  BY <1>0, <1>1, <1>2, <1>5 DEF PanelInv, PanelHolds
<1>10. PanelHolds(p)'
  <2>1. BrowserQueue(p)'
    BY <1>0, <1>9 DEF PanelInv, PanelHolds, BrowserQueue
  <2>2. panel[p] # "none" /\ panel[p] # "open" /\ (Early(p)' <=> Early(p))
    BY <1>0, <1>9 DEF PanelInv, PanelHolds, Early
  <2> QED
    BY <1>0, <1>9, <2>1, <2>2 DEF PanelInv, PanelHolds
<1>11. AgentHears(p)' /\ Kept(toAgent, toAgent', 0, p, KeyTypes)
  <2>1. Comes(toPlatform, toPlatform', 0, p, MessageTypes)
    BY <1>0, <1>1, KeptSame DEF Kept
  <2> QED
    BY <1>0, <1>3, <1>7, <2>1, CloseHeard
<1>12. OutputOrdered(p)' /\ OutputWhole(p)'
  <2>1. Kept(toPlatform, toPlatform', 0, p, {"terminal_data"})
    BY <1>0, <1>1, KeptSame
  <2> QED
    BY <1>0, <1>9, <2>1, OrderedFrame, WholeFrame DEF PanelInv, Kept
<1>13. KeysOrdered(p)' /\ KeysWhole(p)'
  <2>1. KeptInputs(fromBrowser[p], fromBrowser'[p], 1)
    BY <1>0, <1>1, <1>9, InputsTail
  <2> QED
    BY <1>0, <1>9, <1>11, <2>1, KeysFrame, KeysWholeFrame DEF PanelInv, Kept
<1> QED
  BY <1>0, <1>6, <1>7, <1>8, <1>10, <1>11, <1>12, <1>13, OnePanel DEF PanelInv

(* A keystroke arrives at the platform.                                    *)
LEMMA HearKeeps == ASSUME TermInv, NEW p \in Panels, Hear(p) PROVE TermInv'
<1>0. /\ TermTypeOK /\ PanelInv(p) /\ LinkHolds /\ fromBrowser[p] # <<>>
      /\ UNCHANGED <<panel, client, typed, unheard, shown, toBrowser, handler, browser, sessions, pty, got,
                     printed, up, toPlatform, drops>>
      /\ fromBrowser' = [fromBrowser EXCEPT ![p] = Tail(fromBrowser[p])]
  BY TermTypes DEF TermInv, Hear, inBrowser, onHost
<1>1. /\ toAgent \in Seq(TermCommand) /\ toPlatform \in Seq(TermMessage) /\ Len(toAgent) \in Nat
      /\ fromBrowser \in [Panels -> Seq(BrowserMsg)] /\ fromBrowser[p] \in Seq(BrowserMsg)
      /\ typed[p] \in Nat /\ unheard[p] \in Nat /\ drops \in Nat
  <2>1. toAgent \in Seq(TermCommand)
    BY <1>0, TermTypes
  <2> QED
    BY <1>0, <2>1, TermTypes, TerminalAssumption
<1> DEFINE s == fromBrowser[p]
           t == fromBrowser'[p]
<1>2. /\ Len(s) \in Nat /\ Len(s) >= 1 /\ Head(s) = s[1] /\ Head(s) \in BrowserMsg /\ Tail(s) \in Seq(BrowserMsg)
      /\ Len(Tail(s)) = Len(s) - 1 /\ \A i \in 1 .. Len(s) - 1 : Tail(s)[i] = s[i + 1]
  BY <1>0, <1>1, TailHolds
<1>3. PICK msg \in BrowserMsg : msg = s[1] /\ msg = Head(s)
  BY <1>2
<1>4. fromBrowser' \in [Panels -> Seq(BrowserMsg)] /\ t = Tail(s)
  BY <1>0, <1>1, <1>2
<1>5. /\ Len(t) = Len(s) - 1 /\ Len(t) \in Nat
      /\ \A i \in 1 .. Len(t) : i + 1 \in 1 .. Len(s) /\ t[i] = s[i + 1]
      /\ \A i \in 1 .. Len(s) : i = 1 \/ (i - 1 \in 1 .. Len(t) /\ s[i] = t[i - 1])
  <2>1. /\ Len(t) = Len(s) - 1 /\ Len(t) \in Nat
        /\ \A i \in 1 .. Len(t) : i + 1 \in 1 .. Len(s) /\ t[i] = s[i + 1]
    BY <1>2, <1>4
  <2>2. ASSUME NEW i \in 1 .. Len(s), i # 1 PROVE i - 1 \in 1 .. Len(t) /\ s[i] = t[i - 1]
    <3>1. i - 1 \in 1 .. Len(t) /\ (i - 1) + 1 = i
      BY <1>2, <2>1, <2>2
    <3> QED
      BY <2>1, <3>1
  <2> QED
    BY <2>1, <2>2
<1> DEFINE cmd == Command("terminal_input", p, msg.n)
<1>6. /\ msg.type = "terminal_input" /\ msg.n \in 0 .. MaxChunks
      /\ cmd \in TermCommand /\ cmd.panel = p /\ cmd.type = "terminal_input" /\ cmd.n = msg.n
  <2>1. msg.type = "terminal_input" /\ msg.n \in 0 .. MaxChunks
    BY <1>3 DEF Hear, BrowserMsg
  <2> QED
    BY <2>1, CommandShapes DEF CommandTypes
<1>7. \/ p \in sessions /\ handler[p] = "listening" /\ SendToHost(cmd)
      \/ p \notin sessions /\ toAgent' = toAgent
  <2>1. p \in sessions => handler[p] = "listening"
    BY <1>0 DEF PanelInv, AgentHears
  <2> QED
    BY <1>3, <1>6, <2>1 DEF Hear
<1> HIDE DEF cmd, s, t
<1>8. /\ toAgent' \in Seq(TermCommand) /\ LinkHolds'
      /\ \A q \in Panels \ {p} : Kept(toAgent, toAgent', 0, q, CommandTypes)
  <2>1. CASE SendToHost(cmd)
    BY <1>0, <1>6, <2>1, HostTold
  <2>2. CASE toAgent' = toAgent
    BY <1>0, <1>1, <2>2, KeptSame DEF LinkHolds
  <2> QED
    BY <1>7, <2>1, <2>2
<1>9. TermTypeOK'
  <2>1. LinkTypeOK(TermCommand, TermMessage)'
    <3>1. up \in BOOLEAN /\ drops \in 0 .. MaxDrops
      BY <1>0 DEF TermTypeOK, LinkTypeOK
    <3> QED
      BY <1>0, <1>1, <1>8, <3>1 DEF LinkTypeOK, TermCommand, TermMessage
  <2> QED
    BY <1>0, <1>4, <2>1, TermTypes, TypesAgain
<1>10. \A q \in Panels \ {p} : /\ PanelSame(q) /\ Kept(toAgent, toAgent', 0, q, CommandTypes)
                                /\ Kept(toPlatform, toPlatform', 0, q, MessageTypes)
  <2>1. \A q \in Panels \ {p} : PanelSame(q)
    BY <1>0, <1>1 DEF PanelSame
  <2> QED
    BY <1>0, <1>1, <1>8, <2>1, KeptSame
<1>11. PanelHolds(p)'
  <2>1. (Early(p)' <=> Early(p)) /\ (LastIsClose(p)' <=> LastIsClose(p)) /\ (BrowserQueue(p)' <=> BrowserQueue(p))
    BY <1>0 DEF Early, LastIsClose, BrowserQueue
  <2>2. \A i \in 1 .. Len(t) : t[i].type = "close" => client[p] # "open"
    BY <1>0, <1>5 DEF PanelInv, PanelHolds, s
  <2>3. panel[p] # "none"
    BY <1>0 DEF PanelInv, PanelHolds
  <2> QED
    BY <1>0, <2>1, <2>2, <2>3 DEF PanelInv, PanelHolds, t
<1>12. OutputOrdered(p)' /\ OutputWhole(p)'
  <2>1. Kept(toPlatform, toPlatform', 0, p, {"terminal_data"})
    BY <1>0, <1>1, KeptSame
  <2> QED
    BY <1>0, <2>1, OrderedFrame, WholeFrame DEF PanelInv, Kept
<1>13. AgentHears(p)'
  <2>1. CASE toAgent' = toAgent
    BY <1>0, <2>1 DEF PanelInv, AgentHears, OpenOf
  <2>2. CASE p \in sessions /\ handler[p] = "listening" /\ toAgent' = Append(toAgent, cmd)
    <3>1. /\ Len(toAgent') = Len(toAgent) + 1 /\ toAgent'[Len(toAgent) + 1] = cmd
          /\ \A i \in 1 .. Len(toAgent) : toAgent'[i] = toAgent[i]
          /\ \A i \in 1 .. Len(toAgent') : i \in 1 .. Len(toAgent) \/ i = Len(toAgent) + 1
      BY <1>1, <2>2, AppendHolds
    <3>2. \A i \in 1 .. Len(toAgent') : toAgent'[i].type = "terminal_close" => toAgent'[i].panel # p
      BY <1>0, <1>6, <2>2, <3>1 DEF PanelInv, AgentHears
    <3>3. ASSUME NEW i \in 1 .. Len(toAgent'), OpenOf(toAgent'[i], p)
          PROVE  pty[p] = "none" /\ \A j \in 1 .. i - 1 : toAgent'[j].panel # p
      <4>1. i \in 1 .. Len(toAgent) /\ toAgent'[i] = toAgent[i]
        BY <1>6, <3>1, <3>3 DEF OpenOf
      <4>2. \A j \in 1 .. i - 1 : j \in 1 .. Len(toAgent) /\ toAgent'[j] = toAgent[j]
        BY <1>1, <3>1, <4>1
      <4> QED
        BY <1>0, <3>3, <4>1, <4>2 DEF PanelInv, AgentHears
    <3>4. \A m : OpenOf(m, p)' <=> OpenOf(m, p)
      BY DEF OpenOf
    <3> QED
      BY <1>0, <2>2, <3>2, <3>3, <3>4 DEF AgentHears
  <2> QED
    BY <1>7, <2>1, <2>2 DEF SendToHost
<1>14. /\ KeysOrdered(p) /\ got' = got /\ typed' = typed /\ unheard' = unheard /\ pty' = pty /\ sessions' = sessions
       /\ drops' = drops
       /\ \A i \in 1 .. Len(s) : s[i].type = "terminal_input" =>
             /\ s[i].n \in 1 .. typed[p]
             /\ \A j \in 1 .. Len(got[p]) : got[p][j] < s[i].n
             /\ \A k \in 1 .. Len(toAgent) : InputOf(toAgent[k], p) => toAgent[k].n < s[i].n
             /\ \A j \in 1 .. i - 1 : s[j].type = "terminal_input" => s[j].n < s[i].n
       /\ 1 \in 1 .. Len(s)
  BY <1>0, <1>2 DEF PanelInv, KeysOrdered, s
<1>15. ASSUME NEW i \in 1 .. Len(t), t[i].type = "terminal_input"
       PROVE  /\ t[i].n \in 1 .. typed[p] /\ msg.n < t[i].n
              /\ \A j \in 1 .. Len(got[p]) : got[p][j] < t[i].n
              /\ \A k \in 1 .. Len(toAgent) : InputOf(toAgent[k], p) => toAgent[k].n < t[i].n
              /\ \A j \in 1 .. i - 1 : t[j].type = "terminal_input" => t[j].n < t[i].n
  <2>1. /\ i + 1 \in 1 .. Len(s) /\ t[i] = s[i + 1] /\ 1 \in 1 .. i + 1 - 1
        /\ \A j \in 1 .. i - 1 : j + 1 \in 1 .. i + 1 - 1 /\ t[j] = s[j + 1]
    BY <1>5
  <2>2. /\ s[i + 1].n \in 1 .. typed[p]
        /\ \A j \in 1 .. Len(got[p]) : got[p][j] < s[i + 1].n
        /\ \A k \in 1 .. Len(toAgent) : InputOf(toAgent[k], p) => toAgent[k].n < s[i + 1].n
        /\ \A j \in 1 .. i + 1 - 1 : s[j].type = "terminal_input" => s[j].n < s[i + 1].n
    BY <1>14, <1>15, <2>1
  <2> QED
    BY <1>3, <1>6, <2>1, <2>2
<1>16. CASE toAgent' = toAgent
  <2>1. KeysOrdered(p)'
    BY <1>14, <1>15, <1>16 DEF KeysOrdered, InputOf, t
  <2> SUFFICES ASSUME drops = 0 PROVE KeysWhole(p)'
    BY <1>0, <1>8, <1>9, <1>10, <1>11, <1>12, <1>13, <2>1, OnePanel DEF PanelInv, KeysWhole
  <2>2. p \notin sessions
    <3>1. up
      BY <1>0, <1>1 DEF LinkHolds
    <3>2. toAgent' # Append(toAgent, cmd)
      BY <1>1, <1>16, AppendHolds
    <3> QED
      BY <1>7, <3>1, <3>2 DEF SendToHost
  <2>3. \A m : (Got(p, m)' <=> Got(p, m)) /\ (ToShell(p, m)' <=> ToShell(p, m))
    BY <1>14, <1>16 DEF Got, ToShell, InputOf
  <2>4. \A m : (InputOf(m, p)' <=> InputOf(m, p)) /\ (OpenOf(m, p)' <=> OpenOf(m, p))
    BY DEF InputOf, OpenOf
  <2>5. KeysWhole(p)
    BY <1>0 DEF PanelInv
  <2> QED
    BY <1>14, <1>16, <2>2, <2>3, <2>4, <2>5 DEF KeysWhole
<1>17. CASE toAgent' = Append(toAgent, cmd) /\ p \in sessions
  <2>1. /\ Len(toAgent') = Len(toAgent) + 1 /\ toAgent'[Len(toAgent) + 1] = cmd
        /\ \A i \in 1 .. Len(toAgent) : toAgent'[i] = toAgent[i]
        /\ \A i \in 1 .. Len(toAgent') : i \in 1 .. Len(toAgent) \/ i = Len(toAgent) + 1
    BY <1>1, <1>17, AppendHolds
  <2>2. ASSUME NEW k \in 1 .. Len(toAgent'), InputOf(toAgent'[k], p)
        PROVE  /\ toAgent'[k].n \in 1 .. typed[p]
               /\ \A i \in 1 .. Len(got[p]) : got[p][i] < toAgent'[k].n
               /\ \A l \in 1 .. k - 1 : InputOf(toAgent'[l], p) => toAgent'[l].n < toAgent'[k].n
    <3>1. CASE k \in 1 .. Len(toAgent)
      <4>1. toAgent'[k] = toAgent[k] /\ \A l \in 1 .. k - 1 : l \in 1 .. Len(toAgent) /\ toAgent'[l] = toAgent[l]
        BY <1>1, <2>1, <3>1
      <4> QED
        BY <1>14, <2>2, <3>1, <4>1 DEF KeysOrdered
    <3>2. CASE k = Len(toAgent) + 1
      <4>1. toAgent'[k].n = msg.n /\ \A l \in 1 .. k - 1 : l \in 1 .. Len(toAgent) /\ toAgent'[l] = toAgent[l]
        BY <1>1, <1>6, <2>1, <3>2
      <4>2. /\ msg.n \in 1 .. typed[p]
            /\ \A j \in 1 .. Len(got[p]) : got[p][j] < msg.n
            /\ \A l \in 1 .. Len(toAgent) : InputOf(toAgent[l], p) => toAgent[l].n < msg.n
        BY <1>3, <1>6, <1>14
      <4> QED
        BY <4>1, <4>2
    <3> QED
      BY <2>1, <3>1, <3>2
  <2>3. ASSUME NEW i \in 1 .. Len(t), t[i].type = "terminal_input", NEW k \in 1 .. Len(toAgent'),
               InputOf(toAgent'[k], p)
        PROVE  toAgent'[k].n < t[i].n
    BY <1>6, <1>15, <2>1, <2>3
  <2>4. \A m : (InputOf(m, p)' <=> InputOf(m, p)) /\ (OpenOf(m, p)' <=> OpenOf(m, p))
    BY DEF InputOf, OpenOf
  <2>5. KeysOrdered(p)'
    BY <1>14, <1>15, <2>2, <2>3, <2>4 DEF KeysOrdered, t
  <2> SUFFICES ASSUME drops = 0 PROVE KeysWhole(p)'
    BY <1>0, <1>8, <1>9, <1>10, <1>11, <1>12, <1>13, <2>5, OnePanel DEF PanelInv, KeysWhole
  <2>6. KeysWhole(p)
    BY <1>0 DEF PanelInv
  <2>7. \A m : (Got(p, m)' <=> Got(p, m))
    BY <1>14 DEF Got
  <2>8. \A m : ToShell(p, m)' <=> ToShell(p, m) \/ m = msg.n
    <3>1. ASSUME NEW m, NEW k \in 1 .. Len(toAgent'), InputOf(toAgent'[k], p), toAgent'[k].n = m
          PROVE  ToShell(p, m) \/ m = msg.n
      BY <1>6, <2>1, <3>1 DEF ToShell
    <3>2. ASSUME NEW m, ToShell(p, m) PROVE ToShell(p, m)'
      <4>1. PICK k \in 1 .. Len(toAgent) : InputOf(toAgent[k], p) /\ toAgent[k].n = m
        BY <3>2 DEF ToShell
      <4>2. k \in 1 .. Len(toAgent') /\ toAgent'[k] = toAgent[k]
        BY <1>1, <2>1
      <4> QED
        BY <4>1, <4>2 DEF ToShell, InputOf
    <3>3. ToShell(p, msg.n)'
      <4>1. Len(toAgent') \in 1 .. Len(toAgent') /\ toAgent'[Len(toAgent')] = cmd
        BY <1>1, <2>1
      <4>2. InputOf(cmd, p) /\ cmd.n = msg.n
        BY <1>6 DEF InputOf
      <4> QED
        BY <4>1, <4>2 DEF ToShell, InputOf
    <3>4. \A m : ToShell(p, m)' => ToShell(p, m) \/ m = msg.n
      BY <3>1 DEF ToShell, InputOf
    <3> QED
      BY <3>2, <3>3, <3>4
  <2>9. \A m : FromPanel(p, m) => FromPanel(p, m)' \/ m = msg.n
    <3> SUFFICES ASSUME NEW m, NEW i \in 1 .. Len(s), s[i].type = "terminal_input", s[i].n = m, m # msg.n
                 PROVE  FromPanel(p, m)'
      BY DEF FromPanel, s
    <3>1. i - 1 \in 1 .. Len(t) /\ s[i] = t[i - 1]
      BY <1>3, <1>5
    <3> QED
      BY <3>1 DEF FromPanel, t
  <2>10. msg.n \in 1 .. typed[p] /\ ~FromPanel(p, msg.n - 1)
    <3>1. msg.n \in 1 .. typed[p]
      BY <1>3, <1>6, <1>14
    <3>2. ASSUME NEW i \in 1 .. Len(s), s[i].type = "terminal_input", s[i].n = msg.n - 1 PROVE FALSE
      <4>1. i # 1
        BY <1>3, <1>1, <3>1, <3>2
      <4>2. i - 1 \in 1 .. Len(t) /\ s[i] = t[i - 1]
        BY <1>5, <4>1
      <4>3. msg.n < t[i - 1].n
        BY <1>15, <3>2, <4>2
      <4> QED
        BY <1>1, <3>1, <3>2, <4>2, <4>3
    <3> QED
      BY <3>1, <3>2 DEF FromPanel, s
  <2>11. ASSUME pty[p] # "exited", NEW m \in unheard[p] + 2 .. typed[p], ToShell(p, m)'
         PROVE  Got(p, m - 1)' \/ ToShell(p, m - 1)'
    <3>1. CASE ToShell(p, m)
      BY <2>6, <2>7, <2>8, <2>11, <3>1 DEF KeysWhole
    <3>2. CASE m = msg.n
      <4>1. m - 1 \in unheard[p] + 1 .. typed[p]
        BY <1>1
      <4>2. Got(p, m - 1) \/ ToShell(p, m - 1) \/ FromPanel(p, m - 1)
        BY <1>17, <2>6, <2>11, <4>1 DEF KeysWhole
      <4> QED
        BY <2>7, <2>8, <2>10, <3>2, <4>2
    <3> QED
      BY <2>8, <2>11, <3>1, <3>2
  <2>12. ASSUME pty[p] # "exited", NEW m \in unheard[p] + 1 .. typed[p]
         PROVE  Got(p, m)' \/ ToShell(p, m)' \/ FromPanel(p, m)'
    <3>1. Got(p, m) \/ ToShell(p, m) \/ FromPanel(p, m)
      BY <1>17, <2>6, <2>12 DEF KeysWhole
    <3> QED
      BY <2>7, <2>8, <2>9, <3>1
  <2>13. ASSUME pty[p] = "none"
         PROVE  /\ \E j \in 1 .. Len(toAgent') : OpenOf(toAgent'[j], p)
                /\ \A k \in 1 .. Len(toAgent') : InputOf(toAgent'[k], p) =>
                      \E j \in 1 .. k - 1 : OpenOf(toAgent'[j], p)
    <3>1. PICK j \in 1 .. Len(toAgent) : OpenOf(toAgent[j], p)
      BY <1>17, <2>6, <2>13 DEF KeysWhole
    <3>2. j \in 1 .. Len(toAgent') /\ OpenOf(toAgent'[j], p)
      BY <1>1, <2>1, <3>1
    <3>3. ASSUME NEW k \in 1 .. Len(toAgent'), InputOf(toAgent'[k], p)
          PROVE  \E l \in 1 .. k - 1 : OpenOf(toAgent'[l], p)
      <4>1. CASE k \in 1 .. Len(toAgent)
        <5>1. InputOf(toAgent[k], p)
          BY <2>1, <3>3, <4>1
        <5>2. PICK l \in 1 .. k - 1 : OpenOf(toAgent[l], p)
          BY <2>6, <2>13, <4>1, <5>1 DEF KeysWhole
        <5>3. toAgent'[l] = toAgent[l]
          BY <1>1, <2>1, <4>1
        <5> QED
          BY <5>2, <5>3
      <4>2. CASE k = Len(toAgent) + 1
        <5>1. j \in 1 .. k - 1
          BY <1>1, <4>2
        <5> QED
          BY <3>2, <5>1
      <4> QED
        BY <2>1, <4>1, <4>2
    <3> QED
      BY <3>2, <3>3
  <2>14. \A i \in 1 .. Len(got[p]) : got[p][i] > unheard[p] + 1 => i > 1 /\ got[p][i - 1] = got[p][i] - 1
    BY <2>6 DEF KeysWhole
  <2> QED
    BY <1>14, <2>4, <2>11, <2>12, <2>13, <2>14 DEF KeysWhole
<1> QED
  BY <1>7, <1>16, <1>17 DEF SendToHost

LEMMA PlatformTold ==
    ASSUME TermTypeOK, NEW m \in TermMessage, Tell(m), drops' = drops, up' = up, toAgent' = toAgent
    PROVE  /\ toPlatform' \in Seq(TermMessage)
           /\ \A q, types : m.panel # q \/ m.type \notin types => Kept(toPlatform, toPlatform', 0, q, types)
           /\ \A q, types : Kept(toAgent, toAgent', 0, q, types)
           /\ LinkHolds => LinkHolds' /\ (drops = 0 => toPlatform' = Append(toPlatform, m))
<1>0. toAgent \in Seq(TermCommand) /\ toPlatform \in Seq(TermMessage)
  BY TermTypes
<1>1. CASE up
  <2>1. toPlatform' = Append(toPlatform, m)
    BY <1>1 DEF Tell
  <2>2. toPlatform' \in Seq(TermMessage)
    BY <1>0, <2>1
  <2> QED
    BY <1>0, <1>1, <2>1, <2>2, KeptAppend, KeptSame DEF LinkHolds
<1>2. CASE ~up
  <2>1. toPlatform' = toPlatform
    BY <1>2 DEF Tell
  <2>2. LinkHolds => drops # 0
    <3>1. drops \in Nat
      BY TermTypes
    <3> QED
      BY <1>2, <3>1 DEF LinkHolds
  <2> QED
    BY <1>0, <1>2, <2>1, <2>2, KeptSame DEF LinkHolds
<1> QED
  BY <1>1, <1>2

(* What was sent to a panel was printed.                                   *)
LEMMA SentBound ==
    ASSUME TermTypeOK, NEW p \in Panels, PanelInv(p), drops = 0, client[p] = "open", browser[p] = "open",
           p \in sessions
    PROVE  Sent(p) \in 0 .. printed[p]
<1> DEFINE b == toBrowser[p]
           s == shown[p]
<1>1. /\ b \in Seq(PanelMsg) /\ s \in Seq(Chunks) /\ printed[p] \in Nat /\ Len(b) \in Nat /\ Len(s) \in Nat
  <2>1. b \in Seq(PanelMsg) /\ s \in Seq(Chunks) /\ printed[p] \in Nat
    BY TermTypes, TerminalAssumption
  <2> QED
    BY <2>1
<1>2. /\ \A i \in 1 .. Len(s) : s[i] = i /\ s[i] <= printed[p]
      /\ \A k \in 1 .. Len(b) : b[k].type = "data" =>
            b[k].n = Len(s) + k - OpenAhead(p) /\ b[k].n \in 1 .. printed[p]
      /\ \A k \in 1 .. Len(b) : b[k].type = "open" => k = 1 /\ s = <<>>
      /\ \A k \in 1 .. Len(b) : b[k].type \in {"open", "data"}
  <2>1. /\ \A i \in 1 .. Len(s) : s[i] = i /\ s[i] <= printed[p]
        /\ \A k \in 1 .. Len(b) : b[k].type = "data" =>
              b[k].n = Len(s) + k - OpenAhead(p) /\ b[k].n \in 1 .. printed[p]
    BY DEF PanelInv, OutputOrdered, OutputWhole
  <2>2. /\ \A k \in 1 .. Len(b) : b[k].type = "open" => k = 1 /\ s = <<>>
        /\ \A k \in 1 .. Len(b) : b[k].type \notin {"closed", "error", "close"}
    BY DEF PanelInv, PanelHolds, BrowserQueue
  <2>3. \A k \in 1 .. Len(b) : b[k] \in PanelMsg
    BY <1>1
  <2> QED
    BY <2>1, <2>2, <2>3 DEF PanelMsg
<1>3. OpenAhead(p) \in {0, 1} /\ (OpenAhead(p) = 1 => Len(b) >= 1 /\ b[1].type = "open")
  BY <1>1 DEF OpenAhead
<1>4. Sent(p) = Len(s) + Len(b) - OpenAhead(p)
  BY DEF Sent
<1> HIDE DEF b, s
<1>5. CASE Len(b) = 0
  <2>1. Sent(p) = Len(s)
    BY <1>1, <1>3, <1>4, <1>5
  <2>2. Len(s) # 0 => Len(s) \in 1 .. Len(s)
    BY <1>1
  <2> QED
    BY <1>1, <1>2, <2>1, <2>2
<1>6. CASE Len(b) # 0 /\ b[Len(b)].type = "data"
  <2>1. Len(b) \in 1 .. Len(b)
    BY <1>1, <1>6
  <2>2. b[Len(b)].n = Sent(p) /\ b[Len(b)].n \in 1 .. printed[p]
    BY <1>2, <1>4, <1>6, <2>1
  <2> QED
    BY <1>1, <2>2
<1>7. CASE Len(b) # 0 /\ b[Len(b)].type = "open"
  <2>1. Len(b) \in 1 .. Len(b)
    BY <1>1, <1>7
  <2>2. Len(b) = 1 /\ s = <<>> /\ b # <<>> /\ b[1].type = "open"
    BY <1>1, <1>2, <1>7, <2>1
  <2>3. OpenAhead(p) = 1 /\ Len(s) = 0
    BY <2>2 DEF OpenAhead, b
  <2> QED
    BY <1>1, <1>4, <2>2, <2>3
<1> QED
  <2>1. Len(b) # 0 => Len(b) \in 1 .. Len(b)
    BY <1>1
  <2> QED
    BY <1>2, <1>5, <1>6, <1>7, <2>1

LEMMA MessageShapes ==
    ASSUME NEW p \in Panels, NEW type \in MessageTypes, NEW n \in 0 .. MaxChunks,
           NEW m, m = [type |-> type, panel |-> p, n |-> n]
    PROVE  m \in TermMessage /\ m.panel = p /\ m.type = type /\ m.n = n
  BY DEF TermMessage, MessageTypes

LEMMA OutputKeeps == ASSUME TermInv, NEW p \in Panels, Output(p) PROVE TermInv'
<1>0. /\ TermTypeOK /\ PanelInv(p) /\ LinkHolds /\ pty[p] = "running" /\ printed[p] < MaxChunks
      /\ UNCHANGED <<panel, client, typed, unheard, shown, fromBrowser, toBrowser, handler, browser, sessions,
                     pty, got, up, toAgent, drops>>
  BY DEF TermInv, Output, inBrowser
<1>1. /\ toAgent \in Seq(TermCommand) /\ toPlatform \in Seq(TermMessage)
      /\ printed \in [Panels -> 0 .. MaxChunks] /\ printed[p] \in Nat /\ drops \in Nat
      /\ shown \in [Panels -> Seq(Chunks)]
  BY <1>0, TermTypes, TerminalAssumption
<1>2. PICK n \in 1 .. MaxChunks : n = printed[p] + 1
  BY <1>0, <1>1, TerminalAssumption
<1>3. printed' = [printed EXCEPT ![p] = n] /\ printed'[p] = n /\ printed' \in [Panels -> 0 .. MaxChunks]
  BY <1>1, <1>2 DEF Output
<1> DEFINE msg == [type |-> "terminal_data", panel |-> p, n |-> n]
<1>4. msg \in TermMessage /\ msg.panel = p /\ msg.type = "terminal_data" /\ msg.n = n
  BY MessageShapes DEF MessageTypes
<1>5. Tell(msg)
  BY <1>3 DEF Output
<1> HIDE DEF msg
<1>6. /\ toPlatform' \in Seq(TermMessage) /\ LinkHolds'
      /\ \A q, types : p # q => Kept(toPlatform, toPlatform', 0, q, types)
      /\ \A q, types : Kept(toAgent, toAgent', 0, q, types)
      /\ drops = 0 => toPlatform' = Append(toPlatform, msg)
  BY <1>0, <1>4, <1>5, PlatformTold
<1>7. TermTypeOK'
  <2>1. LinkTypeOK(TermCommand, TermMessage)'
    <3>1. up \in BOOLEAN /\ drops \in 0 .. MaxDrops
      BY <1>0 DEF TermTypeOK, LinkTypeOK
    <3> QED
      BY <1>0, <1>1, <1>6, <3>1 DEF LinkTypeOK, TermCommand, TermMessage
  <2> QED
    BY <1>0, <1>3, <2>1, TermTypes, TypesAgain
<1>8. \A q \in Panels \ {p} : /\ PanelSame(q) /\ Kept(toAgent, toAgent', 0, q, CommandTypes)
                               /\ Kept(toPlatform, toPlatform', 0, q, MessageTypes)
  <2>1. \A q \in Panels \ {p} : PanelSame(q)
    BY <1>0, <1>1, <1>3 DEF PanelSame
  <2> QED
    BY <1>6, <2>1
<1>9. PanelHolds(p)'
  BY <1>0, HoldsFrame DEF PanelInv
<1>10. AgentHears(p)'
  <2>1. handler[p] = "listening"
    BY <1>0 DEF PanelInv, AgentHears
  <2> QED
    BY <1>0, <1>6, <1>7, <2>1, HearsFrame DEF PanelInv, Kept
<1>11. /\ Len(toPlatform) \in Nat /\ Len(toPlatform') \in Nat
       /\ \A i \in 1 .. Len(toPlatform') :
             \/ i \in 1 .. Len(toPlatform) /\ toPlatform'[i] = toPlatform[i]
             \/ i = Len(toPlatform) + 1 /\ toPlatform'[i] = msg
  <2>1. CASE toPlatform' = Append(toPlatform, msg)
    BY <1>1, <2>1, AppendHolds
  <2>2. CASE toPlatform' = toPlatform
    <3>1. Len(toPlatform) \in Nat
      BY <1>1
    <3> QED
      BY <2>2, <3>1
  <2> QED
    BY <1>5, <2>1, <2>2 DEF Tell
<1>12. OutputOrdered(p)'
  <2>0. OutputOrdered(p) /\ shown' = shown /\ toBrowser' = toBrowser
    BY <1>0 DEF PanelInv
  <2>1. \A i \in 1 .. Len(shown[p]) :
           /\ shown[p][i] <= n /\ shown[p][i] < n /\ \A j \in 1 .. i - 1 : shown[p][j] < shown[p][i]
    <3> SUFFICES ASSUME NEW i \in 1 .. Len(shown[p])
                 PROVE  /\ shown[p][i] <= n /\ shown[p][i] < n
                        /\ \A j \in 1 .. i - 1 : shown[p][j] < shown[p][i]
      OBVIOUS
    <3>1. shown[p][i] \in Nat
      <4>1. shown[p] \in Seq(Chunks)
        BY <1>1
      <4> QED
        BY <4>1, TerminalAssumption DEF Chunks
    <3>2. shown[p][i] <= printed[p] /\ \A j \in 1 .. i - 1 : shown[p][j] < shown[p][i]
      BY <2>0 DEF OutputOrdered
    <3> QED
      BY <1>1, <1>2, <3>1, <3>2
  <2>2. \A k \in 1 .. Len(toBrowser[p]) : toBrowser[p][k].type = "data" =>
           /\ toBrowser[p][k].n \in 1 .. n /\ toBrowser[p][k].n < n
           /\ \A i \in 1 .. Len(shown[p]) : shown[p][i] < toBrowser[p][k].n
           /\ \A l \in 1 .. k - 1 : toBrowser[p][l].type = "data" => toBrowser[p][l].n < toBrowser[p][k].n
    BY <1>1, <1>2, <2>0 DEF OutputOrdered
  <2>3. ASSUME NEW i \in 1 .. Len(toPlatform), DataOf(toPlatform[i], p)
        PROVE  /\ toPlatform[i].n \in 1 .. n /\ toPlatform[i].n < n
               /\ \A j \in 1 .. Len(shown[p]) : shown[p][j] < toPlatform[i].n
               /\ \A k \in 1 .. Len(toBrowser[p]) :
                     toBrowser[p][k].type = "data" => toBrowser[p][k].n < toPlatform[i].n
               /\ \A j \in 1 .. i - 1 : DataOf(toPlatform[j], p) => toPlatform[j].n < toPlatform[i].n
    BY <1>1, <1>2, <2>0, <2>3 DEF OutputOrdered
  <2>4. ASSUME NEW i \in 1 .. Len(toPlatform'), DataOf(toPlatform'[i], p)
        PROVE  /\ toPlatform'[i].n \in 1 .. n
               /\ \A j \in 1 .. Len(shown[p]) : shown[p][j] < toPlatform'[i].n
               /\ \A k \in 1 .. Len(toBrowser[p]) :
                     toBrowser[p][k].type = "data" => toBrowser[p][k].n < toPlatform'[i].n
               /\ \A j \in 1 .. i - 1 : DataOf(toPlatform'[j], p) => toPlatform'[j].n < toPlatform'[i].n
    <3>1. \A j \in 1 .. i - 1 : j \in 1 .. Len(toPlatform) /\ toPlatform'[j] = toPlatform[j]
      <4>1. \A j \in 1 .. i - 1 : j \in 1 .. Len(toPlatform') /\ j # Len(toPlatform) + 1
        BY <1>11
      <4> QED
        BY <1>11, <4>1
    <3>2. CASE i \in 1 .. Len(toPlatform) /\ toPlatform'[i] = toPlatform[i]
      BY <2>3, <2>4, <3>1, <3>2
    <3>3. CASE i = Len(toPlatform) + 1 /\ toPlatform'[i] = msg
      <4>1. toPlatform'[i].n = n /\ n \in 1 .. n
        BY <1>4, <3>3
      <4> QED
        BY <2>1, <2>2, <2>3, <3>1, <4>1
    <3> QED
      BY <1>11, <3>2, <3>3
  <2>5. \A m : DataOf(m, p)' <=> DataOf(m, p)
    BY DEF DataOf
  <2> QED
    BY <1>3, <2>0, <2>1, <2>2, <2>4, <2>5 DEF OutputOrdered
<1>13. OutputWhole(p)'
  <2> SUFFICES ASSUME drops = 0 PROVE OutputWhole(p)'
    BY <1>0 DEF OutputWhole
  <2>0. OutputWhole(p) /\ Sent(p)' = Sent(p) /\ OpenAhead(p)' = OpenAhead(p)
    BY <1>0 DEF PanelInv, Sent, OpenAhead
  <2>1. ASSUME client[p] = "open", p \in sessions, browser[p] = "open" PROVE NoneMissing(p)'
    <3>0. Sent(p) \in 0 .. printed[p] /\ NoneMissing(p)
      BY <1>0, <2>0, <2>1, SentBound DEF OutputWhole
    <3>1. /\ Len(toPlatform') = Len(toPlatform) + 1 /\ toPlatform'[Len(toPlatform) + 1] = msg
          /\ \A i \in 1 .. Len(toPlatform) : toPlatform'[i] = toPlatform[i]
      <4>1. toPlatform' = Append(toPlatform, msg)
        BY <1>6
      <4> QED
        BY <1>1, <4>1, AppendHolds
    <3>2. \A i \in 1 .. Len(toPlatform') : DataOf(toPlatform'[i], p) => toPlatform'[i].n > Sent(p)
      <4>1. \A i \in 1 .. Len(toPlatform) : DataOf(toPlatform[i], p) => toPlatform[i].n > Sent(p)
        BY <3>0 DEF NoneMissing
      <4>2. msg.n > Sent(p)
        BY <1>1, <1>2, <1>4, <3>0
      <4> QED
        BY <1>11, <4>1, <4>2
    <3>3. ASSUME NEW m \in Sent(p) + 1 .. n
          PROVE  \E i \in 1 .. Len(toPlatform') : DataOf(toPlatform'[i], p) /\ toPlatform'[i].n = m
      <4>1. CASE m = n
        <5>1. Len(toPlatform') \in 1 .. Len(toPlatform') /\ toPlatform'[Len(toPlatform')] = msg
          BY <1>11, <3>1
        <5> QED
          BY <1>4, <4>1, <5>1 DEF DataOf
      <4>2. CASE m # n
        <5>1. m \in Sent(p) + 1 .. printed[p]
          BY <1>1, <1>2, <3>0, <4>2
        <5>2. PICK i \in 1 .. Len(toPlatform) : DataOf(toPlatform[i], p) /\ toPlatform[i].n = m
          BY <3>0, <5>1 DEF NoneMissing
        <5>3. i \in 1 .. Len(toPlatform') /\ toPlatform'[i] = toPlatform[i]
          BY <1>11, <3>1
        <5> QED
          BY <5>2, <5>3
      <4> QED
        BY <4>1, <4>2
    <3> QED
      BY <1>3, <2>0, <3>2, <3>3 DEF NoneMissing, DataOf
  <2> QED
    BY <1>0, <2>0, <2>1 DEF OutputWhole
<1>14. KeysOrdered(p)' /\ KeysWhole(p)'
  BY <1>0, <1>6, NothingTyped, KeysFrame, KeysWholeFrame DEF PanelInv, Kept
<1> QED
  BY <1>0, <1>6, <1>7, <1>8, <1>9, <1>10, <1>12, <1>13, <1>14, OnePanel DEF PanelInv

LEMMA ExitKeeps == ASSUME TermInv, NEW p \in Panels, Exit(p) PROVE TermInv'
<1>0. /\ TermTypeOK /\ PanelInv(p) /\ LinkHolds /\ pty[p] = "running"
      /\ UNCHANGED <<panel, client, typed, unheard, shown, fromBrowser, toBrowser, handler, browser, sessions,
                     got, printed, up, toAgent, drops>>
      /\ pty' = [pty EXCEPT ![p] = "exited"]
  BY DEF TermInv, Exit, inBrowser
<1>1. /\ toAgent \in Seq(TermCommand) /\ toPlatform \in Seq(TermMessage)
      /\ pty \in [Panels -> {"none", "running", "exited"}]
  BY <1>0, TermTypes
<1> DEFINE msg == [type |-> "terminal_closed", panel |-> p, n |-> 0]
<1>2. msg \in TermMessage /\ msg.panel = p /\ msg.type = "terminal_closed"
  BY MessageShapes, TerminalAssumption DEF MessageTypes
<1>3. Tell(msg)
  BY DEF Exit
<1> HIDE DEF msg
<1>4. /\ toPlatform' \in Seq(TermMessage) /\ LinkHolds'
      /\ \A q, types : p # q \/ "terminal_closed" \notin types => Kept(toPlatform, toPlatform', 0, q, types)
      /\ \A q, types : Kept(toAgent, toAgent', 0, q, types)
  BY <1>0, <1>2, <1>3, PlatformTold
<1>5. pty' \in [Panels -> {"none", "running", "exited"}] /\ pty'[p] = "exited"
  BY <1>0, <1>1
<1>6. TermTypeOK'
  <2>1. LinkTypeOK(TermCommand, TermMessage)'
    <3>1. up \in BOOLEAN /\ drops \in 0 .. MaxDrops
      BY <1>0 DEF TermTypeOK, LinkTypeOK
    <3> QED
      BY <1>0, <1>1, <1>4, <3>1 DEF LinkTypeOK, TermCommand, TermMessage
  <2> QED
    BY <1>0, <1>5, <2>1, TermTypes, TypesAgain
<1>7. \A q \in Panels \ {p} : /\ PanelSame(q) /\ Kept(toAgent, toAgent', 0, q, CommandTypes)
                               /\ Kept(toPlatform, toPlatform', 0, q, MessageTypes)
  <2>1. \A q \in Panels \ {p} : PanelSame(q)
    BY <1>0, <1>1 DEF PanelSame
  <2> QED
    BY <1>4, <2>1
<1>8. PanelHolds(p)'
  BY <1>0, HoldsFrame DEF PanelInv
<1>9. AgentHears(p)'
  <2>1. handler[p] = "listening" /\ \A i \in 1 .. Len(toAgent) : ~OpenOf(toAgent[i], p)
    BY <1>0 DEF PanelInv, AgentHears
  <2> QED
    BY <1>0, <2>1 DEF PanelInv, AgentHears, OpenOf
<1>10. OutputOrdered(p)' /\ OutputWhole(p)'
  <2>1. Kept(toPlatform, toPlatform', 0, p, {"terminal_data"})
    BY <1>4
  <2> QED
    BY <1>0, <2>1, OrderedFrame, WholeFrame DEF PanelInv, Kept
<1>11. KeysOrdered(p)'
  BY <1>0, <1>4, NothingTyped, KeysFrame DEF PanelInv, Kept
<1>12. KeysWhole(p)'
  BY <1>0, <1>5 DEF PanelInv, KeysWhole
<1> QED
  BY <1>0, <1>4, <1>6, <1>7, <1>8, <1>9, <1>10, <1>11, <1>12, OnePanel DEF PanelInv

LEMMA Forwards ==
    ASSUME TermInv, Forward, NEW p \in Panels, Head(toPlatform).panel = p
    PROVE  /\ TermTypeOK /\ PanelInv(p) /\ toPlatform # <<>> /\ toPlatform \in Seq(TermMessage)
           /\ toAgent \in Seq(TermCommand) /\ Head(toPlatform) = toPlatform[1] /\ 1 \in 1 .. Len(toPlatform)
           /\ Head(toPlatform) \in TermMessage
           /\ toPlatform' = Tail(toPlatform) /\ toPlatform' \in Seq(TermMessage) /\ up /\ handler[p] = "listening"
           /\ UNCHANGED <<panel, client, typed, unheard, shown, fromBrowser, handler, pty, got, printed, up,
                          drops>>
           /\ \A q \in Panels \ {p} : Kept(toPlatform, toPlatform', 1, q, MessageTypes)
           /\ \A types : Comes(toPlatform, toPlatform', 1, p, types)
<1>0. /\ TermTypeOK /\ PanelInv(p) /\ toPlatform # <<>> /\ toPlatform \in Seq(TermMessage)
      /\ toAgent \in Seq(TermCommand) /\ toPlatform' = Tail(toPlatform) /\ up \in BOOLEAN
      /\ UNCHANGED <<panel, client, typed, unheard, shown, fromBrowser, handler, pty, got, printed, up, drops>>
  BY TermTypes DEF TermInv, Forward, inBrowser, onHost
<1>1. /\ Head(toPlatform) = toPlatform[1] /\ 1 \in 1 .. Len(toPlatform) /\ Head(toPlatform) \in TermMessage
      /\ toPlatform' \in Seq(TermMessage)
  BY <1>0, TailHolds
<1>2. up
  BY <1>0 DEF TermInv, LinkHolds
<1>3. handler[p] = "listening"
  BY <1>0, <1>1 DEF PanelInv, AgentHears
<1>4. \A q \in Panels \ {p} : Kept(toPlatform, toPlatform', 1, q, MessageTypes)
  BY <1>0, KeptTail
<1>5. \A types : Comes(toPlatform, toPlatform', 1, p, types)
  BY <1>0, TailComes
<1> QED
  BY <1>0, <1>1, <1>2, <1>3, <1>4, <1>5

(* Output of a session whose browser is there goes on to it.               *)
LEMMA ForwardShown ==
    ASSUME TermInv, Forward, NEW p \in Panels, Head(toPlatform).panel = p,
           Head(toPlatform).type = "terminal_data", p \in sessions, browser[p] = "open",
           ToBrowser(p, <<Msg("data", Head(toPlatform).n)>>), UNCHANGED <<sessions, toAgent, browser>>
    PROVE  TermInv'
<1>0. /\ TermTypeOK /\ PanelInv(p) /\ toPlatform # <<>> /\ toPlatform \in Seq(TermMessage)
      /\ toAgent \in Seq(TermCommand) /\ Head(toPlatform) = toPlatform[1] /\ 1 \in 1 .. Len(toPlatform)
      /\ Head(toPlatform) \in TermMessage
      /\ toPlatform' = Tail(toPlatform) /\ toPlatform' \in Seq(TermMessage) /\ up /\ handler[p] = "listening"
      /\ UNCHANGED <<panel, client, typed, unheard, shown, fromBrowser, handler, pty, got, printed, up, drops>>
      /\ \A q \in Panels \ {p} : Kept(toPlatform, toPlatform', 1, q, MessageTypes)
      /\ \A types : Comes(toPlatform, toPlatform', 1, p, types)
  BY Forwards
<1>1. PICK n \in 0 .. MaxChunks : n = Head(toPlatform).n
  BY <1>0 DEF TermMessage
<1>2. /\ toBrowser \in [Panels -> Seq(PanelMsg)] /\ toBrowser[p] \in Seq(PanelMsg) /\ shown[p] \in Seq(Chunks)
      /\ Len(shown[p]) \in Nat /\ printed[p] \in Nat /\ drops \in Nat
  <2>1. toBrowser \in [Panels -> Seq(PanelMsg)] /\ shown[p] \in Seq(Chunks)
    BY <1>0, TermTypes
  <2> QED
    BY <1>0, <2>1, TermTypes, TerminalAssumption
<1> DEFINE word == Msg("data", n)
           b == toBrowser[p]
           t == toBrowser'[p]
<1>3. word \in PanelMsg /\ word.type = "data" /\ word.n = n
  BY DEF Msg, PanelMsg
<1>4. toBrowser' = [toBrowser EXCEPT ![p] = b \o <<word>>]
  BY <1>1, <1>2 DEF ToBrowser
<1> HIDE DEF word
<1>5. /\ b \o <<word>> \in Seq(PanelMsg) /\ Len(b) \in Nat /\ Len(b \o <<word>>) = Len(b) + 1
      /\ (b \o <<word>>)[Len(b) + 1] = word /\ \A i \in 1 .. Len(b) : (b \o <<word>>)[i] = b[i]
  BY <1>2, <1>3, OneMore
<1>6. toBrowser' \in [Panels -> Seq(PanelMsg)] /\ t = b \o <<word>>
  BY <1>2, <1>4, <1>5
<1>7. /\ Len(t) = Len(b) + 1 /\ t[Len(b) + 1] = word /\ \A i \in 1 .. Len(b) : t[i] = b[i]
      /\ \A i \in 1 .. Len(t) : i \in 1 .. Len(b) \/ i = Len(b) + 1
  BY <1>5, <1>6
<1>8. TermTypeOK'
  <2>1. LinkTypeOK(TermCommand, TermMessage)'
    <3>1. up \in BOOLEAN /\ drops \in 0 .. MaxDrops
      BY <1>0 DEF TermTypeOK, LinkTypeOK
    <3> QED
      BY <1>0, <3>1 DEF LinkTypeOK, TermCommand, TermMessage
  <2> QED
    BY <1>0, <1>6, <2>1, TermTypes, TypesAgain
<1>9. \A q \in Panels \ {p} : /\ PanelSame(q) /\ Kept(toAgent, toAgent', 0, q, CommandTypes)
                               /\ Kept(toPlatform, toPlatform', 1, q, MessageTypes)
  <2>1. \A q \in Panels \ {p} : PanelSame(q)
    BY <1>0, <1>2, <1>4 DEF PanelSame
  <2> QED
    BY <1>0, <2>1, KeptSame
<1> HIDE DEF b, t
<1>10. LinkHolds'
  BY <1>0 DEF LinkHolds
<1>11. \A i \in 1 .. Len(b) : b[i].type \in {"open", "data"}
  <2>1. \A i \in 1 .. Len(b) : b[i].type \notin {"closed", "error", "close"}
    BY <1>0 DEF PanelInv, PanelHolds, BrowserQueue, b
  <2>2. \A i \in 1 .. Len(b) : b[i] \in PanelMsg
    BY <1>2 DEF b
  <2> QED
    BY <2>1, <2>2 DEF PanelMsg
<1>12. PanelHolds(p)'
  <2>1. \A i \in 1 .. Len(t) : t[i].type \in {"open", "data"} /\ (t[i].type = "open" => i = 1 /\ shown[p] = <<>>)
    <3>1. \A i \in 1 .. Len(b) : b[i].type = "open" => i = 1 /\ shown[p] = <<>>
      BY <1>0 DEF PanelInv, PanelHolds, BrowserQueue, b
    <3> QED
      BY <1>3, <1>7, <1>11, <3>1
  <2>2. BrowserQueue(p)'
    BY <1>0, <2>1 DEF BrowserQueue, t
  <2>3. ~Early(p)' /\ ~Early(p)
    BY <1>0 DEF Early
  <2> QED
    BY <1>0, <2>2, <2>3 DEF PanelInv, PanelHolds
<1>13. AgentHears(p)'
  <2>1. Comes(toAgent, toAgent', 0, p, CommandTypes)
    BY <1>0, KeptSame DEF Kept
  <2> QED
    BY <1>0, <1>8, <2>1, HearsFrame DEF PanelInv
<1>14. /\ Len(toPlatform) \in Nat /\ Len(toPlatform') = Len(toPlatform) - 1
       /\ \A i \in 1 .. Len(toPlatform') : i + 1 \in 1 .. Len(toPlatform) /\ toPlatform'[i] = toPlatform[i + 1]
       /\ \A i \in 1 .. Len(toPlatform) : i = 1 \/ (i - 1 \in 1 .. Len(toPlatform') /\ toPlatform[i] = toPlatform'[i - 1])
  <2>1. /\ Len(toPlatform) \in Nat /\ Len(toPlatform) >= 1 /\ Len(toPlatform') = Len(toPlatform) - 1
        /\ \A i \in 1 .. Len(toPlatform) - 1 : toPlatform'[i] = toPlatform[i + 1]
    BY <1>0, TailHolds
  <2>2. ASSUME NEW i \in 1 .. Len(toPlatform), i # 1
        PROVE  i - 1 \in 1 .. Len(toPlatform') /\ toPlatform[i] = toPlatform'[i - 1]
    <3>1. i - 1 \in 1 .. Len(toPlatform) - 1 /\ (i - 1) + 1 = i
      BY <2>1, <2>2
    <3> QED
      BY <2>1, <3>1
  <2> QED
    BY <2>1, <2>2
<1>15. /\ DataOf(toPlatform[1], p) /\ toPlatform[1].n = n /\ n \in 1 .. printed[p]
       /\ \A j \in 1 .. Len(shown[p]) : shown[p][j] < n
       /\ \A k \in 1 .. Len(b) : b[k].type = "data" => b[k].n < n
  <2>1. DataOf(toPlatform[1], p) /\ toPlatform[1].n = n
    BY <1>0, <1>1 DEF DataOf
  <2> QED
    BY <1>0, <2>1 DEF PanelInv, OutputOrdered, b
<1>16. ASSUME NEW i \in 1 .. Len(toPlatform'), DataOf(toPlatform'[i], p)
       PROVE  /\ toPlatform'[i].n \in 1 .. printed[p] /\ n < toPlatform'[i].n
              /\ \A j \in 1 .. Len(shown[p]) : shown[p][j] < toPlatform'[i].n
              /\ \A k \in 1 .. Len(b) : b[k].type = "data" => b[k].n < toPlatform'[i].n
              /\ \A j \in 1 .. i - 1 : DataOf(toPlatform'[j], p) => toPlatform'[j].n < toPlatform'[i].n
  <2>4. i + 1 \in 1 .. Len(toPlatform) /\ toPlatform'[i] = toPlatform[i + 1] /\ 1 \in 1 .. i + 1 - 1
    BY <1>14
  <2>5. ASSUME NEW j \in 1 .. i - 1
        PROVE  j + 1 \in 1 .. i + 1 - 1 /\ toPlatform'[j] = toPlatform[j + 1]
    <3>1. j \in 1 .. Len(toPlatform') /\ j + 1 \in 1 .. i + 1 - 1
      OBVIOUS
    <3> QED
      BY <1>14, <3>1
  <2>1. /\ i + 1 \in 1 .. Len(toPlatform) /\ toPlatform'[i] = toPlatform[i + 1] /\ 1 \in 1 .. i + 1 - 1
        /\ \A j \in 1 .. i - 1 : j + 1 \in 1 .. i + 1 - 1 /\ toPlatform'[j] = toPlatform[j + 1]
    BY <2>4, <2>5
  <2>2. DataOf(toPlatform[i + 1], p)
    BY <1>16, <2>1
  <2>3. /\ toPlatform[i + 1].n \in 1 .. printed[p]
        /\ \A j \in 1 .. Len(shown[p]) : shown[p][j] < toPlatform[i + 1].n
        /\ \A k \in 1 .. Len(b) : b[k].type = "data" => b[k].n < toPlatform[i + 1].n
        /\ \A j \in 1 .. i + 1 - 1 : DataOf(toPlatform[j], p) => toPlatform[j].n < toPlatform[i + 1].n
    BY <1>0, <2>1, <2>2 DEF PanelInv, OutputOrdered, b
  <2> QED
    BY <1>15, <2>1, <2>3
<1>17. OutputOrdered(p)'
  <2>1. ASSUME NEW k \in 1 .. Len(t), t[k].type = "data"
        PROVE  /\ t[k].n \in 1 .. printed[p]
               /\ \A i \in 1 .. Len(shown[p]) : shown[p][i] < t[k].n
               /\ \A l \in 1 .. k - 1 : t[l].type = "data" => t[l].n < t[k].n
    <3>1. \A l \in 1 .. k - 1 : l \in 1 .. Len(b) /\ t[l] = b[l]
      <4>1. \A l \in 1 .. k - 1 : l \in 1 .. Len(t) /\ l # Len(b) + 1
        BY <1>5, <1>7 DEF b
      <4> QED
        BY <1>7, <4>1
    <3>2. CASE k \in 1 .. Len(b)
      <4>1. t[k] = b[k]
        BY <1>7, <3>2
      <4> QED
        BY <1>0, <2>1, <3>1, <3>2, <4>1 DEF PanelInv, OutputOrdered, b
    <3>3. CASE k = Len(b) + 1
      <4>1. t[k].n = n
        BY <1>3, <1>7, <3>3
      <4> QED
        BY <1>15, <3>1, <4>1
    <3> QED
      BY <1>7, <3>2, <3>3
  <2>2. ASSUME NEW i \in 1 .. Len(toPlatform'), DataOf(toPlatform'[i], p)
        PROVE  \A k \in 1 .. Len(t) : t[k].type = "data" => t[k].n < toPlatform'[i].n
    BY <1>3, <1>7, <1>16, <2>2
  <2>3. \A i \in 1 .. Len(shown[p]) : /\ shown[p][i] <= printed[p]
                                      /\ \A j \in 1 .. i - 1 : shown[p][j] < shown[p][i]
    BY <1>0 DEF PanelInv, OutputOrdered
  <2>4. \A m : DataOf(m, p)' <=> DataOf(m, p)
    BY DEF DataOf
  <2> QED
    BY <1>0, <1>16, <2>1, <2>2, <2>3, <2>4 DEF OutputOrdered, t
<1>18. OutputWhole(p)'
  <2> SUFFICES ASSUME drops = 0 PROVE OutputWhole(p)'
    BY <1>0 DEF OutputWhole
  <2>0. /\ \A i \in 1 .. Len(shown[p]) : shown[p][i] = i
        /\ client[p] = "open" =>
              /\ \A k \in 1 .. Len(b) : b[k].type = "data" => b[k].n = Len(shown[p]) + k - OpenAhead(p)
              /\ NoneMissing(p)
    BY <1>0 DEF PanelInv, OutputWhole, b
  <2>1. OpenAhead(p)' = OpenAhead(p) /\ OpenAhead(p) \in {0, 1}
    <3>1. CASE Len(b) = 0
      <4>1. b = <<>> /\ t # <<>> /\ t[1].type = "data"
        <5>1. Len(b) + 1 = 1
          BY <3>1
        <5>2. Len(t) = 1 /\ t[1] = word
          BY <1>7, <5>1
        <5>3. b \in Seq(PanelMsg)
          BY <1>2 DEF b
        <5>4. b = <<>>
          BY <3>1, <5>3
        <5>5. t # <<>>
          <6>1. Len(<<>>) = 0 /\ Len(t) # 0
            BY <5>2
          <6> QED
            BY <6>1, Zenon
        <5> QED
          BY <1>3, <5>2, <5>4, <5>5
      <4> QED
        BY <4>1 DEF OpenAhead, b, t
    <3>2. CASE Len(b) # 0
      <4>1. b # <<>> /\ t # <<>> /\ t[1] = b[1]
        <5>1. 1 \in 1 .. Len(b) /\ Len(t) # 0
          BY <1>5, <1>7, <3>2 DEF b
        <5> QED
          BY <1>7, <3>2, <5>1
      <4> QED
        BY <4>1 DEF OpenAhead, b, t
    <3> QED
      BY <3>1, <3>2
  <2>2. Sent(p) = Len(shown[p]) + Len(b) - OpenAhead(p) /\ Sent(p)' = Len(shown[p]) + Len(t) - OpenAhead(p)
    BY <1>0, <2>1 DEF Sent, b, t
  <2>3. Sent(p)' = Sent(p) + 1
    <3>1. Len(b) \in Nat
      BY <1>5 DEF b
    <3>2. \A x, y \in Nat, z \in {0, 1} : x + (y + 1) - z = x + y - z + 1
      OBVIOUS
    <3>5. Len(shown[p]) \in Nat /\ OpenAhead(p) \in {0, 1}
      BY <1>2, <2>1
    <3>3. Len(shown[p]) + (Len(b) + 1) - OpenAhead(p) = Len(shown[p]) + Len(b) - OpenAhead(p) + 1
      BY <3>1, <3>2, <3>5
    <3>4. Len(t) = Len(b) + 1
      BY <1>7
    <3> QED
      BY <2>2, <3>3, <3>4, Zenon
  <2>4. ASSUME client[p] = "open" PROVE n = Sent(p) + 1 /\ Sent(p) \in Nat
    <3>1. n > Sent(p) /\ Sent(p) \in 0 .. printed[p]
      BY <1>0, <1>15, <2>0, <2>4, SentBound DEF NoneMissing
    <3>2. Sent(p) + 1 \in Sent(p) + 1 .. printed[p]
      BY <1>2, <1>15, <3>1
    <3>a. \A m \in Sent(p) + 1 .. printed[p] :
             \E i \in 1 .. Len(toPlatform) : DataOf(toPlatform[i], p) /\ toPlatform[i].n = m
      BY <2>0, <2>4 DEF NoneMissing
    <3>3. PICK i \in 1 .. Len(toPlatform) : DataOf(toPlatform[i], p) /\ toPlatform[i].n = Sent(p) + 1
      <4>1. PICK m \in Sent(p) + 1 .. printed[p] : m = Sent(p) + 1
        BY <3>2
      <4>2. PICK i \in 1 .. Len(toPlatform) : DataOf(toPlatform[i], p) /\ toPlatform[i].n = m
        BY <3>a
      <4>3. toPlatform[i].n = Sent(p) + 1
        BY <4>1, <4>2
      <4> QED
        BY <4>2, <4>3, Zenon
    <3>4. CASE i = 1
      BY <1>2, <1>15, <3>1, <3>3, <3>4
    <3>5. CASE i # 1
      <4>1. i - 1 \in 1 .. Len(toPlatform') /\ toPlatform[i] = toPlatform'[i - 1]
        BY <1>14, <3>5
      <4>2. n < Sent(p) + 1
        BY <1>16, <3>3, <4>1
      <4> QED
        BY <1>2, <1>15, <3>1, <4>2
    <3> QED
      BY <1>2, <3>1, <3>4, <3>5
  <2>5. ASSUME client[p] = "open" PROVE NoneMissing(p)'
    <3>1. \A i \in 1 .. Len(toPlatform') : DataOf(toPlatform'[i], p) => toPlatform'[i].n > Sent(p) + 1
      BY <1>2, <1>15, <1>16, <2>3, <2>4, <2>5
    <3>2. ASSUME NEW m \in Sent(p) + 1 + 1 .. printed[p]
          PROVE  \E i \in 1 .. Len(toPlatform') : DataOf(toPlatform'[i], p) /\ toPlatform'[i].n = m
      <4>1. m \in Sent(p) + 1 .. printed[p] /\ m # n
        BY <1>2, <2>3, <2>4, <2>5
      <4>2. PICK i \in 1 .. Len(toPlatform) : DataOf(toPlatform[i], p) /\ toPlatform[i].n = m
        BY <2>0, <2>5, <4>1 DEF NoneMissing
      <4>3. i # 1
        BY <1>15, <4>1, <4>2
      <4>4. i - 1 \in 1 .. Len(toPlatform') /\ toPlatform[i] = toPlatform'[i - 1]
        BY <1>14, <4>3
      <4> QED
        BY <4>2, <4>4
    <3> QED
      BY <1>0, <2>3, <3>1, <3>2 DEF NoneMissing, DataOf
  <2>6. ASSUME client[p] = "open", NEW k \in 1 .. Len(t), t[k].type = "data"
        PROVE  t[k].n = Len(shown[p]) + k - OpenAhead(p)
    <3>1. CASE k \in 1 .. Len(b)
      BY <1>7, <2>0, <2>6, <3>1
    <3>2. CASE k = Len(b) + 1
      <4>1. t[k].n = n /\ n = Sent(p) + 1
        BY <1>3, <1>7, <2>4, <2>6, <3>2
      <4>2. Len(b) \in Nat
        BY <1>5 DEF b
      <4>3. \A x, y \in Nat, z \in {0, 1} : x + y - z + 1 = x + (y + 1) - z
        OBVIOUS
      <4>5. Len(shown[p]) \in Nat /\ OpenAhead(p) \in {0, 1}
        BY <1>2, <2>1
      <4>4. Len(shown[p]) + Len(b) - OpenAhead(p) + 1 = Len(shown[p]) + (Len(b) + 1) - OpenAhead(p)
        BY <4>2, <4>3, <4>5
      <4> QED
        BY <2>2, <3>2, <4>1, <4>4, Zenon
    <3> QED
      BY <1>7, <3>1, <3>2
  <2> QED
    BY <1>0, <2>0, <2>1, <2>5, <2>6 DEF OutputWhole, t
<1>19. KeysOrdered(p)' /\ KeysWhole(p)'
  <2>1. Kept(toAgent, toAgent', 0, p, KeyTypes)
    BY <1>0, KeptSame
  <2> QED
    BY <1>0, <2>1, NothingTyped, KeysFrame, KeysWholeFrame DEF PanelInv, Kept
<1> QED
  BY <1>0, <1>8, <1>9, <1>10, <1>12, <1>13, <1>17, <1>18, <1>19, OnePanel DEF PanelInv

(* Output that has nowhere to go ends the session.                         *)
LEMMA ForwardEnds ==
    ASSUME TermInv, Forward, NEW p \in Panels, Head(toPlatform).panel = p,
           ~ (p \in sessions /\ browser[p] = "open"),
           EndSession(p), UNCHANGED <<toBrowser, browser>>
    PROVE  TermInv'
<1>0. /\ TermTypeOK /\ PanelInv(p) /\ LinkHolds /\ toPlatform # <<>> /\ toPlatform \in Seq(TermMessage)
      /\ toAgent \in Seq(TermCommand)
      /\ toPlatform' = Tail(toPlatform) /\ toPlatform' \in Seq(TermMessage) /\ up /\ handler[p] = "listening"
      /\ UNCHANGED <<panel, client, typed, unheard, shown, fromBrowser, handler, pty, got, printed, up, drops,
                     toBrowser, browser>>
      /\ \A q \in Panels \ {p} : Kept(toPlatform, toPlatform', 1, q, MessageTypes)
      /\ \A types : Comes(toPlatform, toPlatform', 1, p, types)
  BY Forwards DEF TermInv
<1> DEFINE cmd == Command("terminal_close", p, 0)
<1>1. cmd \in TermCommand /\ cmd.panel = p
  BY CommandShapes, TerminalAssumption DEF CommandTypes
<1>2. (SendToHost(cmd) \/ toAgent' = toAgent) /\ sessions' = sessions \ {p} /\ p \notin sessions'
  BY DEF EndSession
<1> HIDE DEF cmd
<1>3. /\ toAgent' \in Seq(TermCommand)
      /\ \A q \in Panels \ {p} : Kept(toAgent, toAgent', 0, q, CommandTypes)
  <2>1. CASE SendToHost(cmd)
    BY <1>0, <1>1, <2>1, HostTold
  <2>2. CASE toAgent' = toAgent
    BY <1>0, <2>2, KeptSame
  <2> QED
    BY <1>2, <2>1, <2>2
<1>4. TermTypeOK'
  <2>1. LinkTypeOK(TermCommand, TermMessage)'
    <3>1. up \in BOOLEAN /\ drops \in 0 .. MaxDrops
      BY <1>0 DEF TermTypeOK, LinkTypeOK
    <3> QED
      BY <1>0, <1>3, <3>1 DEF LinkTypeOK, TermCommand, TermMessage
  <2>2. sessions' \subseteq Panels
    BY <1>0, <1>2, TermTypes
  <2> QED
    BY <1>0, <2>1, <2>2, TermTypes, TypesAgain
<1>5. LinkHolds'
  BY <1>0 DEF LinkHolds
<1>6. \A q \in Panels \ {p} : /\ PanelSame(q) /\ Kept(toAgent, toAgent', 0, q, CommandTypes)
                               /\ Kept(toPlatform, toPlatform', 1, q, MessageTypes)
  <2>1. \A q \in Panels \ {p} : PanelSame(q)
    BY <1>0, <1>2 DEF PanelSame
  <2> QED
    BY <1>0, <1>3, <2>1
<1>7. PanelHolds(p)'
  <2>1. (Early(p)' <=> Early(p)) /\ (LastIsClose(p)' <=> LastIsClose(p)) /\ (BrowserQueue(p)' <=> BrowserQueue(p))
    BY <1>0 DEF Early, LastIsClose, BrowserQueue
  <2>2. client[p] = "open" => LastIsClose(p)
    BY <1>0 DEF PanelInv, PanelHolds
  <2> QED
    BY <1>0, <2>1, <2>2 DEF PanelInv, PanelHolds
<1>8. AgentHears(p)' /\ Kept(toAgent, toAgent', 0, p, KeyTypes)
  BY <1>0, <1>4, CloseHeard
<1>9. OutputOrdered(p)'
  BY <1>0, OrderedFrame DEF PanelInv
<1>10. OutputWhole(p)'
  <2>1. OpenAhead(p)' = OpenAhead(p)
    BY <1>0 DEF OpenAhead
  <2> QED
    BY <1>0, <1>2, <2>1 DEF PanelInv, OutputWhole
<1>11. KeysOrdered(p)' /\ KeysWhole(p)'
  BY <1>0, <1>2, <1>8, NothingTyped, KeysFrame, KeysWholeFrame DEF PanelInv, Kept
<1> QED
  BY <1>0, <1>4, <1>5, <1>6, <1>7, <1>8, <1>9, <1>10, <1>11, OnePanel DEF PanelInv

(* The end of a shell ends its session, and the panel hears of it.         *)
LEMMA ForwardCloses ==
    ASSUME TermInv, Forward, NEW p \in Panels, Head(toPlatform).panel = p, Head(toPlatform).type = "terminal_closed",
           ForwardClosed(Head(toPlatform))
    PROVE  TermInv'
<1>0. /\ TermTypeOK /\ PanelInv(p) /\ LinkHolds /\ toPlatform # <<>> /\ toPlatform \in Seq(TermMessage)
      /\ toAgent \in Seq(TermCommand)
      /\ toPlatform' = Tail(toPlatform) /\ toPlatform' \in Seq(TermMessage) /\ up /\ handler[p] = "listening"
      /\ UNCHANGED <<panel, client, typed, unheard, shown, fromBrowser, handler, pty, got, printed, up, drops,
                     toAgent>>
      /\ \A q \in Panels \ {p} : Kept(toPlatform, toPlatform', 1, q, MessageTypes)
      /\ \A types : Comes(toPlatform, toPlatform', 1, p, types)
      /\ sessions' = sessions \ {p} /\ p \notin sessions'
  BY Forwards DEF TermInv, ForwardClosed
<1>1. /\ toBrowser \in [Panels -> Seq(PanelMsg)] /\ toBrowser[p] \in Seq(PanelMsg) /\ sessions \subseteq Panels
      /\ browser \in [Panels -> {"none", "open", "closed"}]
  <2>1. toBrowser \in [Panels -> Seq(PanelMsg)]
    BY <1>0, TermTypes
  <2> QED
    BY <1>0, <2>1, TermTypes
<1> DEFINE word == Msg("closed", 0)
           end == Msg("close", 0)
           b == toBrowser[p]
           t == toBrowser'[p]
<1>2. word \in PanelMsg /\ word.type = "closed" /\ end \in PanelMsg /\ end.type = "close"
  BY TerminalAssumption DEF Msg, PanelMsg
<1>3. /\ p \in sessions => browser' = [browser EXCEPT ![p] = "closed"]
      /\ p \in sessions /\ browser[p] = "open" => toBrowser' = [toBrowser EXCEPT ![p] = b \o <<word, end>>]
      /\ p \in sessions /\ browser[p] # "open" => toBrowser' = toBrowser
      /\ p \notin sessions => browser' = browser /\ toBrowser' = toBrowser
  BY <1>0 DEF ForwardClosed, ToBrowser
<1> HIDE DEF word, end
<1>4. /\ b \o <<word, end>> \in Seq(PanelMsg) /\ Len(b) \in Nat /\ Len(b \o <<word, end>>) = Len(b) + 2
      /\ (b \o <<word, end>>)[Len(b) + 1] = word /\ (b \o <<word, end>>)[Len(b) + 2] = end
      /\ \A i \in 1 .. Len(b) : (b \o <<word, end>>)[i] = b[i]
  BY <1>1, <1>2, TwoMore
<1>5. /\ toBrowser' \in [Panels -> Seq(PanelMsg)] /\ browser' \in [Panels -> {"none", "open", "closed"}]
      /\ \A q \in Panels \ {p} : toBrowser'[q] = toBrowser[q] /\ browser'[q] = browser[q]
  <2>1. CASE p \in sessions /\ browser[p] = "open"
    <3>1. toBrowser' = [toBrowser EXCEPT ![p] = b \o <<word, end>>] /\ browser' = [browser EXCEPT ![p] = "closed"]
      BY <1>3, <2>1
    <3> HIDE DEF b
    <3> QED
      BY <1>1, <1>4, <3>1
  <2>2. CASE p \in sessions /\ browser[p] # "open"
    BY <1>1, <1>3, <2>2
  <2>3. CASE p \notin sessions
    BY <1>1, <1>3, <2>3
  <2> QED
    BY <2>1, <2>2, <2>3
<1>6. \/ /\ p \in sessions /\ browser[p] = "open" /\ browser'[p] = "closed" /\ t = b \o <<word, end>>
      \/ /\ t = b /\ (browser'[p] = browser[p] \/ browser'[p] = "closed")
         /\ p \in sessions => browser[p] # "open"
  BY <1>1, <1>3, <1>4
<1>7. TermTypeOK'
  <2>1. LinkTypeOK(TermCommand, TermMessage)'
    <3>1. up \in BOOLEAN /\ drops \in 0 .. MaxDrops
      BY <1>0 DEF TermTypeOK, LinkTypeOK
    <3> QED
      BY <1>0, <3>1 DEF LinkTypeOK, TermCommand, TermMessage
  <2>2. sessions' \subseteq Panels
    BY <1>0, <1>1
  <2> QED
    BY <1>0, <1>5, <2>1, <2>2, TermTypes, TypesAgain
<1>8. \A q \in Panels \ {p} : /\ PanelSame(q) /\ Kept(toAgent, toAgent', 0, q, CommandTypes)
                               /\ Kept(toPlatform, toPlatform', 1, q, MessageTypes)
  <2>1. \A q \in Panels \ {p} : PanelSame(q)
    BY <1>0, <1>5 DEF PanelSame
  <2> QED
    BY <1>0, <2>1, KeptSame
<1>9. LinkHolds'
  BY <1>0 DEF LinkHolds
<1>10. AgentHears(p)' /\ KeysOrdered(p)' /\ KeysWhole(p)'
  <2>1. /\ Comes(toAgent, toAgent', 0, p, CommandTypes) /\ Kept(toAgent, toAgent', 0, p, KeyTypes)
        /\ Comes(toAgent, toAgent', 0, p, KeyTypes)
    BY <1>0, KeptSame DEF Kept
  <2> QED
    BY <1>0, <1>7, <2>1, HearsFrame, NothingTyped, KeysFrame, KeysWholeFrame DEF PanelInv
<1> HIDE DEF b, t
<1>11. CASE t = b
  <2>0. /\ toBrowser'[p] = toBrowser[p] /\ (browser'[p] = "open" => browser[p] = "open")
        /\ (browser'[p] # browser[p] => browser'[p] = "closed")
        /\ (p \in sessions => browser[p] # "open")
    <3>1. p \in sessions /\ browser[p] = "open" => FALSE
      <4>1. ASSUME t = b \o <<word, end>> PROVE FALSE
        <5>1. Len(t) = Len(b) + 2
          BY <1>4, <4>1
        <5>2. Len(t) = Len(b)
          BY <1>11
        <5> QED
          BY <1>4, <5>1, <5>2
      <4> QED
        BY <1>6, <4>1
    <3> QED
      BY <1>6, <1>11, <3>1 DEF b, t
  <2>1. PanelHolds(p)'
    <3>1. (Early(p)' <=> Early(p)) /\ (LastIsClose(p)' <=> LastIsClose(p))
      BY <1>0, <2>0 DEF Early, LastIsClose
    <3>2. BrowserQueue(p)'
      BY <1>0, <2>0 DEF BrowserQueue, PanelInv, PanelHolds
    <3>3. client[p] = "open" => LastIsClose(p)
      BY <1>0, <2>0 DEF PanelInv, PanelHolds
    <3> QED
      BY <1>0, <2>0, <3>1, <3>2, <3>3 DEF PanelInv, PanelHolds
  <2>2. OutputOrdered(p)'
    BY <1>0, <2>0, OrderedFrame DEF PanelInv
  <2>3. OutputWhole(p)'
    <3>1. OpenAhead(p)' = OpenAhead(p)
      BY <2>0 DEF OpenAhead
    <3> QED
      BY <1>0, <2>0, <3>1 DEF PanelInv, OutputWhole
  <2> QED
    BY <1>7, <1>8, <1>9, <1>10, <2>1, <2>2, <2>3, <1>0, OnePanel DEF PanelInv
<1>12. CASE p \in sessions /\ browser[p] = "open" /\ browser'[p] = "closed" /\ t = b \o <<word, end>>
  <2>1. /\ Len(t) = Len(b) + 2 /\ t[Len(b) + 1] = word /\ t[Len(b) + 2] = end
        /\ \A i \in 1 .. Len(b) : t[i] = b[i]
        /\ \A i \in 1 .. Len(t) : i \in 1 .. Len(b) \/ i = Len(b) + 1 \/ i = Len(b) + 2
    <3>1. /\ Len(t) = Len(b) + 2 /\ t[Len(b) + 1] = word /\ t[Len(b) + 2] = end
          /\ \A i \in 1 .. Len(b) : t[i] = b[i]
      BY <1>4, <1>12, Zenon
    <3> QED
      BY <1>4, <3>1
  <2>2. \A i \in 1 .. Len(b) : b[i].type \in {"open", "data"} /\ (b[i].type = "open" => i = 1 /\ shown[p] = <<>>)
    <3>1. \A i \in 1 .. Len(b) : b[i].type \notin {"closed", "error", "close"}
      BY <1>0, <1>12 DEF PanelInv, PanelHolds, BrowserQueue, b
    <3>2. \A i \in 1 .. Len(b) : b[i] \in PanelMsg
      BY <1>1 DEF b
    <3>3. \A i \in 1 .. Len(b) : b[i].type = "open" => i = 1 /\ shown[p] = <<>>
      BY <1>0 DEF PanelInv, PanelHolds, BrowserQueue, b
    <3> QED
      BY <3>1, <3>2, <3>3 DEF PanelMsg
  <2>3. BrowserQueue(p)'
    <3>1. ASSUME NEW i \in 1 .. Len(t)
          PROVE  /\ t[i].type = "open" => i = 1 /\ shown[p] = <<>>
                 /\ t[i].type \in {"closed", "error", "close"} =>
                       \A j \in i + 1 .. Len(t) : t[j].type = "close"
                 /\ t[i].type = "close" => i = Len(t)
      <4>1. CASE i \in 1 .. Len(b)
        BY <2>1, <2>2, <4>1
      <4>2. CASE i = Len(b) + 1
        <5>1. \A j \in i + 1 .. Len(t) : j = Len(b) + 2
          BY <1>4, <2>1, <4>2
        <5> QED
          BY <1>2, <2>1, <4>2, <5>1
      <4>3. CASE i = Len(b) + 2
        <5>1. \A j \in i + 1 .. Len(t) : FALSE
          BY <1>4, <2>1, <4>3
        <5> QED
          BY <1>2, <2>1, <4>3, <5>1
      <4> QED
        BY <2>1, <4>1, <4>2, <4>3
    <3> QED
      BY <1>0, <1>12, <3>1 DEF BrowserQueue, t
  <2>4. LastIsClose(p)'
    <3>1. Len(t) # 0 /\ t[Len(t)].type = "close"
      BY <1>2, <1>4, <2>1
    <3>2. t # <<>>
      <4>1. Len(<<>>) = 0
        OBVIOUS
      <4> QED
        BY <3>1, <4>1, Zenon
    <3> QED
      BY <3>1, <3>2 DEF LastIsClose, t
  <2>5. PanelHolds(p)'
    <3>1. ~Early(p)' /\ ~Early(p)
      BY <1>0 DEF Early
    <3> QED
      BY <1>0, <2>3, <2>4, <3>1 DEF PanelInv, PanelHolds
  <2>6. \A k \in 1 .. Len(t) : t[k].type = "data" => k \in 1 .. Len(b) /\ t[k] = b[k]
    BY <1>2, <2>1
  <2>7. OutputOrdered(p)'
    <3>1. ASSUME NEW k \in 1 .. Len(t), t[k].type = "data"
          PROVE  /\ t[k].n \in 1 .. printed[p]
                 /\ \A i \in 1 .. Len(shown[p]) : shown[p][i] < t[k].n
                 /\ \A l \in 1 .. k - 1 : t[l].type = "data" => t[l].n < t[k].n
      <4>1. k \in 1 .. Len(b) /\ t[k] = b[k]
        BY <2>6, <3>1
      <4>2. \A l \in 1 .. k - 1 : l \in 1 .. Len(b) /\ t[l] = b[l]
        BY <1>4, <2>1, <4>1
      <4> QED
        BY <1>0, <3>1, <4>1, <4>2 DEF PanelInv, OutputOrdered, b
    <3>2. ASSUME NEW i \in 1 .. Len(toPlatform'), DataOf(toPlatform'[i], p)
          PROVE  /\ toPlatform'[i].n \in 1 .. printed[p]
                 /\ \A j \in 1 .. Len(shown[p]) : shown[p][j] < toPlatform'[i].n
                 /\ \A k \in 1 .. Len(t) : t[k].type = "data" => t[k].n < toPlatform'[i].n
                 /\ \A j \in 1 .. i - 1 : DataOf(toPlatform'[j], p) => toPlatform'[j].n < toPlatform'[i].n
      <4>1. /\ i + 1 \in 1 .. Len(toPlatform) /\ toPlatform'[i] = toPlatform[i + 1]
            /\ \A j \in 1 .. i - 1 : j + 1 \in 1 .. i + 1 - 1 /\ toPlatform'[j] = toPlatform[j + 1]
        <5>1. /\ Len(toPlatform) \in Nat /\ Len(toPlatform') = Len(toPlatform) - 1
              /\ \A j \in 1 .. Len(toPlatform) - 1 : toPlatform'[j] = toPlatform[j + 1]
          BY <1>0, TailHolds
        <5>2. i + 1 \in 1 .. Len(toPlatform) /\ \A j \in 1 .. i - 1 : j + 1 \in 1 .. i + 1 - 1 /\ j \in 1 .. Len(toPlatform) - 1
          BY <5>1
        <5> QED
          BY <5>1, <5>2
      <4>2. DataOf(toPlatform[i + 1], p)
        BY <3>2, <4>1
      <4>3. /\ toPlatform[i + 1].n \in 1 .. printed[p]
            /\ \A j \in 1 .. Len(shown[p]) : shown[p][j] < toPlatform[i + 1].n
            /\ \A k \in 1 .. Len(b) : b[k].type = "data" => b[k].n < toPlatform[i + 1].n
            /\ \A j \in 1 .. i + 1 - 1 : DataOf(toPlatform[j], p) => toPlatform[j].n < toPlatform[i + 1].n
        BY <1>0, <4>1, <4>2 DEF PanelInv, OutputOrdered, b
      <4> QED
        BY <2>6, <4>1, <4>3
    <3>3. \A i \in 1 .. Len(shown[p]) : /\ shown[p][i] <= printed[p]
                                        /\ \A j \in 1 .. i - 1 : shown[p][j] < shown[p][i]
      BY <1>0 DEF PanelInv, OutputOrdered
    <3>4. \A m : DataOf(m, p)' <=> DataOf(m, p)
      BY DEF DataOf
    <3> QED
      BY <1>0, <3>1, <3>2, <3>3, <3>4 DEF OutputOrdered, t
  <2>8. OutputWhole(p)'
    <3>1. OpenAhead(p)' = OpenAhead(p)
      <4>1. CASE Len(b) = 0
        <5>1. Len(b) + 1 = 1 /\ b \in Seq(PanelMsg)
          BY <1>1, <4>1 DEF b
        <5>2. t[1].type = "closed" /\ b = <<>>
          BY <1>2, <2>1, <4>1, <5>1
        <5> QED
          BY <5>2 DEF OpenAhead, b, t
      <4>2. CASE Len(b) # 0
        <5>1. 1 \in 1 .. Len(b) /\ Len(t) # 0 /\ Len(<<>>) = 0
          BY <1>4, <2>1, <4>2
        <5>2. b # <<>> /\ t # <<>> /\ t[1] = b[1]
          BY <2>1, <4>2, <5>1, Zenon
        <5> QED
          BY <5>2 DEF OpenAhead, b, t
      <4> QED
        BY <4>1, <4>2
    <3> QED
      BY <1>0, <2>6, <3>1 DEF PanelInv, OutputWhole, b, t
  <2> QED
    BY <1>0, <1>7, <1>8, <1>9, <1>10, <2>5, <2>7, <2>8, OnePanel DEF PanelInv
<1> QED
  BY <1>6, <1>11, <1>12

LEMMA ForwardKeeps == ASSUME TermInv, Forward PROVE TermInv'
<1>1. TermTypeOK /\ toPlatform # <<>> /\ toPlatform \in Seq(TermMessage)
  BY TermTypes DEF TermInv, Forward
<1>2. Head(toPlatform) \in TermMessage
  BY <1>1, TailHolds
<1>3. PICK p \in Panels : Head(toPlatform).panel = p
  BY <1>2 DEF TermMessage
<1>4. CASE ForwardClosed(Head(toPlatform))
  BY <1>3, <1>4, ForwardCloses DEF ForwardClosed
<1>5. CASE ForwardData(Head(toPlatform))
  <2>1. CASE p \in sessions /\ browser[p] = "open"
    BY <1>3, <1>5, <2>1, ForwardShown DEF ForwardData
  <2>2. CASE ~ (p \in sessions /\ browser[p] = "open")
    BY <1>3, <1>5, <2>2, ForwardEnds DEF ForwardData
  <2> QED
    BY <2>1, <2>2
<1> QED
  BY <1>4, <1>5 DEF Forward

(* The agent takes the next message.                                       *)
LEMMA Takes ==
    ASSUME TermInv, Shell, NEW p \in Panels, Head(toAgent).panel = p
    PROVE  /\ TermTypeOK /\ PanelInv(p) /\ toAgent \in Seq(TermCommand) /\ toAgent' \in Seq(TermCommand)
           /\ toPlatform \in Seq(TermMessage) /\ Head(toAgent) = toAgent[1] /\ toAgent[1] \in TermCommand
           /\ toAgent[1].panel = p /\ LinkHolds' /\ handler[p] = "listening"
           /\ UNCHANGED <<panel, client, typed, unheard, shown, fromBrowser, toBrowser, handler, browser, sessions,
                          printed, up, toPlatform, drops>>
           /\ \A q \in Panels \ {p} : /\ Kept(toAgent, toAgent', 1, q, CommandTypes)
                                      /\ Kept(toPlatform, toPlatform', 0, q, MessageTypes)
           /\ Comes(toAgent, toAgent', 1, p, KeyTypes)
           /\ Len(toAgent) \in Nat /\ Len(toAgent') = Len(toAgent) - 1 /\ 1 \in 1 .. Len(toAgent)
           /\ \A i \in 1 .. Len(toAgent') : i + 1 \in 1 .. Len(toAgent) /\ toAgent'[i] = toAgent[i + 1]
           /\ \A i \in 1 .. Len(toAgent) : i = 1 \/ (i - 1 \in 1 .. Len(toAgent') /\ toAgent[i] = toAgent'[i - 1])
<1>0. /\ TermTypeOK /\ PanelInv(p) /\ LinkHolds /\ toAgent # <<>> /\ toAgent' = Tail(toAgent)
      /\ toAgent \in Seq(TermCommand) /\ toPlatform \in Seq(TermMessage) /\ up \in BOOLEAN
      /\ UNCHANGED <<panel, client, typed, unheard, shown, fromBrowser, toBrowser, handler, browser, sessions,
                     printed, up, toPlatform, drops>>
  BY TermTypes DEF TermInv, Shell, inBrowser
<1>1. /\ Head(toAgent) = toAgent[1] /\ Head(toAgent) \in TermCommand /\ toAgent' \in Seq(TermCommand)
      /\ Len(toAgent) \in Nat /\ Len(toAgent) >= 1 /\ Len(toAgent') = Len(toAgent) - 1
      /\ \A i \in 1 .. Len(toAgent) - 1 : toAgent'[i] = toAgent[i + 1]
  BY <1>0, TailHolds
<1>2. 1 \in 1 .. Len(toAgent)
  BY <1>1
<1>3. handler[p] = "listening" /\ LinkHolds'
  BY <1>0, <1>1, <1>2 DEF PanelInv, AgentHears, LinkHolds
<1>4. \A q \in Panels \ {p} : /\ Kept(toAgent, toAgent', 1, q, CommandTypes)
                               /\ Kept(toPlatform, toPlatform', 0, q, MessageTypes)
  BY <1>0, KeptTail, KeptSame
<1>5. Comes(toAgent, toAgent', 1, p, KeyTypes)
  BY <1>0, TailComes
<1>6. /\ \A i \in 1 .. Len(toAgent') : i + 1 \in 1 .. Len(toAgent) /\ toAgent'[i] = toAgent[i + 1]
      /\ \A i \in 1 .. Len(toAgent) : i = 1 \/ (i - 1 \in 1 .. Len(toAgent') /\ toAgent[i] = toAgent'[i - 1])
  <2>1. ASSUME NEW i \in 1 .. Len(toAgent), i # 1
        PROVE  i - 1 \in 1 .. Len(toAgent') /\ toAgent[i] = toAgent'[i - 1]
    <3>1. i - 1 \in 1 .. Len(toAgent) - 1 /\ (i - 1) + 1 = i
      BY <1>1, <2>1
    <3> QED
      BY <1>1, <3>1
  <2> QED
    BY <1>1, <2>1
<1> QED
  BY <1>0, <1>1, <1>2, <1>3, <1>4, <1>5, <1>6

(* What the panel and the output are does not depend on it.                *)
LEMMA TakenKeeps ==
    ASSUME TermInv, Shell, NEW p \in Panels, Head(toAgent).panel = p, TermTypeOK',
           \A q \in Panels \ {p} : pty'[q] = pty[q] /\ got'[q] = got[q],
           pty[p] = "none" \/ pty'[p] # "none",
           \A i \in 1 .. Len(toAgent') : OpenOf(toAgent'[i], p) => FALSE,
           KeysOrdered(p)', KeysWhole(p)'
    PROVE  TermInv'
<1>0. /\ TermTypeOK /\ PanelInv(p) /\ toAgent \in Seq(TermCommand) /\ toAgent' \in Seq(TermCommand)
      /\ toPlatform \in Seq(TermMessage) /\ LinkHolds' /\ handler[p] = "listening"
      /\ UNCHANGED <<panel, client, typed, unheard, shown, fromBrowser, toBrowser, handler, browser, sessions,
                     printed, up, toPlatform, drops>>
      /\ \A q \in Panels \ {p} : /\ Kept(toAgent, toAgent', 1, q, CommandTypes)
                                 /\ Kept(toPlatform, toPlatform', 0, q, MessageTypes)
      /\ Len(toAgent) \in Nat /\ Len(toAgent') = Len(toAgent) - 1
      /\ \A i \in 1 .. Len(toAgent') : i + 1 \in 1 .. Len(toAgent) /\ toAgent'[i] = toAgent[i + 1]
  BY Takes
<1>1. \A q \in Panels \ {p} : PanelSame(q)
  BY <1>0 DEF PanelSame
<1>2. PanelHolds(p)'
  BY <1>0, HoldsFrame DEF PanelInv
<1>3. AgentHears(p)'
  <2>1. ASSUME NEW i \in 1 .. Len(toAgent'), toAgent'[i].type = "terminal_close", toAgent'[i].panel = p
        PROVE  p \notin sessions /\ \A j \in i + 1 .. Len(toAgent') : toAgent'[j].panel # p
    <3>1. i + 1 \in 1 .. Len(toAgent) /\ toAgent'[i] = toAgent[i + 1]
      BY <1>0
    <3>2. \A j \in i + 1 .. Len(toAgent') : j + 1 \in i + 1 + 1 .. Len(toAgent) /\ j \in 1 .. Len(toAgent')
      BY <1>0, <3>1
    <3>3. p \notin sessions /\ \A j \in i + 1 + 1 .. Len(toAgent) : toAgent[j].panel # p
      BY <1>0, <2>1, <3>1 DEF PanelInv, AgentHears
    <3> QED
      BY <1>0, <3>2, <3>3
  <2>2. \A m : OpenOf(m, p)' <=> OpenOf(m, p)
    BY DEF OpenOf
  <2> QED
    BY <1>0, <2>1, <2>2 DEF AgentHears
<1>4. OutputOrdered(p)' /\ OutputWhole(p)'
  <2>1. Kept(toPlatform, toPlatform', 0, p, {"terminal_data"})
    BY <1>0, KeptSame
  <2> QED
    BY <1>0, <2>1, OrderedFrame, WholeFrame DEF PanelInv, Kept
<1> QED
  BY <1>0, <1>1, <1>2, <1>3, <1>4, OnePanel DEF PanelInv

(* A shell is started, or ended: no keystroke is taken.                    *)
LEMMA ShellStartsOrEnds ==
    ASSUME TermInv, Shell, NEW p \in Panels, Head(toAgent).panel = p,
           Head(toAgent).type \in {"terminal_open", "terminal_close"}
    PROVE  TermInv'
<1>0. /\ TermTypeOK /\ PanelInv(p) /\ toAgent \in Seq(TermCommand) /\ toAgent' \in Seq(TermCommand)
      /\ Head(toAgent) = toAgent[1] /\ toAgent[1].panel = p
      /\ UNCHANGED <<panel, client, typed, unheard, shown, fromBrowser, toBrowser, handler, browser, sessions,
                     printed, up, toPlatform, drops>>
      /\ Comes(toAgent, toAgent', 1, p, KeyTypes)
      /\ Len(toAgent) \in Nat /\ Len(toAgent') = Len(toAgent) - 1 /\ 1 \in 1 .. Len(toAgent)
      /\ \A i \in 1 .. Len(toAgent') : i + 1 \in 1 .. Len(toAgent) /\ toAgent'[i] = toAgent[i + 1]
      /\ \A i \in 1 .. Len(toAgent) : i = 1 \/ (i - 1 \in 1 .. Len(toAgent') /\ toAgent[i] = toAgent'[i - 1])
  BY Takes
<1>1. /\ pty \in [Panels -> {"none", "running", "exited"}] /\ got \in [Panels -> Seq(Chunks)]
      /\ unheard[p] \in Nat /\ typed[p] \in Nat
  BY <1>0, TermTypes, TerminalAssumption
<1>2. PICK m \in TermCommand : m = Head(toAgent) /\ m = toAgent[1] /\ m.panel = p
  BY <1>0
<1>3. m.type = "terminal_open" \/ m.type = "terminal_close"
  BY <1>2
<1>4. got' = got
  <2>1. got' = [got EXCEPT ![p] = got[p]]
    BY <1>2, <1>3 DEF Shell
  <2> QED
    BY <1>1, <2>1
<1>5. /\ pty' \in [Panels -> {"none", "running", "exited"}]
      /\ \A q \in Panels \ {p} : pty'[q] = pty[q]
      /\ m.type = "terminal_open" => pty'[p] = "running"
      /\ m.type = "terminal_close" => pty'[p] = IF pty[p] = "running" THEN "exited" ELSE pty[p]
  <2>1. CASE m.type = "terminal_open"
    <3>1. pty' = [pty EXCEPT ![p] = "running"]
      BY <1>2, <2>1 DEF Shell
    <3> QED
      BY <1>1, <2>1, <3>1
  <2>2. CASE m.type = "terminal_close"
    <3>1. pty' = [pty EXCEPT ![p] = IF pty[p] = "running" THEN "exited" ELSE pty[p]]
      BY <1>2, <2>2 DEF Shell
    <3> QED
      BY <1>1, <2>2, <3>1
  <2> QED
    BY <1>3, <2>1, <2>2
<1>6. TermTypeOK'
  <2>1. LinkTypeOK(TermCommand, TermMessage)'
    BY <1>0 DEF TermTypeOK, LinkTypeOK, TermCommand, TermMessage
  <2> QED
    BY <1>0, <1>1, <1>4, <1>5, <2>1, TermTypes, TypesAgain
<1>7. \A i \in 1 .. Len(toAgent') : ~ OpenOf(toAgent'[i], p)
  <2> SUFFICES ASSUME NEW i \in 1 .. Len(toAgent'), OpenOf(toAgent'[i], p) PROVE FALSE
    OBVIOUS
  <2>1. i + 1 \in 1 .. Len(toAgent) /\ OpenOf(toAgent[i + 1], p) /\ 1 \in 1 .. i + 1 - 1
    <3>1. i + 1 \in 1 .. Len(toAgent) /\ toAgent'[i] = toAgent[i + 1] /\ 1 \in 1 .. i + 1 - 1
      BY <1>0
    <3> QED
      BY <3>1
  <2> QED
    BY <1>0, <2>1 DEF PanelInv, AgentHears
<1>8. KeysOrdered(p)'
  BY <1>0, <1>4, NothingTyped, KeysFrame DEF PanelInv
<1>9. ASSUME NEW n PROVE ToShell(p, n)' <=> ToShell(p, n)
  <2>1. ~ InputOf(toAgent[1], p)
    BY <1>2, <1>3 DEF InputOf
  <2>2. ASSUME NEW k \in 1 .. Len(toAgent), InputOf(toAgent[k], p), toAgent[k].n = n
        PROVE  \E j \in 1 .. Len(toAgent') : InputOf(toAgent'[j], p) /\ toAgent'[j].n = n
    <3>1. k - 1 \in 1 .. Len(toAgent') /\ toAgent[k] = toAgent'[k - 1]
      BY <1>0, <2>1, <2>2
    <3> QED
      BY <2>2, <3>1
  <2>3. ASSUME NEW k \in 1 .. Len(toAgent'), InputOf(toAgent'[k], p), toAgent'[k].n = n
        PROVE  \E j \in 1 .. Len(toAgent) : InputOf(toAgent[j], p) /\ toAgent[j].n = n
    <3>1. k + 1 \in 1 .. Len(toAgent) /\ toAgent'[k] = toAgent[k + 1]
      BY <1>0
    <3> QED
      BY <2>3, <3>1
  <2>4. \A x : InputOf(x, p)' <=> InputOf(x, p)
    BY DEF InputOf
  <2> QED
    BY <2>2, <2>3, <2>4 DEF ToShell
<1>10. KeysWhole(p)'
  <2> SUFFICES ASSUME drops = 0 PROVE KeysWhole(p)'
    BY <1>0 DEF KeysWhole
  <2>1. \A n : (Got(p, n)' <=> Got(p, n)) /\ (FromPanel(p, n)' <=> FromPanel(p, n))
    BY <1>0, <1>4 DEF Got, FromPanel
  <2>2. CASE m.type = "terminal_open"
    <3>1. pty[p] = "none"
      BY <1>0, <1>2, <2>2 DEF PanelInv, AgentHears, OpenOf
    <3> QED
      BY <1>0, <1>4, <1>5, <1>9, <2>1, <2>2, <3>1 DEF PanelInv, KeysWhole
  <2>3. CASE m.type = "terminal_close"
    <3>1. p \notin sessions /\ \A j \in 1 + 1 .. Len(toAgent) : toAgent[j].panel # p
      BY <1>0, <1>2, <2>3 DEF PanelInv, AgentHears
    <3>2. \A i \in 1 .. Len(toAgent') : toAgent'[i].panel # p
      <4>1. \A i \in 1 .. Len(toAgent') : i + 1 \in 1 + 1 .. Len(toAgent) /\ toAgent'[i] = toAgent[i + 1]
        BY <1>0
      <4> QED
        BY <3>1, <4>1
    <3>3. \A n : ~ ToShell(p, n)'
      BY <3>2 DEF ToShell, InputOf
    <3>4. \A k \in 1 .. Len(toAgent') : ~ InputOf(toAgent'[k], p)
      BY <3>2 DEF InputOf
    <3>5. \A x : InputOf(x, p)' <=> InputOf(x, p)
      BY DEF InputOf
    <3> QED
      BY <1>0, <1>4, <3>1, <3>3, <3>4, <3>5 DEF PanelInv, KeysWhole
  <2> QED
    BY <1>3, <2>2, <2>3
<1>11. pty[p] = "none" \/ pty'[p] # "none"
  BY <1>1, <1>3, <1>5
<1> QED
  BY <1>0, <1>4, <1>5, <1>6, <1>7, <1>8, <1>10, <1>11, TakenKeeps

(* A keystroke arrives at the agent.                                       *)
LEMMA ShellTypes ==
    ASSUME TermInv, Shell, NEW p \in Panels, Head(toAgent).panel = p, Head(toAgent).type = "terminal_input"
    PROVE  TermInv'
<1>0. /\ TermTypeOK /\ PanelInv(p) /\ toAgent \in Seq(TermCommand) /\ toAgent' \in Seq(TermCommand)
      /\ Head(toAgent) = toAgent[1] /\ toAgent[1].panel = p /\ toAgent[1] \in TermCommand
      /\ UNCHANGED <<panel, client, typed, unheard, shown, fromBrowser, toBrowser, handler, browser, sessions,
                     printed, up, toPlatform, drops>>
      /\ Comes(toAgent, toAgent', 1, p, KeyTypes)
      /\ Len(toAgent) \in Nat /\ Len(toAgent') = Len(toAgent) - 1 /\ 1 \in 1 .. Len(toAgent)
      /\ \A i \in 1 .. Len(toAgent') : i + 1 \in 1 .. Len(toAgent) /\ toAgent'[i] = toAgent[i + 1]
      /\ \A i \in 1 .. Len(toAgent) : i = 1 \/ (i - 1 \in 1 .. Len(toAgent') /\ toAgent[i] = toAgent'[i - 1])
  BY Takes
<1>1. /\ pty \in [Panels -> {"none", "running", "exited"}] /\ got \in [Panels -> Seq(Chunks)]
      /\ unheard[p] \in Nat /\ typed[p] \in 0 .. MaxChunks /\ typed[p] \in Nat
  BY <1>0, TermTypes, TerminalAssumption
<1>2. PICK n \in 0 .. MaxChunks : n = Head(toAgent).n
  BY <1>0 DEF TermCommand
<1>3. InputOf(toAgent[1], p) /\ toAgent[1].n = n
  BY <1>0, <1>2 DEF InputOf
<1>4. /\ n \in 1 .. typed[p] /\ n \in Nat
      /\ \A i \in 1 .. Len(got[p]) : got[p][i] < n
      /\ \A i \in 1 .. Len(fromBrowser[p]) : fromBrowser[p][i].type = "terminal_input" => n < fromBrowser[p][i].n
  BY <1>0, <1>3 DEF PanelInv, KeysOrdered
<1>5. n \in Chunks
  BY <1>1, <1>4, TerminalAssumption DEF Chunks
<1>6. pty' = pty
  <2>1. pty' = [pty EXCEPT ![p] = pty[p]]
    BY <1>0 DEF Shell
  <2> QED
    BY <1>1, <2>1
<1>7. /\ pty[p] = "running" => got' = [got EXCEPT ![p] = Append(got[p], n)]
      /\ pty[p] # "running" => got' = got
  <2>1. CASE pty[p] = "running"
    BY <1>2, <2>1 DEF Shell
  <2>2. CASE pty[p] # "running"
    <3>1. got' = [got EXCEPT ![p] = got[p]]
      BY <2>2 DEF Shell
    <3> QED
      BY <1>1, <2>2, <3>1
  <2> QED
    BY <2>1, <2>2
<1>8. got' \in [Panels -> Seq(Chunks)] /\ \A q \in Panels \ {p} : got'[q] = got[q]
  <2>1. got[p] \in Seq(Chunks)
    BY <1>1
  <2>2. Append(got[p], n) \in Seq(Chunks)
    BY <1>5, <2>1
  <2> QED
    BY <1>1, <1>7, <2>2
<1>9. TermTypeOK'
  <2>1. LinkTypeOK(TermCommand, TermMessage)'
    BY <1>0 DEF TermTypeOK, LinkTypeOK, TermCommand, TermMessage
  <2> QED
    BY <1>0, <1>1, <1>6, <1>8, <2>1, TermTypes, TypesAgain
<1>10. \A i \in 1 .. Len(toAgent') : ~ OpenOf(toAgent'[i], p)
  <2> SUFFICES ASSUME NEW i \in 1 .. Len(toAgent'), OpenOf(toAgent'[i], p) PROVE FALSE
    OBVIOUS
  <2>1. i + 1 \in 1 .. Len(toAgent) /\ OpenOf(toAgent[i + 1], p) /\ 1 \in 1 .. i + 1 - 1
    <3>1. i + 1 \in 1 .. Len(toAgent) /\ toAgent'[i] = toAgent[i + 1] /\ 1 \in 1 .. i + 1 - 1
      BY <1>0
    <3> QED
      BY <3>1
  <2> QED
    BY <1>0, <2>1 DEF PanelInv, AgentHears
<1> DEFINE g == got[p]
           h == got'[p]
<1>11. CASE pty[p] # "running"
  <2>1. got' = got
    BY <1>7, <1>11
  <2>2. KeysOrdered(p)'
    BY <1>0, <2>1, NothingTyped, KeysFrame DEF PanelInv
  <2>3. KeysWhole(p)'
    <3> SUFFICES ASSUME drops = 0 PROVE KeysWhole(p)'
      BY <1>0 DEF KeysWhole
    <3>1. pty[p] # "none"
      <4>1. pty[p] = "none" => \E j \in 1 .. 1 - 1 : OpenOf(toAgent[j], p)
        BY <1>0, <1>3 DEF PanelInv, KeysWhole
      <4> QED
        BY <4>1
    <3>2. pty'[p] = "exited"
      BY <1>1, <1>6, <1>11, <3>1
    <3> QED
      BY <1>0, <2>1, <3>2 DEF PanelInv, KeysWhole
  <2> QED
    BY <1>0, <1>6, <1>8, <1>9, <1>10, <2>2, <2>3, TakenKeeps
<1>12. CASE pty[p] = "running"
  <2>1. /\ Len(g) \in Nat /\ Len(h) = Len(g) + 1 /\ h[Len(g) + 1] = n
        /\ \A i \in 1 .. Len(g) : h[i] = g[i]
        /\ \A i \in 1 .. Len(h) : i \in 1 .. Len(g) \/ i = Len(g) + 1
    <3>1. h = Append(g, n) /\ g \in Seq(Chunks)
      BY <1>1, <1>7, <1>12
    <3> HIDE DEF g, h
    <3>2. /\ Len(g) \in Nat /\ Len(h) = Len(g) + 1 /\ h[Len(g) + 1] = n
          /\ \A i \in 1 .. Len(g) : h[i] = g[i]
      BY <3>1, AppendHolds
    <3> QED
      BY <3>2
  <2>2. \A i \in 1 .. Len(g) : g[i] \in Nat
    <3>1. g \in Seq(Chunks)
      BY <1>1
    <3>2. \A i \in 1 .. Len(g) : g[i] \in Chunks
      BY <3>1
    <3> QED
      BY <3>2, TerminalAssumption DEF Chunks
  <2> HIDE DEF g, h
  <2>3. ASSUME NEW i \in 1 .. Len(toAgent'), InputOf(toAgent'[i], p)
        PROVE  /\ toAgent'[i].n \in 1 .. typed[p] /\ n < toAgent'[i].n
               /\ \A j \in 1 .. Len(g) : g[j] < toAgent'[i].n
               /\ \A l \in 1 .. i - 1 : InputOf(toAgent'[l], p) => toAgent'[l].n < toAgent'[i].n
    <3>1. /\ i + 1 \in 1 .. Len(toAgent) /\ toAgent'[i] = toAgent[i + 1] /\ 1 \in 1 .. i + 1 - 1
          /\ \A l \in 1 .. i - 1 : l + 1 \in 1 .. i + 1 - 1 /\ toAgent'[l] = toAgent[l + 1]
      BY <1>0
    <3>2. InputOf(toAgent[i + 1], p)
      BY <2>3, <3>1
    <3>3. /\ toAgent[i + 1].n \in 1 .. typed[p]
          /\ \A j \in 1 .. Len(g) : g[j] < toAgent[i + 1].n
          /\ \A l \in 1 .. i + 1 - 1 : InputOf(toAgent[l], p) => toAgent[l].n < toAgent[i + 1].n
      BY <1>0, <3>1, <3>2 DEF PanelInv, KeysOrdered, g
    <3> QED
      BY <1>3, <3>1, <3>3
  <2>4. \A x : InputOf(x, p)' <=> InputOf(x, p)
    BY DEF InputOf
  <2>5. KeysOrdered(p)'
    <3>1. \A i \in 1 .. Len(g) : g[i] <= typed[p] /\ \A j \in 1 .. i - 1 : g[j] < g[i]
      BY <1>0 DEF PanelInv, KeysOrdered, g
    <3>2. ASSUME NEW i \in 1 .. Len(h) PROVE h[i] <= typed[p] /\ \A j \in 1 .. i - 1 : h[j] < h[i]
      <4>1. \A j \in 1 .. i - 1 : j \in 1 .. Len(g) /\ h[j] = g[j]
        BY <2>1
      <4>2. CASE i \in 1 .. Len(g)
        BY <2>1, <3>1, <4>1, <4>2
      <4>3. CASE i = Len(g) + 1
        <5>1. h[i] = n
          BY <2>1, <4>3
        <5>2. \A j \in 1 .. Len(g) : g[j] < n
          BY <1>4 DEF g
        <5> QED
          BY <1>1, <1>4, <4>1, <5>1, <5>2
      <4> QED
        BY <2>1, <4>2, <4>3
    <3>3. ASSUME NEW x \in Nat, n < x, \A j \in 1 .. Len(g) : g[j] < x
          PROVE  \A j \in 1 .. Len(h) : h[j] < x
      BY <2>1, <3>3
    <3>4. ASSUME NEW i \in 1 .. Len(toAgent'), InputOf(toAgent'[i], p)
          PROVE  /\ toAgent'[i].n \in 1 .. typed[p]
                 /\ \A j \in 1 .. Len(h) : h[j] < toAgent'[i].n
                 /\ \A l \in 1 .. i - 1 : InputOf(toAgent'[l], p) => toAgent'[l].n < toAgent'[i].n
      <4>1. toAgent'[i].n \in Nat /\ n < toAgent'[i].n /\ \A j \in 1 .. Len(g) : g[j] < toAgent'[i].n
        BY <1>1, <2>3, <3>4
      <4> QED
        BY <2>3, <3>3, <3>4, <4>1
    <3>5. ASSUME NEW i \in 1 .. Len(fromBrowser[p]), fromBrowser[p][i].type = "terminal_input"
          PROVE  /\ fromBrowser[p][i].n \in 1 .. typed[p]
                 /\ \A j \in 1 .. Len(h) : h[j] < fromBrowser[p][i].n
                 /\ \A k \in 1 .. Len(toAgent') : InputOf(toAgent'[k], p) => toAgent'[k].n < fromBrowser[p][i].n
                 /\ \A j \in 1 .. i - 1 : fromBrowser[p][j].type = "terminal_input" =>
                       fromBrowser[p][j].n < fromBrowser[p][i].n
      <4>1. /\ fromBrowser[p][i].n \in 1 .. typed[p]
            /\ \A j \in 1 .. Len(g) : g[j] < fromBrowser[p][i].n
            /\ \A k \in 1 .. Len(toAgent) : InputOf(toAgent[k], p) => toAgent[k].n < fromBrowser[p][i].n
            /\ \A j \in 1 .. i - 1 : fromBrowser[p][j].type = "terminal_input" =>
                  fromBrowser[p][j].n < fromBrowser[p][i].n
        BY <1>0, <3>5 DEF PanelInv, KeysOrdered, g
      <4>2. fromBrowser[p][i].n \in Nat /\ n < fromBrowser[p][i].n
        BY <1>1, <1>4, <3>5, <4>1
      <4>3. \A k \in 1 .. Len(toAgent') : InputOf(toAgent'[k], p) => toAgent'[k].n < fromBrowser[p][i].n
        BY <1>0, <4>1
      <4> QED
        BY <3>3, <4>1, <4>2, <4>3
    <3> QED
      BY <1>0, <2>4, <3>2, <3>4, <3>5 DEF KeysOrdered, h
  <2>6. KeysWhole(p)'
    <3> SUFFICES ASSUME drops = 0 PROVE KeysWhole(p)'
      BY <1>0 DEF KeysWhole
    <3>1. /\ \A i \in 1 .. Len(g) : g[i] > unheard[p] + 1 => i > 1 /\ g[i - 1] = g[i] - 1
          /\ \A m \in unheard[p] + 2 .. typed[p] : ToShell(p, m) => Got(p, m - 1) \/ ToShell(p, m - 1)
          /\ p \in sessions => \A m \in unheard[p] + 1 .. typed[p] : Got(p, m) \/ ToShell(p, m) \/ FromPanel(p, m)
      BY <1>0, <1>12 DEF PanelInv, KeysWhole, g
    <3>2. ASSUME NEW m, ToShell(p, m)' PROVE ToShell(p, m)
      <4>1. PICK k \in 1 .. Len(toAgent') : InputOf(toAgent'[k], p) /\ toAgent'[k].n = m
        BY <2>4, <3>2 DEF ToShell
      <4>2. k + 1 \in 1 .. Len(toAgent) /\ toAgent'[k] = toAgent[k + 1]
        BY <1>0
      <4> QED
        BY <4>1, <4>2 DEF ToShell
    <3>3. ASSUME NEW m, ToShell(p, m) PROVE m = n \/ ToShell(p, m)'
      <4>1. PICK k \in 1 .. Len(toAgent) : InputOf(toAgent[k], p) /\ toAgent[k].n = m
        BY <3>3 DEF ToShell
      <4>2. CASE k = 1
        BY <1>3, <4>1, <4>2
      <4>3. CASE k # 1
        <5>1. k - 1 \in 1 .. Len(toAgent') /\ toAgent[k] = toAgent'[k - 1]
          BY <1>0, <4>3
        <5>2. InputOf(toAgent'[k - 1], p) /\ toAgent'[k - 1].n = m
          BY <4>1, <5>1
        <5> QED
          BY <2>4, <5>1, <5>2 DEF ToShell
      <4> QED
        BY <4>2, <4>3
    <3>4. ASSUME NEW m, Got(p, m) PROVE Got(p, m)'
      <4>1. PICK i \in 1 .. Len(g) : g[i] = m
        BY <3>4 DEF Got, g
      <4>2. i \in 1 .. Len(h) /\ h[i] = m
        BY <2>1, <4>1
      <4> QED
        BY <4>2 DEF Got, h
    <3>5. Got(p, n)'
      <4>1. Len(g) + 1 \in 1 .. Len(h) /\ h[Len(g) + 1] = n
        BY <2>1
      <4> QED
        BY <4>1 DEF Got, h
    <3>6. ASSUME n > unheard[p] + 1 PROVE Len(g) > 0 /\ g[Len(g)] = n - 1
      <4>1. n \in unheard[p] + 2 .. typed[p]
        BY <1>1, <1>4, <3>6
      <4>2. ToShell(p, n)
        BY <1>0, <1>3 DEF ToShell
      <4>3. ~ ToShell(p, n - 1)
        <5> SUFFICES ASSUME ToShell(p, n - 1) PROVE FALSE
          OBVIOUS
        <5>1. PICK k \in 1 .. Len(toAgent) : InputOf(toAgent[k], p) /\ toAgent[k].n = n - 1
          BY DEF ToShell
        <5>2. k # 1
          BY <1>3, <1>4, <5>1
        <5>3. k - 1 \in 1 .. Len(toAgent') /\ toAgent[k] = toAgent'[k - 1]
          BY <1>0, <5>2
        <5>4. n < n - 1
          BY <2>3, <5>1, <5>3
        <5> QED
          BY <1>4, <5>4
      <4>4. PICK i \in 1 .. Len(g) : g[i] = n - 1
        BY <3>1, <4>1, <4>2, <4>3 DEF Got, g
      <4>5. i = Len(g)
        <5>1. \A k \in 1 .. Len(g) : g[k] < n /\ \A j \in 1 .. k - 1 : g[j] < g[k]
          BY <1>0, <1>4 DEF PanelInv, KeysOrdered, g
        <5>2. CASE i # Len(g)
          <6>1. Len(g) \in 1 .. Len(g) /\ i \in 1 .. Len(g) - 1
            BY <2>1, <5>2
          <6>2. g[Len(g)] \in Nat /\ g[Len(g)] < n /\ g[i] < g[Len(g)]
            BY <2>2, <5>1, <6>1
          <6> QED
            BY <1>4, <4>4, <6>2
        <5> QED
          BY <5>2
      <4> QED
        BY <2>1, <4>4, <4>5
    <3>7. ASSUME NEW i \in 1 .. Len(h), h[i] > unheard[p] + 1 PROVE i > 1 /\ h[i - 1] = h[i] - 1
      <4>1. CASE i \in 1 .. Len(g)
        <5>1. h[i] = g[i]
          BY <2>1, <4>1
        <5>2. i > 1 /\ g[i - 1] = g[i] - 1
          BY <3>1, <3>7, <4>1, <5>1
        <5>3. i - 1 \in 1 .. Len(g)
          BY <2>1, <4>1, <5>2
        <5> QED
          BY <2>1, <5>1, <5>2, <5>3
      <4>2. CASE i = Len(g) + 1
        <5>1. h[i] = n
          BY <2>1, <4>2
        <5>2. Len(g) > 0 /\ g[Len(g)] = n - 1
          BY <3>6, <3>7, <5>1
        <5>3. i > 1 /\ i - 1 = Len(g) /\ Len(g) \in 1 .. Len(g)
          BY <2>1, <4>2, <5>2
        <5>4. h[Len(g)] = g[Len(g)]
          BY <2>1, <5>3
        <5> QED
          BY <5>1, <5>2, <5>3, <5>4
      <4> QED
        BY <2>1, <4>1, <4>2
    <3>8. ASSUME NEW m \in unheard[p] + 2 .. typed[p], ToShell(p, m)'
          PROVE  Got(p, m - 1)' \/ ToShell(p, m - 1)'
      <4>1. PICK k : k = m - 1
        OBVIOUS
      <4>2. Got(p, k) \/ ToShell(p, k)
        BY <3>1, <3>2, <3>8, <4>1
      <4>3. Got(p, k)' \/ ToShell(p, k)'
        BY <3>3, <3>4, <3>5, <4>2
      <4> QED
        BY <4>1, <4>3
    <3>9. ASSUME p \in sessions, NEW m \in unheard[p] + 1 .. typed[p]
          PROVE  Got(p, m)' \/ ToShell(p, m)' \/ FromPanel(p, m)'
      <4>1. FromPanel(p, m)' <=> FromPanel(p, m)
        BY <1>0 DEF FromPanel
      <4> QED
        BY <3>1, <3>3, <3>4, <3>5, <3>9, <4>1
    <3>10. pty'[p] # "none"
      BY <1>6, <1>12
    <3> QED
      BY <1>0, <3>7, <3>8, <3>9, <3>10 DEF KeysWhole, h
  <2> QED
    BY <1>0, <1>6, <1>8, <1>9, <1>10, <2>5, <2>6, TakenKeeps
<1> QED
  BY <1>11, <1>12

LEMMA ShellKeeps == ASSUME TermInv, Shell PROVE TermInv'
<1>1. TermTypeOK /\ toAgent # <<>> /\ toAgent \in Seq(TermCommand)
  BY TermTypes DEF TermInv, Shell
<1>2. Head(toAgent) \in TermCommand
  BY <1>1, TailHolds
<1>3. PICK p \in Panels : Head(toAgent).panel = p
  BY <1>2 DEF TermCommand
<1>4. Head(toAgent).type \in {"terminal_open", "terminal_input", "terminal_close"}
  BY <1>2 DEF TermCommand
<1> QED
  BY <1>3, <1>4, ShellStartsOrEnds, ShellTypes

(* Nothing is under way any more, and shells may be gone.                  *)
LEMMA LinkBreaks ==
    ASSUME TermInv, toAgent' = <<>>, toPlatform' = <<>>, up' \in BOOLEAN, drops' \in 0 .. MaxDrops, drops' > 0,
           UNCHANGED <<panel, client, typed, unheard, shown, fromBrowser, toBrowser, handler, browser, sessions,
                       got, printed>>,
           pty' \in [Panels -> {"none", "running", "exited"}],
           \A p \in Panels : pty'[p] = pty[p] \/ (pty[p] = "running" /\ pty'[p] = "exited")
    PROVE  TermInv'
<1>0. /\ TermTypeOK /\ toAgent \in Seq(TermCommand) /\ toPlatform \in Seq(TermMessage)
      /\ <<>> \in Seq(TermCommand) /\ <<>> \in Seq(TermMessage) /\ Len(toAgent') = 0 /\ Len(toPlatform') = 0
      /\ drops' # 0
  BY TermTypes, LinkAssumption DEF TermInv
<1>1. TermTypeOK'
  <2>1. LinkTypeOK(TermCommand, TermMessage)'
    BY <1>0 DEF LinkTypeOK, TermCommand, TermMessage
  <2> QED
    BY <1>0, <2>1, TermTypes, TypesAgain
<1>2. LinkHolds'
  BY DEF LinkHolds
<1>3. ASSUME NEW p \in Panels PROVE PanelInv(p)'
  <2>0. PanelInv(p)
    BY DEF TermInv
  <2>1. PanelHolds(p)'
    BY <2>0, HoldsFrame DEF PanelInv
  <2>2. AgentHears(p)'
    BY <1>0, <2>0 DEF PanelInv, AgentHears
  <2>3. \A types : Comes(toAgent, toAgent', 0, p, types) /\ Comes(toPlatform, toPlatform', 0, p, types)
    BY <1>0 DEF Comes
  <2>4. OutputOrdered(p)' /\ OutputWhole(p)'
    BY <1>0, <2>0, <2>3, OrderedFrame DEF PanelInv, OutputWhole
  <2>5. KeysOrdered(p)' /\ KeysWhole(p)'
    BY <1>0, <2>0, <2>3, NothingTyped, KeysFrame DEF PanelInv, KeysWhole
  <2> QED
    BY <2>1, <2>2, <2>4, <2>5 DEF PanelInv
<1> QED
  BY <1>1, <1>2, <1>3 DEF TermInv

LEMMA LinkKeeps == ASSUME TermInv, TermDrop \/ TermReconnect PROVE TermInv'
<1>0. /\ TermTypeOK /\ LinkHolds /\ pty \in [Panels -> {"none", "running", "exited"}] /\ drops \in Nat
      /\ drops \in 0 .. MaxDrops /\ MaxDrops \in Nat
  BY TermTypes DEF TermInv, TermTypeOK, LinkTypeOK
<1>1. CASE TermDrop
  <2>1. /\ toAgent' = <<>> /\ toPlatform' = <<>> /\ up' = FALSE /\ drops' = drops + 1 /\ drops < MaxDrops
        /\ UNCHANGED <<panel, client, typed, unheard, shown, fromBrowser, toBrowser, handler, browser, sessions,
                       got, printed>>
        /\ pty' = pty
    BY <1>1 DEF TermDrop, Drop, inBrowser, onHost
  <2>2. drops' \in 0 .. MaxDrops /\ drops' > 0
    BY <1>0, <2>1
  <2> QED
    BY <1>0, <2>1, <2>2, LinkBreaks
<1>2. CASE TermReconnect
  <2>1. toAgent' = <<>> /\ toPlatform' = <<>> /\ up' = TRUE /\ drops' = drops /\ drops > 0
    BY <1>0, <1>2 DEF TermReconnect, Reconnect, LinkHolds
  <2>2. /\ pty' \in [Panels -> {"none", "running", "exited"}]
        /\ \A p \in Panels : pty'[p] = pty[p] \/ (pty[p] = "running" /\ pty'[p] = "exited")
    <3>1. pty' = pty \/ pty' = [p \in Panels |-> IF pty[p] = "running" THEN "exited" ELSE pty[p]]
      BY <1>2 DEF TermReconnect
    <3> QED
      BY <1>0, <3>1
  <2>3. UNCHANGED <<panel, client, typed, unheard, shown, fromBrowser, toBrowser, handler, browser, sessions,
                    got, printed>>
    BY <1>2 DEF TermReconnect, inBrowser
  <2> QED
    BY <1>0, <2>1, <2>2, <2>3, LinkBreaks
<1> QED
  BY <1>1, <1>2

LEMMA TermStutters == ASSUME TermInv, UNCHANGED termVars PROVE TermInv'
<1>0. TermTypeOK /\ LinkHolds /\ toAgent \in Seq(TermCommand) /\ toPlatform \in Seq(TermMessage)
  BY TermTypes DEF TermInv
<1>1. /\ UNCHANGED link /\ drops' = drops /\ toAgent' = toAgent /\ toPlatform' = toPlatform /\ up' = up
      /\ UNCHANGED <<panel, client, typed, unheard, shown, fromBrowser, toBrowser, handler, browser, sessions,
                     pty, got, printed>>
  BY DEF termVars, link
<1>2. TermTypeOK'
  BY <1>0, <1>1, LinkSame, TermTypes, TypesAgain
<1>3. LinkHolds'
  BY <1>0, <1>1 DEF LinkHolds
<1>4. ASSUME NEW p \in Panels PROVE PanelInv(p)'
  <2>1. PanelSame(p)
    BY <1>1 DEF PanelSame
  <2>2. Kept(toAgent, toAgent', 0, p, CommandTypes) /\ Kept(toPlatform, toPlatform', 0, p, MessageTypes)
    BY <1>0, <1>1, KeptSame
  <2> QED
    BY <1>1, <1>2, <2>1, <2>2, OthersKeep
<1> QED
  BY <1>2, <1>3, <1>4 DEF TermInv

LEMMA TermKeeps == ASSUME TermInv, [TermNext]_termVars PROVE TermInv'
<1>1. CASE UNCHANGED termVars
  BY <1>1, TermStutters
<1>2. CASE TermNext
  <2>1. ASSUME NEW p \in Panels, Handler(p) \/ HandlerRejects(p) PROVE TermInv'
    BY <2>1, HandlerKeeps, BindKeeps DEF Handler
  <2>2. ASSUME NEW p \in Panels, Hear(p) \/ HearClose(p) PROVE TermInv'
    BY <2>2, HearKeeps, HearCloseKeeps
  <2>3. ASSUME NEW p \in Panels, Mount(p) \/ Type(p) \/ Receive(p) PROVE TermInv'
    BY <2>3, MountKeeps, TypeKeeps, ReceiveKeeps
  <2>4. ASSUME NEW p \in Panels, Leave(p) \/ BreakSocket(p) PROVE TermInv'
    BY <2>4, LeaveKeeps
  <2>5. ASSUME NEW p \in Panels, Output(p) \/ Exit(p) PROVE TermInv'
    BY <2>5, OutputKeeps, ExitKeeps
  <2> QED
    BY <1>2, <2>1, <2>2, <2>3, <2>4, <2>5, ForwardKeeps, ShellKeeps, LinkKeeps DEF TermNext
<1> QED
  BY <1>1, <1>2

LEMMA TermPart ==
    ASSUME part = "terminal", [RelaysNext]_<<part, ownTerm, ownUpd, link, inboxVars>>
    PROVE  part' = "terminal" /\ [TermNext]_termVars
<1>1. CASE UNCHANGED <<part, ownTerm, ownUpd, link, inboxVars>>
  BY <1>1 DEF ownTerm, termVars
<1>2. CASE RelaysNext
  BY <1>2 DEF RelaysNext
<1> QED
  BY <1>1, <1>2

(* With any number of panels, of keystrokes and of chunks of output, and   *)
(* sockets and connections that break at any time: an open panel has a     *)
(* session, nothing follows a close, output and keystrokes keep their      *)
(* order, and while the agent's connection holds none is lost on the way.  *)
THEOREM TerminalFaithful == RelaysSpec => []TerminalIsFaithful
<1> DEFINE Inv == part = "terminal" => TermInv
<1>1. RelaysInit => Inv
  BY TermStart DEF RelaysInit
<1>2. Inv /\ [RelaysNext]_<<part, ownTerm, ownUpd, link, inboxVars>> => Inv'
  <2> SUFFICES ASSUME Inv, [RelaysNext]_<<part, ownTerm, ownUpd, link, inboxVars>>, part' = "terminal"
               PROVE  TermInv'
    OBVIOUS
  <2>1. part = "terminal"
    BY DEF RelaysNext
  <2> QED
    BY <2>1, TermPart, TermKeeps
<1>3. Inv => TerminalIsFaithful
  BY TermFacts DEF TerminalIsFaithful
<1> HIDE DEF Inv
<1> QED
  BY <1>1, <1>2, <1>3, PTL DEF RelaysSpec
-----------------------------------------------------------------------------
(* The bell and the list.                                                  *)

BellRec == [at : {"away", "shown"}, items : Seq(Item), unread : Nat]
PollRec == [pc : {"idle", "asked", "answered"}, items : Seq(Item)]
ListRec == [at : {"away", "shown"}, items : Seq(Item)]
PendingRec == [op : {"none", "read", "all", "dismiss", "done"}, ids : SUBSET Notices]

NewestFirst(items) == \A i, j \in 1 .. Len(items) : i < j => items[i].id > items[j].id

(* What an answer under way says is in order too.                          *)
InboxInv ==
    /\ InboxTypeOK /\ BadgeCounts
    /\ NewestFirst(bell.items) /\ NewestFirst(list.items)
    /\ \A p \in Polls : NewestFirst(poll[p].items)

LEMMA InboxFacts == InboxInv => InboxTypeOK /\ BadgeCounts /\ NewestNoticeFirst
<1> SUFFICES ASSUME InboxInv PROVE NewestNoticeFirst
  BY DEF InboxInv
<1>1. bell.items \in Seq(Item) /\ list.items \in Seq(Item)
  BY DEF InboxInv, InboxTypeOK
<1>2. \A items \in Seq(Item) : DOMAIN items = 1 .. Len(items)
  OBVIOUS
<1>3. DOMAIN bell.items = 1 .. Len(bell.items) /\ DOMAIN list.items = 1 .. Len(list.items)
  BY <1>1, <1>2
<1>4. NewestFirst(bell.items) /\ NewestFirst(list.items)
  BY DEF InboxInv
<1> QED
  BY <1>3, <1>4, Zenon DEF NewestNoticeFirst, NewestFirst

(* The rows as a place shows them.                                         *)
LEMMA ShownRows ==
    ASSUME InboxTypeOK
    PROVE  Shown \in Seq(Item) /\ NewestFirst(Shown)
<1> DEFINE S == {n \in 1 .. raised : notice[n] # "dismissed"}
           k == Cardinality(S)
           kept == Descending(S)
<1>1. raised \in Nat /\ 1 .. raised \subseteq Notices
  BY InboxAssumption DEF InboxTypeOK, Notices
<1>2. IsFiniteSet(1 .. raised)
  BY <1>1, FS_Interval
<1>3. S \in SUBSET (1 .. raised) /\ S \in SUBSET Nat
  BY <1>1
<1>4. IsFiniteSet(S)
  BY <1>2, <1>3, FS_Subset
<1>5. k \in Nat /\ kept \in [1 .. k -> S] /\ \A i, j \in 1 .. k : i < j => kept[i] > kept[j]
  BY <1>3, <1>4, DescendingRows
<1>6. Shown = [i \in 1 .. k |-> [id |-> kept[i], unread |-> notice[kept[i]] = "unread"]]
  BY <1>5 DEF Shown
<1> HIDE DEF S, k, kept
<1>7. \A i \in 1 .. k : kept[i] \in Notices
  BY <1>1, <1>3, <1>5
<1>8. \A i \in 1 .. k : Shown[i] \in Item /\ Shown[i].id = kept[i]
  BY <1>6, <1>7 DEF Item
<1>9. Shown \in Seq(Item) /\ Len(Shown) = k
  BY <1>5, <1>6, <1>8
<1> QED
  BY <1>5, <1>8, <1>9 DEF NewestFirst

LEMMA LatestRows ==
    ASSUME InboxTypeOK
    PROVE  Latest \in Seq(Item) /\ NewestFirst(Latest)
<1> DEFINE n == IF Len(Shown) < LatestLimit THEN Len(Shown) ELSE LatestLimit
<1>1. Shown \in Seq(Item) /\ NewestFirst(Shown) /\ Len(Shown) \in Nat /\ LatestLimit \in Nat
  BY ShownRows, InboxAssumption
<1>2. n \in Nat /\ n <= Len(Shown)
  BY <1>1
<1>3. Latest = SubSeq(Shown, 1, n)
  BY DEF Latest
<1> HIDE DEF n
<1>4. Latest \in Seq(Item) /\ Len(Latest) = n /\ \A i \in 1 .. n : Latest[i] = Shown[i] /\ i \in 1 .. Len(Shown)
  BY <1>1, <1>2, <1>3
<1> QED
  BY <1>1, <1>4 DEF NewestFirst

(* Nothing is unread in an empty list, and one less after a click.         *)
LEMMA UnreadOfNone == NewestFirst(<<>>) /\ UnreadIn(<<>>) = 0 /\ <<>> \in Seq(Item)
<1>1. {i \in 1 .. Len(<<>>) : <<>>[i].unread} = {}
  OBVIOUS
<1> QED
  BY <1>1, FS_EmptySet DEF UnreadIn, NewestFirst

LEMMA UnreadIsNat ==
    ASSUME NEW items \in Seq(Item)
    PROVE  UnreadIn(items) \in Nat /\ IsFiniteSet({i \in 1 .. Len(items) : items[i].unread})
<1>1. Len(items) \in Nat
  OBVIOUS
<1>2. IsFiniteSet(1 .. Len(items))
  BY <1>1, FS_Interval
<1>3. {i \in 1 .. Len(items) : items[i].unread} \in SUBSET (1 .. Len(items))
  OBVIOUS
<1>4. IsFiniteSet({i \in 1 .. Len(items) : items[i].unread})
  BY <1>2, <1>3, FS_Subset
<1> QED
  BY <1>4, FS_CardinalityType DEF UnreadIn

LEMMA OneRead ==
    ASSUME NEW items \in Seq(Item), NEW i \in 1 .. Len(items), items[i].unread, NewestFirst(items)
    PROVE  LET after == [items EXCEPT ![i].unread = FALSE] IN
           /\ after \in Seq(Item) /\ NewestFirst(after)
           /\ UnreadIn(items) # 0 /\ UnreadIn(after) = UnreadIn(items) - 1
<1> DEFINE after == [items EXCEPT ![i].unread = FALSE]
           S == {j \in 1 .. Len(items) : items[j].unread}
<1>1. \A j \in 1 .. Len(items) : items[j] \in Item
  OBVIOUS
<1>2. after = [items EXCEPT ![i] = [items[i] EXCEPT !.unread = FALSE]]
  OBVIOUS
<1>3. [items[i] EXCEPT !.unread = FALSE] \in Item /\ [items[i] EXCEPT !.unread = FALSE].id = items[i].id
      /\ [items[i] EXCEPT !.unread = FALSE].unread = FALSE
  BY <1>1 DEF Item
<1> HIDE DEF after
<1>4. after \in Seq(Item) /\ Len(after) = Len(items) /\ Len(items) \in Nat
  BY <1>2, <1>3
<1>5. \A j \in 1 .. Len(items) : after[j] = IF j = i THEN [items[i] EXCEPT !.unread = FALSE] ELSE items[j]
  BY <1>2
<1>6. \A j \in 1 .. Len(items) : after[j].id = items[j].id
  BY <1>3, <1>5
<1>7. NewestFirst(after)
  BY <1>4, <1>6 DEF NewestFirst
<1>8. {j \in 1 .. Len(after) : after[j].unread} = S \ {i}
  BY <1>3, <1>4, <1>5
<1>9. i \in S
  OBVIOUS
<1>10. IsFiniteSet(S) /\ UnreadIn(items) = Cardinality(S) /\ UnreadIn(after) = Cardinality(S \ {i})
  BY <1>8, UnreadIsNat DEF UnreadIn
<1> HIDE DEF S
<1>11. Cardinality(S \ {i}) = Cardinality(S) - 1 /\ Cardinality(S) # 0
  BY <1>9, <1>10, FS_RemoveElement, FS_EmptySet
<1> QED
  BY <1>4, <1>7, <1>10, <1>11 DEF after

LEMMA InboxStart == InboxInit => InboxInv
<1> SUFFICES ASSUME InboxInit PROVE InboxInv
  OBVIOUS
<1>1. <<>> \in Seq(Item) /\ NewestFirst(<<>>) /\ UnreadIn(<<>>) = 0
  BY UnreadOfNone
<1>2. bell = NoBell /\ NoBell \in BellRec /\ NoBell.items = <<>> /\ NoBell.unread = 0
  BY <1>1 DEF InboxInit, NoBell, BellRec
<1>3. poll = [p \in Polls |-> NoAnswer] /\ NoAnswer \in PollRec /\ NoAnswer.items = <<>>
  BY <1>1 DEF InboxInit, NoAnswer, PollRec
<1>4. list \in ListRec /\ list.items = <<>>
  BY <1>1 DEF InboxInit, ListRec
<1>5. InboxTypeOK
  BY <1>2, <1>3, <1>4, InboxAssumption
     DEF InboxInit, InboxTypeOK, BellRec, PollRec, ListRec, NoticeState, NotPending, Notices
<1> QED
  BY <1>1, <1>2, <1>3, <1>4, <1>5 DEF InboxInv, BadgeCounts

(* What the two places show are their records alone.                       *)
LEMMA InboxTypes ==
    InboxTypeOK <=>
    /\ notice \in [Notices -> NoticeState] /\ raised \in 0 .. MaxNotices
    /\ bell \in BellRec /\ poll \in [Polls -> PollRec] /\ marking \subseteq Notices
    /\ list \in ListRec /\ pending \in PendingRec
  BY DEF InboxTypeOK, BellRec, PollRec, ListRec, PendingRec

(* A step of the rows and the actions, which leaves what is shown.         *)
LEMMA RowsStep ==
    ASSUME InboxInv, UNCHANGED <<bell, poll, list>>, notice' \in [Notices -> NoticeState],
           raised' \in 0 .. MaxNotices, marking' \subseteq Notices, pending' \in PendingRec
    PROVE  InboxInv'
<1>1. InboxTypeOK'
  BY InboxTypes DEF InboxInv, InboxTypeOK, PendingRec
<1> QED
  BY <1>1 DEF InboxInv, BadgeCounts

(* A step of a poll.                                                       *)
LEMMA PollStep ==
    ASSUME InboxInv, NEW p \in Polls, NEW x \in PollRec, poll' = [poll EXCEPT ![p] = x],
           NewestFirst(x.items), UNCHANGED <<notice, raised, marking, list, pending>>,
           bell' \in BellRec, NewestFirst(bell'.items), bell'.unread = UnreadIn(bell'.items)
    PROVE  InboxInv'
<1>1. poll \in [Polls -> PollRec]
  BY InboxTypes DEF InboxInv
<1>2. poll' \in [Polls -> PollRec] /\ \A q \in Polls : poll'[q] = IF q = p THEN x ELSE poll[q]
  BY <1>1
<1>3. InboxTypeOK'
  BY <1>2 DEF InboxInv, InboxTypeOK, BellRec, PollRec
<1>4. \A q \in Polls : NewestFirst(poll'[q].items)
  BY <1>2 DEF InboxInv
<1> QED
  BY <1>3, <1>4 DEF InboxInv, BadgeCounts

(* A step of the list.                                                     *)
LEMMA ListStep ==
    ASSUME InboxInv, UNCHANGED <<notice, raised, bell, poll, marking>>,
           list' \in ListRec, NewestFirst(list'.items), pending' \in PendingRec
    PROVE  InboxInv'
<1>1. InboxTypeOK'
  BY DEF InboxInv, InboxTypeOK, ListRec, PendingRec
<1> QED
  BY <1>1 DEF InboxInv, BadgeCounts

LEMMA BellSteps ==
    ASSUME InboxInv,
           \/ MountBell \/ UnmountBell
           \/ \E p \in Polls : FetchLatest(p) \/ AnswerLatest(p) \/ ShowLatest(p) \/ PollFails(p)
           \/ \E i \in DOMAIN bell.items : ClickItem(i)
    PROVE  InboxInv'
<1>0. /\ InboxTypeOK /\ bell \in BellRec /\ poll \in [Polls -> PollRec] /\ marking \subseteq Notices
      /\ bell.items \in Seq(Item) /\ NewestFirst(bell.items) /\ bell.unread = UnreadIn(bell.items)
      /\ \A p \in Polls : NewestFirst(poll[p].items)
  BY InboxTypes DEF InboxInv, BellRec, BadgeCounts
<1>a. <<>> \in Seq(Item) /\ NewestFirst(<<>>) /\ UnreadIn(<<>>) = 0
  BY UnreadOfNone
<1>b. NoBell \in BellRec /\ NoBell.items = <<>> /\ NoBell.unread = 0
  BY <1>a DEF NoBell, BellRec
<1>c. NoAnswer \in PollRec /\ NoAnswer.items = <<>>
  BY <1>a DEF NoAnswer, PollRec
<1>1. CASE MountBell
  <2>1. bell' \in BellRec /\ bell'.items = bell.items /\ bell'.unread = bell.unread
    BY <1>0, <1>1 DEF MountBell, BellRec
  <2>2. InboxTypeOK'
    BY <1>1, <2>1 DEF InboxInv, InboxTypeOK, MountBell, BellRec
  <2> QED
    BY <1>1, <2>1, <2>2 DEF InboxInv, BadgeCounts, MountBell
<1>2. CASE UnmountBell
  <2>1. bell' = NoBell /\ poll' = [p \in Polls |-> NoAnswer]
    BY <1>2 DEF UnmountBell
  <2>2. InboxTypeOK'
    BY <1>2, <1>b, <1>c, <2>1 DEF InboxInv, InboxTypeOK, UnmountBell, BellRec, PollRec
  <2> QED
    BY <1>2, <1>a, <1>b, <1>c, <2>1, <2>2 DEF InboxInv, BadgeCounts, UnmountBell
<1>3. ASSUME NEW p \in Polls, FetchLatest(p) PROVE InboxInv'
  <2> DEFINE x == [poll[p] EXCEPT !.pc = "asked"]
  <2>1. x \in PollRec /\ x.items = poll[p].items
    BY <1>0 DEF PollRec
  <2>2. poll' = [poll EXCEPT ![p] = x] /\ bell' = bell /\ UNCHANGED <<notice, raised, marking, list, pending>>
    BY <1>3 DEF FetchLatest
  <2> HIDE DEF x
  <2> QED
    BY <1>0, <2>1, <2>2, PollStep
<1>4. ASSUME NEW p \in Polls, AnswerLatest(p) PROVE InboxInv'
  <2> DEFINE x == [pc |-> "answered", items |-> Latest]
  <2>1. x \in PollRec /\ NewestFirst(x.items)
    BY <1>0, LatestRows DEF PollRec
  <2>2. poll' = [poll EXCEPT ![p] = x] /\ bell' = bell /\ UNCHANGED <<notice, raised, marking, list, pending>>
    BY <1>4 DEF AnswerLatest
  <2> HIDE DEF x
  <2> QED
    BY <1>0, <2>1, <2>2, PollStep
<1>5. ASSUME NEW p \in Polls, ShowLatest(p) PROVE InboxInv'
  <2>1. poll[p].items \in Seq(Item) /\ UnreadIn(poll[p].items) \in Nat
    BY <1>0, UnreadIsNat DEF PollRec
  <2>2. bell' = [bell EXCEPT !.items = poll[p].items, !.unread = UnreadIn(poll[p].items)]
    BY <1>5 DEF ShowLatest
  <2>3. bell' \in BellRec /\ bell'.items = poll[p].items /\ bell'.unread = UnreadIn(poll[p].items)
    BY <1>0, <2>1, <2>2 DEF BellRec
  <2>4. poll' = [poll EXCEPT ![p] = NoAnswer] /\ UNCHANGED <<notice, raised, marking, list, pending>>
    BY <1>5 DEF ShowLatest
  <2> QED
    BY <1>0, <1>a, <1>c, <2>3, <2>4, PollStep
<1>6. ASSUME NEW p \in Polls, PollFails(p) PROVE InboxInv'
  <2>1. poll' = [poll EXCEPT ![p] = NoAnswer] /\ bell' = bell /\ UNCHANGED <<notice, raised, marking, list, pending>>
    BY <1>6 DEF PollFails
  <2> QED
    BY <1>0, <1>a, <1>c, <2>1, PollStep
<1>7. ASSUME NEW i \in DOMAIN bell.items, ClickItem(i) PROVE InboxInv'
  <2>8. DOMAIN bell.items = 1 .. Len(bell.items) /\ \A j \in 1 .. Len(bell.items) : bell.items[j] \in Item
    BY <1>0
  <2>9. bell.items[i].unread
    BY <1>7 DEF ClickItem
  <2>1. i \in 1 .. Len(bell.items) /\ bell.items[i].unread /\ bell.items[i] \in Item
    BY <1>7, <2>8, <2>9
  <2>2. PICK after : after = [bell.items EXCEPT ![i].unread = FALSE]
    OBVIOUS
  <2>3. /\ after \in Seq(Item) /\ NewestFirst(after)
        /\ UnreadIn(bell.items) # 0 /\ UnreadIn(after) = UnreadIn(bell.items) - 1
    BY <1>0, <2>1, <2>2, OneRead
  <2>4. bell' = [bell EXCEPT !.items = after, !.unread = IF bell.unread = 0 THEN 0 ELSE bell.unread - 1]
    BY <1>0, <1>7, <2>2 DEF ClickItem, BellRec
  <2>5. bell'.items = after /\ bell'.unread = UnreadIn(after) /\ bell' \in BellRec
    BY <1>0, <2>3, <2>4, UnreadIsNat DEF BellRec
  <2>6. bell.items[i].id \in Notices /\ marking' = marking \cup {bell.items[i].id}
        /\ UNCHANGED <<notice, raised, poll, list, pending>>
    BY <1>7, <2>1 DEF ClickItem, Item
  <2>7. InboxTypeOK'
    BY <1>0, <2>5, <2>6 DEF InboxInv, InboxTypeOK, BellRec
  <2> QED
    BY <2>3, <2>5, <2>6, <2>7 DEF InboxInv, BadgeCounts
<1> QED
  BY <1>1, <1>2, <1>3, <1>4, <1>5, <1>6, <1>7

(* The UPDATE of rows that are read.                                       *)
LEMMA RowsRead ==
    ASSUME InboxTypeOK, NEW ids
    PROVE  MarkRead(ids) \in [Notices -> NoticeState]
  BY DEF MarkRead, InboxTypeOK, NoticeState

LEMMA InboxKeeps == InboxInv /\ [InboxNext]_inboxVars => InboxInv'
<1> SUFFICES ASSUME InboxInv, [InboxNext]_inboxVars PROVE InboxInv'
  OBVIOUS
<1>0. /\ InboxTypeOK /\ notice \in [Notices -> NoticeState] /\ raised \in 0 .. MaxNotices
      /\ marking \subseteq Notices /\ list \in ListRec /\ pending \in PendingRec
      /\ list.items \in Seq(Item) /\ NewestFirst(list.items)
  BY InboxTypes DEF InboxInv, ListRec
<1>1. CASE Raised
  <2>1. notice' \in [Notices -> NoticeState] /\ raised' \in 0 .. MaxNotices
    BY <1>0, <1>1, InboxAssumption DEF Raised, NoticeState, Notices
  <2> QED
    BY <1>0, <1>1, <2>1, RowsStep DEF Raised
<1>2. ASSUME NEW n \in marking, DoMark(n) \/ MarkFails(n) PROVE InboxInv'
  <2>1. /\ notice' \in [Notices -> NoticeState] /\ marking' \subseteq Notices
        /\ UNCHANGED <<raised, bell, poll, list, pending>>
    BY <1>0, <1>2, RowsRead DEF DoMark, MarkFails
  <2> QED
    BY <1>0, <2>1, RowsStep
<1>3. CASE OpenList
  <2>1. Shown \in Seq(Item) /\ NewestFirst(Shown)
    BY <1>0, ShownRows
  <2>2. list' \in ListRec /\ NewestFirst(list'.items)
    BY <1>3, <2>1 DEF OpenList, ListRec
  <2> QED
    BY <1>0, <1>3, <2>2, ListStep DEF OpenList
<1>4. CASE LeaveList
  <2>1. list' \in ListRec /\ NewestFirst(list'.items)
    BY <1>4, UnreadOfNone DEF LeaveList, ListRec
  <2>2. pending' \in PendingRec
    BY <1>0, <1>4 DEF LeaveList, PendingRec, NotPending
  <2> QED
    BY <1>4, <2>1, <2>2, ListStep DEF LeaveList
<1>5. CASE ClickAnyOfList
  <2>4. \A i \in DOMAIN list.items : list.items[i] \in Item
    BY <1>0
  <2>5. \A i \in DOMAIN list.items : list.items[i].id \in Notices
    BY <2>4 DEF Item
  <2>1. ListedUnread \subseteq Notices /\ Listed \subseteq Notices
    BY <2>5 DEF ListedUnread, Listed
  <2>2. PICK op \in {"all", "read", "dismiss"}, ids \in SUBSET Notices : ClickList(op, ids)
    BY <1>5, <2>1 DEF ClickAnyOfList
  <2>3. pending' \in PendingRec /\ UNCHANGED <<notice, raised, bell, poll, marking, list>>
    BY <2>2 DEF ClickList, PendingRec
  <2> QED
    BY <1>0, <2>3, RowsStep
<1>6. CASE DoList
  <2>1. pending' \in PendingRec /\ UNCHANGED <<raised, bell, poll, marking, list>>
    BY <1>6 DEF DoList, PendingRec, NotPending
  <2>2. [n \in Notices |-> IF n \in pending.ids THEN "dismissed" ELSE notice[n]] \in [Notices -> NoticeState]
    BY <1>0 DEF NoticeState
  <2>3. notice' \in [Notices -> NoticeState]
    BY <1>0, <1>6, <2>2, RowsRead DEF DoList
  <2> QED
    BY <1>0, <2>1, <2>3, RowsStep
<1>7. CASE RefreshList
  <2>1. Shown \in Seq(Item) /\ NewestFirst(Shown)
    BY <1>0, ShownRows
  <2>2. list' \in ListRec /\ NewestFirst(list'.items)
    BY <1>0, <1>7, <2>1 DEF RefreshList, ListRec
  <2>3. pending' \in PendingRec
    BY <1>7 DEF RefreshList, PendingRec, NotPending
  <2> QED
    BY <1>7, <2>2, <2>3, ListStep DEF RefreshList
<1>8. CASE UNCHANGED inboxVars
  BY <1>0, <1>8, RowsStep DEF inboxVars
<1> QED
  BY <1>1, <1>2, <1>3, <1>4, <1>5, <1>6, <1>7, <1>8, BellSteps DEF InboxNext

LEMMA InboxPart ==
    ASSUME part = "inbox", [RelaysNext]_<<part, ownTerm, ownUpd, link, inboxVars>>
    PROVE  [InboxNext]_inboxVars
  BY DEF RelaysNext

(* However clicks, polls and their answers overlap, fail or come late, the *)
(* bell counts the unread notices it shows, and neither place shows one    *)
(* twice or out of order.                                                  *)
THEOREM InboxIsInOrder == RelaysSpec => []InboxHolds
<1> DEFINE Inv == part = "inbox" => InboxInv
<1>1. RelaysInit => Inv
  BY InboxStart DEF RelaysInit
<1>2. Inv /\ [RelaysNext]_<<part, ownTerm, ownUpd, link, inboxVars>> => Inv'
  <2> SUFFICES ASSUME Inv, [RelaysNext]_<<part, ownTerm, ownUpd, link, inboxVars>>, part' = "inbox"
               PROVE  InboxInv'
    OBVIOUS
  <2>1. part = "inbox"
    BY DEF RelaysNext
  <2> QED
    BY <2>1, InboxPart, InboxKeeps
<1>3. Inv => InboxHolds
  BY InboxFacts DEF InboxHolds
<1> HIDE DEF Inv
<1> QED
  BY <1>1, <1>2, <1>3, PTL DEF RelaysSpec

=============================================================================
