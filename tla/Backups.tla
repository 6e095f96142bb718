------------------------------ MODULE Backups -------------------------------
(***************************************************************************)
(* Backups of game servers: the server actions that configure, start and   *)
(* restore them (src/server/actions/backups.ts), the scheduler that starts *)
(* those that are due (src/server/backups/scheduler.ts) with the retention *)
(* sweep, and the agent's progress reports (handleBackupProgress in        *)
(* src/server/ws/agent-handler.ts).                                        *)
(*                                                                         *)
(* A job is a server action or a tick of the scheduler; each statement it  *)
(* awaits is an action.  Servers are on one host.                          *)
(***************************************************************************)
EXTENDS Naturals, Sequences

CONSTANTS
    Servers,    \* game servers
    BackupIds,  \* ids of rows of backups
    Users,      \* server actions that can be under way at the same time
    Instances,  \* processes that run the scheduler
    Runs,       \* ticks of the scheduler that can be under way at the same time
    Reporters,  \* progress reports that can be handled at the same time
    Settings,   \* what updateBackupConfig may be asked to save
    None,       \* null and undefined
    Minute,     \* TICK_MS
    Retention,  \* how long a backup is kept
    TickSlack,  \* how late setInterval may be
    Overlap,    \* TRUE: a tick of the scheduler may take longer than TICK_MS
    MaxTime,    \* bound on the time
    MaxQueue,   \* bound on the commands under way when a server action begins
    MaxDrops,   \* bound on the connections that break
    MaxDbFailures

VARIABLES
    now,        \* the time
    deleted,    \* servers that are deleted, or whose host is removed
    config,     \* the backup_configs rows
    backup,     \* the backups rows
    job,        \* server actions and ticks under way
    lastTick,   \* when each instance's timer fired last
    up,         \* is there an open connection to the agent?
    toAgent,    \* commands under way
    working,    \* backups the agent is making
    toPlatform, \* reports under way
    rep,        \* the runs of handleBackupProgress
    drops, dbFailures

jobVars == <<now, deleted, lastTick, working, toPlatform, rep, drops>>
vars == <<now, deleted, config, backup, job, lastTick, up, toAgent, working, toPlatform, rep,
          drops, dbFailures>>

Times == 0 .. MaxTime
Jobs == Users \cup Runs

(* Setting: what the form submits; minutes are those the cron spec matches.*)
Setting == [enabled : BOOLEAN, minutes : SUBSET Times, dest : {"s3", "platform"}]
Config == [set : Setting, lastRun : Times \cup {None}]

Phases == {"uploading", "completed", "failed"}
Row == [server : Servers, status : {"running", "completed", "failed", "swept"},
        until : Nat, size : 0 .. 2]

Kinds == {"manual", "scheduled", "restore", "configure"}
Idle == [pc |-> "idle", kind |-> None, server |-> None, backup |-> None, set |-> None,
         at |-> None, due |-> {}]
Job == [pc : {"idle", "select", "next", "sweep", "load", "find", "upsert", "config", "insert",
              "send", "fail", "mark"},
        kind : Kinds \cup {None}, server : Servers \cup {None}, backup : BackupIds \cup {None},
        set : Settings \cup {None}, at : Times \cup {None}, due : SUBSET Servers]

Progress == [backup : BackupIds, phase : Phases]
NoReport == [pc |-> "idle", msg |-> None]

ASSUME NoneAssumption ==
    None \notin Servers \cup BackupIds \cup Nat \cup Settings \cup Config \cup Row
ASSUME BoundsAssumption ==
    /\ Settings \subseteq Setting
    /\ Minute \in Nat \ {0} /\ Retention \in Nat /\ TickSlack \in Nat
    /\ MaxTime \in Nat /\ MaxTime >= Minute - 1
    /\ MaxQueue \in Nat /\ MaxDrops \in Nat /\ MaxDbFailures \in Nat
    /\ Overlap \in BOOLEAN

TypeOK ==
    /\ now \in Times
    /\ deleted \subseteq Servers
    /\ config \in [Servers -> Config \cup {None}]
    /\ backup \in [BackupIds -> Row \cup {None}]
    /\ job \in [Jobs -> Job]
    /\ lastTick \in [Instances -> Times \cup {None}]
    /\ up \in BOOLEAN
    /\ toAgent \in Seq([type : {"backup_server", "restore_server"}, backup : BackupIds])
    /\ working \subseteq BackupIds
    /\ toPlatform \in Seq(Progress)
    /\ rep \in [Reporters -> [pc : {"idle", "read", "write"}, msg : Progress \cup {None}]]
    /\ drops \in 0 .. MaxDrops
    /\ dbFailures \in 0 .. MaxDbFailures

(* The platform boots at any point of a minute, with a server that is      *)
(* configured or not, and ticks at once.                                   *)
Init ==
    /\ now \in 0 .. Minute - 1
    /\ deleted = {}
    /\ config \in [Servers -> {None} \cup {[set |-> g, lastRun |-> None] : g \in Settings}]
    /\ backup = [b \in BackupIds |-> None]
    /\ job = [j \in Jobs |-> Idle]
    /\ lastTick = [i \in Instances |-> None]
    /\ up \in BOOLEAN
    /\ toAgent = <<>>
    /\ working = {}
    /\ toPlatform = <<>>
    /\ rep = [r \in Reporters |-> NoReport]
    /\ drops = 0
    /\ dbFailures = 0

Owned(s) == s \notin deleted

Step(j, pc) == job' = [job EXCEPT ![j].pc = pc]

(* MUTANT: a tick ends with the first server.                              *)
ReturnStops(j) == job' = [job EXCEPT ![j] = Idle]

(* A server action answers; a tick goes on with the next server.           *)
Return(j) ==
    job' = [job EXCEPT ![j] = IF j \in Users THEN Idle
                              ELSE [@ EXCEPT !.pc = "next", !.server = None, !.backup = None]]

-----------------------------------------------------------------------------
(* The scheduler.                                                          *)

TickDue(i) == lastTick[i] # None => now >= lastTick[i] + Minute

Tick(i, k) ==
    /\ TickDue(i)
    /\ job[k].pc = "idle"
    /\ lastTick' = [lastTick EXCEPT ![i] = now]
    /\ job' = [job EXCEPT ![k] = [Idle EXCEPT !.pc = "select", !.kind = "scheduled", !.at = now]]
    /\ UNCHANGED <<now, deleted, config, backup, up, toAgent, working, toPlatform, rep, drops,
                   dbFailures>>

(* A schedule that matches the minute of t.                                *)
Scheduled(s, t) ==
    /\ Owned(s)
    /\ config[s] # None
    /\ config[s].set.enabled
    /\ t \div Minute \in config[s].set.minutes

(* MUTANT: no throttle.                                                    *)
ThrottledNever(s, t) == FALSE

Throttled(s, t) == config[s].lastRun # None /\ t < config[s].lastRun + Minute

(* The SELECT of candidates; their schedules and lastRunAt are compared    *)
(* with the time of the tick as they were then.                            *)
Select(k) ==
    /\ job[k].pc = "select"
    /\ LET t == job[k].at IN
       job' = [job EXCEPT ![k] = [@ EXCEPT !.pc = "next",
                  !.due = {s \in Servers : Scheduled(s, t) /\ ~Throttled(s, t)}]]
    /\ UNCHANGED <<config, backup, up, toAgent, dbFailures>> /\ UNCHANGED jobVars

(* startBackup for one that is due, or the sweep when there is none left.  *)
NextDue(k) ==
    /\ job[k].pc = "next"
    /\ \/ \E s \in job[k].due :
             job' = [job EXCEPT ![k] =
                        [@ EXCEPT !.pc = "load", !.server = s, !.due = job[k].due \ {s}]]
       \/ job[k].due = {} /\ job' = [job EXCEPT ![k] = [@ EXCEPT !.pc = "sweep", !.at = now]]
    /\ UNCHANGED <<config, backup, up, toAgent, dbFailures>> /\ UNCHANGED jobVars

(* MUTANT: whatever its status.                                            *)
ExpiredAnyStatus(b, t) == backup[b] # None /\ backup[b].until < t

Expired(b, t) ==
    /\ backup[b] # None
    /\ backup[b].status # "running"
    /\ backup[b].until < t

(* sweepExpiredBackups.  The ids of the deleted rows are not used again.   *)
Sweep(k) ==
    /\ job[k].pc = "sweep"
    /\ backup' = [b \in BackupIds |->
           IF Expired(b, job[k].at) THEN [backup[b] EXCEPT !.status = "swept"] ELSE backup[b]]
    /\ job' = [job EXCEPT ![k] = Idle]
    /\ UNCHANGED <<config, up, toAgent, dbFailures>> /\ UNCHANGED jobVars

-----------------------------------------------------------------------------
(* The server actions, and startBackup for both.                           *)

Begin(u, new) ==
    /\ job[u].pc = "idle"
    /\ Len(toAgent) < MaxQueue
    /\ job' = [job EXCEPT ![u] = new]
    /\ UNCHANGED <<config, backup, up, toAgent, dbFailures>> /\ UNCHANGED jobVars

TriggerBackup(u, s) == Begin(u, [Idle EXCEPT !.pc = "load", !.kind = "manual", !.server = s])

RestoreBackup(u, b) ==
    /\ backup[b] # None
    /\ Begin(u, [Idle EXCEPT !.pc = "load", !.kind = "restore", !.server = backup[b].server,
                             !.backup = b])

UpdateBackupConfig(u, s, g) ==
    Begin(u, [Idle EXCEPT !.pc = "load", !.kind = "configure", !.server = s, !.set = g])

LoadOwnedServer(j) ==
    /\ job[j].pc = "load"
    /\ IF ~Owned(job[j].server) THEN Return(j)
       ELSE Step(j, CASE job[j].kind = "restore" -> "find"
                      [] job[j].kind = "configure" -> "upsert"
                      [] OTHER -> "config")
    /\ UNCHANGED <<config, backup, up, toAgent, dbFailures>> /\ UNCHANGED jobVars

(* lastRunAt survives.                                                     *)
Upsert(u) ==
    LET s == job[u].server IN
    /\ job[u].pc = "upsert"
    /\ config' = [config EXCEPT ![s] =
           [set |-> job[u].set, lastRun |-> IF config[s] = None THEN None ELSE config[s].lastRun]]
    /\ Return(u)
    /\ UNCHANGED <<backup, up, toAgent, dbFailures>> /\ UNCHANGED jobVars

(* MUTANT: any backup that is not known to have failed.                    *)
RestorableUnlessFailed(b) == backup[b].status \in {"running", "completed"}

(* restoreBackup looks for a completed backup.                             *)
Restorable(b) == backup[b].status = "completed"

FindBackup(u) ==
    /\ job[u].pc = "find"
    /\ IF Restorable(job[u].backup) THEN Step(u, "config") ELSE Return(u)
    /\ UNCHANGED <<config, backup, up, toAgent, dbFailures>> /\ UNCHANGED jobVars

(* Only S3 is available as a destination.                                  *)
LoadConfig(j) ==
    LET c == config[job[j].server] IN
    /\ job[j].pc = "config"
    /\ IF c = None \/ c.set.dest # "s3" THEN Return(j)
       ELSE Step(j, IF job[j].kind = "restore" THEN "send" ELSE "insert")
    /\ UNCHANGED <<config, backup, up, toAgent, dbFailures>> /\ UNCHANGED jobVars

InsertBackup(j, b) ==
    /\ job[j].pc = "insert"
    /\ backup[b] = None
    /\ backup' = [backup EXCEPT ![b] =
           [server |-> job[j].server, status |-> "running", until |-> now + Retention, size |-> 0]]
    /\ job' = [job EXCEPT ![j] = [@ EXCEPT !.pc = "send", !.backup = b]]
    /\ UNCHANGED <<config, up, toAgent, dbFailures>> /\ UNCHANGED jobVars

(* MUTANT: a backup that could not be sent is left alone.                  *)
SendBackupOrForget(j) ==
    /\ job[j].pc = "send"
    /\ job[j].kind # "restore"
    /\ IF up
       THEN /\ toAgent' = Append(toAgent, [type |-> "backup_server", backup |-> job[j].backup])
            /\ job' = [job EXCEPT ![j] = [@ EXCEPT !.pc = "mark", !.at = now]]
       ELSE Return(j) /\ UNCHANGED toAgent
    /\ UNCHANGED <<config, backup, up, dbFailures>> /\ UNCHANGED jobVars

(* sendToHost; what is written next has this moment's time.                *)
SendBackup(j) ==
    /\ job[j].pc = "send"
    /\ job[j].kind # "restore"
    /\ IF up
       THEN /\ toAgent' = Append(toAgent, [type |-> "backup_server", backup |-> job[j].backup])
            /\ job' = [job EXCEPT ![j] = [@ EXCEPT !.pc = "mark", !.at = now]]
       ELSE Step(j, "fail") /\ UNCHANGED toAgent
    /\ UNCHANGED <<config, backup, up, dbFailures>> /\ UNCHANGED jobVars

SendRestore(u) ==
    /\ job[u].pc = "send"
    /\ job[u].kind = "restore"
    /\ toAgent' = IF up THEN Append(toAgent, [type |-> "restore_server", backup |-> job[u].backup])
                  ELSE toAgent
    /\ Return(u)
    /\ UNCHANGED <<config, backup, up, dbFailures>> /\ UNCHANGED jobVars

(* MUTANT: a status of its own.                                            *)
MarkOffline(j) ==
    /\ job[j].pc = "fail"
    /\ backup' = [backup EXCEPT ![job[j].backup].status = "offline"]
    /\ Return(j)
    /\ UNCHANGED <<config, up, toAgent, dbFailures>> /\ UNCHANGED jobVars

(* The host was offline.                                                   *)
MarkFailed(j) ==
    /\ job[j].pc = "fail"
    /\ backup' = [backup EXCEPT ![job[j].backup].status = "failed"]
    /\ Return(j)
    /\ UNCHANGED <<config, up, toAgent, dbFailures>> /\ UNCHANGED jobVars

(* MUTANT: the row is only now said to be running.                         *)
MarkConfigAndRunning(j) ==
    /\ job[j].pc = "mark"
    /\ config' = [config EXCEPT ![job[j].server].lastRun = job[j].at]
    /\ backup' = [backup EXCEPT ![job[j].backup].status = "running"]
    /\ Return(j)
    /\ UNCHANGED <<up, toAgent, dbFailures>> /\ UNCHANGED jobVars

(* lastRunAt, for the scheduler.                                           *)
MarkConfig(j) ==
    /\ job[j].pc = "mark"
    /\ config' = [config EXCEPT ![job[j].server].lastRun = job[j].at]
    /\ Return(j)
    /\ UNCHANGED <<backup, up, toAgent, dbFailures>> /\ UNCHANGED jobVars

(* A statement fails: the server action throws, and of a tick nothing more *)
(* is done, neither the other servers nor the sweep.                       *)
JobFails(j) ==
    /\ job[j].pc \notin {"idle", "next", "send"}
    /\ dbFailures < MaxDbFailures
    /\ dbFailures' = dbFailures + 1
    /\ job' = [job EXCEPT ![j] = Idle]
    /\ UNCHANGED <<config, backup, up, toAgent>> /\ UNCHANGED jobVars

-----------------------------------------------------------------------------
(* handleBackupProgress.                                                   *)

Arrive(r) ==
    /\ rep[r].pc = "idle"
    /\ toPlatform # <<>>
    /\ rep' = [rep EXCEPT ![r] = [pc |-> "read", msg |-> Head(toPlatform)]]
    /\ toPlatform' = Tail(toPlatform)
    /\ UNCHANGED <<now, deleted, config, backup, job, lastTick, up, toAgent, working, drops,
                   dbFailures>>

(* The row and its server are joined: a swept backup is unknown.           *)
Read(r) ==
    /\ rep[r].pc = "read"
    /\ rep' = [rep EXCEPT ![r] =
           IF backup[rep[r].msg.backup].status = "swept" THEN NoReport ELSE [@ EXCEPT !.pc = "write"]]
    /\ UNCHANGED <<now, deleted, config, backup, job, lastTick, up, toAgent, working, toPlatform,
                   drops, dbFailures>>

Apply(row, phase) ==
    IF row.status = "swept" THEN row
    ELSE CASE phase = "completed" -> [row EXCEPT !.status = "completed", !.size = 2]
           [] phase = "failed" -> [row EXCEPT !.status = "failed"]
           [] phase = "uploading" -> [row EXCEPT !.size = 1]

(* The UPDATE, whatever the row's status is by now.                        *)
Write(r) ==
    LET b == rep[r].msg.backup IN
    /\ rep[r].pc = "write"
    /\ backup' = [backup EXCEPT ![b] = Apply(@, rep[r].msg.phase)]
    /\ rep' = [rep EXCEPT ![r] = NoReport]
    /\ UNCHANGED <<now, deleted, config, job, lastTick, up, toAgent, working, toPlatform, drops,
                   dbFailures>>

-----------------------------------------------------------------------------
(* The agent, the network, time.                                           *)

AgentStarts ==
    /\ toAgent # <<>>
    /\ toAgent' = Tail(toAgent)
    /\ working' = IF Head(toAgent).type = "backup_server" THEN working \cup {Head(toAgent).backup}
                  ELSE working
    /\ UNCHANGED <<now, deleted, config, backup, job, lastTick, up, toPlatform, rep, drops,
                   dbFailures>>

AgentReports(b) ==
    /\ b \in working
    /\ LET said(phase) == [backup |-> b, phase |-> phase] IN
       \E phase \in {"completed", "failed"} :
       \E new \in {<<said(phase)>>, <<said("uploading"), said(phase)>>} :
          toPlatform' = IF up THEN toPlatform \o new ELSE toPlatform
    /\ working' = working \ {b}
    /\ UNCHANGED <<now, deleted, config, backup, job, lastTick, up, toAgent, rep, drops, dbFailures>>

Drop ==
    /\ up
    /\ drops < MaxDrops
    /\ drops' = drops + 1
    /\ up' = FALSE
    /\ toAgent' = <<>>
    /\ toPlatform' = <<>>
    /\ UNCHANGED <<now, deleted, config, backup, job, lastTick, working, rep, dbFailures>>

Connect ==
    /\ ~up
    /\ up' = TRUE
    /\ UNCHANGED <<now, deleted, config, backup, job, lastTick, toAgent, working, toPlatform, rep,
                   drops, dbFailures>>

DeleteServer(s) ==
    /\ Owned(s)
    /\ deleted' = deleted \cup {s}
    /\ UNCHANGED <<now, config, backup, job, lastTick, up, toAgent, working, toPlatform, rep, drops,
                   dbFailures>>

(* Timers fire in time, give or take TickSlack.                            *)
TimePasses ==
    /\ now < MaxTime
    /\ now' = now + 1
    /\ \A i \in Instances :
          /\ lastTick[i] # None
          /\ now < lastTick[i] + Minute + TickSlack
          /\ ~Overlap /\ now + 1 >= lastTick[i] + Minute => \A k \in Runs : job[k].pc = "idle"
    /\ UNCHANGED <<deleted, config, backup, job, lastTick, up, toAgent, working, toPlatform, rep,
                   drops, dbFailures>>

-----------------------------------------------------------------------------
Continue(j) ==
    \/ Select(j) \/ NextDue(j) \/ Sweep(j)
    \/ LoadOwnedServer(j) \/ Upsert(j) \/ FindBackup(j) \/ LoadConfig(j)
    \/ \E b \in BackupIds : InsertBackup(j, b)
    \/ SendBackup(j) \/ SendRestore(j) \/ MarkFailed(j) \/ MarkConfig(j)

Handle(r) == Arrive(r) \/ Read(r) \/ Write(r)

Next ==
    \/ \E i \in Instances, k \in Runs : Tick(i, k)
    \/ \E u \in Users, s \in Servers : TriggerBackup(u, s)
    \/ \E u \in Users, b \in BackupIds : RestoreBackup(u, b)
    \/ \E u \in Users, s \in Servers, g \in Settings : UpdateBackupConfig(u, s, g)
    \/ \E j \in Jobs : Continue(j) \/ JobFails(j)
    \/ \E r \in Reporters : Handle(r)
    \/ AgentStarts \/ \E b \in BackupIds : AgentReports(b)
    \/ Drop \/ Connect \/ TimePasses
    \/ \E s \in Servers : DeleteServer(s)

Spec == Init /\ [][Next]_vars

(* Jobs and handlers continue, a connected agent makes the backups it is   *)
(* told to and reports.                                                    *)
Fairness ==
    /\ \A j \in Jobs : WF_vars(Continue(j))
    /\ \A r \in Reporters : WF_vars(Handle(r))
    /\ WF_vars(AgentStarts)
    /\ \A b \in BackupIds : WF_vars(AgentReports(b))

FairSpec == Spec /\ Fairness

-----------------------------------------------------------------------------
(* The throttle: when the scheduler tells an agent to back a server up,    *)
(* the run that was recorded last is at least TICK_MS ago, even though it  *)
(* was looked up several statements before.                                *)
ThrottleHolds ==
    [][\A k \in Runs : LET last == config[job[k].server].lastRun IN
          SendBackup(k) /\ up /\ last # None => now >= last + Minute]_vars

(* The scheduler passes over a schedule that matches the minute only if    *)
(* its last run was within this very minute.                               *)
SkipsOnlyThisMinute ==
    [][\A k \in Runs, s \in Servers : LET t == job[k].at IN
          Select(k) /\ Scheduled(s, t) /\ s \notin job'[k].due =>
              config[s].lastRun \div Minute = t \div Minute]_vars

(* A tick does not end before it has come to every schedule that is due.   *)
EveryDueIsTried ==
    [][\A k \in Runs : job[k].pc # "idle" /\ job'[k].pc = "idle" => job[k].due = {}]_vars

(* The agent is only told to restore a backup that was completed, however  *)
(* long ago restoreBackup looked, and whatever was swept in between.       *)
RestoresAreCompleted ==
    \A i \in 1 .. Len(toAgent) :
        toAgent[i].type = "restore_server" => backup[toAgent[i].backup].status \in {"completed", "swept"}

(* A backup that has ended does not run again, and keeps the size it       *)
(* ended with.                                                             *)
EndedIsFinal ==
    [][\A b \in BackupIds :
          backup[b] # None /\ backup[b].status \in {"completed", "failed"} =>
              \/ backup'[b] = backup[b]
              \/ backup'[b] = [backup[b] EXCEPT !.status = "swept"]]_vars

Running(b) == backup[b] # None /\ backup[b].status = "running"

(* Whose turn it is with a backup: from its INSERT to the end of its last  *)
(* report it is with the job that will send the command, the command, the  *)
(* agent, the report of how it ended, or that report's handler.            *)
OnJob(j, b) == job[j].pc \in {"send", "fail"} /\ job[j].kind # "restore" /\ job[j].backup = b
OnCommand(i, b) == toAgent[i].type = "backup_server" /\ toAgent[i].backup = b
OnReport(i, b) == toPlatform[i].phase # "uploading" /\ toPlatform[i].backup = b
OnHandler(r, b) ==
    rep[r].pc # "idle" /\ rep[r].msg.phase # "uploading" /\ rep[r].msg.backup = b

InHand(b) ==
    \/ \E j \in Jobs : OnJob(j, b)
    \/ \E i \in 1 .. Len(toAgent) : OnCommand(i, b)
    \/ b \in working
    \/ \E i \in 1 .. Len(toPlatform) : OnReport(i, b)
    \/ \E r \in Reporters : OnHandler(r, b)

(* What somebody may still end is running, so nothing is swept, or failed  *)
(* for an offline host, from under the agent; and what runs somebody will  *)
(* end, unless a connection broke or a statement failed.                   *)
RunningIsHeld ==
    \A b \in BackupIds :
        /\ InHand(b) => Running(b)
        /\ drops = 0 /\ dbFailures = 0 /\ Running(b) => InHand(b)

(* Every backup that was started ends, completed or failed.                *)
EveryBackupEnds == \A b \in BackupIds : Running(b) ~> ~Running(b)

=============================================================================
